-------------------------- MODULE ValkeyCacheProofs -------------------------
(***************************************************************************)
(* Proofs about ValkeyCache, for every set of entities, savers and options *)
(* (any time-to-live, any jitter percentage): what is read was saved, and  *)
(* when the key expires.                                                   *)
(***************************************************************************)
EXTENDS ValkeyCache, TLAPS

-----------------------------------------------------------------------------
(* The arithmetic of the expiry.                                           *)

\* Clamping into a band between two whole numbers ends inside it, when the
\* band is not empty and reaches up to one second.
LEMMA ClampInBand ==
    ASSUME NEW rounded \in Int, NEW lower \in Int, NEW upper \in Int,
           lower <= upper, 1 <= upper
    PROVE  LET raised  == IF rounded < lower THEN lower ELSE rounded
               lowered == IF raised > upper THEN upper ELSE raised
               whole   == IF lowered < 1 THEN 1 ELSE lowered
           IN  whole \in Nat /\ lower <= whole /\ whole <= upper /\ 1 <= whole
OBVIOUS

\* expireSeconds, for every base TTL, every percentage and every draw: the
\* number of seconds is at least one, and it lies in the jitter band whenever
\* some whole number of seconds does.
THEOREM ExpiryInsideBand ==
    ASSUME NEW base \in Nat, NEW pct \in Int, NEW jittered \in jitteredTTL(base, pct)
    PROVE  /\ expireSeconds(base, pct, jittered) >= 1
           /\ \A n \in Nat \ {0} :
                 (base * (100 - pct) <= n * 100000 /\ n * 100000 <= base * (100 + pct))
                 => /\ base * (100 - pct) <= expireSeconds(base, pct, jittered) * 100000
                    /\ expireSeconds(base, pct, jittered) * 100000 <= base * (100 + pct)
<1> DEFINE a == base * (100 - pct)
           b == base * (100 + pct)
           s == expireSeconds(base, pct, jittered)
<1>1. MaxDelta(base, pct) \in Int
  BY DEF MaxDelta
<1>2. jittered \in Int
  BY <1>1 DEF jitteredTTL
<1>3. Round(jittered) \in Int
  BY <1>2 DEF Round
<1>4. a \in Int /\ b \in Int
  OBVIOUS
<1> HIDE DEF a, b
<1>5. /\ Ceil(a) \in Int /\ a <= 100000 * Ceil(a) /\ 100000 * Ceil(a) < a + 100000
      /\ Floor(b) \in Int /\ 100000 * Floor(b) <= b /\ b < 100000 * Floor(b) + 100000
  BY <1>4 DEF Ceil, Floor
<1>6. s >= 1
  BY <1>3, <1>5 DEF expireSeconds, a, b
<1>7. ASSUME NEW n \in Nat \ {0}, a <= n * 100000, n * 100000 <= b
      PROVE  a <= s * 100000 /\ s * 100000 <= b
  <2>1. Ceil(a) <= n /\ n <= Floor(b)
    BY <1>4, <1>5, <1>7
  <2>2. Ceil(a) <= Floor(b) /\ 1 <= Floor(b)
    BY <2>1, <1>5
  <2>3. s \in Int /\ Ceil(a) <= s /\ s <= Floor(b)
    BY <1>3, <1>5, <2>2, ClampInBand DEF expireSeconds, a, b
  <2> HIDE DEF s
  <2>4. QED
    BY <2>3, <1>4, <1>5
<1>8. QED
  BY <1>6, <1>7 DEF a, b

\* A percentage below zero: the options say it disables jitter, and jitteredTTL
\* leaves the base TTL alone, but expireSeconds still takes it for a band, whose
\* ends have changed places.  Its clamps give every key the seconds of the lower
\* end, base * (1 - |P|) rounded down, and one second when there are none.
THEOREM NegativePercentageShortens ==
    ASSUME NEW base \in Nat, NEW pct \in Int, pct < 0, NEW jittered \in jitteredTTL(base, pct)
    PROVE  /\ jittered = base
           /\ expireSeconds(base, pct, jittered) =
                 IF Floor(base * (100 + pct)) < 1 THEN 1 ELSE Floor(base * (100 + pct))
<1> DEFINE a == base * (100 - pct)
           b == base * (100 + pct)
<1>1. jittered = base
  BY DEF jitteredTTL, MaxDelta
<1>2. Round(jittered) \in Int
  BY <1>1 DEF Round
<1>3. a \in Int /\ b \in Int /\ b <= a
  <2>1. base * pct <= 0
    OBVIOUS
  <2>2. a = 100 * base - base * pct /\ b = 100 * base + base * pct
    OBVIOUS
  <2>3. QED
    BY <2>1, <2>2
<1> HIDE DEF a, b
<1>4. /\ Ceil(a) \in Int /\ a <= 100000 * Ceil(a)
      /\ Floor(b) \in Int /\ 100000 * Floor(b) <= b
  BY <1>3 DEF Ceil, Floor
<1>5. Floor(b) <= Ceil(a)
  BY <1>3, <1>4
<1>6. expireSeconds(base, pct, jittered) = IF Floor(b) < 1 THEN 1 ELSE Floor(b)
  BY <1>2, <1>4, <1>5 DEF expireSeconds, a, b
<1>7. QED
  BY <1>1, <1>6 DEF b

-----------------------------------------------------------------------------
(* The inductive invariant.                                                *)

\* A pipeline on its way carries an expiry that expireSeconds drew, and has an
\* EXPIRE in it only when there is a time-to-live.
PipelineOK ==
    \A s \in Savers :
        /\ pc[s] \in {"hset", "expire"} => seconds[s] \in ServerTTLs[options]
        /\ pc[s] = "expire" => options.CacheTTL > 0

IndInv == TypeOK /\ PipelineOK /\ HoldsOnlySaved /\ KeyHasExpiry /\ ExpiryInBand

\* What an option record holds.
LEMMA OptionFacts ==
    ASSUME NEW o \in Options
    PROVE  o.CacheTTL \in Nat /\ o.jitterPct \in Int /\ o.disableCSC \in BOOLEAN
BY OptionsAssumption

\* Every draw is a whole number of milliseconds, and its rounding a whole
\* number of seconds.
LEMMA DrawFacts ==
    ASSUME NEW o \in Options, NEW j \in jitteredTTL(o.CacheTTL, o.jitterPct)
    PROVE  j \in Int /\ Round(j) \in Int
           /\ expireSeconds(o.CacheTTL, o.jitterPct, j) \in Nat \ {0}
<1> DEFINE t == o.CacheTTL
           p == o.jitterPct
<1>1. t \in Nat /\ p \in Int
  BY OptionFacts
<1> HIDE DEF t, p
<1>2. MaxDelta(t, p) \in Int
  BY <1>1 DEF MaxDelta
<1>3. j \in Int
  BY <1>1, <1>2 DEF jitteredTTL, t, p
<1>4. Round(j) \in Int
  BY <1>3 DEF Round
<1>5. t * (100 - p) \in Int /\ t * (100 + p) \in Int
  BY <1>1
<1>6. Ceil(t * (100 - p)) \in Int /\ Floor(t * (100 + p)) \in Int
  BY <1>5 DEF Ceil, Floor
<1>7. expireSeconds(t, p, j) \in Nat \ {0}
  BY <1>4, <1>6 DEF expireSeconds
<1>8. QED
  BY <1>3, <1>4, <1>7 DEF t, p

\* What EXPIRE may carry is positive, and lies in the jitter band when some
\* whole second does.
LEMMA ServerTTLFacts ==
    ASSUME NEW o \in Options, NEW n \in ServerTTLs[o]
    PROVE  /\ n \in Nat
           /\ o.CacheTTL > 0 => n > 0
           /\ o.CacheTTL > 0 /\ BandSeconds[o] # {} => n \in BandSeconds[o]
<1> DEFINE t == o.CacheTTL
           p == o.jitterPct
<1>1. t \in Nat /\ p \in Int
  BY OptionFacts
<1>2. CASE t = 0
  BY <1>2 DEF ServerTTLs
<1>3. CASE t # 0
  <2>1. PICK j \in jitteredTTL(t, p) : n = expireSeconds(t, p, j)
    BY <1>3 DEF ServerTTLs
  <2>2. n \in Nat \ {0}
    BY <2>1, DrawFacts
  <2>3. ASSUME BandSeconds[o] # {} PROVE n \in BandSeconds[o]
    <3> HIDE DEF t, p
    <3> DEFINE a == t * (100 - p)
               b == t * (100 + p)
    <3>1. a \in Int /\ b \in Int
      BY <1>1
    <3>2. BandSeconds[o] = {k \in 1..Floor(b) : a <= k * 100000}
      BY DEF BandSeconds, t, p
    <3>3. \A k \in Nat \ {0} :
              (a <= k * 100000 /\ k * 100000 <= b) => a <= n * 100000 /\ n * 100000 <= b
      BY <1>1, <2>1, ExpiryInsideBand
    <3> HIDE DEF a, b
    <3>4. Floor(b) \in Int /\ \A k \in Int : k <= Floor(b) <=> k * 100000 <= b
      BY <3>1 DEF Floor
    <3>5. PICK k \in 1..Floor(b) : a <= k * 100000
      BY <2>3, <3>2
    <3>6. k \in Nat \ {0} /\ k * 100000 <= b
      BY <3>4
    <3>7. a <= n * 100000 /\ n * 100000 <= b
      BY <3>3, <3>5, <3>6
    <3>8. n \in 1..Floor(b)
      BY <2>2, <3>4, <3>7
    <3>9. QED
      BY <3>2, <3>7, <3>8
  <2>4. QED
    BY <2>2, <2>3
<1>4. QED
  BY <1>2, <1>3

\* Reading back what was written: the text round trip is exact.
LEMMA DecodeEncode ==
    ASSUME NEW m \in ResultMap, NEW e \in Entities
    PROVE  decode(encode(m))[e] = m[e]
<1>1. m[e] \in Outcome
  BY DEF ResultMap
<1>2. QED
  BY <1>1 DEF decode, encode, Outcome

LEMMA InitInv ==
    ASSUME Init
    PROVE  IndInv
<1>1. TypeOK
  BY DEF Init, TypeOK, NoFields, Text, EmptyMap, ResultMap, Outcome
<1>2. PipelineOK
  BY DEF Init, PipelineOK
<1>3. HoldsOnlySaved
  BY DEF Init, HoldsOnlySaved, decode, NoFields, EmptyMap
<1>4. KeyHasExpiry
  BY DEF Init, KeyHasExpiry
<1>5. ExpiryInBand
  BY DEF Init, ExpiryInBand
<1>6. QED
  BY <1>1, <1>2, <1>3, <1>4, <1>5 DEF IndInv

LEMMA SaveMatchesInv ==
    ASSUME IndInv, NEW s \in Savers, SaveMatches(s)
    PROVE  IndInv'
<1> USE DEF IndInv
<1>1. UNCHANGED <<options, hash, ttl, batch, local, localTTL, pushed, expireLost>>
  BY DEF SaveMatches, storeVars, clientVars
<1>2. \/ pc' = [pc EXCEPT ![s] = "done"] /\ seconds' = seconds
      \/ /\ pc' = [pc EXCEPT ![s] = "hset"]
         /\ \E n \in ServerTTLs[options] : seconds' = [seconds EXCEPT ![s] = n]
  BY DEF SaveMatches, Goto
<1>3. pc[s] = "idle"
  BY DEF SaveMatches
<1>4. \A n \in ServerTTLs[options] : n \in Nat
  BY ServerTTLFacts DEF TypeOK
<1>5. TypeOK'
  BY <1>1, <1>2, <1>4 DEF TypeOK
<1>6. PipelineOK'
  BY <1>1, <1>2 DEF PipelineOK, TypeOK
<1>7. HoldsOnlySaved'
  BY <1>1 DEF HoldsOnlySaved, decode
<1>8. \A r \in Savers : pc'[r] = "expire" <=> pc[r] = "expire"
  BY <1>2, <1>3 DEF TypeOK
<1>9. KeyHasExpiry'
  BY <1>1, <1>8 DEF KeyHasExpiry
<1>10. ExpiryInBand'
  <2>1. \A r \in Savers : pc'[r] = "expire" => seconds'[r] = seconds[r]
    BY <1>2, <1>3, <1>8 DEF TypeOK
  <2>2. QED
    BY <1>1, <1>8, <2>1 DEF ExpiryInBand
<1>11. QED
  BY <1>5, <1>6, <1>7, <1>9, <1>10

\* A saver's command, run or refused or lost, leaves the other savers' pipelines
\* alone; one that is followed by EXPIRE still carries what was drawn.
LEMMA PipelineMoves ==
    ASSUME IndInv, NEW s \in Savers, NEW w \in {"expire", "done"}, pc[s] \in {"hset", "expire"},
           w = "expire" => options.CacheTTL > 0,
           Goto(s, w), UNCHANGED <<options, batch, seconds>>
    PROVE  /\ pc' \in [Savers -> {"idle", "hset", "expire", "done"}]
           /\ pc'[s] = w /\ \A r \in Savers \ {s} : pc'[r] = pc[r]
           /\ PipelineOK'
           /\ BandSeconds[options] # {} =>
                 \A r \in Savers : pc'[r] = "expire" => seconds'[r] \in BandSeconds[options]
<1> USE DEF IndInv
<1>1. /\ pc' \in [Savers -> {"idle", "hset", "expire", "done"}]
      /\ pc'[s] = w /\ \A r \in Savers \ {s} : pc'[r] = pc[r]
  BY DEF Goto, TypeOK
<1>2. PipelineOK'
  BY <1>1 DEF PipelineOK
<1>3. ASSUME BandSeconds[options] # {}, NEW r \in Savers, pc'[r] = "expire"
      PROVE  seconds'[r] \in BandSeconds[options]
  <2>1. options.CacheTTL > 0 /\ seconds[r] \in ServerTTLs[options]
    BY <1>1, <1>3 DEF PipelineOK
  <2>2. QED
    BY <1>3, <2>1, ServerTTLFacts DEF TypeOK
<1>4. QED
  BY <1>1, <1>2, <1>3

LEMMA HsetInv ==
    ASSUME IndInv, NEW s \in Savers, Hset(s)
    PROVE  IndInv'
<1> USE DEF IndInv
<1>1. /\ UNCHANGED <<options, ttl, batch, seconds, local, localTTL, expireLost>>
      /\ pc[s] = "hset" /\ Goto(s, AfterHset) /\ pushed' = (localTTL > 0)
      /\ hash' = [e \in Entities |-> IF batch[s][e] = "absent" THEN hash[e] ELSE encode(batch[s])[e]]
  BY DEF Hset
<1>2. AfterHset \in {"expire", "done"} /\ (AfterHset = "expire" <=> options.CacheTTL # 0)
  BY DEF AfterHset
<1>3. options.CacheTTL \in Nat /\ batch[s] \in ResultMap
  BY OptionFacts DEF TypeOK
<1>4. /\ pc' \in [Savers -> {"idle", "hset", "expire", "done"}]
      /\ pc'[s] = AfterHset /\ PipelineOK'
      /\ BandSeconds[options] # {} =>
            \A r \in Savers : pc'[r] = "expire" => seconds'[r] \in BandSeconds[options]
  BY <1>1, <1>2, <1>3, PipelineMoves
<1>5. TypeOK'
  <2>1. \A e \in Entities : encode(batch[s])[e] \in Text
    <3>1. \A e \in Entities : batch[s][e] \in {"absent", "no", "yes"}
      BY <1>3 DEF ResultMap, Outcome
    <3>2. QED
      BY <3>1 DEF encode, Text
  <2>2. hash' \in [Entities -> Text]
    BY <1>1, <2>1 DEF TypeOK
  <2>3. QED
    BY <1>1, <1>4, <2>2 DEF TypeOK
<1>6. HoldsOnlySaved'
  <2> SUFFICES ASSUME NEW e \in Entities, decode(hash')[e] # "absent"
               PROVE  \E r \in Savers : batch[r][e] = decode(hash')[e]
    BY <1>1 DEF HoldsOnlySaved, decode
  <2>1. CASE batch[s][e] = "absent"
    <3>1. decode(hash')[e] = decode(hash)[e]
      BY <1>1, <2>1 DEF decode
    <3>2. QED
      BY <3>1 DEF HoldsOnlySaved
  <2>2. CASE batch[s][e] # "absent"
    <3>1. decode(hash')[e] = decode(encode(batch[s]))[e]
      BY <1>1, <2>2 DEF decode
    <3>2. QED
      BY <3>1, <1>3, DecodeEncode
  <2>3. QED
    BY <2>1, <2>2
<1>7. KeyHasExpiry'
  BY <1>1, <1>2, <1>3, <1>4 DEF KeyHasExpiry
<1>8. ExpiryInBand'
  BY <1>1, <1>4 DEF ExpiryInBand
<1>9. QED
  BY <1>4, <1>5, <1>6, <1>7, <1>8

LEMMA ExpireNXInv ==
    ASSUME IndInv, NEW s \in Savers, ExpireNX(s)
    PROVE  IndInv'
<1> USE DEF IndInv
<1>1. /\ UNCHANGED <<options, hash, batch, seconds, local, localTTL, pushed, expireLost>>
      /\ pc[s] = "expire" /\ Goto(s, "done")
      /\ ttl' = IF hash # NoFields /\ ttl = NoTTL THEN seconds[s] ELSE ttl
  BY DEF ExpireNX, NewTTL, clientVars
<1>2. /\ pc' \in [Savers -> {"idle", "hset", "expire", "done"}] /\ PipelineOK'
      /\ BandSeconds[options] # {} =>
            \A r \in Savers : pc'[r] = "expire" => seconds'[r] \in BandSeconds[options]
      /\ \A r \in Savers \ {s} : pc'[r] = pc[r]
  BY <1>1, PipelineMoves
<1>3. /\ options \in Options /\ seconds[s] \in ServerTTLs[options] /\ options.CacheTTL > 0
  BY <1>1 DEF TypeOK, PipelineOK
<1>4. /\ seconds[s] \in Nat /\ seconds[s] > 0 /\ seconds[s] # NoTTL
      /\ BandSeconds[options] # {} => seconds[s] \in BandSeconds[options]
  BY <1>3, ServerTTLFacts DEF NoTTL
<1>5. TypeOK'
  BY <1>1, <1>2, <1>4 DEF TypeOK
<1>6. HoldsOnlySaved'
  BY <1>1 DEF HoldsOnlySaved, decode
<1>7. KeyHasExpiry'
  BY <1>1, <1>4 DEF KeyHasExpiry
<1>8. ExpiryInBand'
  <2>1. ASSUME BandSeconds[options] # {}, ttl' # NoTTL
        PROVE  \E n \in BandSeconds[options] : ttl' <= n
    <3>1. CASE hash # NoFields /\ ttl = NoTTL
      BY <3>1, <2>1, <1>1, <1>4
    <3>2. CASE ~(hash # NoFields /\ ttl = NoTTL)
      BY <3>2, <2>1, <1>1 DEF ExpiryInBand
    <3>3. QED
      BY <3>1, <3>2
  <2>2. QED
    BY <1>1, <1>2, <2>1 DEF ExpiryInBand
<1>9. QED
  BY <1>2, <1>5, <1>6, <1>7, <1>8

LEMMA HsetRefusedInv ==
    ASSUME IndInv, NEW s \in Savers, HsetRefused(s)
    PROVE  IndInv'
<1> USE DEF IndInv
<1>1. /\ UNCHANGED <<options, hash, ttl, batch, seconds, local, localTTL, pushed, expireLost>>
      /\ pc[s] = "hset" /\ Goto(s, AfterHset)
  BY DEF HsetRefused, storeVars, clientVars
<1>2. AfterHset \in {"expire", "done"} /\ (AfterHset = "expire" => options.CacheTTL > 0)
  BY OptionFacts DEF AfterHset, TypeOK
<1>3. /\ pc' \in [Savers -> {"idle", "hset", "expire", "done"}] /\ PipelineOK'
      /\ BandSeconds[options] # {} =>
            \A r \in Savers : pc'[r] = "expire" => seconds'[r] \in BandSeconds[options]
      /\ \A r \in Savers \ {s} : pc'[r] = pc[r]
  BY <1>1, <1>2, PipelineMoves
<1>4. TypeOK'
  BY <1>1, <1>3 DEF TypeOK
<1>5. HoldsOnlySaved'
  BY <1>1 DEF HoldsOnlySaved, decode
<1>6. KeyHasExpiry'
  BY <1>1, <1>3 DEF KeyHasExpiry
<1>7. ExpiryInBand'
  BY <1>1, <1>3 DEF ExpiryInBand
<1>8. QED
  BY <1>3, <1>4, <1>5, <1>6, <1>7

LEMMA ConnectionLostInv ==
    ASSUME IndInv, NEW s \in Savers, ConnectionLost(s)
    PROVE  IndInv'
<1> USE DEF IndInv
<1>1. /\ UNCHANGED <<options, hash, ttl, batch, seconds, local, localTTL, pushed>>
      /\ pc[s] \in {"hset", "expire"} /\ Goto(s, "done")
      /\ expireLost' = (expireLost \/ pc[s] = "expire")
  BY DEF ConnectionLost, storeVars, clientVars
<1>2. /\ pc' \in [Savers -> {"idle", "hset", "expire", "done"}] /\ PipelineOK'
      /\ BandSeconds[options] # {} =>
            \A r \in Savers : pc'[r] = "expire" => seconds'[r] \in BandSeconds[options]
      /\ \A r \in Savers \ {s} : pc'[r] = pc[r]
  BY <1>1, PipelineMoves
<1>3. TypeOK'
  BY <1>1, <1>2 DEF TypeOK
<1>4. HoldsOnlySaved'
  BY <1>1 DEF HoldsOnlySaved, decode
<1>5. KeyHasExpiry'
  <2>1. CASE pc[s] = "expire"
    BY <1>1, <2>1 DEF KeyHasExpiry
  <2>2. CASE pc[s] # "expire"
    <3>1. expireLost' = expireLost
      BY <1>1, <2>2 DEF TypeOK
    <3>2. QED
      BY <1>1, <1>2, <2>2, <3>1 DEF KeyHasExpiry
  <2>3. QED
    BY <2>1, <2>2
<1>6. ExpiryInBand'
  BY <1>1, <1>2 DEF ExpiryInBand
<1>7. QED
  BY <1>2, <1>3, <1>4, <1>5, <1>6

\* The copy is filled from the hash, or thrown away; the key is left alone.
LEMMA CopyInv ==
    ASSUME IndInv, FillCopy \/ Invalidate
    PROVE  IndInv'
<1> USE DEF IndInv
<1>1. UNCHANGED <<options, hash, ttl, pc, batch, seconds, expireLost>>
  BY DEF FillCopy, Invalidate, storeVars
<1>2. /\ local' \in {decode(hash), EmptyMap} /\ pushed' = FALSE
      /\ localTTL' \in LocalTTLs[options] \cup {0}
  BY DEF FillCopy, Invalidate
<1>3. TypeOK'
  <2>1. decode(hash) \in ResultMap /\ EmptyMap \in ResultMap
    BY DEF decode, EmptyMap, ResultMap, Outcome
  <2>2. localTTL' \in Nat
    BY <1>2 DEF LocalTTLs, TypeOK
  <2>3. local' \in ResultMap
    BY <1>2, <2>1
  <2>4. QED
    BY <1>1, <1>2, <2>2, <2>3 DEF TypeOK
<1>4. PipelineOK'
  BY <1>1 DEF PipelineOK
<1>5. HoldsOnlySaved'
  BY <1>1, <1>2 DEF HoldsOnlySaved, decode, EmptyMap
<1>6. KeyHasExpiry' /\ ExpiryInBand'
  BY <1>1 DEF KeyHasExpiry, ExpiryInBand
<1>7. QED
  BY <1>3, <1>4, <1>5, <1>6

LEMMA TickInv ==
    ASSUME IndInv, Tick
    PROVE  IndInv'
<1> USE DEF IndInv
<1>1. /\ UNCHANGED <<options, pc, batch, seconds, expireLost>>
      /\ ttl' = IF ttl > 1 THEN ttl - 1 ELSE NoTTL
      /\ hash' = IF ttl = 1 THEN NoFields ELSE hash
      /\ localTTL' = IF localTTL > 1 THEN localTTL - 1 ELSE 0
      /\ local' = IF localTTL <= 1 THEN EmptyMap ELSE local
      /\ pushed' = (localTTL > 1 /\ (pushed \/ ttl = 1))
  BY DEF Tick
<1>2. TypeOK'
  <2>1. ttl' \in {NoTTL} \cup (Nat \ {0}) /\ localTTL' \in Nat
    BY <1>1 DEF TypeOK, NoTTL
  <2>2. hash' \in [Entities -> Text]
    BY <1>1 DEF TypeOK, NoFields, Text
  <2>3. local' \in ResultMap
    BY <1>1 DEF TypeOK, EmptyMap, ResultMap, Outcome
  <2>4. pushed' \in BOOLEAN
    BY <1>1
  <2>5. QED
    BY <1>1, <2>1, <2>2, <2>3, <2>4 DEF TypeOK
<1>3. PipelineOK'
  BY <1>1 DEF PipelineOK
<1>4. HoldsOnlySaved'
  BY <1>1 DEF HoldsOnlySaved, decode, EmptyMap, NoFields
<1>5. KeyHasExpiry'
  BY <1>1 DEF KeyHasExpiry, TypeOK, NoTTL
<1>6. ExpiryInBand'
  <2>1. ASSUME BandSeconds[options] # {}, ttl' # NoTTL
        PROVE  \E n \in BandSeconds[options] : ttl' <= n
    <3>1. ttl \in Nat /\ ttl' = ttl - 1 /\ ttl # NoTTL
      BY <1>1, <2>1 DEF TypeOK, NoTTL
    <3>2. PICK n \in BandSeconds[options] : ttl <= n
      BY <2>1, <3>1 DEF ExpiryInBand
    <3>3. n \in Int
      BY <3>2 DEF BandSeconds, TypeOK
    <3>4. QED
      BY <3>1, <3>2, <3>3
  <2>2. QED
    BY <1>1, <2>1 DEF ExpiryInBand
<1>7. QED
  BY <1>2, <1>3, <1>4, <1>5, <1>6

LEMMA UnchangedInv ==
    ASSUME IndInv, UNCHANGED vars
    PROVE  IndInv'
<1>1. UNCHANGED <<options, hash, ttl, pc, batch, seconds, local, localTTL, pushed, expireLost>>
  BY DEF vars, storeVars, clientVars
<1>2. QED
  BY <1>1 DEF IndInv, TypeOK, PipelineOK, HoldsOnlySaved, decode, KeyHasExpiry, ExpiryInBand

-----------------------------------------------------------------------------
(* The theorems.                                                           *)

\* The strengthened invariant holds whatever savers, lost commands, refused
\* commands and the passing of time do to the key.
THEOREM Invariance == Spec => []IndInv
<1>1. Init => IndInv
  BY InitInv
<1>2. IndInv /\ [Next]_vars => IndInv'
  <2> SUFFICES ASSUME IndInv, [Next]_vars PROVE IndInv'
    OBVIOUS
  <2>1. CASE Quiescent
    BY <2>1, UnchangedInv DEF Quiescent
  <2>2. QED
    BY <2>1, SaveMatchesInv, HsetInv, ExpireNXInv, HsetRefusedInv, ConnectionLostInv, CopyInv,
       TickInv, UnchangedInv DEF Next, SaveStep
<1>3. QED
  BY <1>1, <1>2, PTL DEF Spec

\* TypeOK for every time-to-live and percentage: no key is ever given zero or
\* negative seconds to live, which would delete it ("EXPIRE 0 deletes the key
\* immediately; that must never happen").
THEOREM TypeCorrect == Spec => []TypeOK
<1>1. IndInv => TypeOK
  BY DEF IndInv
<1>2. QED
  BY <1>1, Invariance, PTL

\* HoldsOnlySaved: a result that GetMatches may return, from the server or from
\* the client's copy, was saved with that value for that entity.
THEOREM ReadsWereSaved == Spec => []HoldsOnlySaved
<1>1. IndInv => HoldsOnlySaved
  BY DEF IndInv
<1>2. QED
  BY <1>1, Invariance, PTL

\* KeyHasExpiry: with a time-to-live, a key without expiry has a saver about to
\* send one, unless an EXPIRE was lost with its connection or refused.
THEOREM KeysAreGivenAnExpiry == Spec => []KeyHasExpiry
<1>1. IndInv => KeyHasExpiry
  BY DEF IndInv
<1>2. QED
  BY <1>1, Invariance, PTL

\* ExpiryInBand: every expiry sent lies in the jitter band that holds a whole
\* second, and no key ever has more left.
THEOREM ExpiriesStayInBand == Spec => []ExpiryInBand
<1>1. IndInv => ExpiryInBand
  BY DEF IndInv
<1>2. QED
  BY <1>1, Invariance, PTL

\* ExpiryNeverExtended: no step moves the end of a living key further away.
THEOREM ExpiriesNeverMoveBack == Spec => ExpiryNeverExtended
<1>1. IndInv /\ [Next]_vars =>
          [ttl # NoTTL /\ hash' # NoFields => ttl' # NoTTL /\ ttl' <= ttl]_vars
  <2> SUFFICES ASSUME IndInv, [Next]_vars, ttl # NoTTL, hash' # NoFields
               PROVE  ttl' # NoTTL /\ ttl' <= ttl
    OBVIOUS
  <2>1. ttl \in Nat \ {0}
    BY DEF IndInv, TypeOK
  <2>2. CASE ttl' = ttl
    BY <2>1, <2>2
  <2>3. CASE Tick
    BY <2>1, <2>3 DEF Tick, NoTTL
  <2>4. ASSUME NEW s \in Savers, SaveMatches(s) \/ SaveStep(s) PROVE ttl' = ttl
    BY <2>4 DEF SaveMatches, SaveStep, Hset, ExpireNX, NewTTL, HsetRefused, ConnectionLost, storeVars
  <2>5. QED
    BY <2>2, <2>3, <2>4 DEF Next, FillCopy, Invalidate, Quiescent, vars, storeVars
<1>2. QED
  BY <1>1, Invariance, PTL DEF Spec, ExpiryNeverExtended

=============================================================================
