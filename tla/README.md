# A TLA+ verification of leakspok

leakspok finds sensitive data (e-mail addresses, Brazilian tax numbers, credit
cards, IP addresses, ...) in a text and redacts or masks it. A text is cut into
tokens, every token is run against a list of rules, and the tokens that a rule
matches are replaced in the output. Around this simple core the library has a
shared cache in Valkey, coalescing of concurrent evaluations, two levels of
worker pools, cancellation and a `Stop` that may arrive at any time. The modules
here model that machinery; TLC checks it on small instances, and TLAPS proves for
every instance the safety properties of both runners, the analyzer and its factory,
the tokenizer, the Valkey cache and the pattern combinators.

## 1. Inventory

| Component | Source | State it keeps | Operations |
|---|---|---|---|
| Byte analyzer | `analyzer/byte_analyzer.go` | per call: actions, entity sets, WaitGroup; shared: runner, token pool | `Anonymize` (sequential or pooled), `Stop` |
| String analyzer | `analyzer/string_analyzer.go` | none beside its byte analyzer | `Anonymize`, `Stop` |
| Tokenizer | `analyzer/tokenization.go` | position and escape flag | `TokenIterator` |
| Rules | `analyzer/rules.go` | none | data types |
| Serial runner | `analyzer/serial_runner.go` | none of its own; shares store and flights | `Process` |
| Concurrent runner | `analyzer/concurrent_runner.go` | per flight: match context, result channel, collected results | `Process`, `Stop` |
| Coalescer | `analyzer/singleflight_coalescer.go` | `singleflight.Group`: the flight of each token | `doToken` |
| Worker pool | `analyzer/pool.go` | workers taken, closed or not | `Submit`, `ReleaseContext` |
| Cache store | `analyzer/cache/*.go` | a hash per token with an expiry, copies in client memory | `GetMatches`, `SaveMatches` |
| Factory | `analyzer/factory.go`, `analyzer/cache/factory.go` | while it builds: the client and the pools made so far | `MakeByteAnalyzer`, `MakeStringAnalyzer` |
| Patterns | `pattern/meta.go`, `pattern/regex.go`, `pattern/matcher.go` | none | combinators and matchers |
| Monitoring, examples, mocks | `monitoring/`, `examples/`, `*/mocks/` | none that changes a result | |

How they interact. `Anonymize` iterates over the tokens and calls
`RuleRunner.Process` for each, on its own goroutine or from workers of the token
pool. `Process` reads the token's cached results once, works out which entities
are missing, and evaluates them in a *flight*: with coalescing the first caller of
a token leads and the others wait for its results. The serial runner's flight
evaluates in rule order; the concurrent runner's flight submits a task per entity
to a pool that all flights share and stops at the first match. Negative results
are saved, positive ones never are. All calls share the store, the flights and
the pools.

What is hard, and where it is covered (`hazards` in `PROJECT.json` has every one
with its line):

- a snapshot of the cache used after other calls have changed or expired it;
- callers with different rule lists sharing one flight, whose map may lack what
  a waiter needs and which all of them hold at once;
- a key that is forgotten before the result of its flight is delivered;
- contexts that end while a leader or a waiter waits, and flights that go on;
- pools smaller than the work, closed between two submissions, or nested;
- panics that swallow a result the collector waits for;
- actions that arrive in any order, and a submission that fails half-way;
- constructions that fail after a connection or a pool has been made;
- HSET and EXPIRE as two commands of which one may be lost; rounding of TTLs;
- early exits, clamps and check-digit arithmetic at their edges;
- matchers that each drop their own signs, compete for one text and keep copies
  of each other's lists.

What makes each component correct: a runner returns the first rule that applies
to the token (the concurrent one: some rule that applies), whatever was cached or
shared; the store holds true negatives only; the analyzer writes every byte
outside matched tokens unchanged and in place, and replaces every matched token;
the tokenizer yields every run of the input but for the control letter an escape accounts for; a cached key has an expiry inside
the jitter band that is never moved back; combinators agree with counting; a
text is claimed by matchers that may claim it together and by no others; a
construction that fails leaves nothing open; and everything that waits gets an
answer.

## 2. Modules

| Module | Models | Notes |
|---|---|---|
| `RuleMatching` | `classifyRules`, `matchMissing`, `saveNegatives`, the final pass | pure operators; a rule is its entity, the tokens it matches and those it excepts |
| `RuleRunner` | the part of `Process` and `evaluateMissing` that both runners have, the coalescer, the store | one action per step other goroutines can see |
| `SerialRunner` | `SerialRulesRunner` | extends `RuleRunner` by the flight's function |
| `ConcurrentRunner` | `ConcurrentRulesRunner`, the worker pool | extends `RuleRunner` by submission, workers, collection, `Stop` |
| `RuleService` | the contract of `RuleRunner.Process` | abstract; implemented by both runners |
| `ByteAnalyzer` | `ByteAnalyzer`, with both pools the factory may build | the runner answers what `RuleService` allows, or its matcher panics |
| `AnalyzerFactory` | `MakeByteAnalyzer`, `MakeStringAnalyzer`, `buildCacheStore`, `NewRuleMatchingCache`, `StringAnalyzer` | extends `ByteAnalyzer`: the construction comes first, then the analyzer's steps |
| `Tokenizer` | `TokenIterator` | one rune a step, four classes of runes |
| `ValkeyCache` | `RuleMatchingCache` on one key | HSET and EXPIRE NX are separate steps |
| `TTLJitter` | `jitteredTTL`, `expireSeconds` | milliseconds and per cent, so that the arithmetic is exact |
| `PatternCombinators` | `All`, `And`, `Any`, `Or`, `AtLeastN` | one iteration a step |
| `CheckDigits` | `MatchCPF`, `MatchCNPJ`, `MatchCNPJV2` | a rune is its code point minus 48 |
| `TextMatchers` | the other matchers of `pattern/regex.go` and the composed ones of `pattern/matcher.go` | extends `CheckDigits`; a regular expression is a sequence of items, each a set of runes with a least and a greatest count |
| `Induction` | | lemmas on intervals of numbers with which the proofs reason about recursive functions |
| `RuleRunnerProofs` | | lemmas both runners need: the pure operators, the shared steps |
| `SerialRunnerProofs`, `ConcurrentRunnerProofs`, `ByteAnalyzerProofs`, `TokenizerProofs`, `ValkeyCacheProofs`, `PatternProofs` | | the theorems; `ByteAnalyzerProofs` has those of `AnalyzerFactory` too |
| `MCSerialRunner`, `MCConcurrentRunner`, `MCByteAnalyzer`, `MCValkeyCache` | | values of the constants for TLC |
| `MCPatterns` | | the combinators, and the matchers on edited texts, as one machine for TLC; a behaviour runs one of them |

State and actions. In the runner modules a member of `Calls` is one call of
`Process` on its own goroutine: `pc`, `rules`, `token`, `cached` and `joined` are
its locals. A flight has the name of the call that started it; `stage`,
`results` and, for the concurrent runner, `submitted`, `task`, `resultCh`,
`collected`, `winner` are the locals of its function. `group` is the map inside
`singleflight.Group`, `cache` the server's hashes, `local` the client's copies.
`Process` is the code up to `evaluateMissing`; `Join` and `Lead` are the two
outcomes of `DoChan`; `WaitCancelled` and `Receive` the two branches of the select
in `doShared`; `EvaluateResidual` the rest of `evaluateMissing`. `FlightMatch`,
`FlightSave`, `Forget` and `Deliver` are the flight. In `ConcurrentRunner` a flight
goes through `Submit`/`SubmitFails`, `Collect`/`CollectCancelled` and `FlightSave`
while workers do `BeginTask`, `FinishTask` or `PanicTask`. `Collect` of a match
includes the cancel and `drainCompleted`: an item sent during the drain is
either drained or not, which is the same as being sent before or after it.

In `ByteAnalyzer` a document is the list of its tokens with the rule each one
matches; the output is a sequence of input positions, placeholders and masking
characters, so that "byte for byte" can be stated. The variable `pools` is what
the analyzer was built with: a token pool, a runner pool, both or neither. A token
may be one on which a matcher panics: in a token worker (`PanicSerially`) the pool
recovers it and the deferred `wg.Done` runs; on the caller's own goroutine it leaves
`Anonymize`; in a worker of the runner's pool (`PanicInRunner`) the item is never
sent and the token is `orphaned` until its call's context ends.

`AnalyzerFactory` puts the construction in front. `options` is what is asked for,
and which of the two functions is called; `step` is the place in it, `made` the
client and the pools opened so far, `leaked` what failed attempts left open.
`BuildCacheStore`, `PingOnConnect`, `MakeRunnerPool`, `MakeTokenPool` and `Assemble`
are the code's steps, each with its error return, and `Retry` is a caller that tries
again. `MakeStringAnalyzer` is the same construction without the token pool, and a
string analyzer is then a byte analyzer between two copies of its text.

In `CheckDigits` and `TextMatchers` a text is a sequence of runes, each written as
its code point minus 48, so that the digits are 0 to 9. What the code compares byte
by byte is compared rune by rune, which is the same for valid UTF-8 as far as these
matchers look; only `byteLen` counts bytes. Of the table of file extensions only
those are listed that a text of the runs can end in.

`ValkeyCache` has one key because keys do not influence each other; its variable
`options` is what the cache was built with, and `expireLost` remembers that an EXPIRE
was lost with its connection, or refused, after its HSET.

External behaviour (`external` in the map): the singleflight group, key expiry,
HSET and client-side invalidation of Valkey, contexts, Unicode case mapping,
package `regexp`, `net.ParseIP`, `bytes.TrimSpace`, a caller that retries.

Operators named as a *mutant* are plausible mistakes in the definition that
follows them. They are not part of the model; they are put in its place to see
that a property notices.

## 3. Runs

Bounds are named in the `.cfg` files. Passing runs:

| Run | Shows | Instance |
|---|---|---|
| `SerialRunner` | `CacheSound`, `AnswersFirstMatch`, `OneFlightPerToken`, `OneSavePerCall`, `SharedMapFrozen`, `JoinInFlightOnly`, and that the runner implements `RuleService` in order | 3 calls, 1 token, 3 entities; store failures, expiry, stale copies, cancellation |
| `SerialLiveness` | `EveryCallReturns`, and `CancelledCallReturns` when a flight hangs | 2 calls, the flights of one may hang |
| `ConcurrentRunner` | `CacheSound`, `WaiterAnswersFirstMatch`, `ChannelNeverBlocks`, `CollectorIsFed`, `SharedMapFrozen`, and that the runner implements `RuleService` in any order | 2 calls, 2 workers, 3 entities, `Stop`, panics |
| `ConcurrentLiveness` | `EveryCallReturns`, `CancelledCallReturns` | 2 calls, 1 worker, 2 entities, `Stop`, panics |
| `ByteAnalyzer` | `RetriesLeakNothing`, `StopReleasesPools`; `OutputExact`, `NoLateAction`, `EveryAnonymizeReturns` | 6 option sets with failing connections, pings and sizes; 2 calls, 4 documents, `Stop`, cancellation, a panicking matcher |
| `Tokenizer` | `YieldsEveryRun`, `Terminates` | all inputs of up to 6 runes |
| `ValkeyCache` | `HoldsOnlySaved`, `KeyHasExpiry`, `ExpiryInBand`, `ExpiryNeverExtended`, `EntriesExpire` | 2 savers, 2 entities, 6 option sets, refused and lost commands |
| `Patterns` | `VerdictIsCount`; `EntitiesDisjoint`, `VersionsAgree`, `SeparatorsInvisible`, `NumericSliceFits`, `OneCompletion` | up to 5 patterns, thresholds -1..6; 17 texts, 3 of them edited twice and 14 once, with 13 runes |

Why these bounds are enough to be interesting. A third call of one token is what
it takes to have a leader, a waiter and a new flight started between `Forget` and
`Deliver`; the rule lists are chosen so that of two callers each may miss an
entity the other does not. Tokens do not interact except through separate keys,
so one is enough. For the concurrent runner a
negative, a match and a later match compete in one flight, and the pool is
smaller than the tasks of both flights. Six runes reach every combination of
token, escape, delimiter and control letter before and after a token. Three
tokens, of which two match, can be finished in any order by two workers, and the
documents have every strategy and masks on both sides of their token's length; the
token that panics comes last, behind one that must not be lost. The option sets
build two token workers over a serial runner, a string analyzer over a runner with a
pool, and both levels with one worker each, switch concurrency off, and have two
sizes that are refused, one of them after the other pool was made.
The options of `ValkeyCache` are no TTL, a band of several seconds, one whose
rounded ends lie outside it, and bands without a whole second above and below one
second; the arithmetic is proved for all values as well. The check digits need two
edits to replace a rune by one of two bytes and still have fourteen bytes, or to take
both check digits, or any other two, out of a number. The
other texts are what the repository's tests accept, one or two for each matcher, and
an edit writes a digit, a letter or one of the signs some matcher drops or looks
for: the border between two matchers, or two lists, is one sign wide.

`EntitiesDisjoint` matters because rules compete for a token. In the serial runner
the first rule wins and in the concurrent one the first result, so a text two
matchers claim is anonymized by the one or the other. The table `Reported` says for
which entities that can happen at all; PHONE, whose pattern looks for seven digits
anywhere, is on it for cards and for some VINs.

The instances of the runners have coalescing on. `SerialSharedEntity` has it off,
and the proofs of section 4 cover both settings.

Fairness. Liveness runs assume weak fairness of each goroutine, flight and
worker that can move, which the Go scheduler provides; `ValkeyCache` also that
time passes and that commands on their way are run. Nothing makes callers call,
contexts end, keys expire or `Stop` happen. A serial flight led by a member of
`Hanging` has no fairness, because a matcher or the store may hang;
`EveryCallReturns` excepts the calls of such a flight, `CancelledCallReturns` does
not. A concurrent flight may lose an item to a matcher's panic, which the pool
recovers: its calls wait for good unless their contexts end. `EveryCallReturns`
excepts them, `CancelledCallReturns` does not. `EveryAnonymizeReturns` excepts, for
the same reason, a call with an orphaned token, and with a token pool also the calls
that wait for the worker such a token holds. `EntriesExpire` excepts a key whose
EXPIRE was lost or refused.

Violation runs show where a comment and the code disagree (`findings` quotes
both):

| Run | Disagreement |
|---|---|
| `SerialSharedEntity` | two rules of one entity with different matchers: only the first matcher is asked, so the second rule's tokens are missed |
| `ConcurrentLeaderOrder` | "returns the first matching rule": the leader returns the first match collected |
| `ByteAnalyzerStopped` | after `Stop` tokens are processed "sequentially": they are not processed at all |
| `CardLuhn` | "Visa and MasterCard with Luhn check": no Luhn sum is computed |

The first two have another side: `serial_runner.go:38-40` and
`runner_behavior_test.go:49-52` document that rules of one entity share an evaluation,
and `concurrent_runner.go:59-61` and `runner_behavior_test.go:239` that the concurrent
runner may return any match. The comments of `Process` promise more.

Smaller disagreements, without a run of their own. A call whose context is done
but that takes its flight's result may still report a match, where
`ConcurrentRulesRunner.Process` says it returns `(Rule{}, false)`. When the jitter
band holds no whole second `expireSeconds` takes the one below, not "the nearest".
The pipeline of `SaveMatches` is no transaction, so a key may lose its EXPIRE.
`All` of an empty set of patterns "will always return true" (`meta.go:44`) and returns
false, as the code's last line and `pattern_test.go:99-103` have it; `VerdictIsCount`
leaves this case out.
MASK replaces the first `MaxSize` bytes of a token: `rules.go:25` says "characters",
and `examples/custom-rules/main.go:117` and `:218` say that those stay visible.
`cnpjAlphaToNumeric` says that letters map "to values 10-35" and maps them to 17-42,
as the format wants. "Values <= 0 disable jitter" (`cache/options.go`, `factory.go`):
a negative percentage still goes into `expireSeconds` and shortens the expiry, which
`NegativePercentageShortens` proves. Test cards are compared with the text as it is
written, so `5105-1051-0510-5100` is a card and `5105105105105100` is not; the
exclusion of UUIDs from the cards never decides anything. `BankInfoMatcher` says
"IBANs or US Routing #s" and looks for IBANs only. `AddressMatcher` wants spaces
inside a text, which no token has. `RedisAddr` "When empty, the Redis/Valkey backend
is disabled": only `Enabled` is looked at; `RedisReadTimeout` and
`RedisMinIdleConns` are passed on and never used. `MakeStringAnalyzer` ignores
`ConcurrentTokenProcessing`.

Two things a reader of `RetriesLeakNothing` and `StopReleasesPools` should know they
do not claim. Pool sizes are checked after the connection is made, so a size that is
refused leaves the client, and the pool made before, open: `RetriesLeakNothing` excepts
such options, and no comment of the code promises better. And no `Stop` closes the
Valkey client: nobody keeps it but the store, which has no such method.

The factory's warning that two levels of concurrency may deadlock is, in the
present code, over-cautious: the levels have pools of their own, and
`ByteAnalyzer` shows that calls always return (but for a matcher that panics in a
rule worker, whose token then holds its token worker). Its mutant, one pool for both levels,
deadlocks.

## 4. Proofs

The theorems hold for every value of the constants: any number of calls, tokens,
entities, rules, workers, savers, documents and patterns, inputs of every length,
every setting of the options. What they assume of the constants:

| Module | Assumption | Why the code justifies it |
|---|---|---|
| `RuleMatching` | `RuleListsAssumption`: rule lists are finite sequences of rules | a `[]Rule` |
| `RuleRunner` | `CallsAssumption`, `OptionsAssumption`: `None` is no call, options are Booleans | |
| `ConcurrentRunner` | `PoolAssumption`: at least one worker | the factory refuses sizes <= 0 |
| `ConcurrentRunner` | `ZeroItemAssumption`: `None` is no entity | the item a cancelled task sends has the empty entity |
| `ByteAnalyzer` | `RulesAssumption`, `DocumentsAssumption`, `PoolsAssumption`, `LongestDocument`: tokens lie in the text, one after the other; pool sizes are natural; `MaxTokens` bounds the documents at hand | what `TokenIterator` yields |
| `AnalyzerFactory` | `OptionsTyped`, `PoolsCoverOptions`: `Pools` contains what the accepted options build | says only that two constants fit |
| `ValkeyCache` | `OptionsAssumption`: a natural TTL, any integer percentage | negative percentages are not refused |
| `Tokenizer`, `PatternCombinators` | the bounds are natural numbers | |
| `MCPatterns` | `TextsAssumption`: seeds and alphabet consist of code points other than the colon | IPv6 addresses are not modelled |

Theorems on answers also assume `EntityDetermined`: rules of one entity accept the
same tokens. The code needs it, since results are shared under the entity's name;
`SerialSharedEntity` is the counterexample without it.

**The runners.** `RunnerInv` in `RuleRunnerProofs` is the part of the inductive
invariant that both have. None of the checked properties is inductive alone:
`CacheSound` needs `StoreInv` (clients' copies and calls' snapshots, too, hold
nothing but true negatives, since each may be read or written back later) and
`ResultsInv` (what a flight has computed comes from matchers of its token, since it
is saved next). `GroupInv`: the group names exactly the flights that are running,
which gives exclusion and that joins are in flight, in spite of the early `Forget`.
`CallInv`: a call waits on a flight of its own token.

| Theorem of `SerialRunnerProofs` | States |
|---|---|
| `TypeCorrect`, `StoreIsSound`, `FlightsAreExclusive`, `LeaderSavesOnce` | the invariants `TypeOK`, `CacheSound`, `OneFlightPerToken`, `OneSavePerCall` |
| `SharedMapIsFrozen`, `JoinsAreInFlight` | the action properties `SharedMapFrozen`, `JoinInFlightOnly` |
| `AnswersAreFirstMatches`, `Refinement` | `AnswersFirstMatch`, and that the runner implements `RuleService`, assuming `EntityDetermined` |

| Theorem of `ConcurrentRunnerProofs` | States |
|---|---|
| `TypeCorrect`, `StoreIsSound`, `WorkersNeverBlock`, `CollectorsAreFed` | the invariants `TypeOK`, `CacheSound`, `ChannelNeverBlocks`, `CollectorIsFed` |
| `SharedMapIsFrozen` | the action property `SharedMapFrozen` |
| `WaitersAnswerFirstMatch`, `Refinement` | `WaiterAnswersFirstMatch`, and that the runner implements `RuleService`, assuming `EntityDetermined` |

The serial invariant adds `CoverInv`: a flight's results cover all that its leader
misses, so the leader has no residual. The concurrent one adds `PoolInv`: an entity
has a task exactly when submitted, an item in the channel is a submitted entity or
cancellation's zero item, the winner is a match, only a closed pool aborts a
submission, and the numbers balance. While a flight is in its loop, what was
submitted equals what was collected, what lies in the channel and what workers
still owe or have lost to a panic. The channel's capacity is the number of missing
entities, so this balance is why no worker blocks and why a collector that waits
will be fed. The answers of both runners rest on two lemmas about the final pass
(`FinalPassExact`, `FinalPassSound`): a snapshot of negatives and an evaluation that
is sound and covers the missing entities give the first rule that applies; one that
is sound but stopped at a match gives some rule that applies. Every action is shown
either to answer one call in this way or to change no answer, which is also the step
simulation of both refinements.

**The analyzer and its factory** (`ByteAnalyzerProofs`, all of `FactorySpec`):

| Theorem | States |
|---|---|
| `TypeCorrect` | `TypeOK`; in particular no WaitGroup counter goes below zero |
| `OutputIsExact` | `OutputExact`: for every document, any number of calls and workers and every order in which they finish, what a call wrote is the input with the anonymized tokens replaced, byte for byte, and what it reported is what it did |
| `ReportsAreExact` | the part of it that is not about bytes: the call applied only rules that match, reports exactly the entities it applied, and missed a match only when cancelled or stopped |
| `NothingIsAppendedLate` | `NoLateAction` |
| `NothingLeaks`, `StopReachesEveryPool` | `RetriesLeakNothing`, `StopReleasesPools` |

`AnalyzerInv` says that a call's WaitGroup counts its open tokens, that the tokens
before the loop's `next` and no others were taken up, that a call past `Wait` has none open, and
that every finished match is recorded unless it is excused. `FactoryInv` says what
is open at each step of the construction, that the sizes were accepted once a pool
exists, that the analyzer gets the pools that were made, and that no call runs
before the handover; it is what separates the two halves of `FactorySpec`.
`OutputInv` says that a call which has returned wrote what `RenderedText` makes of its
actions, and what that rests on while it runs: no token is an action twice, and on the
serial path they are in the order of the text. On the concurrent path they come in any
order and `SortByStart` puts them into it before they are written.
And for such a list the loop of `applyActions` has written, after each action, what
`RenderedText`, which goes byte by byte and knows nothing of the loop, has up to the end
of that action's token; what follows the last token is copied.

**The tokenizer** (`TokenizerProofs`): `EveryRunIsYielded` is `YieldsEveryRun`. The
property speaks of the finished iteration; the invariant speaks of every position:
the escape flag is what the runes before `start` make it, between two phases `start`
is at the border of a run, and the spans yielded are those of the expected ones that
end before it, in order.
A lemma that runs with a common end are equal (`RunsUnique`) replaces induction over
the text.

**The Valkey cache** (`ValkeyCacheProofs`): `ReadsWereSaved`, `KeysAreGivenAnExpiry`,
`ExpiriesStayInBand` and `ExpiriesNeverMoveBack` are `HoldsOnlySaved`, `KeyHasExpiry`,
`ExpiryInBand` and `ExpiryNeverExtended`. The invariant is their conjunction with
`PipelineOK`: a pipeline on its way carries an expiry the code drew, and an EXPIRE only when there
is a TTL.
Below it are two theorems on `jitteredTTL` and `expireSeconds` alone:
`ExpiryInsideBand` (every TTL, percentage and draw) and `NegativePercentageShortens`
(what a percentage below zero does, although comments say it disables jitter).

**Patterns** (`PatternProofs`): `EarlyReturnsAreSound` is `VerdictIsCount` for lists
of every length and every threshold; the invariant is that the counters are the
numbers of matches and misses so far and that what has been seen decides nothing yet.
It also says that `All` of no patterns does not match, as the code has it; the comment
there says the opposite, and `VerdictIsCount` leaves this case out. `CheckDigitsAgree`: CPF
and CNPJ arithmetic give the same digit for every sum. The other five are about every
text, of whatever length and whatever its runes:

| Theorem | States | Along which facts |
|---|---|---|
| `SliceAlwaysFits` | `NumericSliceFits` | fourteen bytes are at most fourteen runes, so a run of fourteen ASCII letters and digits is the whole text (`CandidateFacts`) |
| `CheckDigitsComplete` | `OneCompletion` | the arithmetic makes a digit of every sum (`CheckDigitsAgree`), and a weighted sum depends on the digits that have a weight and on nothing else (`SameSum`) |
| `SeparatorsAreInvisible` | `SeparatorsInvisible` | dropping some signs and then more is dropping them all (`KeepTwice`) |
| `AllVersionsAgree` | `VersionsAgree` | a shape whose items take more matches more (`WiderShape`); an address that parses is one the regular expression finds (`ParsedIsFound`); what is left of a European phone is a plus and eleven digits (`TailKept`) |
| `EntitiesAreDisjoint` | `EntitiesDisjoint` | what a match says of its text: an '@', a dot and no four digits in a row (`NoFourDigits`), sixteen digits, seventeen letters and digits, runs of eight and twelve hexadecimal digits (`IPText`, `CardText`, `VINText`, `GUIDRuns`, `IBANRuns`, ...) |

They assume of the seeds and the alphabet only that they consist of code points other
than the colon, where the model of `net.ParseIP` ends (`TextsAssumption`). The list of
file extensions is never expanded, so they hold for the code's full list.
The invariant is small, `text` is a sequence of integers; the work is in what the
matchers compute, which three recursive functions carry: `Kept` (the loops that drop
runes), `Ends` (the regular expressions) and `Sums`. For `Ends` there is a second
description, a cut of the text into one piece per item (`CutTo`), and `EndsAreCuts` and
`CutsAreEnds` show that the two agree: a match is then a function that can be picked,
and its pieces are looked at one by one.

**Recursive functions.** A recursive function `f[k \in 0..n]` is a CHOOSE, so before
anything else a proof owes that a function with that equation exists. `Induction` has
this in the form the provers can use, with sets in the place of predicates: a set of
numbers that has 0 and with k also k+1 has them all (`UpTo`), and a step function that
maps a set to itself can be iterated (`IterationExists`). `KeptDef`, `EndsDef`,
`BytesDef`, `SumsDef` and their like for `Written` and `RenderedText` apply it, and from
there on each function is known by its equation.

Only model-checked is liveness, because fairness and ENABLED are outside the prover's
reach: `EveryCallReturns`, `CancelledCallReturns`, `EveryAnonymizeReturns`, `Terminates`,
`EntriesExpire`. Every invariant and every action property of a passing run is a theorem.

## 5. Not modelled

- The tracer, monitoring, and the connection options handed to valkey-go: they
  change no result and take no decision.
- Street addresses, PO boxes, zip codes, URLs, phones with extensions, `MatchEmail`
  and IPv6 addresses: one regular expression each (and `net.ParseIP` with colons),
  with no logic of their own in the repository. `LinkMatcher`, `AddressMatcher` and
  `HaltLangDetect` are made of these.
- A matcher that looks at its context: `collectEvaluations` would record its
  giving up as a negative. No matcher of the repository does.
- Failing writers and strategies without their settings in `applyActions`.
- A matcher's panic in a coalesced serial flight, which ends the process.
- Invalid UTF-8, floating-point rounding in the TTLs.
- Examples, generated mocks and test helpers.

## 6. Plan

1. Extend, should the code grow into it: matchers that honour their context, and
   runs of the concurrent runner without coalescing (the proofs cover it already).
2. IPv6 addresses in the model of `net.ParseIP`, which would lift the assumption that
   texts have no colon.
