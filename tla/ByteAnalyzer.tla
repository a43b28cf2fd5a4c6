---------------------------- MODULE ByteAnalyzer ----------------------------
(***************************************************************************)
(* ByteAnalyzer (analyzer/byte_analyzer.go) as analyzer/factory.go builds  *)
(* it: calls of Anonymize, on a goroutine each, share a rule runner and,   *)
(* with ConcurrentTokenProcessing, a bounded pool of token workers.  With  *)
(* ConcurrentRuleProcessing the runner has a bounded pool of its own,      *)
(* which a token's evaluation has to get a worker from.  Stop releases     *)
(* both while calls are running.                                           *)
(*                                                                         *)
(* A document is the tokens TokenIterator yields on it, each with what the *)
(* runner answers for it; RuleService says what a runner may answer.       *)
(***************************************************************************)
EXTENDS Integers, Sequences, FiniteSets, Functions

CONSTANTS
    Calls,            \* calls of Anonymize, each made at most once
    Documents,        \* the documents they may be given
    NoRule,           \* (Rule{}, false)
    Panics,           \* a matcher panics on the token
    Pools             \* the sizes of the two pools the factory may be asked for

\* RuleSettings of the rule a token matches, with the rule's entity.
Settings == [strategy : {"REDACT", "MASK", "unknown"}, maxSize : Int, entity : STRING]

\* Token, with half-open byte positions as in the code.
Token == [start : Nat, end : Nat, rule : Settings \cup {NoRule, Panics}]
IsDocument(d) ==
    /\ d.len \in Nat
    /\ d.anyRules \in BOOLEAN
    /\ d.tokens \in Seq(Token)
    /\ \A i \in DOMAIN d.tokens :
          /\ d.tokens[i].start < d.tokens[i].end
          /\ d.tokens[i].end <= d.len
          /\ i > 1 => d.tokens[i - 1].end < d.tokens[i].start

ASSUME RulesAssumption == NoRule # Panics /\ {NoRule, Panics} \cap Settings = {}
ASSUME DocumentsAssumption == \A d \in Documents : IsDocument(d)
\* token: workers of the token pool, 0 when there is none; runner: workers of
\* the runner's pool, 0 for the serial runner.
ASSUME PoolsAssumption == Pools \subseteq [token : Nat, runner : Nat]

VARIABLES
    pools,        \* the pools this analyzer was built with
    doc,          \* the document of a call
    pc,           \* where a call is
    next,         \* the next token of the iterator
    task,         \* what happens to a token of a call
    wg,           \* the call's WaitGroup
    actions,      \* the tokens to anonymize, in the order they were appended
    entities,     \* detectedEntities (anonymizedEntities is always the same set)
    output,       \* what has been written: positions of content, or replacements
    cancelled,    \* the calls whose context is done
    runnerClosed, \* ruleRunner.Stop has been called
    poolClosed,   \* the token pool has been released
    afterStop     \* history: the calls that began after Stop had returned

callVars == <<pools, doc, pc, next, wg, output, afterStop>>
stopVars == <<runnerClosed, poolClosed>>
vars == <<callVars, task, actions, entities, cancelled, stopVars>>

MaxTokens == CHOOSE n \in {Len(d.tokens) : d \in Documents} :
                 \A d \in Documents : Len(d.tokens) <= n

\* There is a longest document.
ASSUME LongestDocument ==
    MaxTokens \in Nat /\ \A d \in Documents : Len(d.tokens) <= MaxTokens

TaskStates == {"none", "accepted", "process", "evaluating", "orphaned", "finished"}

AnalyzerInit ==
    /\ doc \in [Calls -> Documents]
    /\ pc = [c \in Calls |-> "idle"]
    /\ next = [c \in Calls |-> 1]
    /\ task = [c \in Calls |-> [i \in 1..MaxTokens |-> "none"]]
    /\ wg = [c \in Calls |-> 0]
    /\ actions = [c \in Calls |-> <<>>]
    /\ entities = [c \in Calls |-> {}]
    /\ output = [c \in Calls |-> <<>>]
    /\ cancelled = {}
    /\ runnerClosed = FALSE
    /\ poolClosed = FALSE
    /\ afterStop = {}

\* An analyzer that has been built; the pools never change afterwards.
Init == AnalyzerInit /\ pools \in Pools

-----------------------------------------------------------------------------
(* Writing the output.                                                     *)

\* What is written is a sequence of positions of content and of these two.
Placeholder == -1
MaskingChar == -2

\* content[a:b], as the positions it holds.
Slice(a, b) == [i \in 1..(b - a) |-> a + i - 1]

\* MASK: how many bytes of the token are masked.
MaskCount(tok) ==
    LET n == IF tok.rule.maxSize <= 0 THEN 1 ELSE tok.rule.maxSize
    IN  IF n > tok.end - tok.start THEN tok.end - tok.start ELSE n

\* What applyActions writes for a matched token.  An unknown strategy writes
\* nothing.
Replacement(tok) ==
    CASE tok.rule.strategy = "REDACT"  -> << Placeholder >>
      [] tok.rule.strategy = "MASK"    ->
            [i \in 1..MaskCount(tok) |-> MaskingChar] \o Slice(tok.start + MaskCount(tok), tok.end)
      [] tok.rule.strategy = "unknown" -> << >>

\* The loop of applyActions, over the actions in the order they are given: what
\* has been written after each of them, and lastPos.
Written(d, acts) ==
    LET written[k \in 0..Len(acts)] ==
            IF k = 0 THEN [text |-> <<>>, lastPos |-> 0]
            ELSE LET tok == d.tokens[acts[k]]
                     w   == written[k - 1]
                 IN  [text    |-> w.text \o Slice(w.lastPos, tok.start) \o Replacement(tok),
                      lastPos |-> tok.end]
    IN  written

applyActions(d, acts) ==
    LET end == Written(d, acts)[Len(acts)]
    IN  end.text \o Slice(end.lastPos, d.len)

\* Mutant of SortByStart: the actions stay in the order workers finished in.
Unsorted(acts) == acts

\* slices.SortFunc by token start: tokens are numbered in that order.
SortByStart(acts) ==
    CHOOSE s \in [1..Len(acts) -> Range(acts)] :
        /\ \A i, j \in DOMAIN s : i < j => s[i] <= s[j]
        /\ Range(s) = Range(acts)

-----------------------------------------------------------------------------
(* A token's way through the runner.                                       *)

Tokens(c) == doc[c].tokens

\* The call leaves the iteration: apply the actions, or copy the input when
\* there are none.
Finish(c, acts) ==
    /\ pc' = [pc EXCEPT ![c] = "done"]
    /\ output' = [output EXCEPT ![c] =
           IF acts # <<>> THEN applyActions(doc[c], acts) ELSE Slice(0, doc[c].len)]
    /\ UNCHANGED <<pools, doc, next, wg, task, actions, entities, cancelled, stopVars, afterStop>>

\* Mutant of WgDone: a deferred Done and one on the way out.
WgDoneTwice(c) == wg' = [wg EXCEPT ![c] = IF pools.token > 0 THEN @ - 2 ELSE @]

\* wg.Done, of a worker.
WgDone(c) == wg' = [wg EXCEPT ![c] = IF pools.token > 0 THEN @ - 1 ELSE @]

Detect(c, e) == entities' = [entities EXCEPT ![c] = @ \cup {e}]

\* Process answers for token i and the answer is recorded, under the mutex when
\* it comes from a worker.  The task is over, which its WaitGroup learns.
Record(c, i, answer) ==
    /\ task' = [task EXCEPT ![c][i] = "finished"]
    /\ WgDone(c)
    /\ IF answer = NoRule
       THEN UNCHANGED <<actions, entities>>
       ELSE /\ actions' = [actions EXCEPT ![c] = Append(@, i)]
            /\ Detect(c, answer.entity)
    /\ UNCHANGED <<pools, doc, pc, next, output, cancelled, stopVars, afterStop>>

\* What the runner may answer: the rule that applies, or nothing when the
\* call's context is done or a runner with a pool has been stopped.
Answers(c, i) ==
    ({Tokens(c)[i].rule} \ {Panics})
        \cup (IF c \in cancelled \/ (runnerClosed /\ pools.runner > 0)
              THEN {NoRule} ELSE {})

\* The serial runner answers on the goroutine that asks.
ProcessSerially(c, i) ==
    /\ pools.runner = 0
    /\ task[c][i] = "process"
    /\ \E answer \in Answers(c, i) : Record(c, i, answer)

\* A matcher panics on the goroutine that asked, outside a flight (inside one
\* singleflight raises the panic again and the process ends).  A token worker's pool
\* recovers it, the deferred wg.Done is run and nothing is recorded; without a
\* token pool the panic leaves Anonymize, which has written nothing.
PanicSerially(c, i) ==
    /\ pools.runner = 0
    /\ task[c][i] = "process"
    /\ Tokens(c)[i].rule = Panics
    /\ IF pools.token > 0
       THEN Record(c, i, NoRule)
       ELSE /\ pc' = [pc EXCEPT ![c] = "panicked"]
            /\ task' = [task EXCEPT ![c][i] = "finished"]
            /\ UNCHANGED <<pools, doc, next, wg, output, afterStop, actions, entities,
                           cancelled, stopVars>>

\* The concurrent runner needs a worker of its pool.
Evaluating == {p \in Calls \X (1..MaxTokens) : task[p[1]][p[2]] = "evaluating"}

\* A token worker is taken from Submit until its task ends.
Busy == {p \in Calls \X (1..MaxTokens) :
            task[p[1]][p[2]] \in {"accepted", "process", "evaluating", "orphaned"}}

\* Mutant of RunnerWorkerFree: the runner shares the token workers' pool.
TokenWorkerFree == Cardinality(Busy) < pools.token

RunnerWorkerFree == Cardinality(Evaluating) < pools.runner

RunnerSubmit(c, i) ==
    /\ pools.runner > 0
    /\ task[c][i] = "process"
    /\ ~runnerClosed
    /\ RunnerWorkerFree
    /\ task' = [task EXCEPT ![c][i] = "evaluating"]
    /\ UNCHANGED <<callVars, actions, entities, cancelled, stopVars>>

\* The runner's pool is released, or the context ends while the runner waits:
\* for a worker, or for the item of a worker that has panicked.
RunnerGivesUp(c, i) ==
    /\ \/ /\ pools.runner > 0
          /\ task[c][i] = "process"
          /\ runnerClosed \/ c \in cancelled
       \/ task[c][i] = "orphaned" /\ c \in cancelled
    /\ Record(c, i, NoRule)

\* A matcher panics in a worker of the runner's pool, which recovers it: the
\* worker is free again and its item is never sent.
PanicInRunner(c, i) ==
    /\ task[c][i] = "evaluating"
    /\ Tokens(c)[i].rule = Panics
    /\ task' = [task EXCEPT ![c][i] = "orphaned"]
    /\ UNCHANGED <<callVars, actions, entities, cancelled, stopVars>>

RunnerAnswers(c, i) ==
    /\ task[c][i] = "evaluating"
    /\ \E answer \in Answers(c, i) : Record(c, i, answer)

-----------------------------------------------------------------------------
(* Anonymize.                                                              *)

\* Anonymize up to its loop.  Without data or without rules it writes nothing.
Anonymize(c) ==
    /\ pc[c] = "idle"
    /\ pc' = [pc EXCEPT ![c] =
           IF doc[c].len = 0 \/ ~doc[c].anyRules THEN "done"
           ELSE IF pools.token > 0 THEN "submit" ELSE "loop"]
    /\ afterStop' = IF runnerClosed /\ (poolClosed \/ pools.token = 0)
                    THEN afterStop \cup {c} ELSE afterStop
    /\ UNCHANGED <<pools, doc, next, wg, task, actions, entities, output, cancelled, stopVars>>

\* anonymizeSequential: the next token, when the previous one is answered.
NextToken(c) ==
    /\ pc[c] = "loop"
    /\ next[c] <= Len(Tokens(c))
    /\ next[c] > 1 => task[c][next[c] - 1] = "finished"
    /\ task' = [task EXCEPT ![c][next[c]] = "process"]
    /\ next' = [next EXCEPT ![c] = @ + 1]
    /\ UNCHANGED <<pools, doc, pc, wg, actions, entities, output, cancelled, stopVars, afterStop>>

\* anonymizeSequential returns.
LoopDone(c) ==
    /\ pc[c] = "loop"
    /\ next[c] > Len(Tokens(c))
    /\ next[c] > 1 => task[c][next[c] - 1] = "finished"
    /\ Finish(c, actions[c])

\* anonymizeConcurrent: wg.Add, then Submit, which blocks at capacity.
Submit(c) ==
    /\ pc[c] = "submit"
    /\ next[c] <= Len(Tokens(c))
    /\ ~poolClosed
    /\ Cardinality(Busy) < pools.token
    /\ wg' = [wg EXCEPT ![c] = @ + 1]
    /\ task' = [task EXCEPT ![c][next[c]] = "accepted"]
    /\ next' = [next EXCEPT ![c] = @ + 1]
    /\ UNCHANGED <<pools, doc, pc, actions, entities, output, cancelled, stopVars, afterStop>>

\* Submit fails on a released pool: the loop is left, the remaining tokens are
\* not looked at.  Or every token has been submitted.
SubmitDone(c) ==
    /\ pc[c] = "submit"
    /\ poolClosed \/ next[c] > Len(Tokens(c))
    /\ pc' = [pc EXCEPT ![c] = "wait"]
    /\ UNCHANGED <<pools, doc, next, wg, task, actions, entities, output, cancelled, stopVars, afterStop>>

\* A worker begins a task and looks at the call's context first.
BeginTask(c, i) ==
    /\ task[c][i] = "accepted"
    /\ IF c \in cancelled
       THEN Record(c, i, NoRule)
       ELSE /\ task' = [task EXCEPT ![c][i] = "process"]
            /\ UNCHANGED <<callVars, actions, entities, cancelled, stopVars>>

\* Mutant of WgWait: it does not wait.
WgSkip(c) == TRUE

WgWait(c) == wg[c] = 0

\* wg.Wait returns and the actions are sorted by position.
WaitDone(c) ==
    /\ pc[c] = "wait"
    /\ WgWait(c)
    /\ Finish(c, SortByStart(actions[c]))

Cancel(c) ==
    /\ pc[c] \notin {"done", "panicked"}
    /\ c \notin cancelled
    /\ cancelled' = cancelled \cup {c}
    /\ UNCHANGED <<callVars, task, actions, entities, stopVars>>

\* Stop: the runner first, then the token pool.
StopRunner ==
    /\ ~runnerClosed
    /\ runnerClosed' = TRUE
    /\ UNCHANGED <<callVars, task, actions, entities, cancelled, poolClosed>>

StopPool ==
    /\ runnerClosed
    /\ pools.token > 0
    /\ ~poolClosed
    /\ poolClosed' = TRUE
    /\ UNCHANGED <<callVars, task, actions, entities, cancelled, runnerClosed>>

CallStep(c) == NextToken(c) \/ LoopDone(c) \/ Submit(c) \/ SubmitDone(c) \/ WaitDone(c)
TaskStep(c, i) ==
    \/ BeginTask(c, i) \/ ProcessSerially(c, i) \/ PanicSerially(c, i) \/ PanicInRunner(c, i)
    \/ RunnerSubmit(c, i) \/ RunnerGivesUp(c, i) \/ RunnerAnswers(c, i)

\* Every call has returned and no task is left.
Quiescent ==
    /\ \A c \in Calls : pc[c] \in {"done", "panicked"}
    /\ Busy = {}
    /\ UNCHANGED vars

Next ==
    \/ \E c \in Calls : Anonymize(c) \/ CallStep(c) \/ Cancel(c)
    \/ \E c \in Calls, i \in 1..MaxTokens : TaskStep(c, i)
    \/ StopRunner
    \/ StopPool
    \/ Quiescent

Spec == Init /\ [][Next]_vars

\* Goroutines and workers are scheduled.
FairSpec ==
    /\ Spec
    /\ \A c \in Calls : WF_vars(CallStep(c))
    /\ \A c \in Calls, i \in 1..MaxTokens : WF_vars(TaskStep(c, i))

-----------------------------------------------------------------------------
(* Properties.                                                             *)

\* Every variable keeps its type; a WaitGroup never goes negative, which
\* would panic.
TypeOK ==
    /\ pools \in Pools
    /\ doc \in [Calls -> Documents]
    /\ pc \in [Calls -> {"idle", "loop", "submit", "wait", "done", "panicked"}]
    /\ next \in [Calls -> 1..(MaxTokens + 1)]
    /\ task \in [Calls -> [1..MaxTokens -> TaskStates]]
    /\ wg \in [Calls -> 0..MaxTokens]
    /\ \A c \in Calls : Range(actions[c]) \subseteq 1..MaxTokens
    /\ cancelled \subseteq Calls
    /\ runnerClosed \in BOOLEAN /\ poolClosed \in BOOLEAN
    /\ afterStop \subseteq Calls

Matched(d) == {i \in DOMAIN d.tokens : d.tokens[i].rule \notin {NoRule, Panics}}

\* The output in terms of the input's bytes: a byte outside the anonymized
\* tokens S stays, a redacted token is one placeholder, a masked one keeps the
\* bytes after the masked ones.
Rendered(d, S, p) ==
    LET inside == {i \in S : d.tokens[i].start <= p /\ p < d.tokens[i].end}
    IN  IF inside = {} THEN <<p>>
        ELSE LET tok == d.tokens[CHOOSE i \in inside : TRUE]
             IN  CASE tok.rule.strategy = "REDACT"  ->
                        IF p = tok.start THEN <<Placeholder>> ELSE <<>>
                   [] tok.rule.strategy = "MASK"    ->
                        IF p = tok.start \/ p - tok.start < tok.rule.maxSize THEN <<MaskingChar>> ELSE <<p>>
                   [] tok.rule.strategy = "unknown" -> <<>>

\* What becomes of the first p bytes, for every p.
RenderedText(d, S) ==
    LET text[p \in 0..d.len] == IF p = 0 THEN <<>> ELSE text[p - 1] \o Rendered(d, S, p - 1)
    IN  text

Expected(d, S) == IF d.anyRules THEN RenderedText(d, S)[d.len] ELSE <<>>

Anonymized(c) == Range(actions[c])
Excused(c) == c \in cancelled \/ runnerClosed \/ poolClosed

\* What a call reports: AnonymizationDetails names exactly the entities that were
\* anonymized, no rule is applied to a token it does not match, and only a
\* cancelled context or Stop may leave a token that a rule matches as it was.
ReportExact(c) ==
    /\ entities[c] = {Tokens(c)[i].rule.entity : i \in Anonymized(c)}
    /\ doc[c].anyRules =>
          /\ Anonymized(c) \subseteq Matched(doc[c])
          /\ Excused(c) \/ Anonymized(c) = Matched(doc[c])

\* "the output is byte-for-byte identical to the sequential path": whatever the
\* order workers finish in, every byte of the input is written once, in place,
\* and every token a rule matches is replaced; no rule is applied to a token it
\* does not match.  Only a cancelled context or Stop may leave matches as they
\* were, and then too the text around them is intact.  A matcher's panic on one
\* token costs that token and no other.  AnonymizationDetails reports exactly the
\* entities that were anonymized.
OutputExact ==
    \A c \in Calls : pc[c] = "done" =>
        /\ output[c] = Expected(doc[c], Anonymized(c))
        /\ ReportExact(c)

\* wg.Wait: once Anonymize has gone on to write, no worker of the call touches
\* its actions any more, Stop or cancellation notwithstanding.
NoLateAction ==
    [][\A c \in Calls : pc[c] = "done" =>
          actions'[c] = actions[c] /\ entities'[c] = entities[c] /\ wg'[c] = wg[c]]_vars

\* Every Anonymize returns, also with both levels of concurrency on and pools
\* of one worker each: the factory says that "only one level should be active
\* at a time to avoid deadlocks", and two pools of their own cannot deadlock.
\* A panic in a token worker holds nobody; one in a worker of the runner's pool
\* may hold its call until the context ends, and no call that has no token
\* left behind for it, unless it keeps the token workers the others need.
EveryAnonymizeReturns ==
    \A c \in Calls : pc[c] # "idle" ~>
        \/ pc[c] \in {"done", "panicked"}
        \/ \E b \in Calls, i \in 1..MaxTokens :
              task[b][i] = "orphaned" /\ (b = c \/ pools.token > 0)

\* What Stop's comment promises: "Subsequent calls to Anonymize will process
\* tokens sequentially if the pool has been released".
StoppedAnalyzesSequentially ==
    \A c \in Calls :
        (pc[c] = "done" /\ c \in afterStop \ cancelled /\ pools.runner = 0) =>
            output[c] = Expected(doc[c], Matched(doc[c]))

=============================================================================
