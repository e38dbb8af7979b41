------------------------------ MODULE BlockPool -----------------------------
(***************************************************************************)
(* The loops with which the LLM processors work on a batch: Evaluate of    *)
(* internal/processors/quality/llm.go, Summarize of                        *)
(* internal/processors/summary/llm.go and EnsureImageCaptions of           *)
(* internal/processors/llmutil/images.go.  One call after the other when   *)
(* max_concurrency or the batch is at most 1; else a goroutine per post,   *)
(* bounded by the channel sem, that reports its error in errCh (capacity   *)
(* 1) and cancels the others.  An LLM call is one step with any outcome.   *)
(***************************************************************************)
EXTENDS Naturals, Sequences, FiniteSets

CONSTANT
  Configs  \* the configurations explored, a subset of Config

Config == [n : Nat, max : Nat, policy : {"fail", "drop"},
           kind : {"quality", "summary", "caption"}]

ASSUME BlockPoolAssumption == Configs \subseteq Config

VARIABLES
  conf,       \* len(blocks), MaxConcurrency, BlockErrorPolicy, which processor
  pc,         \* "loop", "wait" (wg.Wait) or "returned"
  next,       \* the index of the loop over the blocks
  sem,        \* len(sem)
  worker,     \* where the goroutine of a block is
  outcome,    \* what became of the block
  errCh,      \* the block whose error is in errCh, 0 if it is empty
  ctxDone,    \* the derived context is cancelled
  callerDone, \* the caller's context is cancelled
  result      \* what the call returns

vars == <<conf, pc, next, sem, worker, outcome, errCh, ctxDone, callerDone,
          result>>

Block == 1 .. conf.n
Parallel == conf.max > 1 /\ conf.n > 1

Pending == [err |-> 0, kept |-> <<>>, returned |-> FALSE]
Failed(i) == [err |-> i, kept |-> <<>>, returned |-> TRUE]
Kept(s) == [err |-> 0, kept |-> s, returned |-> TRUE]

Init ==
  /\ conf \in Configs
  /\ pc = "loop"
  /\ next = 1
  /\ sem = 0
  /\ worker = [i \in Block |-> "none"]
  /\ outcome = [i \in Block |-> "none"]
  /\ errCh = 0
  /\ ctxDone = FALSE
  /\ callerDone = FALSE
  /\ result = Pending

-----------------------------------------------------------------------------
(* evaluateOne, summarizeOne, captionOne: only Evaluate drops without an   *)
(* error (a score below the threshold); a call under a cancelled context   *)
(* may fail for that reason, or still succeed.                             *)
Outcomes ==
  {"pass", "error"} \cup (IF conf.kind = "quality" THEN {"drop"} ELSE {})
                    \cup (IF ctxDone THEN {"cancelled"} ELSE {})
Failing == {"error", "cancelled"}

\* The batch as its caller sees it, see Batch; a post whose call was cancelled
\* counts as not judged.
Promise == INSTANCE Batch WITH
  cancelled <- callerDone,
  verdict <- [i \in Block |-> IF outcome[i] = "cancelled" THEN "none"
                              ELSE outcome[i]]

\* Summarize and EnsureImageCaptions under "fail" hand all blocks back.
Survivors(o) ==
  IF conf.policy = "fail" /\ conf.kind # "quality"
  THEN [i \in Block |-> i]
  ELSE Promise!InOrder({i \in Block : o[i] = "pass"})

Sequential ==
  /\ pc = "loop" /\ ~Parallel /\ next \in Block
  /\ \E o \in Outcomes :
       /\ outcome' = [outcome EXCEPT ![next] = o]
       /\ IF o \in Failing /\ conf.policy = "fail"
          THEN pc' = "returned" /\ result' = Failed(next) /\ UNCHANGED next
          ELSE next' = next + 1 /\ UNCHANGED <<pc, result>>
  /\ UNCHANGED <<conf, sem, worker, errCh, ctxDone, callerDone>>

SequentialEnd ==
  /\ pc = "loop" /\ ~Parallel /\ next \notin Block
  /\ pc' = "returned" /\ result' = Kept(Survivors(outcome))
  /\ UNCHANGED <<conf, next, sem, worker, outcome, errCh, ctxDone, callerDone>>

-----------------------------------------------------------------------------
\* The semaphore is not waited for.
WrongDispatch ==
  /\ pc = "loop" /\ Parallel /\ next \in Block
  /\ sem' = sem + 1
  /\ worker' = [worker EXCEPT ![next] = "call"]
  /\ next' = next + 1
  /\ UNCHANGED <<conf, pc, outcome, errCh, ctxDone, callerDone, result>>

\* case sem <- struct{}{}: taken whenever there is room, also when the
\* context is done as well.
Dispatch ==
  /\ pc = "loop" /\ Parallel /\ next \in Block
  /\ sem < conf.max
  /\ sem' = sem + 1
  /\ worker' = [worker EXCEPT ![next] = "call"]
  /\ next' = next + 1
  /\ UNCHANGED <<conf, pc, outcome, errCh, ctxDone, callerDone, result>>

\* The end of the loop, or case <-ctx.Done(): break loop.
LeaveLoop ==
  /\ pc = "loop" /\ Parallel
  /\ next \notin Block \/ ctxDone
  /\ pc' = "wait"
  /\ UNCHANGED <<conf, next, sem, worker, outcome, errCh, ctxDone, callerDone,
                 result>>

\* The failing goroutine cancels the context before it reports.
WrongCall(i) ==
  /\ worker[i] = "call"
  /\ \E o \in Outcomes :
       /\ outcome' = [outcome EXCEPT ![i] = o]
       /\ IF o \in Failing /\ conf.policy = "fail"
          THEN ctxDone' = TRUE /\ worker' = [worker EXCEPT ![i] = "report"]
          ELSE UNCHANGED ctxDone /\ worker' = [worker EXCEPT ![i] = "release"]
  /\ UNCHANGED <<conf, pc, next, sem, errCh, callerDone, result>>

Call(i) ==
  /\ worker[i] = "call"
  /\ \E o \in Outcomes :
       /\ outcome' = [outcome EXCEPT ![i] = o]
       /\ worker' = [worker EXCEPT ![i] =
            IF o \in Failing /\ conf.policy = "fail" THEN "report" ELSE "release"]
  /\ UNCHANGED <<conf, pc, next, sem, errCh, ctxDone, callerDone, result>>

\* The error is put on a channel that nobody empties before wg.Wait is over.
WrongReport(i) ==
  /\ worker[i] = "report" /\ errCh = 0
  /\ errCh' = i
  /\ worker' = [worker EXCEPT ![i] = "cancel"]
  /\ UNCHANGED <<conf, pc, next, sem, outcome, ctxDone, callerDone, result>>

\* select { case errCh <- err: default: }: only the first error is kept.
Report(i) ==
  /\ worker[i] = "report"
  /\ errCh' = IF errCh = 0 THEN i ELSE errCh
  /\ worker' = [worker EXCEPT ![i] = "cancel"]
  /\ UNCHANGED <<conf, pc, next, sem, outcome, ctxDone, callerDone, result>>

Cancel(i) ==
  /\ worker[i] = "cancel"
  /\ ctxDone' = TRUE
  /\ worker' = [worker EXCEPT ![i] = "release"]
  /\ UNCHANGED <<conf, pc, next, sem, outcome, errCh, callerDone, result>>

\* defer func() { <-sem }(), and then defer wg.Done().
Release(i) ==
  /\ worker[i] = "release" /\ sem > 0
  /\ sem' = sem - 1
  /\ worker' = [worker EXCEPT ![i] = "finish"]
  /\ UNCHANGED <<conf, pc, next, outcome, errCh, ctxDone, callerDone, result>>

Finish(i) ==
  /\ worker[i] = "finish"
  /\ worker' = [worker EXCEPT ![i] = "done"]
  /\ UNCHANGED <<conf, pc, next, sem, outcome, errCh, ctxDone, callerDone, result>>

\* The results are collected when the semaphore is empty.
WrongCollect ==
  /\ pc = "wait" /\ sem = 0
  /\ pc' = "returned"
  /\ result' = IF errCh # 0 THEN Failed(errCh) ELSE Kept(Survivors(outcome))
  /\ UNCHANGED <<conf, next, sem, worker, outcome, errCh, ctxDone, callerDone>>

\* wg.Wait(), the look into errCh, and the return (defer cancel()).
Collect ==
  /\ pc = "wait" /\ \A i \in Block : worker[i] \in {"none", "done"}
  /\ pc' = "returned"
  /\ result' = IF errCh # 0 THEN Failed(errCh) ELSE Kept(Survivors(outcome))
  /\ UNCHANGED <<conf, next, sem, worker, outcome, errCh, ctxDone, callerDone>>

\* The process is asked to stop (signal.NotifyContext in cmd/curator).
CallerCancels ==
  /\ ~callerDone /\ pc # "returned"
  /\ callerDone' = TRUE /\ ctxDone' = TRUE
  /\ UNCHANGED <<conf, pc, next, sem, worker, outcome, errCh, result>>

Loop == Sequential \/ SequentialEnd \/ Dispatch \/ LeaveLoop \/ Collect
Work(i) == Call(i) \/ Report(i) \/ Cancel(i) \/ Release(i) \/ Finish(i)
Next == Loop \/ (\E i \in Block : Work(i)) \/ CallerCancels

Spec == Init /\ [][Next]_vars

\* The goroutines are scheduled, and every LLM call returns: an assumption on
\* the service, since the client sets no timeout of its own.
FairSpec == Spec /\ WF_vars(Loop) /\ WF_vars(\E i \in Block : Work(i))

-----------------------------------------------------------------------------
Holding == {i \in Block : worker[i] \in {"call", "report", "cancel", "release"}}
Calling == {i \in Block : worker[i] = "call"}

(***************************************************************************)
(* max_concurrency bounds the LLM calls a batch has in flight, and the     *)
(* semaphore counts the goroutines that hold a place in it, so that no     *)
(* release ever blocks and none is lost.                                   *)
(***************************************************************************)
InFlightBound ==
  /\ sem = Cardinality(Holding)
  /\ Cardinality(Calling) <= conf.max

(* Every variable of the loops has its type, and the pool its bound. *)
TypeOK ==
  /\ conf \in Configs
  /\ pc \in {"loop", "wait", "returned"}
  /\ next \in 1 .. conf.n + 1
  /\ sem \in 0 .. conf.max
  /\ worker \in [Block -> {"none", "call", "report", "cancel", "release",
                          "finish", "done"}]
  /\ outcome \in [Block -> {"none", "pass", "drop"} \cup Failing]
  /\ errCh \in {0} \cup Block
  /\ ctxDone \in BOOLEAN /\ callerDone \in BOOLEAN
  /\ result \in [err : {0} \cup Block, kept : Seq(Block), returned : BOOLEAN]
  /\ InFlightBound

(***************************************************************************)
(* Nothing of the batch runs on behind the caller's back: when the call    *)
(* has returned, no goroutine is left that could still write to a post or  *)
(* to the results.                                                         *)
(***************************************************************************)
NoWorkerOutlives ==
  pc = "returned" => \A i \in Block : worker[i] \in {"none", "done"}

(***************************************************************************)
(* The error a batch fails with is the error of a post, never the          *)
(* cancellation it caused itself: the first failing goroutine fills errCh  *)
(* before it cancels the others, whose errors find the channel full.       *)
(***************************************************************************)
ErrorIsGenuine ==
  result.err # 0 /\ ~callerDone => outcome[result.err] = "error"

(***************************************************************************)
(* Sequential or parallel, a batch keeps the promise of module Batch.      *)
(***************************************************************************)
KeepsPromise == Promise!Spec

(***************************************************************************)
(* The call returns, whatever fails and whoever cancels: no goroutine      *)
(* waits for ever on the semaphore, on errCh or on the wait group.         *)
(***************************************************************************)
Returns == <>(pc = "returned")

(***************************************************************************)
(* internal/config/schema.go: block_error_policy, "fail" by default, says  *)
(* what happens "when processing a single PostBlock fails".  So a batch    *)
(* that returned no error under "fail" has judged each of its posts.  Not  *)
(* so when the caller cancels: the loop is left early and nobody reports.  *)
(***************************************************************************)
FailPolicyLosesNothing ==
  result.returned /\ result.err = 0 /\ conf.policy = "fail" =>
    \A i \in Block : outcome[i] \in {"pass", "drop"}
=============================================================================
