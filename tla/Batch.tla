-------------------------------- MODULE Batch -------------------------------
(***************************************************************************)
(* What an LLM processor promises about one batch of posts, whatever the   *)
(* number of calls it has in flight: every post gets a verdict; with       *)
(* block_error_policy "fail" the error of a post fails the batch, with     *)
(* "drop" it costs that post only; the posts come back in their order.     *)
(* Only a batch that its caller cancels may leave posts without a verdict. *)
(***************************************************************************)
EXTENDS Naturals, FiniteSets

CONSTANTS Configs

VARIABLES
  conf,     \* [n: posts, max: concurrency, policy: "fail" or "drop", kind]
  verdict,  \* verdict[i] of post i: "none", "pass", "drop" or "error"
  cancelled, \* the caller has cancelled the batch
  result    \* what is returned: an error of a post, or the posts kept

vars == <<conf, verdict, cancelled, result>>

Pending == [err |-> 0, kept |-> <<>>, returned |-> FALSE]
Failed(i) == [err |-> i, kept |-> <<>>, returned |-> TRUE]
Kept(s) == [err |-> 0, kept |-> s, returned |-> TRUE]

\* The posts of a set, in the order of the batch.
InOrder(posts) ==
  [k \in 1 .. Cardinality(posts) |->
     CHOOSE i \in posts : Cardinality({j \in posts : j < i}) = k - 1]

All == [i \in 1 .. conf.n |-> i]
Passing(v) == InOrder({i \in 1 .. conf.n : v[i] = "pass"})

Init ==
  /\ conf \in Configs
  /\ verdict = [i \in 1 .. conf.n |-> "none"]
  /\ cancelled = FALSE
  /\ result = Pending

Judge(i) ==
  /\ ~result.returned /\ verdict[i] = "none"
  /\ \E v \in {"pass", "drop", "error"} : verdict' = [verdict EXCEPT ![i] = v]
  /\ UNCHANGED <<conf, cancelled, result>>

Cancel ==
  /\ ~result.returned
  /\ cancelled' = TRUE
  /\ UNCHANGED <<conf, verdict, result>>

\* The error is one of a post, known or met at this moment, or tells of the
\* cancellation.
ReturnError ==
  /\ ~result.returned /\ conf.policy = "fail"
  /\ \E i \in 1 .. conf.n :
       /\ verdict[i] \in {"none", "error"}
       /\ \/ verdict' = [verdict EXCEPT ![i] = "error"]
          \/ cancelled /\ UNCHANGED verdict
       /\ result' = Failed(i)
  /\ UNCHANGED <<conf, cancelled>>

ReturnKept ==
  /\ ~result.returned
  /\ \A i \in 1 .. conf.n :
       \/ verdict[i] \in {"pass", "drop"}
       \/ verdict[i] = "error" /\ conf.policy = "drop"
       \/ verdict[i] = "none" /\ cancelled
  /\ \/ result' = Kept(Passing(verdict))
     \/ /\ cancelled /\ conf.policy = "fail" /\ conf.kind # "quality"
        /\ result' = Kept(All)
  /\ UNCHANGED <<conf, verdict, cancelled>>

Next == (\E i \in 1 .. conf.n : Judge(i)) \/ Cancel
        \/ ReturnError \/ ReturnKept

Spec == Init /\ [][Next]_vars
=============================================================================
