------------------------------- MODULE Reading ------------------------------
(***************************************************************************)
(* What a source may rely on when it calls a service: the call ends, with  *)
(* an answer or an error, and once the context is done there is no answer  *)
(* any more.  Module ServiceCall implements this, whatever requests, waits *)
(* and retries it takes; module Digest is built on it.                     *)
(***************************************************************************)
CONSTANT Caller

VARIABLES cancelled, reading

\* Of a caller's call: "none" while it is under way, then "answer" or "error".
Init == reading = [c \in Caller |-> "none"]

\* The next call begins.
Ask(c) == reading[c] # "none" /\ reading' = [reading EXCEPT ![c] = "none"]

To(c, r) == reading[c] = "none" /\ reading' = [reading EXCEPT ![c] = r]

Answer(c) == ~cancelled /\ To(c, "answer")
Refuse(c) == To(c, "error")

End(c) == (Answer(c) \/ Refuse(c)) /\ UNCHANGED cancelled

\* A signal comes once, and nothing revokes it.
Cancel == ~cancelled /\ cancelled' = TRUE /\ UNCHANGED reading

Next == Cancel \/ \E c \in Caller : End(c) \/ (Ask(c) /\ UNCHANGED cancelled)

vars == <<cancelled, reading>>
Safety == Init /\ [][Next]_vars
Spec == Safety /\ \A c \in Caller : WF_vars(End(c))
=============================================================================
