---------------------------- MODULE MCServiceCall ---------------------------
(* Instances of ServiceCall for TLC. *)
EXTENDS ServiceCall

\* What the fetchers and readers give retry.Do: 3 attempts, 200 ms.  Reddit's
\* loop has the same numbers.
Usual == [attempts |-> 3, base |-> 4, max |-> 0, jitter |-> 0]

\* Other users of retry.Do: no attempts, nothing but defaults; a cap that the
\* second wait meets, in the middle of the jitter; a base above the cap.
Others ==
  {[attempts |-> 0, base |-> 0, max |-> 0, jitter |-> 0],
   [attempts |-> 5, base |-> 3, max |-> 7, jitter |-> 3],
   [attempts |-> 4, base |-> 9, max |-> 8, jitter |-> 1]}

AllCalls ==
  [client : Client \ {"do"}, config : {Usual},
   target : {"fit", "unfit", "unbuildable"}]
  \cup [client : {"do"}, config : Others \cup {Usual}, target : {"fit"}]

\* A second, and longer than the cap of two minutes.
Asked == {0, 20, 3000}
=============================================================================
