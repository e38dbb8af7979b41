----------------------------- MODULE MCBlockPool ----------------------------
(* Instances of BlockPool for TLC. *)
EXTENDS BlockPool

Kinds == {<<"quality", "fail">>, <<"quality", "drop">>, <<"summary", "fail">>,
          <<"summary", "drop">>, <<"caption", "fail">>}

Batches(sizes, limits) ==
  {[n |-> n, max |-> m, policy |-> k[2], kind |-> k[1]] :
     n \in sizes, m \in limits, k \in Kinds}

(* Empty and one-post batches, fewer places than posts, as many, more; a   *)
(* limit of 0 is what a document without max_concurrency gives.            *)
AllBatches == Batches(0 .. 3, {0, 1, 2, 3})
=============================================================================
