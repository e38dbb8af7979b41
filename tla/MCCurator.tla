------------------------------ MODULE MCCurator -----------------------------
(* Instances of Curator for TLC. *)
EXTENDS Curator

(* All started, one rejected behind a running one, one that was not built. *)
TwoPlans == {<<"ok", "ok">>, <<"ok", "bad">>, <<"absent", "ok">>}
=============================================================================
