------------------------------- MODULE RunLife ------------------------------
(***************************************************************************)
(* The life of a run as the rest of the program sees it: RunOnce takes the *)
(* stages of the flow in their order and leaves none out; it may fail in   *)
(* any of them, and it completes behind the outputs, or early behind a     *)
(* stage that may leave it without posts.  Module Runner implements this;  *)
(* module Curator starts runs and relies on no more.                       *)
(***************************************************************************)
EXTENDS Naturals

CONSTANT Caller

VARIABLES status, stage

life == <<status, stage>>

First == 1
Last == 5
\* Sources, quality and run summary may leave nothing to deliver.
MayEndAt == {1, 2, 4, Last}

Init ==
  /\ status = [c \in Caller |-> "idle"]
  /\ stage = [c \in Caller |-> First]

Begin(c) ==
  /\ status[c] # "running"
  /\ status' = [status EXCEPT ![c] = "running"]
  /\ stage' = [stage EXCEPT ![c] = First]

Advance(c) ==
  /\ status[c] = "running" /\ stage[c] < Last
  /\ stage' = [stage EXCEPT ![c] = @ + 1]
  /\ UNCHANGED status

Complete(c) ==
  /\ status[c] = "running" /\ stage[c] \in MayEndAt
  /\ status' = [status EXCEPT ![c] = "completed"]
  /\ UNCHANGED stage

Fail(c) ==
  /\ status[c] = "running"
  /\ status' = [status EXCEPT ![c] = "failed"]
  /\ UNCHANGED stage

\* The process and its runs are gone.
Reset ==
  /\ status' = [c \in Caller |-> "idle"]
  /\ UNCHANGED stage

Next ==
  \/ \E c \in Caller : Begin(c) \/ Advance(c) \/ Complete(c) \/ Fail(c)
  \/ Reset

Spec == Init /\ [][Next]_life
=============================================================================
