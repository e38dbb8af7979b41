---------------------------- MODULE CuratorProofs ---------------------------
(***************************************************************************)
(* Proofs about module Curator, for any number of triggers and ticks.      *)
(***************************************************************************)
EXTENDS Curator, TLAPS

(* The steps of a run are those of RunLife; spelled out once for the provers. *)
LEMMA RunSteps ==
  ASSUME NEW t \in Trigger, TypeOK,
         Run!Begin(t) \/ Run!Advance(t) \/ Run!Complete(t) \/ Run!Fail(t)
  PROVE  /\ status' \in [Trigger -> {"idle", "running", "completed", "failed"}]
         /\ stage' \in [Trigger -> Run!First .. Run!Last]
<1> USE DEF TypeOK, Run!First, Run!Last
<1>1. CASE Run!Begin(t)
  BY <1>1 DEF Run!Begin
<1>2. CASE Run!Advance(t)
  <2>1. stage[t] + 1 \in 1 .. 5
    BY <1>2 DEF Run!Advance
  <2> QED BY <1>2, <2>1 DEF Run!Advance
<1>3. CASE Run!Complete(t)
  BY <1>3 DEF Run!Complete
<1>4. CASE Run!Fail(t)
  BY <1>4 DEF Run!Fail
<1> QED BY <1>1, <1>2, <1>3, <1>4

(* Before main starts anything the types are right.                      *)
LEMMA TypeInit == Init => TypeOK
<1> SUFFICES ASSUME Init PROVE TypeOK
  OBVIOUS
<1>1. plan \in Plan
  BY CuratorAssumption DEF Init
<1>2. /\ status \in [Trigger -> {"idle", "running", "completed", "failed"}]
      /\ stage \in [Trigger -> Run!First .. Run!Last]
  BY DEF Init, Run!Init, Run!First, Run!Last
<1>3. /\ cron \in [Trigger -> {"off", "on", "stopping", "stopped"}]
      /\ closed \in [Trigger -> BOOLEAN]
      /\ listener \in [Trigger -> {"none", "on", "gone"}]
      /\ due \in [Trigger -> BOOLEAN]
  BY DEF Init
<1>4. /\ jobs \in [Trigger -> Nat]
      /\ events \in [Trigger -> {0, 1}]
      /\ ticks \in [Trigger -> Nat]
  <2>1. /\ jobs = [t \in Trigger |-> 0]
        /\ events = [t \in Trigger |-> 0]
        /\ ticks = [t \in Trigger |-> 0]
    BY DEF Init
  <2> QED BY <2>1
<1>5. main = "starting" /\ next \in Nat \ {0}
  <2>1. main = "starting" /\ next = 1
    BY DEF Init
  <2> QED BY <2>1
<1>6. ctxDone \in BOOLEAN
  BY DEF Init
<1> QED BY <1>1, <1>2, <1>3, <1>4, <1>5, <1>6 DEF TypeOK

(* No step of main, the cron jobs or the listeners leaves the types.     *)
LEMMA TypeNext == TypeOK /\ [Next]_vars => TypeOK'
<1> SUFFICES ASSUME TypeOK, [Next]_vars PROVE TypeOK'
  OBVIOUS
<1> USE DEF TypeOK, trigger, run
<1>1. CASE UNCHANGED vars
  BY <1>1 DEF vars
<1>2. CASE StartTrigger
  BY <1>2 DEF StartTrigger
<1>3. CASE Wait \/ Signal \/ Leave
  BY <1>3 DEF Wait, Signal, Leave
<1>4. ASSUME NEW t \in Trigger, Tick(t) PROVE TypeOK'
  BY <1>4 DEF Tick
<1>5. ASSUME NEW t \in Trigger, Send(t) PROVE TypeOK'
  BY <1>5 DEF Send
<1>6. ASSUME NEW t \in Trigger, StopCron(t) \/ CloseEvents(t) PROVE TypeOK'
  BY <1>6 DEF StopCron, CloseEvents
<1>7. ASSUME NEW t \in Trigger, Receive(t) PROVE TypeOK'
  <2>1. events[t] - 1 \in {0, 1}
    BY <1>7 DEF Receive
  <2>2. events' \in [Trigger -> {0, 1}]
    BY <1>7, <2>1 DEF Receive
  <2> QED BY <1>7, <2>2, RunSteps DEF Receive
<1>8. ASSUME NEW t \in Trigger, StopListening(t) PROVE TypeOK'
  BY <1>8 DEF StopListening
<1>9. ASSUME NEW t \in Trigger, NextStage(t) \/ RunEnds(t) PROVE TypeOK'
  <2>1. UNCHANGED <<plan, main, next, ctxDone, cron, jobs, events, closed,
                    listener, ticks, due>>
    BY <1>9 DEF NextStage, RunEnds
  <2>2. Run!Begin(t) \/ Run!Advance(t) \/ Run!Complete(t) \/ Run!Fail(t)
    BY <1>9 DEF NextStage, RunEnds
  <2> QED BY <2>1, <2>2, RunSteps
<1> QED
  BY <1>1, <1>2, <1>3, <1>4, <1>5, <1>6, <1>7, <1>8, <1>9
     DEF Next, Main, Cron, Listen

(***************************************************************************)
(* Whatever happens in the process, its variables keep their types; in     *)
(* particular no trigger's channel ever holds more than one event.         *)
(***************************************************************************)
THEOREM CuratorTypeCorrect == Spec => []TypeOK
BY TypeInit, TypeNext, PTL DEF Spec

-----------------------------------------------------------------------------
(* Where the parts of a trigger are, relative to each other and to main. *)
NotYetStarted ==
  \A t \in Trigger : t >= next => cron[t] = "off" /\ ~closed[t]

Stopping ==
  \A t \in Trigger :
    /\ cron[t] \in {"stopping", "stopped"} => ctxDone
    /\ closed[t] => cron[t] = "stopped" /\ jobs[t] = 0
    /\ listener[t] = "gone" => ctxDone
    /\ cron[t] # "off" => listener[t] # "none"

Owed ==
  \A t \in Trigger : due[t] => cron[t] # "off" /\ (jobs[t] > 0 \/ events[t] > 0)

Started ==
  /\ main \in {"waiting", "sleeping", "exited"} => next \notin Trigger
  /\ main # "panicked" =>
       \A t \in Trigger : t < next =>
         /\ plan[t] # "bad"
         /\ plan[t] = "ok" => cron[t] # "off" /\ listener[t] # "none"

IInv == TypeOK /\ NotYetStarted /\ Stopping /\ Owed /\ Started

(* Nothing is started and nothing owed at first.                         *)
LEMMA InvInit == Init => IInv
<1> SUFFICES ASSUME Init PROVE IInv
  OBVIOUS
<1>1. TypeOK
  BY TypeInit
<1>2. NotYetStarted /\ Stopping /\ Owed /\ Started
  BY CuratorAssumption DEF Init, NotYetStarted, Stopping, Owed, Started, Trigger
<1> QED BY <1>1, <1>2 DEF IInv

(* Each step of a trigger, its jobs and its listener keeps their order.  *)
LEMMA InvNext == IInv /\ [Next]_vars => IInv'
<1> SUFFICES ASSUME IInv, [Next]_vars PROVE IInv'
  OBVIOUS
<1>0. TypeOK /\ TypeOK' /\ N \in Nat
  BY TypeNext, CuratorAssumption DEF IInv
<1> SUFFICES (NotYetStarted /\ Stopping /\ Owed /\ Started)'
  BY <1>0 DEF IInv
<1> USE <1>0 DEF IInv, TypeOK, trigger, run, Trigger,
                 NotYetStarted, Stopping, Owed, Started
<1>1. CASE UNCHANGED vars
  BY <1>1 DEF vars
<1>2. CASE StartTrigger
  <2> USE <1>2 DEF StartTrigger, Plan
  <2>1. NotYetStarted'
    OBVIOUS
  <2>2. Stopping'
    OBVIOUS
  <2>3. Owed'
    OBVIOUS
  <2>4. Started'
    OBVIOUS
  <2> QED BY <2>1, <2>2, <2>3, <2>4
<1>3. CASE Wait \/ Signal \/ Leave
  BY <1>3 DEF Wait, Signal, Leave
<1>4. ASSUME NEW t \in Trigger, Tick(t)
      PROVE (NotYetStarted /\ Stopping /\ Owed /\ Started)'
  BY <1>4 DEF Tick
<1>5. ASSUME NEW t \in Trigger, Send(t)
      PROVE (NotYetStarted /\ Stopping /\ Owed /\ Started)'
  BY <1>5 DEF Send
<1>6. ASSUME NEW t \in Trigger, StopCron(t) \/ CloseEvents(t)
      PROVE (NotYetStarted /\ Stopping /\ Owed /\ Started)'
  <2>1. CASE StopCron(t)
    BY <2>1 DEF StopCron
  <2>2. CASE CloseEvents(t)
    <3> USE <2>2 DEF CloseEvents
    <3>1. NotYetStarted'
      OBVIOUS
    <3>2. Stopping'
      OBVIOUS
    <3>3. Owed' /\ Started'
      OBVIOUS
    <3> QED BY <3>1, <3>2, <3>3
  <2> QED BY <1>6, <2>1, <2>2
<1>7. ASSUME NEW t \in Trigger, Receive(t)
      PROVE (NotYetStarted /\ Stopping /\ Owed /\ Started)'
  BY <1>7 DEF Receive
<1>8. ASSUME NEW t \in Trigger, StopListening(t)
      PROVE (NotYetStarted /\ Stopping /\ Owed /\ Started)'
  BY <1>8 DEF StopListening, Selecting, Alive
<1>9. ASSUME NEW t \in Trigger, NextStage(t) \/ RunEnds(t)
      PROVE (NotYetStarted /\ Stopping /\ Owed /\ Started)'
  <2>1. UNCHANGED <<plan, main, next, ctxDone, cron, jobs, events, closed,
                    listener, due>>
    BY <1>9 DEF NextStage, RunEnds
  <2>2. NotYetStarted' /\ Stopping'
    BY <2>1
  <2>3. Owed' /\ Started'
    BY <2>1
  <2> QED BY <2>2, <2>3
<1> QED
  BY <1>1, <1>2, <1>3, <1>4, <1>5, <1>6, <1>7, <1>8, <1>9
     DEF Next, Main, Cron, Listen

(***************************************************************************)
(* No job of any trigger ever sends on a closed channel: Stop waits for    *)
(* the jobs, and none is started behind its back.                          *)
(***************************************************************************)
THEOREM NeverSendsOnClosed == Spec => []NoSendOnClosed
<1>1. IInv => NoSendOnClosed
  BY DEF IInv, Stopping, NoSendOnClosed
<1> QED BY <1>1, InvInit, InvNext, PTL DEF Spec

(***************************************************************************)
(* However many ticks meet however long runs, a tick that no run has       *)
(* followed yet leaves a job or an event that will start one, and, unless  *)
(* the process is stopping, a listener to receive it.                      *)
(***************************************************************************)
THEOREM TicksAreKept == Spec => []NoTickForgotten
<1>1. IInv => NoTickForgotten
  BY DEF IInv, TypeOK, Owed, Stopping, NoTickForgotten
<1> QED BY <1>1, InvInit, InvNext, PTL DEF Spec

(***************************************************************************)
(* A process that has come through its start has scheduled every trigger   *)
(* that was built, whatever their number.                                  *)
(***************************************************************************)
THEOREM StartIsWhole == Spec => []AllScheduled
<1>1. IInv => AllScheduled
  BY CuratorAssumption DEF IInv, TypeOK, Plan, Trigger, Started, AllScheduled
<1> QED BY <1>1, InvInit, InvNext, PTL DEF Spec
=============================================================================
