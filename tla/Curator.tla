------------------------------- MODULE Curator ------------------------------
(***************************************************************************)
(* The scheduled process of cmd/curator: main starts the triggers of its   *)
(* flows one after the other (Runner.Start); each cron trigger             *)
(* (internal/processors/trigger) has a scheduler, the jobs that send its   *)
(* ticks on a channel of capacity 1, a goroutine that stops it when the    *)
(* context is done, and a listener (Runner.listen) that calls RunOnce for  *)
(* each tick it receives.  Runs are those of module RunLife.               *)
(***************************************************************************)
EXTENDS Naturals, Sequences

CONSTANTS
  N,        \* the number of triggers of all flows
  Plans,    \* which of them can be started, a subset of Plan
  MaxTicks  \* bound on the times the schedule of a trigger comes due

\* In the order in which main starts them.
Trigger == 1 .. N

\* "absent" is a nil trigger; Start fails on a schedule cron rejects ("bad").
Plan == [Trigger -> {"ok", "bad", "absent"}]

ASSUME CuratorAssumption ==
  /\ N \in Nat
  /\ Plans \subseteq Plan
  /\ MaxTicks \in Nat

VARIABLES
  plan,
  main,      \* where main is; the process lives until "exited" or "panicked"
  next,      \* the trigger main starts next
  ctxDone,   \* the signal context is cancelled
  cron,      \* "off", "on", "stopping" (cron.Stop was called), "stopped"
  jobs,      \* cron jobs of a trigger that have not sent yet
  events,    \* number of events in the trigger's channel
  closed,    \* the channel is closed
  listener,  \* "none", "on", "gone"
  status, stage,  \* the run of a trigger's listener, as in RunLife
  ticks,     \* how often the schedule has come due
  due        \* history: it has come due and no run has begun since

vars == <<plan, main, next, ctxDone, cron, jobs, events, closed, listener,
          status, stage, ticks, due>>
trigger == <<cron, jobs, events, closed, ticks>>
run == <<status, stage>>

Run == INSTANCE RunLife WITH Caller <- Trigger

Alive == main \in {"starting", "waiting", "sleeping"}

Init ==
  /\ plan \in Plans
  /\ main = "starting" /\ next = 1
  /\ ctxDone = FALSE
  /\ cron = [t \in Trigger |-> "off"]
  /\ jobs = [t \in Trigger |-> 0]
  /\ events = [t \in Trigger |-> 0]
  /\ closed = [t \in Trigger |-> FALSE]
  /\ listener = [t \in Trigger |-> "none"]
  /\ Run!Init
  /\ ticks = [t \in Trigger |-> 0]
  /\ due = [t \in Trigger |-> FALSE]

-----------------------------------------------------------------------------
(* main *)

\* A trigger that cannot be started is left out and the others go on.
WrongStartTrigger ==
  /\ main = "starting" /\ next \in Trigger
  /\ next' = next + 1
  /\ IF plan[next] = "ok"
     THEN /\ cron' = [cron EXCEPT ![next] = "on"]
          /\ listener' = [listener EXCEPT ![next] = "on"]
     ELSE UNCHANGED <<cron, listener>>
  /\ UNCHANGED <<plan, main, ctxDone, jobs, events, closed, run, ticks, due>>

\* A nil trigger is skipped; log.Panicf ends the process, whatever already
\* runs in it.
StartTrigger ==
  /\ main = "starting" /\ next \in Trigger
  /\ next' = next + 1
  /\ IF plan[next] = "ok"
     THEN /\ cron' = [cron EXCEPT ![next] = "on"]
          /\ listener' = [listener EXCEPT ![next] = "on"]
     ELSE UNCHANGED <<cron, listener>>
  /\ main' = IF plan[next] = "bad" THEN "panicked" ELSE main
  /\ UNCHANGED <<plan, ctxDone, jobs, events, closed, run, ticks, due>>

Wait ==
  /\ main = "starting" /\ next \notin Trigger
  /\ main' = "waiting"
  /\ UNCHANGED <<plan, next, ctxDone, trigger, listener, run, due>>

\* SIGINT or SIGTERM; once signal.NotifyContext is in place it only cancels.
Signal ==
  /\ Alive /\ ~ctxDone
  /\ ctxDone' = TRUE
  /\ UNCHANGED <<plan, main, next, trigger, listener, run, due>>

\* <-ctx.Done(), the 200 ms of grace, and the end of the process.
Leave ==
  /\ \/ main = "waiting" /\ ctxDone /\ main' = "sleeping"
     \/ main = "sleeping" /\ main' = "exited"
  /\ UNCHANGED <<plan, next, ctxDone, trigger, listener, run, due>>

-----------------------------------------------------------------------------
(* CronProcessor *)

\* The schedule comes due: cron runs the job in a goroutine of its own.
Tick(t) ==
  /\ Alive /\ cron[t] = "on" /\ ticks[t] < MaxTicks
  /\ ticks' = [ticks EXCEPT ![t] = @ + 1]
  /\ jobs' = [jobs EXCEPT ![t] = @ + 1]
  /\ due' = [due EXCEPT ![t] = TRUE]
  /\ UNCHANGED <<plan, main, next, ctxDone, cron, events, closed, listener, run>>

\* The channel has no buffer: a tick finds a waiting listener or is dropped.
WrongSend(t) ==
  /\ Alive /\ jobs[t] > 0
  /\ jobs' = [jobs EXCEPT ![t] = @ - 1]
  /\ events' = IF listener[t] = "on" /\ status[t] # "running"
               THEN [events EXCEPT ![t] = 1] ELSE events
  /\ UNCHANGED <<plan, main, next, ctxDone, cron, closed, listener, run, ticks,
                 due>>

\* The channel takes more than one event.
WrongSendDeep(t) ==
  /\ Alive /\ jobs[t] > 0
  /\ jobs' = [jobs EXCEPT ![t] = @ - 1]
  /\ events' = [events EXCEPT ![t] = @ + 1]
  /\ UNCHANGED <<plan, main, next, ctxDone, cron, closed, listener, run, ticks,
                 due>>

\* select { case c.events <- event: default: }; on a closed channel it panics.
Send(t) ==
  /\ Alive /\ jobs[t] > 0
  /\ jobs' = [jobs EXCEPT ![t] = @ - 1]
  /\ IF closed[t]
     THEN main' = "panicked" /\ UNCHANGED events
     ELSE events' = [events EXCEPT ![t] = 1] /\ UNCHANGED main
  /\ UNCHANGED <<plan, next, ctxDone, cron, closed, listener, run, ticks, due>>

\* <-ctx.Done(), then c.cron.Stop(): no job is started any more.
StopCron(t) ==
  /\ Alive /\ ctxDone /\ cron[t] = "on"
  /\ cron' = [cron EXCEPT ![t] = "stopping"]
  /\ UNCHANGED <<plan, main, next, ctxDone, jobs, events, closed, listener, run,
                 ticks, due>>

\* The context that cron.Stop() returns is not waited for.
WrongCloseEvents(t) ==
  /\ Alive /\ cron[t] = "stopping"
  /\ cron' = [cron EXCEPT ![t] = "stopped"]
  /\ closed' = [closed EXCEPT ![t] = TRUE]
  /\ UNCHANGED <<plan, main, next, ctxDone, jobs, events, listener, run, ticks,
                 due>>

\* The jobs under way are waited for, then the channel is closed.
CloseEvents(t) ==
  /\ Alive /\ cron[t] = "stopping" /\ jobs[t] = 0
  /\ cron' = [cron EXCEPT ![t] = "stopped"]
  /\ closed' = [closed EXCEPT ![t] = TRUE]
  /\ UNCHANGED <<plan, main, next, ctxDone, jobs, events, listener, run, ticks,
                 due>>

-----------------------------------------------------------------------------
(* Runner.listen, and RunOnce in it *)

Selecting(t) == Alive /\ listener[t] = "on" /\ status[t] # "running"

\* Chosen also when the context is done as well, and from a closed channel
\* as long as an event is left in it.
Receive(t) ==
  /\ Selecting(t) /\ events[t] > 0
  /\ events' = [events EXCEPT ![t] = @ - 1]
  /\ Run!Begin(t)
  /\ due' = [due EXCEPT ![t] = FALSE]
  /\ UNCHANGED <<plan, main, next, ctxDone, cron, jobs, closed, listener, ticks>>

StopListening(t) ==
  /\ Selecting(t)
  /\ ctxDone \/ (closed[t] /\ events[t] = 0)
  /\ listener' = [listener EXCEPT ![t] = "gone"]
  /\ UNCHANGED <<plan, main, next, ctxDone, trigger, run, due>>

\* RunOnce does not look at the context between its stages.
NextStage(t) ==
  /\ Alive /\ Run!Advance(t)
  /\ UNCHANGED <<plan, main, next, ctxDone, trigger, listener, due>>

\* A failed run ends the listener.
WrongRunEnds(t) ==
  /\ Alive
  /\ \/ Run!Complete(t) /\ UNCHANGED listener
     \/ Run!Fail(t) /\ listener' = [listener EXCEPT ![t] = "gone"]
  /\ UNCHANGED <<plan, main, next, ctxDone, trigger, due>>

\* A run that failed is logged; the listener goes on.
RunEnds(t) ==
  /\ Alive /\ (Run!Complete(t) \/ Run!Fail(t))
  /\ UNCHANGED <<plan, main, next, ctxDone, trigger, listener, due>>

-----------------------------------------------------------------------------
Main == StartTrigger \/ Wait \/ Leave
Cron(t) == Send(t) \/ StopCron(t) \/ CloseEvents(t)
Listen(t) == Receive(t) \/ StopListening(t) \/ NextStage(t) \/ RunEnds(t)

Next == Main \/ Signal \/ \E t \in Trigger : Tick(t) \/ Cron(t) \/ Listen(t)

Spec == Init /\ [][Next]_vars

\* Goroutines are scheduled and runs end (RunEnds of module Runner); nothing
\* makes the schedule come due or a signal arrive.
FairSpec ==
  Spec /\ WF_vars(Main)
       /\ \A t \in Trigger : WF_vars(Cron(t)) /\ WF_vars(Listen(t))

-----------------------------------------------------------------------------
(* Every variable of the process has its type; no channel exceeds its capacity. *)
TypeOK ==
  /\ plan \in Plan
  /\ main \in {"starting", "waiting", "sleeping", "exited", "panicked"}
  /\ next \in Nat \ {0}
  /\ ctxDone \in BOOLEAN
  /\ cron \in [Trigger -> {"off", "on", "stopping", "stopped"}]
  /\ jobs \in [Trigger -> Nat]
  /\ events \in [Trigger -> {0, 1}]
  /\ closed \in [Trigger -> BOOLEAN]
  /\ listener \in [Trigger -> {"none", "on", "gone"}]
  /\ status \in [Trigger -> {"idle", "running", "completed", "failed"}]
  /\ stage \in [Trigger -> Run!First .. Run!Last]
  /\ ticks \in [Trigger -> Nat]
  /\ due \in [Trigger -> BOOLEAN]

(***************************************************************************)
(* No cron job finds its channel closed: Stop closes it only when the      *)
(* scheduler is stopped and every job under way has sent.  A send on the   *)
(* closed channel would panic and take the runs of all flows with it.      *)
(***************************************************************************)
NoSendOnClosed == \A t \in Trigger : closed[t] => jobs[t] = 0

(***************************************************************************)
(* No tick is forgotten: a tick is dropped only while another one is in    *)
(* the channel, so whenever the schedule has come due after the last run   *)
(* began, there still is a job or an event that will start one; and it     *)
(* has somebody to receive it, unless the process is stopping.             *)
(***************************************************************************)
NoTickForgotten ==
  \A t \in Trigger : due[t] =>
    /\ jobs[t] > 0 \/ events[t] > 0
    /\ Alive /\ ~ctxDone => listener[t] = "on"

(***************************************************************************)
(* A process that waits for ticks has started every trigger of every flow: *)
(* a document whose schedule is rejected stops the start altogether        *)
(* instead of leaving its flow silently unscheduled.                       *)
(***************************************************************************)
AllScheduled ==
  main \in {"waiting", "sleeping", "exited"} =>
    \A t \in Trigger :
      plan[t] # "absent" => cron[t] # "off" /\ listener[t] # "none"

(***************************************************************************)
(* Every tick is answered by a run that begins after it, however many runs *)
(* fail or are under way, unless the process is asked to stop or panics.   *)
(***************************************************************************)
TickServed ==
  \A t \in Trigger : due[t] ~> (~due[t] \/ ctxDone \/ ~Alive)
=============================================================================
