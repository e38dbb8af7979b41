------------------------------- MODULE Runner -------------------------------
(***************************************************************************)
(* RunOnce of internal/runner/runner.go: one execution of a flow, from the *)
(* sources to the outputs, with the per-processor snapshot and restore of  *)
(* internal/runner/snapshot.                                               *)
(*                                                                         *)
(* A Caller is a goroutine that calls RunOnce (a listener of a trigger, or *)
(* the -run-once loop of cmd/curator): it is in at most one run at a time, *)
(* while the runs of different callers interleave.  What a processor does  *)
(* to the posts is left open within its contract; what the runner does     *)
(* around it is not.  Snapshot files outlive the runs and the process.     *)
(***************************************************************************)
EXTENDS Naturals, Sequences, FlowDefs

CONSTANTS
  Caller,        \* goroutines calling RunOnce
  Post,          \* the posts a source may return
  Setups,        \* which flow each caller may run, a subset of [Caller -> FlowDef]
  InitialFiles,  \* what a file may hold when the process starts
  AllowPartial,  \* runner.Config.AllowPartialSourceErrors
  MaxRuns,       \* bound on the runs of a caller
  Missing, Empty, Garbled  \* no file; truncated; not a JSON document

\* A run summary is identified with the posts it was written about.
Summary == [of : SUBSET Post]
Blocks == {Nil} \cup SUBSET Post
Snapshot == [blocks : Blocks, summary : {Nil} \cup Summary]
Unreadable == {Missing, Empty, Garbled}

ASSUME RunnerAssumption ==
  /\ Setups \subseteq [Caller -> FlowDef]
  /\ InitialFiles \subseteq {Missing} \cup Snapshot
  /\ AllowPartial \in BOOLEAN
  /\ MaxRuns \in Nat
  /\ \A b \in SUBSET Post : b # Nil
  /\ \A r \in Summary : r # Nil
  /\ \A f \in Snapshot : f \notin Unreadable
  /\ Missing \notin {Empty, Garbled} /\ Empty # Garbled

VARIABLES
  flow,     \* the flow each caller runs; constant within a process
  status,   \* core.Run.Status, "idle" before the first run
  stage, pos, pc,  \* where RunOnce is: stage, index in its slice, step
  blocks, summary, \* RunOnce's local blocks and runSummary
  disk,     \* contents of the snapshot files
  begun,    \* how many runs each caller has started
  trail,    \* history of the current run: what ran or was loaded, in order
  expected  \* history: what the last undisturbed save of a file wrote, or Nil

vars == <<flow, status, stage, pos, pc, blocks, summary, disk, begun, trail,
          expected>>
files == <<disk, expected>>
data == <<blocks, summary, trail>>

AsSet(b) == IF b = Nil THEN {} ELSE b
Restores(p) == p.kind # "absent" /\ p.mode = "restore"
FirstRestore(ps, i) == Restores(ps[i]) /\ \A j \in 1 .. i-1 : ~Restores(ps[j])

Procs(c) == flow[c][stage[c]]
Current(c) == Procs(c)[pos[c]]

Init ==
  /\ flow \in Setups
  /\ status = [c \in Caller |-> "idle"]
  /\ stage = [c \in Caller |-> Source]
  /\ pos = [c \in Caller |-> 1]
  /\ pc = [c \in Caller |-> "enter"]
  /\ blocks = [c \in Caller |-> {}]
  /\ summary = [c \in Caller |-> Nil]
  /\ disk \in [Path -> InitialFiles]
  /\ begun = [c \in Caller |-> 0]
  /\ trail = [c \in Caller |-> <<>>]
  /\ expected = disk

-----------------------------------------------------------------------------
Goto(c, s, i, l) ==
  /\ stage' = [stage EXCEPT ![c] = s]
  /\ pos' = [pos EXCEPT ![c] = i]
  /\ pc' = [pc EXCEPT ![c] = l]
  /\ UNCHANGED status

End(c, outcome) ==
  /\ status' = [status EXCEPT ![c] = outcome]
  /\ UNCHANGED <<stage, pos, pc>>

\* To be used after blocks' and summary' are determined.
Record(c, i, act, read) ==
  trail' = [trail EXCEPT ![c] = Append(@,
    [stage |-> stage[c], proc |-> i, act |-> act, read |-> read,
     blocks |-> blocks'[c], summary |-> summary'[c]])]

\* RunOnce is called: a fresh run with no blocks and no summary.
Begin(c) ==
  /\ status[c] # "running" /\ begun[c] < MaxRuns
  /\ begun' = [begun EXCEPT ![c] = @ + 1]
  /\ status' = [status EXCEPT ![c] = "running"]
  /\ stage' = [stage EXCEPT ![c] = Source]
  /\ pos' = [pos EXCEPT ![c] = 1]
  /\ pc' = [pc EXCEPT ![c] = "enter"]
  /\ blocks' = [blocks EXCEPT ![c] = {}]
  /\ summary' = [summary EXCEPT ![c] = Nil]
  /\ trail' = [trail EXCEPT ![c] = <<>>]
  /\ UNCHANGED <<flow, disk, expected>>

\* Operators named Wrong... are variants of the definition that follows them
\* with a plausible mistake; no specification uses them, they show that a
\* property notices.
WrongLoadedBlocks(c, f) == AsSet(blocks[c]) \cup AsSet(f.blocks)

\* What the run holds once it has loaded snapshot f.  A late stage keeps its
\* blocks when the file has none; only the run-summary stage takes a nil
\* summary over.
LoadedBlocks(c, f) ==
  IF stage[c] \in {RunSummary, Output} /\ f.blocks = Nil
  THEN blocks[c] ELSE f.blocks
LoadedSummary(c, f) ==
  IF stage[c] # RunSummary /\ f.summary = Nil THEN summary[c] ELSE f.summary

\* snapshot.Load for the i-th processor of the stage, with the loop going on
\* at its n-th; an unreadable file fails the run.
LoadThen(c, i, n) ==
  LET f == disk[Procs(c)[i].path] IN
  \/ /\ f \notin Unreadable
     /\ blocks' = [blocks EXCEPT ![c] = LoadedBlocks(c, f)]
     /\ summary' = [summary EXCEPT ![c] = LoadedSummary(c, f)]
     /\ Record(c, i, "loaded", f)
     /\ Goto(c, stage[c], n, "proc")
  \/ /\ f \in Unreadable
     /\ End(c, "failed")
     /\ UNCHANGED data

WrongLoadSame(c, i) == LoadThen(c, i, i)
WrongLoadNext(c, i) == LoadThen(c, i, i + 2)
Load(c, i) == LoadThen(c, i, i + 1)

\* A stage starts at its first processor, or behind the first one that
\* restores: the processors up to and including that one do not run.
EnterStage(c) ==
  /\ status[c] = "running" /\ pc[c] = "enter"
  /\ \/ /\ \A i \in DOMAIN Procs(c) : ~Restores(Procs(c)[i])
        /\ Goto(c, stage[c], 1, "proc")
        /\ UNCHANGED data
     \/ \E i \in DOMAIN Procs(c) : FirstRestore(Procs(c), i) /\ Load(c, i)
  /\ UNCHANGED <<flow, begun, files>>

AtProcessor(c) ==
  /\ status[c] = "running" /\ pc[c] = "proc"
  /\ pos[c] \in DOMAIN Procs(c)

\* "continue" without moving on.
WrongSkipAbsent(c) ==
  /\ AtProcessor(c) /\ Current(c).kind = "absent"
  /\ Goto(c, stage[c], pos[c], "proc")
  /\ UNCHANGED <<flow, begun, files, data>>

SkipAbsent(c) ==
  /\ AtProcessor(c) /\ Current(c).kind = "absent"
  /\ Goto(c, stage[c], pos[c] + 1, "proc")
  /\ UNCHANGED <<flow, begun, files, data>>

RestoreLater(c) ==
  /\ AtProcessor(c) /\ Restores(Current(c))
  /\ Load(c, pos[c])
  /\ UNCHANGED <<flow, begun, files>>

Ready(c, s) ==
  /\ AtProcessor(c) /\ stage[c] = s
  /\ Current(c).kind # "absent" /\ ~Restores(Current(c))

\* The processor returned: save its snapshot if it has one, else go on.
Succeed(c) ==
  /\ Record(c, pos[c], "ran", Nil)
  /\ IF Current(c).mode = "snapshot"
     THEN Goto(c, stage[c], pos[c], "create")
     ELSE Goto(c, stage[c], pos[c] + 1, "proc")

FetchSource(c) ==
  /\ Ready(c, Source)
  /\ \/ /\ \E fetched \in SUBSET Post :
             blocks' = [blocks EXCEPT ![c] =
                          IF fetched = {} THEN @ ELSE AsSet(@) \cup fetched]
        /\ UNCHANGED summary
        /\ Succeed(c)
     \/ /\ IF AllowPartial THEN Goto(c, stage[c], pos[c] + 1, "proc")
                           ELSE End(c, "failed")
        /\ UNCHANGED data
  /\ UNCHANGED <<flow, begun, files>>

\* Evaluate returns those of its blocks that pass, in a new slice.
EvaluateQuality(c) ==
  /\ Ready(c, Quality)
  /\ \/ /\ \E kept \in SUBSET AsSet(blocks[c]) :
             blocks' = [blocks EXCEPT ![c] = kept]
        /\ UNCHANGED summary
        /\ Succeed(c)
     \/ End(c, "failed") /\ UNCHANGED data
  /\ UNCHANGED <<flow, begun, files>>

\* Summarize returns its argument, or the blocks block_error_policy kept.
SummarizePosts(c) ==
  /\ Ready(c, PostSummary)
  /\ \/ /\ \E kept \in (SUBSET AsSet(blocks[c])) \cup {blocks[c]} :
             blocks' = [blocks EXCEPT ![c] = kept]
        /\ UNCHANGED summary
        /\ Succeed(c)
     \/ End(c, "failed") /\ UNCHANGED data
  /\ UNCHANGED <<flow, begun, files>>

\* An existing summary, a restored one for instance, is kept.
WrongSummarizeRun(c) ==
  /\ Ready(c, RunSummary)
  /\ summary' = [summary EXCEPT ![c] =
                   IF @ = Nil THEN [of |-> AsSet(blocks[c])] ELSE @]
  /\ UNCHANGED <<blocks, flow, begun, files>>
  /\ Succeed(c)

SummarizeRun(c) ==
  /\ Ready(c, RunSummary)
  /\ \/ /\ \/ /\ Current(c).kind = "plain"
              /\ summary' = [summary EXCEPT ![c] = [of |-> AsSet(blocks[c])]]
           \/ /\ Current(c).kind = "render" /\ summary[c] # Nil
              /\ UNCHANGED summary
        /\ UNCHANGED blocks
        /\ Succeed(c)
     \/ End(c, "failed") /\ UNCHANGED data
  /\ UNCHANGED <<flow, begun, files>>

Deliver(c) ==
  /\ Ready(c, Output)
  /\ \/ UNCHANGED <<blocks, summary>> /\ Succeed(c)
     \/ End(c, "failed") /\ UNCHANGED data
  /\ UNCHANGED <<flow, begun, files>>

-----------------------------------------------------------------------------
Payload(c) == [blocks |-> blocks[c], summary |-> summary[c]]

Writers(p) ==
  {c \in Caller : status[c] = "running" /\ pc[c] = "write"
                  /\ Current(c).path = p}

\* snapshot.Save, first half: the directory is made and os.WriteFile opens
\* the file, which truncates it.
SaveCreate(c) ==
  /\ status[c] = "running" /\ pc[c] = "create"
  /\ LET p == Current(c).path IN
     \/ /\ disk' = [disk EXCEPT ![p] = Empty]
        /\ expected' = [expected EXCEPT ![p] =
                          IF Writers(p) = {} THEN Payload(c) ELSE Nil]
        /\ Goto(c, stage[c], pos[c], "write")
     \/ End(c, "failed") /\ UNCHANGED files
  /\ UNCHANGED <<flow, begun, data>>

\* The error of the write is not looked at.
WrongSaveWrite(c) ==
  /\ status[c] = "running" /\ pc[c] = "write"
  /\ LET p == Current(c).path IN
     disk' \in {[disk EXCEPT ![p] = f] : f \in {Payload(c), Garbled}}
  /\ Goto(c, stage[c], pos[c] + 1, "proc")
  /\ UNCHANGED <<flow, begun, data, expected>>

\* Second half: the content is written from offset 0 and the file closed.
\* Over the longer content of another writer it leaves that one's tail.
SaveWrite(c) ==
  /\ status[c] = "running" /\ pc[c] = "write"
  /\ LET p == Current(c).path IN
     \/ /\ \/ disk' = [disk EXCEPT ![p] = Payload(c)]
           \/ disk[p] # Empty /\ disk' = [disk EXCEPT ![p] = Garbled]
        /\ UNCHANGED expected
        /\ Goto(c, stage[c], pos[c] + 1, "proc")
     \/ /\ disk' \in {disk, [disk EXCEPT ![p] = Garbled]}
        /\ expected' = [expected EXCEPT ![p] = Nil]
        /\ End(c, "failed")
  /\ UNCHANGED <<flow, begun, data>>

WrongRunOverNever(c) == FALSE
WrongRunOverEarly(c) == stage[c] = Output \/ AsSet(blocks[c]) = {}

\* Behind the sources, the quality and the run-summary stage a run without
\* blocks is completed early.
RunOver(c) ==
  \/ stage[c] = Output
  \/ stage[c] \in {Source, Quality, RunSummary} /\ AsSet(blocks[c]) = {}

\* The end of a stage's loop.
LeaveStage(c) ==
  /\ status[c] = "running" /\ pc[c] = "proc"
  /\ pos[c] \notin DOMAIN Procs(c)
  /\ IF RunOver(c) THEN End(c, "completed") ELSE Goto(c, stage[c] + 1, 1, "enter")
  /\ UNCHANGED <<flow, begun, files, data>>

\* The process dies with its runs, or is stopped, and is started again,
\* possibly on edited documents; the files stay as they are.
Restart ==
  /\ status' = [c \in Caller |-> "idle"]
  /\ flow' \in Setups
  /\ trail' = [c \in Caller |-> <<>>]
  /\ expected' = [p \in Path |-> IF Writers(p) = {} THEN expected[p] ELSE Nil]
  /\ UNCHANGED <<stage, pos, pc, blocks, summary, disk, begun>>

Step(c) ==
  \/ EnterStage(c) \/ SkipAbsent(c) \/ RestoreLater(c)
  \/ FetchSource(c) \/ EvaluateQuality(c) \/ SummarizePosts(c)
  \/ SummarizeRun(c) \/ Deliver(c)
  \/ SaveCreate(c) \/ SaveWrite(c) \/ LeaveStage(c)

Next == (\E c \in Caller : Begin(c) \/ Step(c)) \/ Restart

Spec == Init /\ [][Next]_vars

\* Goroutines are scheduled, and processors return: fetchers have timeouts,
\* LLM and mail services are assumed to answer.  Nothing makes a trigger fire,
\* so Begin is not fair.
FairSpec == Spec /\ \A c \in Caller : WF_vars(Step(c))
=============================================================================
