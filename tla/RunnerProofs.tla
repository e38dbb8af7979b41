---------------------------- MODULE RunnerProofs ----------------------------
(***************************************************************************)
(* What TLAPS proves about RunOnce, for every set of callers, posts, files *)
(* and flows.                                                              *)
(***************************************************************************)
EXTENDS RunnerProperties, TLAPS

(* The flow a caller runs is a well-formed one. *)
LEMMA FlowType ==
  ASSUME TypeOK, NEW c \in Caller
  PROVE  /\ flow[c] \in FlowDef
         /\ Procs(c) \in Seq(Processor)
BY RunnerAssumption DEF TypeOK, FlowDef, Procs

(* A slice of posts, nil or not, has a set of posts. *)
LEMMA AsSetType ==
  ASSUME NEW b \in Blocks
  PROVE  AsSet(b) \in SUBSET Post
<1>1. CASE b = Nil
  BY <1>1 DEF AsSet
<1>2. CASE b # Nil
  BY <1>2 DEF AsSet, Blocks
<1> QED
  BY <1>1, <1>2

(* Moving within RunOnce, or ending the run, keeps the control state typed. *)
LEMMA GotoType ==
  ASSUME TypeOK, NEW c \in Caller, NEW s \in Stages, NEW i \in Nat \ {0},
         NEW l \in {"enter", "proc", "create", "write"}, Goto(c, s, i, l)
  PROVE  /\ status' \in [Caller -> {"idle", "running", "completed", "failed"}]
         /\ stage' \in [Caller -> Stages]
         /\ pos' \in [Caller -> Nat \ {0}]
         /\ pc' \in [Caller -> {"enter", "proc", "create", "write"}]
BY DEF TypeOK, Goto

(* The end of a run keeps its variables typed.                           *)
LEMMA EndType ==
  ASSUME TypeOK, NEW c \in Caller, NEW o \in {"completed", "failed"}, End(c, o)
  PROVE  /\ status' \in [Caller -> {"idle", "running", "completed", "failed"}]
         /\ stage' \in [Caller -> Stages]
         /\ pos' \in [Caller -> Nat \ {0}]
         /\ pc' \in [Caller -> {"enter", "proc", "create", "write"}]
BY DEF TypeOK, End

(* Recording an outcome keeps the history typed. *)
LEMMA RecordType ==
  ASSUME TypeOK, NEW c \in Caller, NEW i \in Nat \ {0},
         NEW a \in {"ran", "loaded"}, NEW f \in {Nil} \cup Snapshot,
         blocks' \in [Caller -> Blocks],
         summary' \in [Caller -> {Nil} \cup Summary],
         Record(c, i, a, f)
  PROVE  trail' \in [Caller -> Seq(Entry)]
<1> DEFINE e == [stage |-> stage[c], proc |-> i, act |-> a, read |-> f,
                 blocks |-> blocks'[c], summary |-> summary'[c]]
<1>1. e \in Entry
  BY DEF TypeOK, Entry
<1>2. Append(trail[c], e) \in Seq(Entry)
  BY <1>1 DEF TypeOK
<1> QED
  BY <1>2 DEF TypeOK, Record

(* A processor that returned leaves a typed state. *)
LEMMA SucceedType ==
  ASSUME TypeOK, NEW c \in Caller,
         blocks' \in [Caller -> Blocks],
         summary' \in [Caller -> {Nil} \cup Summary],
         Succeed(c)
  PROVE  /\ status' \in [Caller -> {"idle", "running", "completed", "failed"}]
         /\ stage' \in [Caller -> Stages]
         /\ pos' \in [Caller -> Nat \ {0}]
         /\ pc' \in [Caller -> {"enter", "proc", "create", "write"}]
         /\ trail' \in [Caller -> Seq(Entry)]
<1>1. stage[c] \in Stages /\ pos[c] \in Nat \ {0} /\ pos[c] + 1 \in Nat \ {0}
  BY DEF TypeOK
<1>2. trail' \in [Caller -> Seq(Entry)]
  BY <1>1, RecordType DEF Succeed
<1>3. \/ Goto(c, stage[c], pos[c], "create")
      \/ Goto(c, stage[c], pos[c] + 1, "proc")
  BY DEF Succeed
<1> QED
  BY <1>1, <1>2, <1>3, GotoType

(* Loading a snapshot leaves a typed state. *)
LEMMA LoadType ==
  ASSUME TypeOK, NEW c \in Caller, NEW i \in DOMAIN Procs(c), Load(c, i),
         UNCHANGED <<flow, begun, files>>, Restores(Procs(c)[i])
  PROVE  TypeOK'
<1>1. stage[c] \in Stages /\ i \in Nat \ {0} /\ i + 1 \in Nat \ {0}
  BY FlowType DEF TypeOK
<1> DEFINE f == disk[Procs(c)[i].path]
<1>2. CASE /\ f \notin Unreadable
           /\ blocks' = [blocks EXCEPT ![c] = LoadedBlocks(c, f)]
           /\ summary' = [summary EXCEPT ![c] = LoadedSummary(c, f)]
           /\ Record(c, i, "loaded", f)
           /\ Goto(c, stage[c], i + 1, "proc")
  <2>1. Procs(c)[i].path \in Path
    BY FlowType DEF Restores, Processor
  <2>2. f \in Snapshot
    BY <1>2, <2>1 DEF TypeOK
  <2>3. blocks' \in [Caller -> Blocks]
    BY <1>2, <2>2 DEF TypeOK, LoadedBlocks, Snapshot
  <2>4. summary' \in [Caller -> {Nil} \cup Summary]
    BY <1>2, <2>2 DEF TypeOK, LoadedSummary, Snapshot
  <2>5. trail' \in [Caller -> Seq(Entry)]
    BY <1>1, <1>2, <2>2, <2>3, <2>4, RecordType
  <2> QED
    BY <1>1, <1>2, <2>3, <2>4, <2>5, GotoType DEF TypeOK, files
<1>3. CASE f \in Unreadable /\ End(c, "failed") /\ UNCHANGED data
  BY <1>3, EndType DEF TypeOK, files, data
<1> QED
  BY <1>2, <1>3 DEF Load, LoadThen

(* The runner starts with typed variables.                               *)
LEMMA TypeInit == Init => TypeOK
<1> SUFFICES ASSUME Init PROVE TypeOK
  OBVIOUS
<1>1. disk \in [Path -> Unreadable \cup Snapshot]
  BY RunnerAssumption DEF Init, Unreadable
<1>2. trail \in [Caller -> Seq(Entry)]
  BY DEF Init
<1> QED
  BY <1>1, <1>2 DEF Init, TypeOK, Stages, Source, Output, Blocks

(* No step of a run, and no write of a file, leaves the types.           *)
LEMMA TypeNext == TypeOK /\ [Next]_vars => TypeOK'
<1> SUFFICES ASSUME TypeOK, [Next]_vars PROVE TypeOK'
  OBVIOUS
<1>1. ASSUME NEW c \in Caller, Begin(c) PROVE TypeOK'
  BY <1>1 DEF TypeOK, Begin, Stages, Source, Output, Blocks
<1>2. ASSUME NEW c \in Caller, Step(c) PROVE TypeOK'
  <2>0. /\ stage[c] \in Stages /\ pos[c] \in Nat \ {0} /\ pos[c] + 1 \in Nat \ {0}
        /\ 1 \in Nat \ {0}
    BY DEF TypeOK
  <2>1. CASE EnterStage(c)
    <3>1. CASE Goto(c, stage[c], 1, "proc") /\ UNCHANGED data
      BY <2>0, <2>1, <3>1, GotoType DEF EnterStage, TypeOK, files, data
    <3>2. CASE \E i \in DOMAIN Procs(c) : FirstRestore(Procs(c), i) /\ Load(c, i)
      BY <2>1, <3>2, LoadType DEF EnterStage, FirstRestore
    <3> QED
      BY <2>1, <3>1, <3>2 DEF EnterStage
  <2>2. CASE SkipAbsent(c)
    BY <2>0, <2>2, GotoType DEF SkipAbsent, TypeOK, files, data
  <2>3. CASE RestoreLater(c)
    BY <2>3, LoadType DEF RestoreLater, AtProcessor, Current
  <2>4. CASE FetchSource(c)
    <3>1. CASE End(c, "failed") /\ UNCHANGED data
      BY <2>4, <3>1, EndType DEF FetchSource, TypeOK, files, data
    <3>2. CASE Goto(c, stage[c], pos[c] + 1, "proc") /\ UNCHANGED data
      BY <2>0, <2>4, <3>2, GotoType DEF FetchSource, TypeOK, files, data
    <3>3. ASSUME NEW fetched \in SUBSET Post, Succeed(c), UNCHANGED summary,
                 blocks' = [blocks EXCEPT ![c] =
                     IF fetched = {} THEN @ ELSE AsSet(@) \cup fetched]
          PROVE  TypeOK'
      <4>1. blocks' \in [Caller -> Blocks]
        BY <3>3 DEF TypeOK, Blocks, AsSet
      <4>2. summary' \in [Caller -> {Nil} \cup Summary]
        BY <3>3 DEF TypeOK
      <4> QED
        BY <2>4, <3>3, <4>1, <4>2, SucceedType DEF FetchSource, TypeOK, files
    <3> QED
      BY <2>4, <3>1, <3>2, <3>3 DEF FetchSource
  <2>5. CASE EvaluateQuality(c)
    <3>1. CASE End(c, "failed") /\ UNCHANGED data
      BY <2>5, <3>1, EndType DEF EvaluateQuality, TypeOK, files, data
    <3>2. ASSUME NEW kept \in SUBSET AsSet(blocks[c]), Succeed(c),
                 UNCHANGED summary, blocks' = [blocks EXCEPT ![c] = kept]
          PROVE  TypeOK'
      <4>1. blocks' \in [Caller -> Blocks]
        BY <3>2 DEF TypeOK, Blocks, AsSet
      <4>2. summary' \in [Caller -> {Nil} \cup Summary]
        BY <3>2 DEF TypeOK
      <4> QED
        BY <2>5, <3>2, <4>1, <4>2, SucceedType DEF EvaluateQuality, TypeOK, files
    <3> QED
      BY <2>5, <3>1, <3>2 DEF EvaluateQuality
  <2>6. CASE SummarizePosts(c)
    <3>1. CASE End(c, "failed") /\ UNCHANGED data
      BY <2>6, <3>1, EndType DEF SummarizePosts, TypeOK, files, data
    <3>2. ASSUME NEW kept \in (SUBSET AsSet(blocks[c])) \cup {blocks[c]}, Succeed(c),
                 UNCHANGED summary, blocks' = [blocks EXCEPT ![c] = kept]
          PROVE  TypeOK'
      <4>0. kept \in Blocks
        BY AsSetType DEF TypeOK, Blocks
      <4>1. blocks' \in [Caller -> Blocks]
        BY <3>2, <4>0 DEF TypeOK
      <4>2. summary' \in [Caller -> {Nil} \cup Summary]
        BY <3>2 DEF TypeOK
      <4> QED
        BY <2>6, <3>2, <4>1, <4>2, SucceedType DEF SummarizePosts, TypeOK, files
    <3> QED
      BY <2>6, <3>1, <3>2 DEF SummarizePosts
  <2>7. CASE SummarizeRun(c)
    <3>1. CASE End(c, "failed") /\ UNCHANGED data
      BY <2>7, <3>1, EndType DEF SummarizeRun, TypeOK, files, data
    <3>2. CASE /\ Succeed(c) /\ UNCHANGED blocks
               /\ \/ summary' = [summary EXCEPT ![c] = [of |-> AsSet(blocks[c])]]
                  \/ UNCHANGED summary
      <4>1. blocks' \in [Caller -> Blocks]
        BY <3>2 DEF TypeOK
      <4>2. [of |-> AsSet(blocks[c])] \in Summary
        BY AsSetType DEF TypeOK, Summary
      <4>3. summary' \in [Caller -> {Nil} \cup Summary]
        BY <3>2, <4>2 DEF TypeOK
      <4> QED
        BY <2>7, <3>2, <4>1, <4>3, SucceedType DEF SummarizeRun, TypeOK, files
    <3> QED
      BY <2>7, <3>1, <3>2 DEF SummarizeRun
  <2>8. CASE Deliver(c)
    <3>1. CASE End(c, "failed") /\ UNCHANGED data
      BY <2>8, <3>1, EndType DEF Deliver, TypeOK, files, data
    <3>2. CASE UNCHANGED <<blocks, summary>> /\ Succeed(c)
      BY <2>8, <3>2, SucceedType DEF Deliver, TypeOK, files
    <3> QED
      BY <2>8, <3>1, <3>2 DEF Deliver
  <2>p. Payload(c) \in Snapshot
    BY DEF TypeOK, Payload, Snapshot
  <2>9. CASE SaveCreate(c)
    <3>1. CASE End(c, "failed") /\ UNCHANGED files
      BY <2>9, <3>1, EndType DEF SaveCreate, TypeOK, files, data
    <3>2. CASE /\ disk' = [disk EXCEPT ![Current(c).path] = Empty]
               /\ expected' = [expected EXCEPT ![Current(c).path] =
                     IF Writers(Current(c).path) = {} THEN Payload(c) ELSE Nil]
               /\ Goto(c, stage[c], pos[c], "write")
      BY <2>0, <2>9, <2>p, <3>2, GotoType
      DEF SaveCreate, TypeOK, files, data, Unreadable
    <3> QED
      BY <2>9, <3>1, <3>2 DEF SaveCreate
  <2>10. CASE SaveWrite(c)
    <3>1. disk' \in [Path -> Unreadable \cup Snapshot]
      BY <2>10, <2>p DEF SaveWrite, TypeOK, Unreadable
    <3>2. expected' \in [Path -> {Nil} \cup Unreadable \cup Snapshot]
      BY <2>10 DEF SaveWrite, TypeOK
    <3>3. CASE Goto(c, stage[c], pos[c] + 1, "proc")
      BY <2>0, <2>10, <3>1, <3>2, <3>3, GotoType DEF SaveWrite, TypeOK, data
    <3>4. CASE End(c, "failed")
      BY <2>10, <3>1, <3>2, <3>4, EndType DEF SaveWrite, TypeOK, data
    <3> QED
      BY <2>10, <3>3, <3>4 DEF SaveWrite
  <2>11. CASE LeaveStage(c)
    <3>1. CASE RunOver(c)
      BY <2>11, <3>1, EndType DEF LeaveStage, TypeOK, files, data
    <3>2. CASE ~RunOver(c)
      <4>1. stage[c] + 1 \in Stages
        BY <2>0, <3>2 DEF RunOver, Stages, Source, Output
      <4> QED
        BY <2>0, <2>11, <3>2, <4>1, GotoType DEF LeaveStage, TypeOK, files, data
    <3> QED
      BY <3>1, <3>2
  <2> QED
    BY <1>2, <2>1, <2>2, <2>3, <2>4, <2>5, <2>6, <2>7, <2>8, <2>9, <2>10, <2>11
    DEF Step
<1>3. CASE Restart
  <2>1. trail' \in [Caller -> Seq(Entry)]
    BY <1>3 DEF Restart
  <2> QED
    BY <1>3, <2>1 DEF Restart, TypeOK
<1>4. CASE UNCHANGED vars
  BY <1>4 DEF vars, TypeOK
<1> QED
  BY <1>1, <1>2, <1>3, <1>4 DEF Next

(***************************************************************************)
(* The state of every run, and every snapshot file, is well typed: RunOnce *)
(* never leaves the five stages and never saves or loads anything but a    *)
(* snapshot.                                                               *)
(***************************************************************************)
THEOREM RunnerTypeCorrect == Spec => []TypeOK
BY TypeInit, TypeNext, PTL DEF Spec

-----------------------------------------------------------------------------
(***************************************************************************)
(* What a step of RunOnce comes to, whichever stage it is in.  The proofs  *)
(* below go through these seven cases instead of the eleven actions.       *)
(***************************************************************************)
Running(c) == status[c] = "running"

Fails(c) == End(c, "failed") /\ UNCHANGED data

Starts(c) ==
  /\ pc[c] = "enter" /\ \A i \in DOMAIN Procs(c) : ~Restores(Procs(c)[i])
  /\ Goto(c, stage[c], 1, "proc") /\ UNCHANGED data

LoadsAt(c, i) ==
  /\ i \in DOMAIN Procs(c) /\ Restores(Procs(c)[i])
  /\ \/ pc[c] = "enter" /\ FirstRestore(Procs(c), i)
     \/ pc[c] = "proc" /\ i = pos[c]
  /\ \E f \in Snapshot :
       /\ blocks' = [blocks EXCEPT ![c] = LoadedBlocks(c, f)]
       /\ summary' = [summary EXCEPT ![c] = LoadedSummary(c, f)]
       /\ Record(c, i, "loaded", f)
  /\ Goto(c, stage[c], i + 1, "proc")

PassesBy(c) ==
  /\ AtProcessor(c)
  /\ Current(c).kind = "absent" \/ (AllowPartial /\ stage[c] = Source)
  /\ Goto(c, stage[c], pos[c] + 1, "proc") /\ UNCHANGED data

\* What the processors of each stage may do to the posts and the summary.
Effect(c) ==
  /\ blocks' = [blocks EXCEPT ![c] = blocks'[c]] /\ blocks'[c] \in Blocks
  /\ summary' = [summary EXCEPT ![c] = summary'[c]]
  /\ summary'[c] \in {Nil} \cup Summary
  /\ stage[c] # Source => AsSet(blocks'[c]) \subseteq AsSet(blocks[c])
  /\ stage[c] \in {RunSummary, Output} => blocks'[c] = blocks[c]
  /\ IF stage[c] = RunSummary /\ Current(c).kind = "plain"
     THEN summary'[c] = [of |-> AsSet(blocks[c])] ELSE summary'[c] = summary[c]

Runs(c) ==
  /\ AtProcessor(c) /\ Current(c).kind # "absent" /\ ~Restores(Current(c))
  /\ Effect(c) /\ Succeed(c)

Saves(c) ==
  /\ \/ pc[c] = "create" /\ Goto(c, stage[c], pos[c], "write")
     \/ pc[c] = "write" /\ Goto(c, stage[c], pos[c] + 1, "proc")
  /\ UNCHANGED data

Leaves(c) ==
  /\ pc[c] = "proc" /\ pos[c] \notin DOMAIN Procs(c)
  /\ IF RunOver(c) THEN End(c, "completed") ELSE Goto(c, stage[c] + 1, 1, "enter")
  /\ UNCHANGED data

(* A snapshot that can be loaded is one. *)
LEMMA LoadCases ==
  ASSUME TypeOK, NEW c \in Caller, NEW i \in DOMAIN Procs(c), Load(c, i),
         Restores(Procs(c)[i]),
         \/ pc[c] = "enter" /\ FirstRestore(Procs(c), i)
         \/ pc[c] = "proc" /\ i = pos[c]
  PROVE  Fails(c) \/ LoadsAt(c, i)
<1> DEFINE f == disk[Procs(c)[i].path]
<1>1. Procs(c)[i].path \in Path
  BY FlowType DEF Restores, Processor
<1>2. f \in Unreadable \cup Snapshot
  BY <1>1 DEF TypeOK
<1>3. CASE f \in Unreadable /\ End(c, "failed") /\ UNCHANGED data
  BY <1>3 DEF Fails
<1>4. CASE /\ f \notin Unreadable
           /\ blocks' = [blocks EXCEPT ![c] = LoadedBlocks(c, f)]
           /\ summary' = [summary EXCEPT ![c] = LoadedSummary(c, f)]
           /\ Record(c, i, "loaded", f)
           /\ Goto(c, stage[c], i + 1, "proc")
  BY <1>2, <1>4 DEF LoadsAt
<1> QED
  BY <1>3, <1>4 DEF Load, LoadThen

(* The processor of a stage returned. *)
LEMMA RunsCase ==
  ASSUME TypeOK, NEW c \in Caller, NEW s \in Stages, Ready(c, s), Succeed(c),
         NEW b \in Blocks, NEW r \in {Nil} \cup Summary,
         blocks' = [blocks EXCEPT ![c] = b], summary' = [summary EXCEPT ![c] = r],
         s # Source => AsSet(b) \subseteq AsSet(blocks[c]),
         s \in {RunSummary, Output} => b = blocks[c],
         IF s = RunSummary /\ Current(c).kind = "plain"
         THEN r = [of |-> AsSet(blocks[c])] ELSE r = summary[c]
  PROVE  Runs(c)
<1>1. stage[c] = s
  BY DEF Ready
<1>2. blocks'[c] = b /\ summary'[c] = r
  BY DEF TypeOK
<1>3. Effect(c)
  BY <1>1, <1>2 DEF Effect
<1> QED
  BY <1>3 DEF Runs, Ready

(***************************************************************************)
(* Every step of a run is one of the seven.                                *)
(***************************************************************************)
LEMMA StepCases ==
  ASSUME TypeOK, NEW c \in Caller, Step(c)
  PROVE  /\ Running(c) /\ UNCHANGED <<flow, begun>>
         /\ \/ Fails(c) \/ Starts(c) \/ (\E i \in DOMAIN Procs(c) : LoadsAt(c, i))
            \/ PassesBy(c) \/ Runs(c) \/ Saves(c) \/ Leaves(c)
<1> USE DEF Running
<1>0. blocks[c] \in Blocks /\ summary[c] \in {Nil} \cup Summary
  BY DEF TypeOK
<1>s. /\ Source \in Stages /\ Quality \in Stages /\ PostSummary \in Stages
      /\ RunSummary \in Stages /\ Output \in Stages
      /\ Source # RunSummary /\ Quality # RunSummary /\ PostSummary # RunSummary
      /\ Output # RunSummary /\ Source # Output /\ Quality # Output
      /\ PostSummary # Output
  BY DEF Stages, Source, Quality, PostSummary, RunSummary, Output
<1>e. UNCHANGED blocks => blocks' = [blocks EXCEPT ![c] = blocks[c]]
  BY DEF TypeOK
<1>f. UNCHANGED summary => summary' = [summary EXCEPT ![c] = summary[c]]
  BY DEF TypeOK
<1>1. CASE EnterStage(c)
  <2>1. ASSUME NEW i \in DOMAIN Procs(c), FirstRestore(Procs(c), i), Load(c, i)
        PROVE  Fails(c) \/ LoadsAt(c, i)
    <3>1. Restores(Procs(c)[i])
      BY <2>1 DEF FirstRestore
    <3> QED
      BY <1>1, <2>1, <3>1, LoadCases DEF EnterStage
  <2> QED
    BY <1>1, <2>1 DEF EnterStage, Starts
<1>2. CASE SkipAbsent(c)
  BY <1>2 DEF SkipAbsent, PassesBy, AtProcessor
<1>3. CASE RestoreLater(c)
  BY <1>3, LoadCases DEF RestoreLater, AtProcessor, Current
<1>4. CASE FetchSource(c)
  <2>1. CASE Succeed(c) /\ UNCHANGED summary /\ \E fetched \in SUBSET Post :
               blocks' = [blocks EXCEPT ![c] =
                            IF fetched = {} THEN @ ELSE AsSet(@) \cup fetched]
    <3>1. PICK fetched \in SUBSET Post :
               blocks' = [blocks EXCEPT ![c] =
                            IF fetched = {} THEN @ ELSE AsSet(@) \cup fetched]
      BY <2>1
    <3> DEFINE b == IF fetched = {} THEN blocks[c] ELSE AsSet(blocks[c]) \cup fetched
    <3>2. b \in Blocks
      BY <1>0, AsSetType DEF Blocks
    <3>3. blocks' = [blocks EXCEPT ![c] = b]
      BY <3>1
    <3> HIDE DEF b
    <3> QED
      BY <1>0, <1>4, <1>s, <1>f, <2>1, <3>2, <3>3, RunsCase DEF FetchSource, Ready, AtProcessor
  <2> QED
    BY <1>4, <2>1 DEF FetchSource, Ready, AtProcessor, Fails, PassesBy
<1>5. CASE EvaluateQuality(c)
  <2>1. ASSUME Succeed(c), UNCHANGED summary, NEW kept \in SUBSET AsSet(blocks[c]),
               blocks' = [blocks EXCEPT ![c] = kept]
        PROVE  Runs(c)
    <3>1. kept \in Blocks /\ AsSet(kept) \subseteq AsSet(blocks[c])
      BY <1>0, AsSetType DEF Blocks, AsSet
    <3> QED
      BY <1>0, <1>5, <1>s, <1>f, <2>1, <3>1, RunsCase DEF EvaluateQuality
  <2> QED
    BY <1>5, <2>1 DEF EvaluateQuality, Ready, AtProcessor, Fails
<1>6. CASE SummarizePosts(c)
  <2>1. ASSUME Succeed(c), UNCHANGED summary,
               NEW kept \in (SUBSET AsSet(blocks[c])) \cup {blocks[c]},
               blocks' = [blocks EXCEPT ![c] = kept]
        PROVE  Runs(c)
    <3>1. kept \in Blocks /\ AsSet(kept) \subseteq AsSet(blocks[c])
      BY <1>0, AsSetType DEF Blocks, AsSet
    <3> QED
      BY <1>0, <1>6, <1>s, <1>f, <2>1, <3>1, RunsCase DEF SummarizePosts
  <2> QED
    BY <1>6, <2>1 DEF SummarizePosts, Ready, AtProcessor, Fails
<1>7. CASE SummarizeRun(c)
  <2>0. [of |-> AsSet(blocks[c])] \in Summary
    BY <1>0, AsSetType DEF Summary
  <2>1. CASE /\ Current(c).kind = "plain" /\ UNCHANGED blocks /\ Succeed(c)
             /\ summary' = [summary EXCEPT ![c] = [of |-> AsSet(blocks[c])]]
    <3>1. Runs(c)
      BY <1>0, <1>7, <1>s, <1>e, <2>0, <2>1, RunsCase DEF SummarizeRun
    <3> QED
      BY <1>7, <3>1 DEF SummarizeRun, Ready, AtProcessor
  <2>2. CASE /\ Current(c).kind = "render" /\ UNCHANGED <<summary, blocks>> /\ Succeed(c)
    <3>1. Current(c).kind # "plain" /\ Ready(c, RunSummary) /\ Succeed(c)
      BY <1>7, <2>2 DEF SummarizeRun
    <3>2. Runs(c)
      BY <1>0, <1>s, <1>e, <1>f, <2>2, <3>1, RunsCase
    <3> QED
      BY <1>7, <3>2 DEF SummarizeRun, Ready, AtProcessor
  <2> QED
    BY <1>7, <2>1, <2>2 DEF SummarizeRun, Ready, AtProcessor, Fails
<1>8. CASE Deliver(c)
  <2>1. CASE UNCHANGED <<blocks, summary>> /\ Succeed(c)
    <3>1. Ready(c, Output)
      BY <1>8 DEF Deliver
    <3>2. Runs(c)
      BY <1>0, <1>s, <1>e, <1>f, <2>1, <3>1, RunsCase
    <3> QED
      BY <1>8, <3>2 DEF Deliver, Ready, AtProcessor
  <2> QED
    BY <1>8, <2>1 DEF Deliver, Ready, AtProcessor, Fails
<1>9. CASE SaveCreate(c)
  BY <1>9 DEF SaveCreate, Saves, Fails
<1>10. CASE SaveWrite(c)
  BY <1>10 DEF SaveWrite, Saves, Fails
<1>11. CASE LeaveStage(c)
  BY <1>11 DEF LeaveStage, Leaves
<1> QED
  BY <1>1, <1>2, <1>3, <1>4, <1>5, <1>6, <1>7, <1>8, <1>9, <1>10, <1>11 DEF Step

(* The steps of one run leave the others alone. *)
LEMMA OthersStay ==
  ASSUME TypeOK, NEW c \in Caller, Begin(c) \/ Step(c), NEW d \in Caller, d # c
  PROVE  /\ flow' = flow /\ status'[d] = status[d] /\ stage'[d] = stage[d]
         /\ pos'[d] = pos[d] /\ pc'[d] = pc[d] /\ blocks'[d] = blocks[d]
         /\ summary'[d] = summary[d] /\ trail'[d] = trail[d]
<1>1. CASE Begin(c)
  BY <1>1 DEF Begin, TypeOK
<1>2. CASE Step(c)
  <2>1. CASE Fails(c) \/ Starts(c) \/ PassesBy(c) \/ Saves(c) \/ Leaves(c)
    BY <1>2, <2>1, StepCases
    DEF TypeOK, Fails, Starts, PassesBy, Saves, Leaves, End, Goto, data
  <2>2. ASSUME NEW i \in DOMAIN Procs(c), LoadsAt(c, i)
        PROVE  /\ stage'[d] = stage[d] /\ pos'[d] = pos[d] /\ pc'[d] = pc[d]
               /\ blocks'[d] = blocks[d] /\ summary'[d] = summary[d]
               /\ trail'[d] = trail[d] /\ status'[d] = status[d]
    BY <2>2 DEF TypeOK, LoadsAt, Goto, Record
  <2>3. CASE Runs(c)
    BY <1>2, <2>3, StepCases DEF TypeOK, Runs, Effect, Succeed, Goto, Record
  <2> QED
    BY <1>2, <2>1, <2>2, <2>3, StepCases
<1> QED
  BY <1>1, <1>2

-----------------------------------------------------------------------------
(***************************************************************************)
(* The inductive invariant: where the entries of a run's trail are         *)
(* relative to the place RunOnce is at, what it has done up to there, and  *)
(* what its blocks and its summary owe to the entries since the last load. *)
(***************************************************************************)

\* RunOnce is behind processor i of stage s, or done with it but for its save.
Passed(c, s, i) ==
  \/ s < stage[c]
  \/ pc[c] # "enter" /\ s = stage[c] /\ i < pos[c]
  \/ pc[c] \in {"create", "write"} /\ s = stage[c] /\ i = pos[c]

\* Who saves is at a processor with a snapshot file.
Saving(c) ==
  Running(c) /\ pc[c] \in {"create", "write"} =>
    pos[c] \in DOMAIN Procs(c) /\ Current(c).mode = "snapshot"

\* The run is behind all it has done.
Behind(c) ==
  Running(c) => \A k \in DOMAIN trail[c] :
                  Passed(c, trail[c][k].stage, trail[c][k].proc)

\* Within a stage, the run is behind the first processor that restores.
Resumed(c) ==
  Running(c) /\ pc[c] # "enter" =>
    \A j \in DOMAIN Procs(c) :
      j < pos[c] \/ ~Restores(Procs(c)[j]) \/ \E h \in 1 .. j-1 : Restores(Procs(c)[h])

Place(c) == Saving(c) /\ Behind(c) /\ Resumed(c)

(* What Append does to a sequence. *)
LEMMA AppendFacts ==
  ASSUME NEW S, NEW s \in Seq(S), NEW e \in S
  PROVE  /\ Append(s, e) \in Seq(S)
         /\ DOMAIN s = 1 .. Len(s) /\ Len(s) \in Nat
         /\ DOMAIN Append(s, e) = 1 .. Len(s) + 1
         /\ Append(s, e)[Len(s) + 1] = e
         /\ \A k \in DOMAIN s : Append(s, e)[k] = s[k]
OBVIOUS

(* Recording an outcome adds one entry behind the others. *)
LEMMA RecordFacts ==
  ASSUME TypeOK, NEW c \in Caller, NEW i \in Nat \ {0},
         NEW a \in {"ran", "loaded"}, NEW f \in {Nil} \cup Snapshot,
         blocks'[c] \in Blocks, summary'[c] \in {Nil} \cup Summary,
         Record(c, i, a, f)
  PROVE  LET n == Len(trail[c]) IN
         /\ n \in Nat /\ DOMAIN trail[c] = 1 .. n
         /\ DOMAIN trail'[c] = 1 .. n + 1
         /\ \A k \in 1 .. n : trail'[c][k] = trail[c][k] /\ trail[c][k] \in Entry
         /\ trail'[c][n + 1] =
              [stage |-> stage[c], proc |-> i, act |-> a, read |-> f,
               blocks |-> blocks'[c], summary |-> summary'[c]]
<1> DEFINE e == [stage |-> stage[c], proc |-> i, act |-> a, read |-> f,
                 blocks |-> blocks'[c], summary |-> summary'[c]]
<1>1. e \in Entry
  BY DEF TypeOK, Entry
<1>2. trail[c] \in Seq(Entry)
  BY DEF TypeOK
<1>3. trail'[c] = Append(trail[c], e)
  BY DEF TypeOK, Record
<1> HIDE DEF e
<1>4. \A k \in 1 .. Len(trail[c]) : trail[c][k] \in Entry
  BY <1>2
<1>5. /\ Len(trail[c]) \in Nat /\ DOMAIN trail[c] = 1 .. Len(trail[c])
      /\ DOMAIN trail'[c] = 1 .. Len(trail[c]) + 1
      /\ \A k \in 1 .. Len(trail[c]) : trail'[c][k] = trail[c][k]
      /\ trail'[c][Len(trail[c]) + 1] = e
  BY <1>1, <1>2, <1>3, AppendFacts
<1> QED
  BY <1>4, <1>5 DEF e

(* Loading a snapshot adds a typed entry. *)
LEMMA LoadsFacts ==
  ASSUME TypeOK, NEW c \in Caller, NEW i \in DOMAIN Procs(c), LoadsAt(c, i)
  PROVE  \E f \in Snapshot :
           /\ blocks'[c] = LoadedBlocks(c, f) /\ blocks'[c] \in Blocks
           /\ summary'[c] = LoadedSummary(c, f)
           /\ summary'[c] \in {Nil} \cup Summary
           /\ i \in Nat \ {0} /\ Record(c, i, "loaded", f)
<1>1. i \in Nat \ {0}
  BY FlowType
<1>2. PICK f \in Snapshot :
           /\ blocks' = [blocks EXCEPT ![c] = LoadedBlocks(c, f)]
           /\ summary' = [summary EXCEPT ![c] = LoadedSummary(c, f)]
           /\ Record(c, i, "loaded", f)
  BY DEF LoadsAt
<1>3. blocks'[c] = LoadedBlocks(c, f) /\ summary'[c] = LoadedSummary(c, f)
  BY <1>2 DEF TypeOK
<1>4. LoadedBlocks(c, f) \in Blocks /\ LoadedSummary(c, f) \in {Nil} \cup Summary
  BY DEF TypeOK, LoadedBlocks, LoadedSummary, Snapshot
<1> QED
  BY <1>1, <1>2, <1>3, <1>4

(* Moving within RunOnce, seen from the caller that moves. *)
LEMMA GotoFacts ==
  ASSUME TypeOK, NEW c \in Caller, NEW s \in Stages, NEW i \in Nat \ {0}, NEW l,
         Goto(c, s, i, l)
  PROVE  /\ stage'[c] = s /\ pos'[c] = i /\ pc'[c] = l /\ status'[c] = status[c]
         /\ stage[c] \in Stages /\ pos[c] \in Nat \ {0}
BY DEF TypeOK, Goto

(* The end of a run moves it nowhere.                                    *)
LEMMA EndFacts ==
  ASSUME TypeOK, NEW c \in Caller, NEW o, End(c, o)
  PROVE  /\ stage'[c] = stage[c] /\ pos'[c] = pos[c] /\ pc'[c] = pc[c]
         /\ status'[c] = o
BY DEF TypeOK, End

(* Where a run is, and what its trail consists of.                       *)
LEMMA StageFacts ==
  ASSUME TypeOK, NEW c \in Caller
  PROVE  /\ stage[c] \in Stages /\ stage[c] \in Nat /\ pos[c] \in Nat \ {0}
         /\ pos[c] + 1 \in Nat \ {0}
         /\ pc[c] \in {"enter", "proc", "create", "write"}
         /\ \A k \in DOMAIN trail[c] :
              trail[c][k] \in Entry /\ trail[c][k].stage \in Nat /\ trail[c][k].proc \in Nat
         /\ \E n \in Nat : DOMAIN Procs(c) = 1 .. n
<1>1. stage[c] \in Stages /\ stage[c] \in Nat /\ pos[c] \in Nat \ {0}
      /\ pos[c] + 1 \in Nat \ {0} /\ pc[c] \in {"enter", "proc", "create", "write"}
  BY DEF TypeOK, Stages, Source, Output
<1>2. trail[c] \in Seq(Entry)
  BY DEF TypeOK
<1>3. \A k \in DOMAIN trail[c] : trail[c][k] \in Entry
  BY <1>2
<1>4. \A k \in DOMAIN trail[c] : trail[c][k].stage \in Nat /\ trail[c][k].proc \in Nat
  BY <1>3 DEF Entry, Stages, Source, Output
<1>5. \E n \in Nat : DOMAIN Procs(c) = 1 .. n
  BY FlowType
<1> QED
  BY <1>1, <1>3, <1>4, <1>5

(* A run that moves on, with at most one more entry, is behind all its entries. *)
LEMMA BehindMoves ==
  ASSUME TypeOK, NEW c \in Caller, Behind(c), Running(c),
         \A s, j \in Nat : Passed(c, s, j) => Passed(c, s, j)',
         \/ trail'[c] = trail[c]
         \/ \E i \in Nat \ {0}, a \in {"ran", "loaded"}, f \in {Nil} \cup Snapshot :
              /\ blocks'[c] \in Blocks /\ summary'[c] \in {Nil} \cup Summary
              /\ Record(c, i, a, f)
              /\ \A s \in Nat : s = stage[c] => Passed(c, s, i)'
  PROVE  Behind(c)'
<1>1. \A k \in DOMAIN trail[c], s, j \in Nat :
        s = trail[c][k].stage /\ j = trail[c][k].proc => Passed(c, s, j)'
  BY DEF Behind
<1>2. \A k \in DOMAIN trail[c] : trail[c][k].stage \in Nat /\ trail[c][k].proc \in Nat
  BY StageFacts
<1>3. CASE trail'[c] = trail[c]
  BY <1>1, <1>2, <1>3 DEF Behind, Passed
<1>4. ASSUME NEW i \in Nat \ {0}, NEW a \in {"ran", "loaded"}, NEW f \in {Nil} \cup Snapshot,
             blocks'[c] \in Blocks, summary'[c] \in {Nil} \cup Summary,
             Record(c, i, a, f), \A s \in Nat : s = stage[c] => Passed(c, s, i)'
      PROVE  Behind(c)'
  <2> DEFINE n == Len(trail[c])
  <2>1. /\ n \in Nat /\ DOMAIN trail[c] = 1 .. n /\ DOMAIN trail'[c] = 1 .. n + 1
        /\ \A k \in 1 .. n : trail'[c][k] = trail[c][k]
        /\ trail'[c][n + 1].stage = stage[c] /\ trail'[c][n + 1].proc = i
    <3>1. /\ n \in Nat /\ DOMAIN trail[c] = 1 .. n /\ DOMAIN trail'[c] = 1 .. n + 1
          /\ \A k \in 1 .. n : trail'[c][k] = trail[c][k] /\ trail[c][k] \in Entry
          /\ trail'[c][n + 1] =
              [stage |-> stage[c], proc |-> i, act |-> a, read |-> f,
               blocks |-> blocks'[c], summary |-> summary'[c]]
      BY <1>4, RecordFacts
    <3> QED
      BY <3>1
  <2> HIDE DEF n
  <2>2. ASSUME NEW k \in DOMAIN trail'[c], NEW s \in Nat, NEW j \in Nat,
               s = trail'[c][k].stage, j = trail'[c][k].proc
        PROVE  Passed(c, s, j)'
    <3>1. CASE k \in 1 .. n
      BY <1>1, <2>1, <2>2, <3>1
    <3>2. CASE k = n + 1
      BY <1>4, <2>1, <2>2, <3>2
    <3> QED
      BY <2>1, <3>1, <3>2
  <2>3. stage[c] \in Nat
    BY StageFacts
  <2>4. \A k \in DOMAIN trail'[c] : trail'[c][k].stage \in Nat /\ trail'[c][k].proc \in Nat
    BY <1>2, <2>1, <2>3
  <2> QED
    BY <2>2, <2>4 DEF Behind, Passed
<1> QED
  BY <1>3, <1>4

(* A step of a run keeps its place. *)
LEMMA PlaceStep ==
  ASSUME TypeOK, NEW c \in Caller, Step(c), Place(c)
  PROVE  Place(c)'
<1> USE DEF Place, Running
<1>0. /\ Running(c) /\ flow' = flow
      /\ 1 \in Nat \ {0}
      /\ stage[c] \in Stages /\ stage[c] \in Nat /\ pos[c] \in Nat \ {0}
      /\ pos[c] + 1 \in Nat \ {0}
      /\ pc[c] \in {"enter", "proc", "create", "write"}
  BY StepCases, StageFacts
<1>p. PICK n \in Nat : DOMAIN Procs(c) = 1 .. n
  BY StageFacts
<1>1. CASE Fails(c)
  BY <1>1, EndFacts DEF Fails, Saving, Behind, Resumed
<1>2. CASE Starts(c)
  <2>1. /\ stage'[c] = stage[c] /\ pos'[c] = 1 /\ pc'[c] = "proc"
        /\ pc[c] = "enter" /\ trail'[c] = trail[c]
    BY <1>0, <1>2, GotoFacts DEF Starts, data
  <2>2. Behind(c)'
    BY <1>0, <2>1, BehindMoves DEF Passed
  <2> QED
    BY <1>0, <1>2, <2>1, <2>2 DEF Starts, Saving, Resumed, Procs
<1>3. ASSUME NEW i \in DOMAIN Procs(c), LoadsAt(c, i) PROVE Place(c)'
  <2>0. i \in Nat \ {0} /\ i + 1 \in Nat \ {0}
    BY <1>p
  <2>1. stage'[c] = stage[c] /\ pos'[c] = i + 1 /\ pc'[c] = "proc" /\ status'[c] = status[c]
    BY <1>0, <1>3, <2>0, GotoFacts DEF LoadsAt
  <2>2. \E f \in Snapshot :
           /\ blocks'[c] \in Blocks /\ summary'[c] \in {Nil} \cup Summary
           /\ Record(c, i, "loaded", f)
    BY <1>3, LoadsFacts
  <2>3. \A s, j \in Nat : Passed(c, s, j) => Passed(c, s, j)'
    BY <1>0, <1>3, <2>0, <2>1 DEF LoadsAt, Passed
  <2>4. \A s \in Nat : s = stage[c] => Passed(c, s, i)'
    BY <1>0, <2>0, <2>1 DEF Passed
  <2>5. Behind(c)'
    BY <1>0, <2>0, <2>2, <2>3, <2>4, BehindMoves
  <2>6. Resumed(c)'
    <3>1. CASE pc[c] = "enter" /\ FirstRestore(Procs(c), i)
      BY <1>0, <1>p, <2>0, <2>1, <3>1 DEF FirstRestore, Procs, Resumed
    <3>2. CASE pc[c] = "proc" /\ i = pos[c]
      BY <1>0, <1>p, <2>0, <2>1, <3>2 DEF Procs, Resumed
    <3> QED
      BY <1>3, <3>1, <3>2 DEF LoadsAt
  <2> QED
    BY <2>1, <2>5, <2>6 DEF Saving
<1>4. CASE PassesBy(c)
  <2>1. /\ stage'[c] = stage[c] /\ pos'[c] = pos[c] + 1 /\ pc'[c] = "proc"
        /\ pc[c] = "proc" /\ trail'[c] = trail[c] /\ Procs(c)' = Procs(c)
    BY <1>0, <1>4, GotoFacts DEF PassesBy, AtProcessor, data, Procs
  <2>2. Behind(c)'
    BY <1>0, <2>1, BehindMoves DEF Passed
  <2>3. Resumed(c)'
    BY <1>0, <1>p, <2>1 DEF Resumed
  <2> QED
    BY <2>1, <2>2, <2>3 DEF Saving
<1>5. CASE Runs(c)
  <2>1. /\ pc[c] = "proc" /\ pos[c] \in DOMAIN Procs(c)
        /\ stage'[c] = stage[c] /\ status'[c] = status[c]
        /\ \/ Current(c).mode = "snapshot" /\ pos'[c] = pos[c] /\ pc'[c] = "create"
           \/ pos'[c] = pos[c] + 1 /\ pc'[c] = "proc"
    BY <1>0, <1>5, GotoFacts DEF Runs, Succeed, AtProcessor
  <2>2. \A s, j \in Nat : Passed(c, s, j) => Passed(c, s, j)'
    BY <1>0, <2>1 DEF Passed
  <2>3. \A s \in Nat : s = stage[c] => /\ pos[c] \in Nat \ {0}
                                       /\ \A i \in {pos[c]} : Passed(c, s, i)'
    BY <1>0, <2>1 DEF Passed
  <2>4. Behind(c)'
    <3>1. /\ blocks'[c] \in Blocks /\ summary'[c] \in {Nil} \cup Summary
          /\ Record(c, pos[c], "ran", Nil)
      BY <1>5 DEF Runs, Succeed, Effect
    <3>2. \E i \in Nat \ {0}, a \in {"ran", "loaded"}, f \in {Nil} \cup Snapshot :
              /\ blocks'[c] \in Blocks /\ summary'[c] \in {Nil} \cup Summary
              /\ Record(c, i, a, f)
              /\ \A s \in Nat : s = stage[c] => Passed(c, s, i)'
      BY <1>0, <2>3, <3>1
    <3> QED
      BY <1>0, <2>2, <3>2, BehindMoves
  <2>5. Resumed(c)'
    BY <1>0, <1>p, <2>1 DEF Procs, Resumed
  <2>6. Saving(c)'
    BY <1>0, <2>1 DEF Procs, Current, Saving
  <2> QED
    BY <2>4, <2>5, <2>6
<1>6. CASE Saves(c)
  <2>1. /\ stage'[c] = stage[c] /\ trail'[c] = trail[c]
        /\ \/ pc[c] = "create" /\ pos'[c] = pos[c] /\ pc'[c] = "write"
           \/ pc[c] = "write" /\ pos'[c] = pos[c] + 1 /\ pc'[c] = "proc"
    BY <1>0, <1>6, GotoFacts DEF Saves, data
  <2>2. Behind(c)'
    BY <1>0, <2>1, BehindMoves DEF Passed
  <2>3. Resumed(c)'
    BY <1>0, <1>p, <2>1 DEF Resumed, Procs
  <2> QED
    BY <1>0, <2>1, <2>2, <2>3 DEF Saving, Procs, Current
<1>7. CASE Leaves(c)
  <2>1. CASE RunOver(c)
    BY <1>7, <2>1, EndFacts DEF Leaves, Saving, Behind, Resumed
  <2>2. CASE ~RunOver(c)
    <3>1. stage[c] + 1 \in Stages
      BY <1>0, <2>2 DEF RunOver, Stages, Source, Output
    <3>2. stage'[c] = stage[c] + 1 /\ pc'[c] = "enter" /\ trail'[c] = trail[c]
      BY <1>0, <1>7, <2>2, <3>1, GotoFacts DEF Leaves, data
    <3>3. Behind(c)'
      BY <1>0, <3>2, BehindMoves DEF Passed
    <3> QED
      BY <3>2, <3>3 DEF Saving, Resumed
  <2> QED
    BY <2>1, <2>2
<1> QED
  BY <1>1, <1>2, <1>3, <1>4, <1>5, <1>6, <1>7, StepCases

-----------------------------------------------------------------------------
(***************************************************************************)
(* What a step adds to the trail: nothing, or one entry behind all others, *)
(* of a snapshot loaded or of a processor that ran.                        *)
(***************************************************************************)
Quiet(c) ==
  /\ trail'[c] = trail[c] /\ blocks'[c] = blocks[c] /\ summary'[c] = summary[c]
  /\ stage'[c] = stage[c] \/ stage'[c] # Output \/ AsSet(blocks[c]) # {}
     \/ ~Running(c)'

Added(c, e) ==
  LET n == Len(trail[c]) IN
  /\ n \in Nat /\ DOMAIN trail[c] = 1 .. n /\ DOMAIN trail'[c] = 1 .. n + 1
  /\ \A k \in 1 .. n :
       /\ trail'[c][k] = trail[c][k] /\ trail[c][k] \in Entry
       /\ Before(trail[c][k].stage, trail[c][k].proc, e.stage, e.proc)
  /\ trail'[c][n + 1] = e
  /\ e.stage = stage[c] /\ stage'[c] = stage[c]
  /\ e.blocks = blocks'[c] /\ e.summary = summary'[c]

LoadEntry(c, e) ==
  /\ e.act = "loaded" /\ e.read \in Snapshot
  /\ e.blocks = LoadedBlocks(c, e.read) /\ e.summary = LoadedSummary(c, e.read)

RunEntry(c, e) ==
  /\ e.act = "ran" /\ e.proc = pos[c] /\ Effect(c)
  /\ TakesPart(c, e.stage, e.proc) /\ ~Restores(flow[c][e.stage][e.proc])

(* A new entry is behind all the others. *)
LEMMA RecordAdds ==
  ASSUME TypeOK, NEW c \in Caller, Place(c), Running(c), NEW i \in Nat \ {0},
         NEW a \in {"ran", "loaded"}, NEW f \in {Nil} \cup Snapshot,
         blocks'[c] \in Blocks, summary'[c] \in {Nil} \cup Summary,
         Record(c, i, a, f), stage'[c] = stage[c],
         \/ pc[c] = "enter"
         \/ pc[c] = "proc" /\ i = pos[c]
  PROVE  Added(c, [stage |-> stage[c], proc |-> i, act |-> a, read |-> f,
                   blocks |-> blocks'[c], summary |-> summary'[c]])
<1> DEFINE n == Len(trail[c])
           e == [stage |-> stage[c], proc |-> i, act |-> a, read |-> f,
                 blocks |-> blocks'[c], summary |-> summary'[c]]
<1>1. /\ n \in Nat /\ DOMAIN trail[c] = 1 .. n /\ DOMAIN trail'[c] = 1 .. n + 1
      /\ \A k \in 1 .. n : trail'[c][k] = trail[c][k] /\ trail[c][k] \in Entry
      /\ trail'[c][n + 1] = e
  BY RecordFacts
<1>2. ASSUME NEW k \in 1 .. n
      PROVE  Before(trail[c][k].stage, trail[c][k].proc, stage[c], i)
  <2>1. Passed(c, trail[c][k].stage, trail[c][k].proc)
    BY <1>1 DEF Place, Behind
  <2> QED
    BY <2>1 DEF Passed, Before
<1>3. /\ e.stage = stage[c] /\ e.proc = i
      /\ e.blocks = blocks'[c] /\ e.summary = summary'[c]
  OBVIOUS
<1> HIDE DEF e, n
<1>4. Added(c, e)
  BY <1>1, <1>2, <1>3 DEF Added, n
<1> QED
  BY <1>4 DEF e

(* A step is quiet, or adds one entry to the trail: a load or a run.     *)
LEMMA StepAdds ==
  ASSUME TypeOK, NEW c \in Caller, Step(c), Place(c)
  PROVE  Quiet(c) \/ \E e \in Entry : Added(c, e) /\ (LoadEntry(c, e) \/ RunEntry(c, e))
<1>0. /\ Running(c) /\ flow' = flow
      /\ 1 \in Nat \ {0}
      /\ stage[c] \in Stages /\ stage[c] \in Nat /\ pos[c] \in Nat \ {0}
      /\ pos[c] + 1 \in Nat \ {0}
  BY StepCases, StageFacts
<1>1. CASE Fails(c)
  BY <1>1, EndFacts DEF Fails, Quiet, data
<1>2. CASE Starts(c)
  BY <1>0, <1>2, GotoFacts DEF Starts, Quiet, data
<1>3. ASSUME NEW i \in DOMAIN Procs(c), LoadsAt(c, i)
      PROVE  \E e \in Entry : Added(c, e) /\ LoadEntry(c, e)
  <2>0. i \in Nat \ {0} /\ i + 1 \in Nat \ {0}
    BY FlowType
  <2>1. stage'[c] = stage[c]
    BY <1>0, <1>3, <2>0, GotoFacts DEF LoadsAt
  <2>2. PICK f \in Snapshot :
           /\ blocks'[c] = LoadedBlocks(c, f) /\ blocks'[c] \in Blocks
           /\ summary'[c] = LoadedSummary(c, f)
           /\ summary'[c] \in {Nil} \cup Summary
           /\ Record(c, i, "loaded", f)
    BY <1>3, LoadsFacts
  <2> DEFINE e == [stage |-> stage[c], proc |-> i, act |-> "loaded", read |-> f,
                   blocks |-> blocks'[c], summary |-> summary'[c]]
  <2>3. Added(c, e)
    BY <1>0, <1>3, <2>0, <2>1, <2>2, RecordAdds DEF LoadsAt
  <2>4. e \in Entry
    BY <1>0, <2>0, <2>2 DEF Entry
  <2>5. LoadEntry(c, e)
    BY <2>2 DEF LoadEntry
  <2> QED
    BY <2>3, <2>4, <2>5
<1>4. CASE PassesBy(c)
  BY <1>0, <1>4, GotoFacts DEF PassesBy, Quiet, data
<1>5. CASE Runs(c)
  <2>1. /\ pc[c] = "proc" /\ pos[c] \in DOMAIN Procs(c)
        /\ stage'[c] = stage[c] /\ Record(c, pos[c], "ran", Nil)
        /\ blocks'[c] \in Blocks /\ summary'[c] \in {Nil} \cup Summary
    BY <1>0, <1>5, GotoFacts DEF Runs, Succeed, AtProcessor, Effect
  <2> DEFINE e == [stage |-> stage[c], proc |-> pos[c], act |-> "ran", read |-> Nil,
                   blocks |-> blocks'[c], summary |-> summary'[c]]
  <2>2. Added(c, e)
    BY <1>0, <2>1, RecordAdds
  <2>3. e \in Entry
    BY <1>0, <2>1 DEF Entry
  <2>4. e.act = "ran" /\ e.proc = pos[c] /\ e.stage = stage[c]
    OBVIOUS
  <2>5. TakesPart(c, stage[c], pos[c])
    BY <1>0, <1>5, <2>1, StageFacts DEF TakesPart, Runs, Place, Resumed, Procs, Current, Running
  <2>6. ~Restores(flow[c][stage[c]][pos[c]])
    BY <1>5 DEF Runs, Procs, Current
  <2> HIDE DEF e
  <2>7. RunEntry(c, e)
    BY <1>5, <2>4, <2>5, <2>6 DEF RunEntry, Runs
  <2> QED
    BY <2>2, <2>3, <2>7
<1>6. CASE Saves(c)
  BY <1>0, <1>6, GotoFacts DEF Saves, Quiet, data
<1>7. CASE Leaves(c)
  <2>1. CASE RunOver(c)
    BY <1>7, <2>1, EndFacts DEF Leaves, Quiet, data
  <2>2. CASE ~RunOver(c)
    <3>1. stage[c] + 1 \in Stages
      BY <1>0, <2>2 DEF RunOver, Stages, Source, Output
    <3>2. stage'[c] = stage[c] + 1
      BY <1>0, <1>7, <2>2, <3>1, GotoFacts DEF Leaves
    <3>3. stage'[c] # Output \/ AsSet(blocks[c]) # {}
      BY <1>0, <2>2, <3>2 DEF RunOver, Output, RunSummary
    <3> QED
      BY <1>7, <3>3 DEF Leaves, Quiet, data
  <2> QED
    BY <2>1, <2>2
<1> QED
  BY <1>1, <1>2, <1>3, <1>4, <1>5, <1>6, <1>7, StepCases

-----------------------------------------------------------------------------
(***************************************************************************)
(* The properties of RunnerProperties about the trail, for one caller, and *)
(* what the run owes to the entries of its trail that no load is behind.   *)
(***************************************************************************)
InOrder(c) ==
  \A i, j \in DOMAIN trail[c] :
    i < j => Before(trail[c][i].stage, trail[c][i].proc,
                    trail[c][j].stage, trail[c][j].proc)

RightlyRun(c) ==
  \A k \in DOMAIN trail[c] :
    trail[c][k].act = "ran" =>
      /\ TakesPart(c, trail[c][k].stage, trail[c][k].proc)
      /\ ~Restores(flow[c][trail[c][k].stage][trail[c][k].proc])

Fresh(c, i) == \A k \in DOMAIN trail[c] : i < k => trail[c][k].act # "loaded"

\* Entry i wrote a summary, or replaced the posts.
Wrote(c, i) ==
  /\ trail[c][i].act = "ran" /\ trail[c][i].stage = RunSummary
  /\ flow[c][RunSummary][trail[c][i].proc].kind = "plain"
Replaced(c, i) ==
  /\ trail[c][i].act = "loaded" /\ trail[c][i].stage # Source
  /\ trail[c][i].read.blocks # Nil \/ trail[c][i].stage < RunSummary

\* A property of two entries with no load between, and what it says of an
\* entry and the run as it is.
Coherent(c) ==
  \A i, j \in DOMAIN trail[c] :
    i < j /\ NoLoadBetween(c, i, j) /\ Wrote(c, i) /\ Delivery(trail[c][j]) =>
      trail[c][j].summary = [of |-> AsSet(trail[c][j].blocks)]
CoherentNow(c) ==
  Running(c) => \A i \in DOMAIN trail[c] :
    Fresh(c, i) /\ Wrote(c, i) => summary[c] = [of |-> AsSet(blocks[c])]

Same(c) ==
  \A i, j \in DOMAIN trail[c] :
    i < j /\ NoLoadBetween(c, i, j) /\ Delivery(trail[c][i]) /\ Delivery(trail[c][j]) =>
      /\ trail[c][i].blocks = trail[c][j].blocks
      /\ trail[c][i].summary = trail[c][j].summary
SameNow(c) ==
  Running(c) => \A i \in DOMAIN trail[c] :
    Fresh(c, i) /\ Delivery(trail[c][i]) =>
      blocks[c] = trail[c][i].blocks /\ summary[c] = trail[c][i].summary

Replacing(c) ==
  \A i, j \in DOMAIN trail[c] :
    i < j /\ NoLoadBetween(c, i, j) /\ Replaced(c, i) /\ trail[c][j].act = "ran" =>
      AsSet(trail[c][j].blocks) \subseteq AsSet(trail[c][i].read.blocks)
ReplacingNow(c) ==
  Running(c) => \A i \in DOMAIN trail[c] :
    Fresh(c, i) /\ Replaced(c, i) =>
      AsSet(blocks[c]) \subseteq AsSet(trail[c][i].read.blocks)

Filled(c) ==
  \A j \in DOMAIN trail[c] :
    Delivery(trail[c][j]) /\ AsSet(trail[c][j].blocks) = {} =>
      \E i \in DOMAIN trail[c] :
        i < j /\ trail[c][i].stage = Output /\ trail[c][i].act = "loaded"
FilledNow(c) ==
  Running(c) /\ stage[c] = Output /\ AsSet(blocks[c]) = {} =>
    \E i \in DOMAIN trail[c] : trail[c][i].stage = Output /\ trail[c][i].act = "loaded"

(* A step that adds nothing keeps all of this. *)
History(c) ==
  /\ InOrder(c) /\ RightlyRun(c)
  /\ Coherent(c) /\ CoherentNow(c) /\ Same(c) /\ SameNow(c)
  /\ Replacing(c) /\ ReplacingNow(c) /\ Filled(c) /\ FilledNow(c)

(* A quiet step leaves what the history says as it is.                   *)
LEMMA HistoryQuiet ==
  ASSUME NEW c \in Caller, Quiet(c), flow' = flow, Running(c), History(c)
  PROVE  History(c)'
<1> USE DEF Quiet, History
<1>1. InOrder(c)' /\ RightlyRun(c)'
  BY DEF InOrder, RightlyRun, TakesPart
<1>2. Coherent(c)' /\ Same(c)' /\ Replacing(c)'
  BY DEF Coherent, Same, Replacing, Wrote, Replaced, NoLoadBetween
<1>3. CoherentNow(c)' /\ SameNow(c)' /\ ReplacingNow(c)'
  BY DEF CoherentNow, SameNow, ReplacingNow, Wrote, Replaced, Fresh
<1>4. Filled(c)' /\ FilledNow(c)'
  BY DEF Filled, FilledNow
<1> QED
  BY <1>1, <1>2, <1>3, <1>4

(* The order of the trail, and what may be on it. *)
LEMMA OrderAdded ==
  ASSUME TypeOK, NEW c \in Caller, NEW e \in Entry, Added(c, e), flow' = flow,
         LoadEntry(c, e) \/ RunEntry(c, e), InOrder(c), RightlyRun(c)
  PROVE  InOrder(c)' /\ RightlyRun(c)'
<1> DEFINE n == Len(trail[c])
<1>1. /\ n \in Nat /\ DOMAIN trail[c] = 1 .. n /\ DOMAIN trail'[c] = 1 .. n + 1
      /\ \A k \in 1 .. n : trail'[c][k] = trail[c][k]
           /\ Before(trail[c][k].stage, trail[c][k].proc, e.stage, e.proc)
      /\ trail'[c][n + 1] = e
  BY DEF Added
<1> HIDE DEF n
<1>2. InOrder(c)'
  BY <1>1 DEF InOrder
<1>3. e.act = "ran" => TakesPart(c, e.stage, e.proc) /\ ~Restores(flow[c][e.stage][e.proc])
  BY DEF LoadEntry, RunEntry
<1>4. RightlyRun(c)'
  BY <1>1, <1>3 DEF RightlyRun, TakesPart
<1> QED
  BY <1>2, <1>4

(* What a step does to the blocks and the summary, seen from an entry that *)
(* no load is behind.                                                      *)
LEMMA FreshAdded ==
  ASSUME TypeOK, NEW c \in Caller, NEW e \in Entry, Added(c, e), flow' = flow,
         LoadEntry(c, e) \/ RunEntry(c, e)
  PROVE  LET n == Len(trail[c]) IN
         /\ \A i \in 1 .. n : Fresh(c, i)' => e.act = "ran" /\ Fresh(c, i)
         /\ \A i \in 1 .. n, m \in {n + 1} : NoLoadBetween(c, i, m)' => Fresh(c, i)
         /\ \A i, j \in 1 .. n : NoLoadBetween(c, i, j)' => NoLoadBetween(c, i, j)
         /\ \A i \in 1 .. n : /\ Wrote(c, i)' <=> Wrote(c, i)
                              /\ Replaced(c, i)' <=> Replaced(c, i)
                              /\ trail[c][i].stage <= stage[c]
         /\ e.act = "ran" => RunEntry(c, e)
         /\ e.act # "ran" => LoadEntry(c, e)
<1> DEFINE n == Len(trail[c])
<1>1. /\ n \in Nat /\ DOMAIN trail[c] = 1 .. n /\ DOMAIN trail'[c] = 1 .. n + 1
      /\ \A k \in 1 .. n : trail'[c][k] = trail[c][k]
           /\ Before(trail[c][k].stage, trail[c][k].proc, e.stage, e.proc)
      /\ trail'[c][n + 1] = e /\ e.stage = stage[c]
  BY DEF Added
<1>2. e.act # "loaded" => e.act = "ran"
  BY DEF Entry
<1>3. \A k \in 1 .. n : trail[c][k].stage \in Nat
  BY <1>1, StageFacts
<1> HIDE DEF n
<1>4. ASSUME NEW i \in 1 .. n, Fresh(c, i)'
      PROVE  e.act = "ran" /\ Fresh(c, i)
  <2>1. \A k \in 1 .. n + 1 : i < k => trail'[c][k].act # "loaded"
    BY <1>1, <1>4 DEF Fresh
  <2>2. e.act # "loaded"
    <3>1. n + 1 \in 1 .. n + 1 /\ i < n + 1
      BY <1>1
    <3> QED
      BY <1>1, <2>1, <3>1
  <2>3. \A k \in 1 .. n : i < k => trail[c][k].act # "loaded"
    BY <1>1, <2>1
  <2> QED
    BY <1>1, <1>2, <2>2, <2>3 DEF Fresh
<1>5. ASSUME NEW i \in 1 .. n, NEW m \in {n + 1}, NoLoadBetween(c, i, m)'
      PROVE  Fresh(c, i)
  <2>1. \A k \in 1 .. n + 1 : i < k /\ k < m => trail'[c][k].act # "loaded"
    BY <1>1, <1>5 DEF NoLoadBetween
  <2>2. \A k \in 1 .. n : i < k => trail[c][k].act # "loaded"
    BY <1>1, <2>1
  <2> QED
    BY <1>1, <2>2 DEF Fresh
<1>6. \A i, j \in 1 .. n : NoLoadBetween(c, i, j)' => NoLoadBetween(c, i, j)
  BY <1>1 DEF NoLoadBetween
<1>7. ASSUME NEW i \in 1 .. n
      PROVE  /\ Wrote(c, i)' <=> Wrote(c, i)
             /\ Replaced(c, i)' <=> Replaced(c, i)
             /\ trail[c][i].stage <= stage[c]
  <2>1. trail'[c][i] = trail[c][i]
    BY <1>1
  <2>2. trail[c][i].stage <= stage[c]
    BY <1>1, <1>3, StageFacts DEF Before
  <2> QED
    BY <2>1, <2>2 DEF Wrote, Replaced
<1>8. e.act = "ran" => RunEntry(c, e)
  BY DEF LoadEntry
<1>9. e.act # "ran" => LoadEntry(c, e)
  BY DEF RunEntry
<1> QED
  BY <1>4, <1>5, <1>6, <1>7, <1>8, <1>9 DEF n

(* The same facts, in the form the next four lemmas take them. *)
LEMMA HistoryAdded ==
  ASSUME TypeOK, NEW c \in Caller, NEW e \in Entry, Added(c, e), flow' = flow,
         LoadEntry(c, e) \/ RunEntry(c, e), Running(c), History(c)
  PROVE  History(c)'
<1> DEFINE n == Len(trail[c])
<1>1. /\ n \in Nat /\ DOMAIN trail[c] = 1 .. n /\ DOMAIN trail'[c] = 1 .. n + 1
      /\ \A k \in 1 .. n : trail'[c][k] = trail[c][k] /\ trail[c][k] \in Entry
      /\ trail'[c][n + 1] = e
      /\ e.stage = stage[c] /\ stage'[c] = stage[c]
      /\ e.blocks = blocks'[c] /\ e.summary = summary'[c]
  BY DEF Added
<1>2. /\ \A i \in 1 .. n : Fresh(c, i)' => e.act = "ran" /\ Fresh(c, i)
      /\ \A i \in 1 .. n, m \in {n + 1} : NoLoadBetween(c, i, m)' => Fresh(c, i)
      /\ \A i, j \in 1 .. n : NoLoadBetween(c, i, j)' => NoLoadBetween(c, i, j)
      /\ \A i \in 1 .. n : /\ Wrote(c, i)' <=> Wrote(c, i)
                           /\ Replaced(c, i)' <=> Replaced(c, i)
                           /\ trail[c][i].stage <= stage[c]
      /\ e.act = "ran" => RunEntry(c, e)
      /\ e.act # "ran" => LoadEntry(c, e)
  BY FreshAdded
<1>3. stage[c] \in Stages /\ stage[c] \in Nat
  BY StageFacts
<1>4. e.act = "ran" =>
        /\ stage[c] # Source => AsSet(blocks'[c]) \subseteq AsSet(blocks[c])
        /\ stage[c] \in {RunSummary, Output} => blocks'[c] = blocks[c]
        /\ stage[c] = RunSummary /\ flow[c][RunSummary][e.proc].kind = "plain" =>
             summary'[c] = [of |-> AsSet(blocks[c])]
        /\ ~(stage[c] = RunSummary /\ flow[c][RunSummary][e.proc].kind = "plain") =>
             summary'[c] = summary[c]
  BY <1>2 DEF RunEntry, Effect, Current, Procs
<1> HIDE DEF n
<1>5. InOrder(c)' /\ RightlyRun(c)'
  BY OrderAdded DEF History
<1>6. Coherent(c)' /\ CoherentNow(c)'
  <2>1. ASSUME NEW i \in 1 .. n, Fresh(c, i), Wrote(c, i), e.act = "ran"
        PROVE  summary'[c] = [of |-> AsSet(blocks'[c])]
    <3>1. summary[c] = [of |-> AsSet(blocks[c])]
      BY <1>1, <2>1 DEF History, CoherentNow
    <3>2. stage[c] \in {RunSummary, Output}
      BY <1>2, <1>3, <2>1 DEF Wrote, Stages, Source, RunSummary, Output
    <3> QED
      BY <1>4, <2>1, <3>1, <3>2
  <2>2. Coherent(c)'
    <3> SUFFICES ASSUME NEW i \in 1 .. n + 1, NEW j \in 1 .. n + 1, i < j,
                        NoLoadBetween(c, i, j)', Wrote(c, i)', Delivery(trail'[c][j])
                 PROVE  trail'[c][j].summary = [of |-> AsSet(trail'[c][j].blocks)]
      BY <1>1 DEF Coherent, Delivery
    <3>1. i \in 1 .. n /\ Wrote(c, i)
      BY <1>1, <1>2
    <3>2. CASE j \in 1 .. n
      BY <1>1, <1>2, <3>1, <3>2 DEF History, Coherent
    <3>3. CASE j = n + 1
      BY <1>1, <1>2, <2>1, <3>1, <3>3 DEF Delivery
    <3> QED
      BY <1>1, <3>2, <3>3
  <2>3. CoherentNow(c)'
    <3> SUFFICES ASSUME NEW i \in 1 .. n + 1, Fresh(c, i)', Wrote(c, i)'
                 PROVE  summary'[c] = [of |-> AsSet(blocks'[c])]
      BY <1>1 DEF CoherentNow
    <3>1. CASE i \in 1 .. n
      BY <1>2, <2>1, <3>1
    <3>2. CASE i = n + 1
      BY <1>1, <1>4, <3>2 DEF Wrote
    <3> QED
      BY <1>1, <3>1, <3>2
  <2> QED
    BY <2>2, <2>3
<1>7. Same(c)' /\ SameNow(c)'
  <2>1. ASSUME NEW i \in 1 .. n, Fresh(c, i), Delivery(trail[c][i]), e.act = "ran"
        PROVE  blocks'[c] = trail[c][i].blocks /\ summary'[c] = trail[c][i].summary
    <3>1. blocks[c] = trail[c][i].blocks /\ summary[c] = trail[c][i].summary
      BY <1>1, <2>1 DEF History, SameNow
    <3>2. stage[c] = Output /\ stage[c] # RunSummary
      BY <1>2, <1>3, <2>1 DEF Delivery, Stages, Source, RunSummary, Output
    <3> QED
      BY <1>4, <2>1, <3>1, <3>2
  <2>2. Same(c)'
    <3> SUFFICES ASSUME NEW i \in 1 .. n + 1, NEW j \in 1 .. n + 1, i < j,
                        NoLoadBetween(c, i, j)',
                        Delivery(trail'[c][i]), Delivery(trail'[c][j])
                 PROVE  /\ trail'[c][i].blocks = trail'[c][j].blocks
                        /\ trail'[c][i].summary = trail'[c][j].summary
      BY <1>1 DEF Same, Delivery
    <3>1. i \in 1 .. n /\ trail'[c][i] = trail[c][i]
      BY <1>1
    <3>2. CASE j \in 1 .. n
      BY <1>1, <1>2, <3>1, <3>2 DEF History, Same
    <3>3. CASE j = n + 1
      BY <1>1, <1>2, <2>1, <3>1, <3>3 DEF Delivery
    <3> QED
      BY <1>1, <3>2, <3>3
  <2>3. SameNow(c)'
    <3> SUFFICES ASSUME NEW i \in 1 .. n + 1, Fresh(c, i)', Delivery(trail'[c][i])
                 PROVE  /\ blocks'[c] = trail'[c][i].blocks
                        /\ summary'[c] = trail'[c][i].summary
      BY <1>1 DEF SameNow, Delivery
    <3>1. CASE i \in 1 .. n
      BY <1>1, <1>2, <2>1, <3>1
    <3>2. CASE i = n + 1
      BY <1>1, <3>2
    <3> QED
      BY <1>1, <3>1, <3>2
  <2> QED
    BY <2>2, <2>3
<1>8. Replacing(c)' /\ ReplacingNow(c)'
  <2>1. ASSUME NEW i \in 1 .. n, Fresh(c, i), Replaced(c, i), e.act = "ran"
        PROVE  AsSet(blocks'[c]) \subseteq AsSet(trail[c][i].read.blocks)
    <3>1. AsSet(blocks[c]) \subseteq AsSet(trail[c][i].read.blocks)
      BY <1>1, <2>1 DEF History, ReplacingNow
    <3>2. trail[c][i].stage \in Stages
      BY <1>1 DEF Entry
    <3>3. stage[c] # Source
      BY <1>2, <1>3, <2>1, <3>2 DEF Replaced, Stages, Source, Output
    <3> QED
      BY <1>4, <2>1, <3>1, <3>3
  <2>2. Replacing(c)'
    <3> SUFFICES ASSUME NEW i \in 1 .. n + 1, NEW j \in 1 .. n + 1, i < j,
                        NoLoadBetween(c, i, j)', Replaced(c, i)', trail'[c][j].act = "ran"
                 PROVE  AsSet(trail'[c][j].blocks) \subseteq AsSet(trail'[c][i].read.blocks)
      BY <1>1 DEF Replacing
    <3>0. i \in 1 .. n
      BY <1>1
    <3>1. i \in 1 .. n /\ trail'[c][i] = trail[c][i] /\ Replaced(c, i)
      BY <1>1, <1>2, <3>0
    <3>2. CASE j \in 1 .. n
      BY <1>1, <1>2, <3>1, <3>2 DEF History, Replacing
    <3>3. CASE j = n + 1
      BY <1>1, <1>2, <2>1, <3>1, <3>3
    <3> QED
      BY <1>1, <3>2, <3>3
  <2>3. ReplacingNow(c)'
    <3> SUFFICES ASSUME NEW i \in 1 .. n + 1, Fresh(c, i)', Replaced(c, i)'
                 PROVE  AsSet(blocks'[c]) \subseteq AsSet(trail'[c][i].read.blocks)
      BY <1>1 DEF ReplacingNow
    <3>1. CASE i \in 1 .. n
      BY <1>1, <1>2, <2>1, <3>1
    <3>2. CASE i = n + 1
      <4>1. /\ e.act = "loaded" /\ e.stage # Source
            /\ e.read.blocks # Nil \/ e.stage < RunSummary
        BY <1>1, <3>2 DEF Replaced
      <4>2. blocks'[c] = e.read.blocks
        BY <1>1, <1>2, <1>3, <4>1
        DEF LoadEntry, LoadedBlocks, Stages, Source, RunSummary, Output
      <4> QED
        BY <1>1, <3>2, <4>2
    <3> QED
      BY <1>1, <3>1, <3>2
  <2> QED
    BY <2>2, <2>3
<1>9. Filled(c)' /\ FilledNow(c)'
  <2>1. FilledNow(c)'
    <3> SUFFICES ASSUME stage[c] = Output, AsSet(blocks'[c]) = {}
                 PROVE  \E i \in 1 .. n + 1 : trail'[c][i].stage = Output
                                              /\ trail'[c][i].act = "loaded"
      BY <1>1 DEF FilledNow
    <3>1. CASE e.act = "ran"
      <4>1. blocks'[c] = blocks[c]
        BY <1>4, <3>1
      <4>2. PICK i \in 1 .. n : trail[c][i].stage = Output /\ trail[c][i].act = "loaded"
        BY <1>1, <4>1 DEF History, FilledNow
      <4>3. i \in 1 .. n + 1 /\ trail'[c][i] = trail[c][i]
        BY <1>1
      <4> QED
        BY <4>2, <4>3
    <3>2. CASE e.act # "ran"
      BY <1>1, <1>2, <3>2 DEF LoadEntry
    <3> QED
      BY <3>1, <3>2
  <2>2. Filled(c)'
    <3> SUFFICES ASSUME NEW j \in 1 .. n + 1, Delivery(trail'[c][j]),
                        AsSet(trail'[c][j].blocks) = {}
                 PROVE  \E i \in 1 .. n + 1 : /\ i < j /\ trail'[c][i].stage = Output
                                              /\ trail'[c][i].act = "loaded"
      BY <1>1 DEF Filled, Delivery
    <3>1. CASE j \in 1 .. n
      <4>1. PICK i \in 1 .. n : /\ i < j /\ trail[c][i].stage = Output
                                /\ trail[c][i].act = "loaded"
        BY <1>1, <3>1 DEF History, Filled
      <4>2. i \in 1 .. n + 1 /\ trail'[c][i] = trail[c][i]
        BY <1>1
      <4> QED
        BY <4>1, <4>2
    <3>2. CASE j = n + 1
      <4>1. blocks'[c] = blocks[c] /\ stage[c] = Output
        BY <1>1, <1>4, <3>2 DEF Delivery
      <4>2. PICK i \in 1 .. n : trail[c][i].stage = Output /\ trail[c][i].act = "loaded"
        BY <1>1, <3>2, <4>1 DEF History, FilledNow
      <4>3. i \in 1 .. n + 1 /\ trail'[c][i] = trail[c][i] /\ i < j
        BY <1>1, <3>2
      <4> QED
        BY <4>2, <4>3
    <3> QED
      BY <1>1, <3>1, <3>2
  <2> QED
    BY <2>1, <2>2
<1> QED
  BY <1>5, <1>6, <1>7, <1>8, <1>9 DEF History

-----------------------------------------------------------------------------
(***************************************************************************)
(* NothingSkipped for one caller, with its parts named: what the run must  *)
(* have done, and that it has.                                             *)
(***************************************************************************)
Due(c, s, i) ==
  /\ TakesPart(c, s, i) /\ Reached(c, s, i)
  /\ pc[c] # "enter" \/ s # stage[c]
  /\ ~(AllowPartial /\ s = Source)

Done(c, s, i) ==
  \E k \in DOMAIN trail[c] :
    /\ trail[c][k].stage = s /\ trail[c][k].proc = i
    /\ trail[c][k].act = IF Restores(flow[c][s][i]) THEN "loaded" ELSE "ran"

Complete(c) ==
  status[c] \in {"running", "completed"} =>
    \A s \in Stages : \A i \in DOMAIN flow[c][s] : Due(c, s, i) => Done(c, s, i)

(* Entries are never taken back. *)
LEMMA DoneStays ==
  ASSUME TypeOK, NEW c \in Caller, Step(c), Place(c), NEW s, NEW i, Done(c, s, i)
  PROVE  Done(c, s, i)'
<1>1. flow' = flow
  BY StepCases
<1>2. CASE Quiet(c)
  BY <1>1, <1>2 DEF Quiet, Done
<1>3. ASSUME NEW e \in Entry, Added(c, e)
      PROVE  \A k \in DOMAIN trail[c] : k \in DOMAIN trail'[c] /\ trail'[c][k] = trail[c][k]
  BY <1>3 DEF Added
<1>4. CASE \E e \in Entry : Added(c, e)
  BY <1>1, <1>3, <1>4 DEF Done
<1> QED
  BY <1>2, <1>4, StepAdds

(* What is recorded is done. *)
LEMMA RecordDone ==
  ASSUME TypeOK, NEW c \in Caller, NEW i \in Nat \ {0},
         NEW a \in {"ran", "loaded"}, NEW f \in {Nil} \cup Snapshot, flow' = flow,
         blocks'[c] \in Blocks, summary'[c] \in {Nil} \cup Summary,
         Record(c, i, a, f), NEW s \in Nat, s = stage[c],
         a = IF Restores(flow[c][s][i]) THEN "loaded" ELSE "ran"
  PROVE  Done(c, s, i)'
<1> DEFINE n == Len(trail[c])
<1>1. /\ n \in Nat /\ DOMAIN trail'[c] = 1 .. n + 1
      /\ trail'[c][n + 1] =
              [stage |-> stage[c], proc |-> i, act |-> a, read |-> f,
               blocks |-> blocks'[c], summary |-> summary'[c]]
  BY RecordFacts
<1>2. /\ n + 1 \in DOMAIN trail'[c]
      /\ trail'[c][n + 1].stage = s /\ trail'[c][n + 1].proc = i
      /\ trail'[c][n + 1].act = a
  BY <1>1
<1> QED
  BY <1>2 DEF Done

(* A step leaves nothing undone behind it. *)
LEMMA CompleteStep ==
  ASSUME TypeOK, NEW c \in Caller, Step(c), Place(c), Complete(c)
  PROVE  Complete(c)'
<1>0. /\ Running(c) /\ flow' = flow
      /\ 1 \in Nat \ {0}
      /\ stage[c] \in Stages /\ stage[c] \in Nat /\ pos[c] \in Nat \ {0}
      /\ pos[c] + 1 \in Nat \ {0}
  BY StepCases, StageFacts
<1>p. PICK n \in Nat : DOMAIN Procs(c) = 1 .. n
  BY StageFacts
<1>d. \A s \in Stages : s \in Nat /\ DOMAIN flow[c][s] \subseteq Nat \ {0}
  <2>1. \A s \in Stages : flow[c][s] \in Seq(Processor)
    BY FlowType DEF FlowDef
  <2> QED
    BY <2>1 DEF Stages, Source, Output
<1>t. \A s, i : TakesPart(c, s, i)' <=> TakesPart(c, s, i)
  BY <1>0 DEF TakesPart
<1>q. ASSUME \A s \in Stages : \A i \in DOMAIN flow[c][s] :
               Due(c, s, i)' => Due(c, s, i) \/ Done(c, s, i)'
      PROVE  Complete(c)'
  <2>1. \A s \in Stages : \A i \in DOMAIN flow[c][s] : Due(c, s, i) => Done(c, s, i)
    BY <1>0 DEF Complete, Running
  <2>2. \A s \in Stages : \A i \in DOMAIN flow[c][s] : Due(c, s, i)' => Done(c, s, i)'
    BY <1>q, <2>1, DoneStays
  <2> QED
    BY <1>0, <2>2 DEF Complete
<1>1. CASE Fails(c)
  BY <1>1, EndFacts DEF Fails, Complete
<1>2. CASE Starts(c)
  <2>1. stage'[c] = stage[c] /\ pos'[c] = 1 /\ pc'[c] = "proc" /\ pc[c] = "enter"
    BY <1>0, <1>2, GotoFacts DEF Starts
  <2>2. ASSUME NEW s \in Stages, NEW i \in DOMAIN flow[c][s], Due(c, s, i)'
        PROVE  Due(c, s, i)
    BY <1>0, <1>d, <1>t, <2>1, <2>2 DEF Due, Reached, Before
  <2> QED
    BY <1>q, <2>2
<1>3. ASSUME NEW i0 \in DOMAIN Procs(c), LoadsAt(c, i0) PROVE Complete(c)'
  <2>0. i0 \in Nat \ {0} /\ i0 + 1 \in Nat \ {0}
    BY <1>p
  <2>1. stage'[c] = stage[c] /\ pos'[c] = i0 + 1 /\ pc'[c] = "proc"
    BY <1>0, <1>3, <2>0, GotoFacts DEF LoadsAt
  <2>2. \A s \in Nat : s = stage[c] => Done(c, s, i0)'
    BY <1>0, <1>3, <2>0, LoadsFacts, RecordDone DEF LoadsAt, Procs
  <2>3. ASSUME NEW s \in Stages, NEW i \in DOMAIN flow[c][s], Due(c, s, i)'
        PROVE  Due(c, s, i) \/ Done(c, s, i)'
    <3>1. TakesPart(c, s, i) /\ (s < stage[c] \/ (s = stage[c] /\ i <= i0))
          /\ ~(AllowPartial /\ s = Source)
      BY <1>0, <1>d, <1>t, <2>0, <2>1, <2>3 DEF Due, Reached, Before
    <3>2. CASE s < stage[c]
      BY <1>0, <1>d, <3>1, <3>2 DEF Due, Reached, Before
    <3>3. CASE s = stage[c] /\ i = i0
      BY <1>d, <2>2, <3>3
    <3>4. CASE s = stage[c] /\ i < i0
      <4>1. CASE pc[c] = "enter" /\ FirstRestore(Procs(c), i0)
        BY <1>d, <1>p, <2>0, <3>1, <3>4, <4>1 DEF TakesPart, FirstRestore, Procs
      <4>2. CASE pc[c] = "proc" /\ i0 = pos[c]
        BY <1>0, <1>d, <3>1, <3>4, <4>2 DEF Due, Reached, Before
      <4> QED
        BY <1>3, <4>1, <4>2 DEF LoadsAt
    <3> QED
      BY <1>d, <2>0, <3>1, <3>2, <3>3, <3>4
  <2> QED
    BY <1>q, <2>3
<1>4. CASE PassesBy(c)
  <2>1. stage'[c] = stage[c] /\ pos'[c] = pos[c] + 1 /\ pc'[c] = "proc" /\ pc[c] = "proc"
    BY <1>0, <1>4, GotoFacts DEF PassesBy, AtProcessor
  <2>2. ASSUME NEW s \in Stages, NEW i \in DOMAIN flow[c][s], Due(c, s, i)'
        PROVE  Due(c, s, i)
    <3>1. TakesPart(c, s, i) /\ (s < stage[c] \/ (s = stage[c] /\ i <= pos[c]))
          /\ ~(AllowPartial /\ s = Source)
      BY <1>0, <1>d, <1>t, <2>1, <2>2 DEF Due, Reached, Before
    <3>2. ~(s = stage[c] /\ i = pos[c])
      BY <1>4, <3>1 DEF PassesBy, TakesPart, Current, Procs
    <3> QED
      BY <1>0, <1>d, <2>1, <3>1, <3>2 DEF Due, Reached, Before
  <2> QED
    BY <1>q, <2>2
<1>5. CASE Runs(c)
  <2>1. /\ pc[c] = "proc" /\ stage'[c] = stage[c]
        /\ \/ pos'[c] = pos[c] /\ pc'[c] = "create"
           \/ pos'[c] = pos[c] + 1 /\ pc'[c] = "proc"
    BY <1>0, <1>5, GotoFacts DEF Runs, Succeed, AtProcessor
  <2>2. \A s \in Nat : s = stage[c] => \A i \in {pos[c]} : Done(c, s, i)'
    BY <1>0, <1>5, RecordDone DEF Runs, Succeed, Effect, Current, Procs
  <2>3. ASSUME NEW s \in Stages, NEW i \in DOMAIN flow[c][s], Due(c, s, i)'
        PROVE  Due(c, s, i) \/ Done(c, s, i)'
    <3>1. TakesPart(c, s, i) /\ (s < stage[c] \/ (s = stage[c] /\ i <= pos[c]))
          /\ ~(AllowPartial /\ s = Source)
      BY <1>0, <1>d, <1>t, <2>1, <2>3 DEF Due, Reached, Before
    <3>2. CASE s = stage[c] /\ i = pos[c]
      BY <1>d, <2>2, <3>2
    <3>3. CASE ~(s = stage[c] /\ i = pos[c])
      BY <1>0, <1>d, <2>1, <3>1, <3>3 DEF Due, Reached, Before
    <3> QED
      BY <3>2, <3>3
  <2> QED
    BY <1>q, <2>3
<1>6. CASE Saves(c)
  <2>1. /\ stage'[c] = stage[c]
        /\ \/ pc[c] = "create" /\ pos'[c] = pos[c] /\ pc'[c] = "write"
           \/ pc[c] = "write" /\ pos'[c] = pos[c] + 1 /\ pc'[c] = "proc"
    BY <1>0, <1>6, GotoFacts DEF Saves
  <2>2. ASSUME NEW s \in Stages, NEW i \in DOMAIN flow[c][s], Due(c, s, i)'
        PROVE  Due(c, s, i)
    BY <1>0, <1>d, <1>t, <2>1, <2>2 DEF Due, Reached, Before
  <2> QED
    BY <1>q, <2>2
<1>7. CASE Leaves(c)
  <2>1. CASE RunOver(c)
    <3>1. stage'[c] = stage[c] /\ pos'[c] = pos[c] /\ pc'[c] = pc[c]
      BY <1>7, <2>1, EndFacts DEF Leaves
    <3>2. ASSUME NEW s \in Stages, NEW i \in DOMAIN flow[c][s], Due(c, s, i)'
          PROVE  Due(c, s, i)
      BY <1>t, <3>1, <3>2 DEF Due, Reached
    <3> QED
      BY <1>q, <3>2
  <2>2. CASE ~RunOver(c)
    <3>1. stage[c] + 1 \in Stages
      BY <1>0, <2>2 DEF RunOver, Stages, Source, Output
    <3>2. stage'[c] = stage[c] + 1 /\ pos'[c] = 1 /\ pc'[c] = "enter"
          /\ pc[c] = "proc" /\ pos[c] \notin 1 .. n
      BY <1>0, <1>p, <1>7, <2>2, <3>1, GotoFacts DEF Leaves
    <3>3. ASSUME NEW s \in Stages, NEW i \in DOMAIN flow[c][s], Due(c, s, i)'
          PROVE  Due(c, s, i)
      <4>1. s <= stage[c] /\ TakesPart(c, s, i) /\ ~(AllowPartial /\ s = Source)
        BY <1>0, <1>d, <1>t, <3>2, <3>3 DEF Due, Reached, Before
      <4>2. s = stage[c] => i \in 1 .. n
        BY <1>p DEF Procs
      <4> QED
        BY <1>0, <1>d, <3>2, <4>1, <4>2 DEF Due, Reached, Before
    <3> QED
      BY <1>q, <3>3
  <2> QED
    BY <2>1, <2>2
<1> QED
  BY <1>1, <1>2, <1>3, <1>4, <1>5, <1>6, <1>7, StepCases

-----------------------------------------------------------------------------
(***************************************************************************)
(* Files.  An undisturbed save has one writer, which is about to write     *)
(* what is expected to a file it has just truncated.                       *)
(***************************************************************************)
Undisturbed(p) ==
  expected[p] # Nil => \A c \in Writers(p) :
    Writers(p) = {c} /\ expected[p] = Payload(c) /\ disk[p] = Empty

Intact(p) == Writers(p) = {} /\ expected[p] # Nil => disk[p] = expected[p]

Files == \A p \in Path : Undisturbed(p) /\ Intact(p)

Writes(c) == Running(c) /\ pc[c] = "write"

(* Only SaveCreate makes a caller a writer, and only SaveWrite ends that. *)
LEMMA OtherSteps ==
  ASSUME TypeOK, NEW c \in Caller, Begin(c) \/ Step(c), ~SaveCreate(c), ~SaveWrite(c)
  PROVE  UNCHANGED files /\ ~Writes(c) /\ ~Writes(c)'
<1> USE DEF Writes, Running, files
<1>0. stage[c] \in Stages /\ pos[c] \in Nat \ {0} /\ pos[c] + 1 \in Nat \ {0}
      /\ 1 \in Nat \ {0}
  BY DEF TypeOK
<1>b. CASE Begin(c)
  BY <1>b DEF Begin, TypeOK
<1>f. CASE status[c] = "running" /\ pc[c] # "write" /\ End(c, "failed") /\ UNCHANGED files
  BY <1>f, EndFacts
<1>g. ASSUME NEW s \in Stages, NEW i \in Nat \ {0}, NEW l \in {"enter", "proc", "create"},
             status[c] = "running", pc[c] # "write", Goto(c, s, i, l), UNCHANGED files
      PROVE  UNCHANGED files /\ ~Writes(c) /\ ~Writes(c)'
  BY <1>g, GotoFacts
<1>s. CASE AtProcessor(c) /\ Succeed(c) /\ UNCHANGED files
  BY <1>0, <1>s, <1>g DEF AtProcessor, Succeed
<1>l. ASSUME NEW i \in DOMAIN Procs(c), Load(c, i), status[c] = "running", pc[c] # "write",
             UNCHANGED files
      PROVE  UNCHANGED files /\ ~Writes(c) /\ ~Writes(c)'
  <2>1. i + 1 \in Nat \ {0}
    BY FlowType
  <2>2. End(c, "failed") \/ Goto(c, stage[c], i + 1, "proc")
    BY <1>l DEF Load, LoadThen
  <2> QED
    BY <1>0, <1>f, <1>g, <1>l, <2>1, <2>2
<1>1. CASE EnterStage(c)
  <2>1. status[c] = "running" /\ pc[c] # "write" /\ UNCHANGED files
    BY <1>1 DEF EnterStage
  <2>2. CASE Goto(c, stage[c], 1, "proc")
    BY <1>0, <1>g, <2>1, <2>2
  <2>3. CASE \E i \in DOMAIN Procs(c) : Load(c, i)
    BY <1>l, <2>1, <2>3
  <2> QED
    BY <1>1, <2>2, <2>3 DEF EnterStage
<1>2. CASE SkipAbsent(c)
  BY <1>0, <1>2, <1>g DEF SkipAbsent, AtProcessor
<1>3. CASE RestoreLater(c)
  BY <1>3, <1>l DEF RestoreLater, AtProcessor
<1>4. CASE FetchSource(c)
  <2>1. AtProcessor(c) /\ UNCHANGED files
        /\ (Succeed(c) \/ Goto(c, stage[c], pos[c] + 1, "proc") \/ End(c, "failed"))
    BY <1>4 DEF FetchSource, Ready
  <2> QED
    BY <1>0, <1>f, <1>g, <1>s, <2>1 DEF AtProcessor
<1>5. CASE EvaluateQuality(c) \/ SummarizePosts(c) \/ SummarizeRun(c) \/ Deliver(c)
  <2>1. AtProcessor(c) /\ UNCHANGED files /\ (Succeed(c) \/ End(c, "failed"))
    BY <1>5 DEF EvaluateQuality, SummarizePosts, SummarizeRun, Deliver, Ready
  <2> QED
    BY <1>f, <1>s, <2>1 DEF AtProcessor
<1>6. CASE LeaveStage(c)
  <2>1. status[c] = "running" /\ pc[c] = "proc" /\ UNCHANGED files
    BY <1>6 DEF LeaveStage
  <2>2. CASE End(c, "completed")
    BY <2>1, <2>2, EndFacts
  <2>3. CASE ~RunOver(c) /\ Goto(c, stage[c] + 1, 1, "enter")
    <3>1. stage[c] + 1 \in Stages
      BY <1>0, <2>3 DEF RunOver, Stages, Source, Output
    <3> QED
      BY <1>0, <1>g, <2>1, <2>3, <3>1
  <2> QED
    BY <1>6, <2>2, <2>3 DEF LeaveStage
<1> QED
  BY <1>b, <1>1, <1>2, <1>3, <1>4, <1>5, <1>6 DEF Step

(* Who else writes a file does not change when a run takes a step. *)
LEMMA OtherWriters ==
  ASSUME TypeOK, NEW c \in Caller, Begin(c) \/ Step(c), NEW p \in Path, NEW d \in Caller, d # c
  PROVE  /\ d \in Writers(p) <=> d \in Writers(p)'
         /\ Payload(d)' = Payload(d)
BY OthersStay DEF Writers, Current, Procs, Payload

(* A step of a run keeps the files as they should be. *)
LEMMA FilesStep ==
  ASSUME TypeOK, NEW c \in Caller, Begin(c) \/ Step(c), Place(c), Files
  PROVE  Files'
<1> SUFFICES ASSUME NEW p \in Path PROVE (Undisturbed(p) /\ Intact(p))'
  BY DEF Files
<1>0. Undisturbed(p) /\ Intact(p)
  BY DEF Files
<1>w. Writers(p) \subseteq Caller /\ Writers(p)' \subseteq Caller
  BY DEF Writers
<1>t. /\ stage[c] \in Stages /\ pos[c] \in Nat \ {0} /\ pos[c] + 1 \in Nat \ {0}
      /\ flow' = flow
  BY OthersStay, StepCases DEF TypeOK, Begin
<1>1. CASE ~SaveCreate(c) /\ ~SaveWrite(c)
  <2>1. disk' = disk /\ expected' = expected /\ ~Writes(c) /\ ~Writes(c)'
    BY <1>1, OtherSteps DEF files
  <2>2. c \notin Writers(p) /\ c \notin Writers(p)'
    BY <2>1 DEF Writers, Writes, Running
  <2>3. Writers(p)' = Writers(p)
    BY <1>w, <2>2, OtherWriters
  <2>4. \A d \in Writers(p) : Payload(d)' = Payload(d)
    BY <1>w, <2>2, OtherWriters
  <2> QED
    BY <1>0, <2>1, <2>3, <2>4 DEF Undisturbed, Intact
<1>2. CASE SaveCreate(c)
  <2> DEFINE q == Current(c).path
  <2>1. status[c] = "running" /\ pc[c] = "create" /\ UNCHANGED data
    BY <1>2 DEF SaveCreate
  <2>2. q \in Path
    BY <2>1, FlowType DEF Place, Saving, Running, Current, Processor
  <2>3. c \notin Writers(p)
    BY <2>1 DEF Writers
  <2>4. CASE End(c, "failed") /\ UNCHANGED files
    <3>1. Writers(p)' = Writers(p)
      <4>1. c \notin Writers(p)'
        BY <2>4, EndFacts DEF Writers
      <4> QED
        BY <1>w, <2>3, <4>1, OtherWriters
    <3>2. \A d \in Writers(p) : Payload(d)' = Payload(d)
      BY <1>w, <2>3, OtherWriters
    <3> QED
      BY <1>0, <2>4, <3>1, <3>2 DEF Undisturbed, Intact, files
  <2>5. CASE /\ disk' = [disk EXCEPT ![q] = Empty]
             /\ expected' = [expected EXCEPT ![q] =
                               IF Writers(q) = {} THEN Payload(c) ELSE Nil]
             /\ Goto(c, stage[c], pos[c], "write")
    <3>1. /\ stage'[c] = stage[c] /\ pos'[c] = pos[c] /\ pc'[c] = "write"
          /\ status'[c] = "running"
      BY <1>t, <2>1, <2>5, GotoFacts
    <3>2. Payload(c)' = Payload(c)
      BY <2>1 DEF Payload, data
    <3>3. CASE p = q
      <4>1. Writers(p)' = Writers(p) \cup {c}
        <5>1. c \in Writers(p)'
          BY <1>t, <3>1, <3>3 DEF Writers, Current, Procs
        <5> QED
          BY <1>w, <5>1, OtherWriters
      <4>2. /\ disk'[p] = Empty
            /\ expected'[p] = IF Writers(p) = {} THEN Payload(c) ELSE Nil
        BY <2>2, <2>5, <3>3 DEF TypeOK
      <4> QED
        BY <3>2, <4>1, <4>2 DEF Undisturbed, Intact
    <3>4. CASE p # q
      <4>1. disk'[p] = disk[p] /\ expected'[p] = expected[p]
        BY <2>5, <3>4 DEF TypeOK
      <4>2. c \notin Writers(p)'
        BY <1>t, <3>1, <3>4 DEF Writers, Current, Procs
      <4>3. Writers(p)' = Writers(p)
        BY <1>w, <2>3, <4>2, OtherWriters
      <4>4. \A d \in Writers(p) : Payload(d)' = Payload(d)
        BY <1>w, <2>3, OtherWriters
      <4> QED
        BY <1>0, <4>1, <4>3, <4>4 DEF Undisturbed, Intact
    <3> QED
      BY <3>3, <3>4
  <2> QED
    BY <1>2, <2>4, <2>5 DEF SaveCreate
<1>3. CASE SaveWrite(c)
  <2> DEFINE q == Current(c).path
  <2>1. status[c] = "running" /\ pc[c] = "write" /\ UNCHANGED data
    BY <1>3 DEF SaveWrite
  <2>2. q \in Path
    BY <2>1, FlowType DEF Place, Saving, Running, Current, Processor
  <2>3. c \in Writers(q) /\ (p # q => c \notin Writers(p))
    BY <2>1 DEF Writers
  <2>4. c \notin Writers(p)'
    <3>1. CASE Goto(c, stage[c], pos[c] + 1, "proc")
      BY <1>t, <3>1, GotoFacts DEF Writers
    <3>2. CASE End(c, "failed")
      BY <3>2, EndFacts DEF Writers
    <3> QED
      BY <1>3, <3>1, <3>2 DEF SaveWrite
  <2>5. Writers(p)' = Writers(p) \ {c}
    BY <1>w, <2>4, OtherWriters
  <2>6. CASE p # q
    <3>1. disk'[p] = disk[p] /\ expected'[p] = expected[p]
      BY <1>3, <2>6 DEF SaveWrite, TypeOK
    <3>2. Writers(p)' = Writers(p)
      BY <2>3, <2>5, <2>6
    <3>3. \A d \in Writers(p) : Payload(d)' = Payload(d)
      BY <1>w, <2>3, <2>6, OtherWriters
    <3> QED
      BY <1>0, <3>1, <3>2, <3>3 DEF Undisturbed, Intact
  <2>7. CASE p = q
    <3>1. CASE expected'[p] = Nil
      BY <3>1 DEF Undisturbed, Intact
    <3>2. CASE expected'[p] # Nil
      <4>1. expected' = expected
        BY <1>3, <2>2, <2>7, <3>2 DEF SaveWrite, TypeOK
      <4>2. Writers(p) = {c} /\ expected[p] = Payload(c) /\ disk[p] = Empty
        BY <1>0, <2>3, <2>7, <3>2, <4>1 DEF Undisturbed
      <4>3. disk' = [disk EXCEPT ![p] = Payload(c)]
        <5>1. expected' # [expected EXCEPT ![p] = Nil]
          BY <2>2, <2>7, <3>2 DEF TypeOK
        <5> QED
          BY <1>3, <2>7, <4>2, <5>1 DEF SaveWrite
      <4>4. disk'[p] = expected'[p]
        BY <4>1, <4>2, <4>3 DEF TypeOK
      <4>5. Writers(p)' = {}
        BY <2>5, <4>2
      <4> QED
        BY <4>4, <4>5 DEF Undisturbed, Intact
    <3> QED
      BY <3>1, <3>2
  <2> QED
    BY <2>6, <2>7
<1> QED
  BY <1>1, <1>2, <1>3

-----------------------------------------------------------------------------
(***************************************************************************)
(* The inductive invariant as a whole.                                     *)
(***************************************************************************)
RunInv(c) == Place(c) /\ History(c) /\ Complete(c)
IInv == (\A c \in Caller : RunInv(c)) /\ Files

(* A run that is yet to take its first step satisfies it. *)
LEMMA RunInvFresh ==
  ASSUME NEW c \in Caller, trail[c] = <<>>,
         \/ status[c] = "idle"
         \/ status[c] = "running" /\ pc[c] = "enter" /\ stage[c] = Source /\ pos[c] = 1,
         flow[c] \in FlowDef
  PROVE  RunInv(c)
<1>1. DOMAIN trail[c] = {} /\ \A k \in {} : FALSE
  OBVIOUS
<1>2. Place(c)
  BY <1>1 DEF Place, Saving, Behind, Resumed, Running
<1>3. Running(c) => stage[c] # Output
  BY DEF Running, Source, Output
<1>4. InOrder(c) /\ RightlyRun(c) /\ Coherent(c) /\ Same(c) /\ Replacing(c) /\ Filled(c)
  BY <1>1 DEF InOrder, RightlyRun, Coherent, Same, Replacing, Filled
<1>5. CoherentNow(c) /\ SameNow(c) /\ ReplacingNow(c) /\ FilledNow(c)
  BY <1>1, <1>3 DEF CoherentNow, SameNow, ReplacingNow, FilledNow
<1>6. Complete(c)
  <2>1. ASSUME status[c] = "running", NEW s \in Stages, NEW i \in DOMAIN flow[c][s]
        PROVE  ~Due(c, s, i)
    <3>1. s \in Nat /\ s >= 1 /\ i \in Nat /\ i >= 1
      <4>1. flow[c][s] \in Seq(Processor)
        BY DEF FlowDef
      <4> QED
        BY <4>1 DEF Stages, Source, Output
    <3>2. pc[c] = "enter" /\ stage[c] = 1 /\ pos[c] = 1
      BY <2>1 DEF Source
    <3> QED
      BY <3>1, <3>2 DEF Due, Reached, Before
  <2> QED
    BY <2>1 DEF Complete
<1> QED
  BY <1>2, <1>4, <1>5, <1>6 DEF RunInv, History

(* A run that has just begun, or is over with the process, satisfies it. *)
LEMMA RunInvFreshNext ==
  ASSUME NEW c \in Caller, trail'[c] = <<>>,
         \/ status'[c] = "idle"
         \/ status'[c] = "running" /\ pc'[c] = "enter" /\ stage'[c] = Source /\ pos'[c] = 1,
         flow'[c] \in FlowDef
  PROVE  RunInv(c)'
<1>1. DOMAIN trail'[c] = {} /\ \A k \in {} : FALSE
  OBVIOUS
<1>2. Place(c)'
  BY <1>1 DEF Place, Saving, Behind, Resumed, Running
<1>3. Running(c)' => stage'[c] # Output
  BY DEF Running, Source, Output
<1>4. InOrder(c)' /\ RightlyRun(c)' /\ Coherent(c)' /\ Same(c)' /\ Replacing(c)' /\ Filled(c)'
  BY <1>1 DEF InOrder, RightlyRun, Coherent, Same, Replacing, Filled
<1>5. CoherentNow(c)' /\ SameNow(c)' /\ ReplacingNow(c)' /\ FilledNow(c)'
  BY <1>1, <1>3 DEF CoherentNow, SameNow, ReplacingNow, FilledNow
<1>6. Complete(c)'
  <2>1. ASSUME status'[c] = "running", NEW s \in Stages, NEW i \in DOMAIN flow'[c][s]
        PROVE  ~Due(c, s, i)'
    <3>1. s \in Nat /\ s >= 1 /\ i \in Nat /\ i >= 1
      <4>1. flow'[c][s] \in Seq(Processor)
        BY DEF FlowDef
      <4> QED
        BY <4>1 DEF Stages, Source, Output
    <3>2. pc'[c] = "enter" /\ stage'[c] = 1 /\ pos'[c] = 1
      BY <2>1 DEF Source
    <3> QED
      BY <3>1, <3>2 DEF Due, Reached, Before
  <2> QED
    BY <2>1 DEF Complete
<1> QED
  BY <1>2, <1>4, <1>5, <1>6 DEF RunInv, History

(* What a run does not change keeps it. *)
LEMMA RunInvSame ==
  ASSUME NEW c \in Caller, RunInv(c), flow'[c] = flow[c],
         status'[c] = status[c], stage'[c] = stage[c], pos'[c] = pos[c], pc'[c] = pc[c],
         blocks'[c] = blocks[c], summary'[c] = summary[c], trail'[c] = trail[c]
  PROVE  RunInv(c)'
<1> USE DEF RunInv
<1>1. Place(c)'
  BY DEF Place, Saving, Behind, Resumed, Running, Passed, Current, Procs
<1>2. InOrder(c)' /\ RightlyRun(c)'
  BY DEF History, InOrder, RightlyRun, TakesPart
<1>3. Coherent(c)' /\ Same(c)' /\ Replacing(c)' /\ Filled(c)'
  BY DEF History, Coherent, Same, Replacing, Wrote, Replaced, NoLoadBetween, Filled
<1>4. CoherentNow(c)' /\ SameNow(c)' /\ ReplacingNow(c)' /\ FilledNow(c)'
  BY DEF History, CoherentNow, SameNow, ReplacingNow, FilledNow, Wrote, Replaced,
         Fresh, Running
<1>5. Complete(c)'
  BY DEF Complete, Due, Done, TakesPart, Reached
<1> QED
  BY <1>1, <1>2, <1>3, <1>4, <1>5 DEF History

(* Nothing has run, and no file is torn.                                 *)
LEMMA InvInit == Init => IInv
<1> SUFFICES ASSUME Init PROVE IInv
  OBVIOUS
<1>1. ASSUME NEW c \in Caller PROVE RunInv(c)
  <2>1. trail[c] = <<>> /\ status[c] = "idle" /\ flow[c] \in FlowDef
    BY RunnerAssumption DEF Init
  <2> QED
    BY <2>1, RunInvFresh
<1>2. Files
  <2>1. \A p \in Path : Writers(p) = {}
    BY DEF Init, Writers
  <2> QED
    BY <2>1 DEF Files, Undisturbed, Intact, Init
<1> QED
  BY <1>1, <1>2 DEF IInv

(* Every step keeps the invariant.                                       *)
LEMMA InvNext == TypeOK /\ IInv /\ [Next]_vars => IInv'
<1> SUFFICES ASSUME TypeOK, IInv, [Next]_vars PROVE IInv'
  OBVIOUS
<1>1. ASSUME NEW c \in Caller, Begin(c) \/ Step(c) PROVE IInv'
  <2>1. Files'
    BY <1>1, FilesStep DEF IInv, RunInv
  <2>2. ASSUME NEW d \in Caller, d # c PROVE RunInv(d)'
    BY <1>1, <2>2, OthersStay, RunInvSame DEF IInv
  <2>3. CASE Begin(c)
    <3>1. /\ trail'[c] = <<>> /\ status'[c] = "running" /\ pc'[c] = "enter"
          /\ stage'[c] = Source /\ pos'[c] = 1 /\ flow'[c] \in FlowDef
      BY <2>3, FlowType DEF Begin, TypeOK
    <3>2. RunInv(c)'
      BY <3>1, RunInvFreshNext
    <3> QED
      BY <2>1, <2>2, <3>2 DEF IInv
  <2>4. CASE Step(c)
    <3>1. Place(c)' /\ Complete(c)'
      BY <2>4, PlaceStep, CompleteStep DEF IInv, RunInv
    <3>2. History(c)'
      <4>1. Running(c) /\ flow' = flow /\ History(c) /\ Place(c)
        BY <2>4, StepCases DEF IInv, RunInv
      <4> QED
        BY <2>4, <4>1, StepAdds, HistoryQuiet, HistoryAdded
    <3> QED
      BY <2>1, <2>2, <3>1, <3>2 DEF IInv, RunInv
  <2> QED
    BY <1>1, <2>3, <2>4
<1>2. CASE Restart
  <2>1. ASSUME NEW c \in Caller PROVE RunInv(c)'
    <3>1. trail'[c] = <<>> /\ status'[c] = "idle" /\ flow'[c] \in FlowDef
      BY <1>2, RunnerAssumption DEF Restart
    <3> QED
      BY <3>1, RunInvFreshNext
  <2>2. \A p \in Path : Writers(p)' = {}
    BY <1>2 DEF Restart, Writers
  <2>3. \A p \in Path : expected'[p] = IF Writers(p) = {} THEN expected[p] ELSE Nil
    BY <1>2 DEF Restart
  <2>4. disk' = disk
    BY <1>2 DEF Restart
  <2>5. Files'
    BY <2>2, <2>3, <2>4 DEF IInv, Files, Undisturbed, Intact
  <2> QED
    BY <2>1, <2>5 DEF IInv
<1>3. CASE UNCHANGED vars
  <2>1. ASSUME NEW c \in Caller PROVE RunInv(c)'
    BY <1>3, RunInvSame DEF vars, IInv
  <2>2. Files'
    BY <1>3 DEF vars, IInv, Files, Undisturbed, Intact, Writers, Current, Procs, Payload
  <2> QED
    BY <2>1, <2>2 DEF IInv
<1> QED
  BY <1>1, <1>2, <1>3 DEF Next

(* So types and invariant hold at all times.                             *)
LEMMA InvHolds == Spec => [](TypeOK /\ IInv)
BY TypeInit, TypeNext, InvInit, InvNext, PTL DEF Spec

(***************************************************************************)
(* RunOnce never applies a processor twice in a run nor goes back, for     *)
(* flows of any length and restores anywhere in them.                      *)
(***************************************************************************)
THEOREM TrailInOrder == Spec => []OnceInOrder
<1>1. IInv => OnceInOrder
  BY DEF IInv, RunInv, History, InOrder, OnceInOrder
<1> QED
  BY <1>1, InvHolds, PTL

(***************************************************************************)
(* Exactly the processors that should run do: none that takes part is left *)
(* out, and none that a restore stands in for is run.                      *)
(***************************************************************************)
THEOREM RunsAreExact == Spec => []RunsExactly
<1>1. IInv => RunsExactly
  <2> SUFFICES ASSUME IInv PROVE RunsExactly
    OBVIOUS
  <2>1. NothingSkipped
    BY DEF IInv, RunInv, Complete, Due, Done, NothingSkipped
  <2>2. RestoredDoNotRun
    BY DEF IInv, RunInv, History, RightlyRun, RestoredDoNotRun
  <2> QED
    BY <2>1, <2>2 DEF RunsExactly
<1> QED
  BY <1>1, InvHolds, PTL

(***************************************************************************)
(* A restore behind the sources replaces what the run had gathered.        *)
(***************************************************************************)
THEOREM RestoresReplace == Spec => []RestoreReplaces
<1>1. IInv => RestoreReplaces
  BY DEF IInv, RunInv, History, Replacing, Replaced, RestoreReplaces
<1> QED
  BY <1>1, InvHolds, PTL

(***************************************************************************)
(* Outputs get whole digests: posts, the same to all of them, and their    *)
(* summary.                                                                *)
(***************************************************************************)
THEOREM OutputsGetWholeDigests == Spec => []DigestsWhole
<1>1. IInv => DigestsWhole
  <2> SUFFICES ASSUME IInv PROVE DigestsWhole
    OBVIOUS
  <2>1. DigestCoherent
    BY DEF IInv, RunInv, History, Coherent, Wrote, DigestCoherent
  <2>2. SameDigest
    BY DEF IInv, RunInv, History, Same, SameDigest
  <2>3. NoEmptyDelivery
    BY DEF IInv, RunInv, History, Filled, NoEmptyDelivery
  <2> QED
    BY <2>1, <2>2, <2>3 DEF DigestsWhole
<1> QED
  BY <1>1, InvHolds, PTL

(***************************************************************************)
(* A snapshot file that nobody is writing holds, whole, what was saved     *)
(* last, unless that save failed, died or met another: for any number of   *)
(* runs and files.                                                         *)
(***************************************************************************)
THEOREM SnapshotsStayIntact == Spec => []SnapshotIntact
<1>1. IInv => SnapshotIntact
  BY DEF IInv, Files, Intact, SnapshotIntact
<1> QED
  BY <1>1, InvHolds, PTL

-----------------------------------------------------------------------------
(***************************************************************************)
(* Every step of RunOnce is a step of RunLife, or one that RunLife does    *)
(* not see.                                                                *)
(***************************************************************************)
LEMMA LifeStep == TypeOK /\ [Next]_vars => [Life!Next]_(Life!life)
<1> SUFFICES ASSUME TypeOK, [Next]_vars PROVE [Life!Next]_(Life!life)
  OBVIOUS
<1> USE DEF Life!Next, Life!life
<1>1. ASSUME NEW c \in Caller, Begin(c) PROVE [Life!Next]_(Life!life)
  BY <1>1 DEF Begin, Life!Begin, Source, Life!First
<1>2. ASSUME NEW c \in Caller, Step(c) PROVE [Life!Next]_(Life!life)
  <2>0. stage[c] \in Stages /\ pos[c] \in Nat \ {0} /\ status[c] = "running"
    BY <1>2, StageFacts, StepCases DEF Running
  <2>1. CASE Fails(c)
    BY <2>0, <2>1 DEF Fails, End, Life!Fail
  <2>2. ASSUME NEW i, NEW l, Goto(c, stage[c], i, l)
        PROVE  UNCHANGED <<status, stage>>
    BY <2>2 DEF Goto, TypeOK
  <2>3. CASE Starts(c) \/ PassesBy(c) \/ Runs(c) \/ Saves(c)
             \/ \E i \in DOMAIN Procs(c) : LoadsAt(c, i)
    BY <2>2, <2>3 DEF Starts, PassesBy, Runs, Succeed, Saves, LoadsAt
  <2>4. CASE Leaves(c) /\ RunOver(c)
    BY <2>0, <2>4 DEF Leaves, End, Life!Complete, RunOver, Life!MayEndAt, Life!Last,
       Source, Quality, RunSummary, Output
  <2>5. CASE Leaves(c) /\ ~RunOver(c)
    BY <2>0, <2>5 DEF Leaves, Goto, Life!Advance, RunOver, Life!Last,
       Stages, Source, Output
  <2> QED
    BY <1>2, <2>1, <2>3, <2>4, <2>5, StepCases
<1>3. CASE Restart
  BY <1>3 DEF Restart, Life!Reset
<1>4. CASE UNCHANGED vars
  BY <1>4 DEF vars
<1> QED
  BY <1>1, <1>2, <1>3, <1>4 DEF Next

(***************************************************************************)
(* To the rest of the program the runs of RunOnce are those of RunLife:    *)
(* stages in their order, none left out, an end only where one may be.     *)
(***************************************************************************)
THEOREM RunnerFollowsLife == Spec => FollowsLife
<1>1. Init => Life!Init
  BY DEF Init, Life!Init, Source, Life!First
<1>2. Spec => []TypeOK
  BY RunnerTypeCorrect
<1> QED
  BY <1>1, <1>2, LifeStep, PTL DEF Spec, FollowsLife, Life!Spec
=============================================================================
