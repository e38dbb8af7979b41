-------------------------- MODULE RunnerProperties --------------------------
(***************************************************************************)
(* What RunOnce promises about a run, whatever the flow, the faults of its *)
(* processors and the runs next to it.  The entries of trail[c] are the    *)
(* processors that returned without an error and the snapshots loaded, in  *)
(* order; an entry holds the blocks and the summary it left behind.        *)
(***************************************************************************)
EXTENDS Runner

Entry == [stage : Stages, proc : Nat \ {0}, act : {"ran", "loaded"},
          read : {Nil} \cup Snapshot, blocks : Blocks,
          summary : {Nil} \cup Summary]

(* Every variable of RunOnce and every snapshot file has its type. *)
TypeOK ==
  /\ flow \in Setups
  /\ status \in [Caller -> {"idle", "running", "completed", "failed"}]
  /\ stage \in [Caller -> Stages]
  /\ pos \in [Caller -> Nat \ {0}]
  /\ pc \in [Caller -> {"enter", "proc", "create", "write"}]
  /\ blocks \in [Caller -> Blocks]
  /\ summary \in [Caller -> {Nil} \cup Summary]
  /\ disk \in [Path -> Unreadable \cup Snapshot]
  /\ begun \in [Caller -> Nat]
  /\ trail \in [Caller -> Seq(Entry)]
  /\ expected \in [Path -> {Nil} \cup Unreadable \cup Snapshot]

-----------------------------------------------------------------------------
Delivery(e) == e.stage = Output /\ e.act = "ran"
Before(s, i, t, j) == s < t \/ (s = t /\ i < j)

\* No snapshot is loaded strictly between entries i and j of c's run.
NoLoadBetween(c, i, j) ==
  \A k \in DOMAIN trail[c] : i < k /\ k < j => trail[c][k].act # "loaded"

\* Processor i of stage s takes part in c's run: it exists, and the stage
\* does not resume behind it.
TakesPart(c, s, i) ==
  LET ps == flow[c][s] IN
  /\ i \in DOMAIN ps /\ ps[i].kind # "absent"
  /\ \A j \in DOMAIN ps : j <= i \/ ~Restores(ps[j])
                           \/ \E h \in 1 .. j-1 : Restores(ps[h])

\* Where the run of c is, as a position of its flow.
Reached(c, s, i) ==
  \/ Before(s, i, stage[c], pos[c])
  \/ pc[c] \in {"create", "write"} /\ s = stage[c] /\ i = pos[c]

(***************************************************************************)
(* A run never applies a processor twice nor goes back: the entries of its *)
(* trail are in pipeline order, strictly.  A post is thus summarised once  *)
(* and a digest is delivered to an output at most once per run, restores   *)
(* in the middle of a stage included.                                      *)
(***************************************************************************)
OnceInOrder ==
  \A c \in Caller : \A i, j \in DOMAIN trail[c] :
    i < j => Before(trail[c][i].stage, trail[c][i].proc,
                    trail[c][j].stage, trail[c][j].proc)

(***************************************************************************)
(* Nothing is skipped: when a run has got past a processor that takes part *)
(* in it, the processor ran or, if it restores, its snapshot was loaded.   *)
(* Only a source may be missing, and only with AllowPartialSourceErrors.   *)
(* Without this, an unfiltered post or an output left out would show up    *)
(* only as a run marked completed.                                         *)
(***************************************************************************)
NothingSkipped ==
  \A c \in Caller : status[c] \in {"running", "completed"} =>
    \A s \in Stages : \A i \in DOMAIN flow[c][s] :
      /\ TakesPart(c, s, i) /\ Reached(c, s, i)
      /\ pc[c] # "enter" \/ s # stage[c]
      /\ ~(AllowPartial /\ s = Source)
      => \E k \in DOMAIN trail[c] :
           /\ trail[c][k].stage = s /\ trail[c][k].proc = i
           /\ trail[c][k].act = IF Restores(flow[c][s][i]) THEN "loaded"
                                                           ELSE "ran"

(***************************************************************************)
(* The processors a restore stands in for do not run: nothing ran in a     *)
(* stage at or before its first restoring processor, and a processor that  *)
(* restores never ran (TestRunner_QualityRestore_HonorsLaterRestore...).   *)
(***************************************************************************)
RestoredDoNotRun ==
  \A c \in Caller : \A k \in DOMAIN trail[c] :
    LET e == trail[c][k]  ps == flow[c][e.stage] IN
    e.act = "ran" => /\ TakesPart(c, e.stage, e.proc)
                     /\ ~Restores(ps[e.proc])

\* Exactly the processors that should run do.
RunsExactly == NothingSkipped /\ RestoredDoNotRun

(***************************************************************************)
(* A restore behind the sources replaces what the run had gathered: after  *)
(* it, and until another one, every post in the run comes from the loaded  *)
(* file, so a post fetched by this run's sources is not delivered unless   *)
(* the file has it.  The exception is a file without blocks loaded by a    *)
(* run-summary processor or an output.                                     *)
(***************************************************************************)
RestoreReplaces ==
  \A c \in Caller : \A i, j \in DOMAIN trail[c] :
    /\ i < j /\ NoLoadBetween(c, i, j)
    /\ trail[c][i].act = "loaded" /\ trail[c][i].stage # Source
    /\ trail[c][j].act = "ran"
    /\ trail[c][i].read.blocks # Nil \/ trail[c][i].stage < RunSummary
    => AsSet(trail[c][j].blocks) \subseteq AsSet(trail[c][i].read.blocks)

(***************************************************************************)
(* The summary goes with the posts: once a processor has written a run     *)
(* summary, every output that follows gets a summary of exactly the posts  *)
(* it gets, unless a snapshot loaded in between mixes the two.             *)
(***************************************************************************)
DigestCoherent ==
  \A c \in Caller : \A i, j \in DOMAIN trail[c] :
    /\ i < j /\ NoLoadBetween(c, i, j)
    /\ trail[c][i].act = "ran" /\ trail[c][i].stage = RunSummary
    /\ flow[c][RunSummary][trail[c][i].proc].kind = "plain"
    /\ Delivery(trail[c][j])
    => trail[c][j].summary = [of |-> AsSet(trail[c][j].blocks)]

(***************************************************************************)
(* All outputs of a run get the same digest, unless an output in between   *)
(* restores one.                                                           *)
(***************************************************************************)
SameDigest ==
  \A c \in Caller : \A i, j \in DOMAIN trail[c] :
    /\ i < j /\ NoLoadBetween(c, i, j)
    /\ Delivery(trail[c][i]) /\ Delivery(trail[c][j])
    => /\ trail[c][i].blocks = trail[c][j].blocks
       /\ trail[c][i].summary = trail[c][j].summary

(***************************************************************************)
(* "no blocks to deliver, skipping outputs": an output never gets an empty *)
(* digest, although post-summary processors may drop every post and late   *)
(* restores may replace them by none.  Only a file an output itself loads  *)
(* escapes the check.                                                      *)
(***************************************************************************)
NoEmptyDelivery ==
  \A c \in Caller : \A j \in DOMAIN trail[c] :
    Delivery(trail[c][j]) /\ AsSet(trail[c][j].blocks) = {} =>
      \E i \in DOMAIN trail[c] :
        i < j /\ trail[c][i].stage = Output /\ trail[c][i].act = "loaded"

\* What outputs get is whole: posts, all of them the same, and their summary.
DigestsWhole == DigestCoherent /\ SameDigest /\ NoEmptyDelivery

(***************************************************************************)
(* A file that nobody is writing holds the snapshot saved last, whole, so  *)
(* a restart can resume from it.  It is truncated, garbled or older only   *)
(* after a save that failed, died with the process, or overlapped another  *)
(* run's save of the same file.                                            *)
(***************************************************************************)
SnapshotIntact ==
  \A p \in Path : Writers(p) = {} /\ expected[p] # Nil => disk[p] = expected[p]

(***************************************************************************)
(* A run that was begun ends, completed or failed, unless the process is   *)
(* killed: no flow and no fault leaves RunOnce hanging in its loops.       *)
(***************************************************************************)
RunEnds == \A c \in Caller : status[c] = "running" ~> status[c] # "running"

(***************************************************************************)
(* To the rest of the program a run is that of module RunLife: snapshots   *)
(* and restores never make it repeat a stage, leave one out, or complete   *)
(* behind one that must be followed by the next.                           *)
(***************************************************************************)
Life == INSTANCE RunLife
FollowsLife == Life!Spec
=============================================================================
