------------------------------- MODULE Startup ------------------------------
(***************************************************************************)
(* How cmd/curator comes to its flows: the documents of -config are        *)
(* loaded, and one after the other validated and built into flows by the   *)
(* one factory of the process (internal/config, internal/runner/factory);  *)
(* with -run-once main then runs every flow once, else it starts them and  *)
(* the process goes on as in module Curator.  Runs are those of RunLife.   *)
(***************************************************************************)
EXTENDS Naturals, Sequences, FlowDefs, SequencesExt

CONSTANTS
  Word,       \* words of names; numbers may be words too
  Flow,       \* the word "flow"
  Documents,  \* the documents a directory may hold, a subset of Document
  MaxDocs     \* bound on the number of documents

(***************************************************************************)
(* A document, as far as it decides what becomes of it.  words is what     *)
(* slugify makes of its name (of the file's name, if it is blank), readable*)
(* says that it is YAML, templates that its template references resolve    *)
(* and type-check.  An entry of a section may set several variants (and    *)
(* leaves the others Nil); Validate finds fault with a "rejected" part, the variant's   *)
(* constructor fails on a "broken" one (a rule that does not compile or is *)
(* not boolean, markdown without a name).  A "broken" schedule is one cron *)
(* does not parse, a "broken" store one that cannot be opened.             *)
(***************************************************************************)
Fate == {"rejected", "broken", "ok"}
Snap == [snapshot : BOOLEAN, restore : BOOLEAN, path : {Nil} \cup Path]
Part == [fate : Fate, snap : Snap]

\* In the order in which the builders look for them.
Variants ==
  << <<"reddit", "rss", "arxiv", "scrape", "testfile">>,
     <<"rule", "llm">>, <<"llm", "markdown">>, <<"llm", "markdown">>,
     <<"email">> >>
EntryOf(s) == [ToSet(Variants[s]) -> {Nil} \cup Part]
Given(e) == {v \in DOMAIN e : e[v] # Nil}

Document ==
  [words : Seq(Word \cup Nat), named : BOOLEAN, readable : BOOLEAN,
   templates : BOOLEAN, triggers : Seq(Fate), store : {"none"} \cup Fate,
   sources : Seq(EntryOf(Source)), quality : Seq(EntryOf(Quality)),
   post_summary : Seq(EntryOf(PostSummary)),
   run_summary : Seq(EntryOf(RunSummary)), output : Seq(EntryOf(Output))]

ASSUME StartupAssumption ==
  /\ Documents \subseteq Document
  /\ MaxDocs \in Nat
  /\ Flow \in Word
  /\ Nil \notin 1 .. MaxDocs

VARIABLES
  docs, runOnce, envSound,  \* what the process is started with
  main,      \* where main is: "loading", "building", "starting", "running";
             \* "scheduled" (see Curator), "exited" or "panicked" at last
  next,      \* the document or flow main is at
  factory,   \* Factory.SeenStore: the document it was opened for, or Nil
  open,      \* the stores that are open
  flows,     \* the flows built so far
  seenFlowIDs,
  status, stage,  \* the run under way, as in RunLife
  failed,    \* flows whose run failed (runErr)
  ran        \* history: the flows run, in order

vars == <<docs, runOnce, envSound, main, next, factory, open, flows,
          seenFlowIDs, status, stage, failed, ran>>
input == <<docs, runOnce, envSound>>
built == <<factory, open, flows, seenFlowIDs>>
run == <<status, stage, failed, ran>>

Run == INSTANCE RunLife WITH Caller <- {"main"}

Section(d, s) ==
  <<d.sources, d.quality, d.post_summary, d.run_summary, d.output>>[s]

-----------------------------------------------------------------------------
(* Validate *)

SnapshotValid(snap) ==
  /\ ~(snap.snapshot /\ snap.restore)
  /\ snap.snapshot \/ snap.restore => snap.path # Nil

EntryValid(e) ==
  /\ Given(e) # {}
  /\ \A v \in Given(e) : e[v].fate # "rejected" /\ SnapshotValid(e[v].snap)

Valid(d) ==
  /\ d.templates /\ d.named
  /\ d.triggers # <<>> /\ d.sources # <<>> /\ d.output # <<>>
  /\ d.store # "rejected"
  /\ \A i \in DOMAIN d.triggers : d.triggers[i] # "rejected"
  /\ \A s \in Stages : \A i \in DOMAIN Section(d, s) : EntryValid(Section(d, s)[i])

-----------------------------------------------------------------------------
(* build... and the factory *)

\* The variants an entry sets, in the order of the code's ifs.
GivenInOrder(s, e) ==
  FlattenSeq([k \in DOMAIN Variants[s] |->
    IF Variants[s][k] \in Given(e) THEN <<Variants[s][k]>> ELSE <<>>])

\* "if" where the code says "else if".
WrongBuilt(s, e) == GivenInOrder(s, e)

\* Of an entry all sources are built, else the first variant alone.
Built(s, e) ==
  IF s = Source \/ Given(e) = {} THEN GivenInOrder(s, e)
  ELSE <<Head(GivenInOrder(s, e))>>

Mode(snap) ==
  CASE snap.restore -> "restore" [] snap.snapshot -> "snapshot" [] OTHER -> "none"

\* A constructor that fails returns nil with an error nobody looks at.
Construct(s, v, part) ==
  IF part.fate = "broken"
  THEN [kind |-> "absent", mode |-> "none", path |-> Nil]
  ELSE [kind |-> IF s = RunSummary /\ v = "markdown" THEN "render" ELSE "plain",
        mode |-> Mode(part.snap),
        path |-> IF Mode(part.snap) = "none" THEN Nil ELSE part.snap.path]

BuildEntry(s, e) ==
  [k \in DOMAIN Built(s, e) |-> Construct(s, Built(s, e)[k], e[Built(s, e)[k]])]

BuildStages(d) ==
  [s \in Stages |->
     FlattenSeq([i \in DOMAIN Section(d, s) |-> BuildEntry(s, Section(d, s)[i])])]

\* defaultFlowID; slugify never returns an empty name.
Base(d) == IF d.words = <<>> THEN <<Flow>> ELSE d.words
Bases == {Base(docs[i]) : i \in DOMAIN docs}

UniqueFlowID(b) == IF seenFlowIDs[b] = 0 THEN b ELSE Append(b, seenFlowIDs[b])

Counted(b) == [seenFlowIDs EXCEPT ![b] = @ + 1]

\* A document without a store leaves the factory alone.
WrongConfigureDedupeStore(d) ==
  IF d.store = "none" THEN UNCHANGED <<open, factory>>
  ELSE /\ open' = (open \ {factory}) \cup (IF d.store = "ok" THEN {next} ELSE {})
       /\ factory' = IF d.store = "ok" THEN next ELSE Nil

\* The store of the document before is closed, whatever this one asks for.
ConfigureDedupeStore(d) ==
  /\ open' = (open \ {factory}) \cup (IF d.store = "ok" THEN {next} ELSE {})
  /\ factory' = IF d.store = "ok" THEN next ELSE Nil

-----------------------------------------------------------------------------
(* main *)

Init ==
  /\ docs \in UNION {[1 .. n -> Documents] : n \in 0 .. MaxDocs}
  /\ runOnce \in BOOLEAN /\ envSound \in BOOLEAN
  /\ main = "loading" /\ next = 1
  /\ factory = Nil /\ open = {} /\ flows = <<>>
  /\ seenFlowIDs = [b \in Bases |-> 0]
  /\ Run!Init
  /\ failed = {} /\ ran = <<>>

Panic ==
  /\ main' = "panicked"
  /\ UNCHANGED next

\* LoadCuratorDocuments and NewFromEnvConfig.
Load ==
  /\ main = "loading"
  /\ IF envSound /\ docs # <<>> /\ \A i \in DOMAIN docs : docs[i].readable
     THEN main' = "building" /\ UNCHANGED next
     ELSE Panic
  /\ UNCHANGED <<input, built, run>>

\* A document that cannot be built is left out.
WrongReject ==
  /\ main = "building" /\ next \in DOMAIN docs /\ ~Valid(docs[next])
  /\ next' = next + 1
  /\ UNCHANGED <<main, input, built, run>>

Reject ==
  /\ main = "building" /\ next \in DOMAIN docs /\ ~Valid(docs[next])
  /\ Panic
  /\ UNCHANGED <<input, built, run>>

\* The -flow-id is for a single document; it is not compared with anything.
BuildFlow ==
  /\ main = "building" /\ next \in DOMAIN docs
  /\ LET d == docs[next] IN
     /\ Valid(d)
     /\ ConfigureDedupeStore(d)
     /\ IF d.store = "broken"
        THEN Panic /\ UNCHANGED <<flows, seenFlowIDs>>
        ELSE /\ flows' = Append(flows,
                  [id |-> IF Len(docs) = 1 THEN <<Flow, 1>> ELSE UniqueFlowID(Base(d)),
                   triggers |-> d.triggers, stages |-> BuildStages(d),
                   store |-> factory'])
             /\ seenFlowIDs' = IF Len(docs) = 1 THEN seenFlowIDs ELSE Counted(Base(d))
             /\ next' = next + 1
             /\ UNCHANGED main
  /\ UNCHANGED <<input, run>>

\* otelx.Init may fail before anything runs.
AllBuilt ==
  /\ main = "building" /\ next \notin DOMAIN docs
  /\ main' \in {IF runOnce THEN "running" ELSE "starting", "panicked"}
  /\ next' = 1
  /\ UNCHANGED <<input, built, run>>

\* Runner.Start for one flow; cron rejects a schedule it cannot parse.
StartFlow ==
  /\ main = "starting" /\ next \in DOMAIN flows
  /\ IF \E i \in DOMAIN flows[next].triggers : flows[next].triggers[i] = "broken"
     THEN Panic
     ELSE next' = next + 1 /\ UNCHANGED main
  /\ UNCHANGED <<input, built, run>>

\* main waits for the signal.
AllStarted ==
  /\ main = "starting" /\ next \notin DOMAIN flows
  /\ main' = "scheduled"
  /\ UNCHANGED <<next, input, built, run>>

\* RunOnce is called for the next flow.
BeginRun ==
  /\ main = "running" /\ next \in DOMAIN flows
  /\ Run!Begin("main")
  /\ ran' = Append(ran, next)
  /\ UNCHANGED <<main, next, input, built, failed>>

RunStage ==
  /\ Run!Advance("main")
  /\ UNCHANGED <<main, next, input, built, failed, ran>>

\* RunOnce returns; main joins the errors and goes on with the next flow.
EndRun ==
  /\ \/ Run!Complete("main") /\ UNCHANGED failed
     \/ Run!Fail("main") /\ failed' = failed \cup {next}
  /\ next' = next + 1
  /\ UNCHANGED <<main, input, built, ran>>

\* main returns, or panics with the errors it joined.
Leave ==
  /\ main = "running" /\ next \notin DOMAIN flows
  /\ main' = IF failed = {} THEN "exited" ELSE "panicked"
  /\ UNCHANGED <<next, input, built, run>>

Next ==
  \/ Load \/ Reject \/ BuildFlow \/ AllBuilt
  \/ StartFlow \/ AllStarted
  \/ BeginRun \/ RunStage \/ EndRun \/ Leave

Spec == Init /\ [][Next]_vars

-----------------------------------------------------------------------------
(* Properties *)

FlowRecord ==
  [id : Seq(Word \cup Nat), triggers : Seq(Fate), stages : [Stages -> Seq(Processor)],
   store : {Nil} \cup DOMAIN docs]

\* Flows are run or started.
AtWork == main \in {"starting", "running", "scheduled", "exited"}

(* A process that runs or schedules anything does so for every document of *)
(* its directory: it never works with a part of them, or with one that     *)
(* Validate rejects.                                                       *)
WholeStart ==
  AtWork => /\ Len(flows) = Len(docs) /\ docs # <<>>
            /\ \A i \in DOMAIN docs : docs[i].readable /\ Valid(docs[i])

(* What is built of a document is a flow RunOnce can run, with nothing of  *)
(* the document dropped: modules Runner and Curator start from there.  A   *)
(* processor that saves or restores has a file to do so.                   *)
FaithfulFlows ==
  \A i \in DOMAIN flows :
    /\ flows[i].stages \in FlowDef /\ flows[i].triggers # <<>>
    /\ flows[i].stages[Source] # <<>> /\ flows[i].stages[Output] # <<>>
    /\ \A s \in Stages :
         Len(flows[i].stages[s]) >= Len(Section(docs[i], s))
    /\ \A s \in Stages \ {Source} :
         Len(flows[i].stages[s]) = Len(Section(docs[i], s))

(* The variables have their types; flows hold processors a runner knows. *)
TypeOK ==
  /\ docs \in Seq(Documents) /\ runOnce \in BOOLEAN /\ envSound \in BOOLEAN
  /\ main \in {"loading", "building", "starting", "running", "scheduled",
               "exited", "panicked"}
  /\ next \in 1 .. Len(docs) + 1
  /\ factory \in {Nil} \cup DOMAIN docs
  /\ open \subseteq DOMAIN docs
  /\ flows \in Seq(FlowRecord) /\ Len(flows) <= Len(docs)
  /\ seenFlowIDs \in [Bases -> 0 .. Len(docs)]
  /\ failed \subseteq DOMAIN flows
  /\ ran \in Seq(DOMAIN flows)
  /\ FaithfulFlows

(* The one factory hands a flow's sources the store of the flow's own      *)
(* document, or none, whatever the documents before and behind it ask for. *)
(* The last flow, and so the flow of a single document, still has its      *)
(* store when flows are run; for the others see StoresOpen.                *)
OwnStore ==
  /\ \A i \in DOMAIN flows :
       flows[i].store = IF docs[i].store = "ok" THEN i ELSE Nil
  /\ AtWork => Last(flows).store \in open \cup {Nil}

(* The stores "so sources can skip previously seen items" (the document's  *)
(* specification) are open while there are sources that may ask them: a    *)
(* source takes an item its store cannot tell it about.  False: building   *)
(* the next document closes the store of the one before, under its flow.   *)
StoresOpen ==
  AtWork => \A i \in DOMAIN flows : flows[i].store # Nil => flows[i].store \in open

(* "uniqueFlowID ensures flow IDs are unique within a single Curator       *)
(* process" (main.go).  False: the number behind the second flow of a name *)
(* may make it the name of another document.                               *)
UniqueFlowIDs == \A i, j \in DOMAIN flows : flows[i].id = flows[j].id => i = j

(* -run-once runs every flow once, in the order of the documents, however  *)
(* many of them fail, and panics if and only if one failed.                *)
RunsAll ==
  /\ ran = [i \in DOMAIN ran |-> i]
  /\ main = "exited" \/ (main = "panicked" /\ ran # <<>>) =>
       Len(ran) = Len(flows) /\ (main = "panicked" <=> failed # {})

\* Every flow of the directory is served, or none is.
AllServed == WholeStart /\ RunsAll
=============================================================================
