------------------------------- MODULE Digest -------------------------------
(***************************************************************************)
(* From the sources' pages to the outputs' servers: what becomes of a post *)
(* in one run and the next.  Runs are those of RunLife, the calls of the   *)
(* sources those of Reading, the deliveries those of Mail; the table of    *)
(* seen posts (Sources has the detail) joins the runs, since a source      *)
(* marks a post long before an output has it.  Runs fail at any stage, are *)
(* cut off by a signal, and die with the process.  The flow has one source *)
(* with a store that works, and no snapshots (Runner has these).           *)
(***************************************************************************)
EXTENDS Integers, Sequences, FiniteSets

CONSTANTS
  Caller,  \* listeners
  Post,
  None,    \* no post
  Setups,  \* the flows explored, a subset of Setup
  MaxRuns  \* bound

VARIABLES
  setup,
  cancelled,     \* a signal was received, the context is done
  status, stage, \* of each caller's run, see RunLife
  at,            \* where each caller's run is, see Place
  reading,       \* the call of its source under way, see Reading
  mail, wire,    \* its delivery under way, see Mail
  seen,          \* the table
  run,           \* the number of each caller's run
  log            \* history: what the runs did, see Entry

life == <<status, stage>>
delivery == <<mail, wire>>
vars == <<setup, cancelled, life, at, reading, delivery, seen, run, log>>

Life == INSTANCE RunLife
Calls == INSTANCE Reading
Sender == INSTANCE Mail

-----------------------------------------------------------------------------
\* pages: the feeds, or index pages; comments: there is a call for each post
\* that is listed; reads: and one for each new post, without which the post is
\* left out ("required") or goes on with what it has ("optional").
Source == [pages : Nat \ {0}, comments : BOOLEAN,
           reads : {"none", "required", "optional"}]

\* partial: allow_partial_source_errors.
Setup == [source : Source, partial : BOOLEAN, outputs : Seq(Sender!Mailer)]

ASSUME DigestAssumption ==
  /\ MaxRuns \in Nat /\ None \notin Post
  /\ Setups \subseteq Setup /\ \A s \in Setups : s.outputs # <<>>

Run == 1 .. MaxRuns

\* marked: posts the run put into the table; cut: posts that were denied their
\* content when the context was done; dropped: by processors; failed: its
\* source failed; given: what each output's server took; beside: the runs
\* under way when it began; signal: the context was done before it began, or
\* before it ended; end: how it ended.
Entry == [marked : SUBSET Post, cut : SUBSET Post, dropped : SUBSET Post,
          failed : BOOLEAN, given : Seq(SUBSET Post), beside : SUBSET Run,
          signal : {"none", "during", "before"}, end : {"none", "completed", "failed"}]

Blank ==
  [marked |-> {}, cut |-> {}, dropped |-> {}, failed |-> FALSE,
   given |-> [o \in DOMAIN setup.outputs |-> {}],
   beside |-> {run[c] : c \in {d \in Caller : status[d] = "running"}},
   signal |-> IF cancelled THEN "before" ELSE "none", end |-> "none"]

\* pc: "page", "comments", "item", "read" and "mark" in Fetch, "stage" behind
\* it, "mail" at the outputs.  page: pages taken; listed: their posts; left:
\* those still to be handled; asked: those whose comments were fetched; item:
\* the post at hand; blocks: the posts of the run, during Fetch those of the
\* source; out: the output at hand.
Place(l, posts) ==
  [pc |-> l, page |-> 0, listed |-> {}, left |-> {}, asked |-> {},
   item |-> None, blocks |-> posts, out |-> 1]

Init ==
  /\ setup \in Setups
  /\ cancelled = FALSE
  /\ Life!Init /\ Calls!Init
  /\ at = [c \in Caller |-> Place("page", {})]
  /\ mail = [c \in Caller |-> "idle"] /\ wire = [c \in Caller |-> <<>>]
  /\ seen = {}
  /\ run = [c \in Caller |-> 0]
  /\ log = <<>>

At(c, l) == status[c] = "running" /\ at[c].pc = l
Goto(c, l) == at' = [at EXCEPT ![c].pc = l]
Leave(c, l, posts) == at' = [at EXCEPT ![c] = Place(l, posts)]

\* A field of the entry of c's run gets a new value.
Note(c, field, value) == log' = [log EXCEPT ![run[c]][field] = value]
My(c) == log[run[c]]

-----------------------------------------------------------------------------
(* Fetch *)

\* A run may begin after the signal: select picks among what is ready.
Begin(c) ==
  /\ Len(log) < MaxRuns
  /\ Life!Begin(c)
  /\ run' = [run EXCEPT ![c] = Len(log) + 1]
  /\ log' = Append(log, Blank)
  /\ Leave(c, "page", {})
  /\ reading' = [reading EXCEPT ![c] = "none"]
  /\ UNCHANGED <<setup, cancelled, delivery, seen>>

\* A service answers, or its client gives up.
CallEnds(c) ==
  /\ status[c] = "running" /\ at[c].pc \in {"page", "comments", "read"}
  /\ Calls!End(c)
  /\ UNCHANGED <<setup, life, at, delivery, seen, run, log>>

\* With the next step comes a call, or none.
Then(c, l) == IF l \in {"page", "comments", "read"} THEN Calls!Ask(c) ELSE UNCHANGED reading

\* A page lists posts; those of an earlier page are in Fetch's local map.
TakePage(c) ==
  /\ At(c, "page") /\ reading[c] = "answer"
  /\ \E posts \in SUBSET (Post \ at[c].listed) :
       LET l == IF setup.source.comments /\ posts # {} THEN "comments" ELSE "item" IN
       /\ at' = [at EXCEPT ![c].pc = l, ![c].page = @ + 1,
                          ![c].listed = @ \cup posts, ![c].left = posts]
       /\ Then(c, l)
  /\ UNCHANGED <<setup, cancelled, life, delivery, seen, run, log>>

\* Reddit asks for the comments of every post it lists, the seen ones included,
\* before it looks at any of them.
TakeComments(c) ==
  /\ At(c, "comments") /\ reading[c] = "answer"
  /\ \E p \in at[c].left \ at[c].asked :
       LET l == IF at[c].left = at[c].asked \cup {p} THEN "item" ELSE "comments" IN
       /\ at' = [at EXCEPT ![c].pc = l, ![c].asked = @ \cup {p}]
       /\ Then(c, l)
  /\ UNCHANGED <<setup, cancelled, life, delivery, seen, run, log>>

\* Without a page, or the comments of a post, Fetch returns no posts at all.
FetchFails(c) ==
  /\ At(c, "page") \/ At(c, "comments")
  /\ reading[c] = "error"
  /\ Leave(c, "stage", {})
  /\ \/ /\ setup.partial
        /\ Note(c, "failed", TRUE) /\ UNCHANGED life
     \/ /\ ~setup.partial
        /\ Note(c, "end", "failed") /\ Life!Fail(c)
  /\ UNCHANGED <<setup, cancelled, reading, delivery, seen, run>>

\* HasSeen says so.
SkipPost(c) ==
  /\ At(c, "item") /\ ~cancelled
  /\ \E p \in at[c].left \cap seen : at' = [at EXCEPT ![c].left = @ \ {p}]
  /\ UNCHANGED <<setup, cancelled, life, reading, delivery, seen, run, log>>

\* HasSeen fails once the context is done; any post is then taken for a new one.
TakePost(c) ==
  /\ At(c, "item")
  /\ \E p \in IF cancelled THEN at[c].left ELSE at[c].left \ seen :
       IF setup.source.reads = "none"
       THEN /\ at' = [at EXCEPT ![c].pc = "mark", ![c].item = p, ![c].blocks = @ \cup {p}]
            /\ UNCHANGED reading
       ELSE /\ at' = [at EXCEPT ![c].pc = "read", ![c].item = p]
            /\ Calls!Ask(c)
  /\ UNCHANGED <<setup, cancelled, life, delivery, seen, run, log>>

\* The content arrives or not.  Without it scrape leaves the post out, as it
\* does with one that is too old or cannot be converted; the others make do
\* with what the page had (and note it in the post's errors).
TakeContent(c) ==
  /\ At(c, "read") /\ reading[c] # "none"
  /\ \/ /\ reading[c] = "answer" \/ setup.source.reads = "optional"
        /\ at' = [at EXCEPT ![c].pc = "mark", ![c].blocks = @ \cup {at[c].item}]
     \/ /\ setup.source.reads = "required"
        /\ at' = [at EXCEPT ![c].pc = "item", ![c].left = @ \ {at[c].item}]
  /\ Note(c, "cut", IF reading[c] = "error" /\ cancelled
                    THEN My(c).cut \cup {at[c].item} ELSE My(c).cut)
  /\ UNCHANGED <<setup, cancelled, life, reading, delivery, seen, run>>

\* The post is marked whether the context is done or not.
WrongMark(c) ==
  /\ At(c, "mark")
  /\ seen' = seen \cup {at[c].item}
  /\ Note(c, "marked", My(c).marked \cup {at[c].item})
  /\ at' = [at EXCEPT ![c].pc = "item", ![c].left = @ \ {at[c].item}]
  /\ UNCHANGED <<setup, cancelled, life, reading, delivery, run>>

\* MarkSeen, which fails once the context is done.
Mark(c) ==
  /\ At(c, "mark")
  /\ IF cancelled THEN UNCHANGED <<seen, log>>
     ELSE /\ seen' = seen \cup {at[c].item}
          /\ Note(c, "marked", My(c).marked \cup {at[c].item})
  /\ at' = [at EXCEPT ![c].pc = "item", ![c].left = @ \ {at[c].item}]
  /\ UNCHANGED <<setup, cancelled, life, reading, delivery, run>>

\* The page is done with, and there is another one.
NextPage(c) ==
  /\ At(c, "item") /\ at[c].left = {} /\ at[c].page < setup.source.pages
  /\ at' = [at EXCEPT ![c].pc = "page", ![c].asked = {}, ![c].item = None]
  /\ Calls!Ask(c)
  /\ UNCHANGED <<setup, cancelled, life, delivery, seen, run, log>>

\* Fetch returns; scrape also without its later pages, at a limit of posts or
\* where there is no link to a next page.
FetchEnds(c) ==
  /\ At(c, "item")
  /\ \/ at[c].left = {} /\ at[c].page = setup.source.pages
     \/ setup.source.reads = "required" /\ (at[c].left = {} \/ at[c].blocks # {})
  /\ Leave(c, "stage", at[c].blocks)
  /\ UNCHANGED <<setup, cancelled, life, reading, delivery, seen, run, log>>

-----------------------------------------------------------------------------
(* The run behind the sources *)

Finish(c, end) ==
  /\ IF end = "completed" THEN Life!Complete(c) ELSE Life!Fail(c)
  /\ Leave(c, "page", {})

\* Empty runs are over early; RunOnce does not look at its context.
LeaveSources(c) ==
  /\ At(c, "stage") /\ stage[c] = Life!First
  /\ IF at[c].blocks = {} THEN Finish(c, "completed") /\ Note(c, "end", "completed")
     ELSE Life!Advance(c) /\ UNCHANGED <<at, log>>
  /\ UNCHANGED <<setup, cancelled, reading, delivery, seen, run>>

\* Quality processors and post summaries may drop posts (LLM batches do so
\* without a verdict once the context is done), run summaries do not.
Process(c) ==
  LET s == stage[c]  posts == at[c].blocks IN
  /\ At(c, "stage") /\ s \in Life!First + 1 .. Life!Last - 1
  /\ \E kept \in IF s = 4 THEN {posts} ELSE SUBSET posts :
       IF kept = {} /\ s \in Life!MayEndAt
       THEN /\ Finish(c, "completed")
            /\ log' = [log EXCEPT ![run[c]].dropped = @ \cup posts,
                                  ![run[c]].end = "completed"]
       ELSE /\ Life!Advance(c)
            /\ Leave(c, IF s = 4 THEN "mail" ELSE "stage", kept)
            /\ Note(c, "dropped", My(c).dropped \cup (posts \ kept))
  /\ UNCHANGED <<setup, cancelled, reading, delivery, seen, run>>

ProcessFails(c) ==
  /\ At(c, "stage") /\ stage[c] \in Life!First + 1 .. Life!Last - 1
  /\ Finish(c, "failed") /\ Note(c, "end", "failed")
  /\ UNCHANGED <<setup, cancelled, reading, delivery, seen, run>>

Output(c) == setup.outputs[at[c].out]

\* Deliver, up to its dialogues.
Compose(c) ==
  /\ At(c, "mail") /\ Sender!Compose(c, Output(c))
  /\ UNCHANGED <<setup, life, at, reading, seen, run, log>>

Dial(c) ==
  /\ At(c, "mail") /\ Sender!Dial(c, Output(c))
  /\ log' = IF wire'[c] # wire[c] /\ Sender!Taken(wire'[c][Len(wire'[c])])
            THEN [log EXCEPT ![run[c]].given[at[c].out] = at[c].blocks] ELSE log
  /\ UNCHANGED <<setup, life, at, reading, seen, run>>

\* The error of a delivery is logged, and the next output has its turn.
WrongDelivered(c) ==
  /\ At(c, "mail") /\ mail[c] \in {"sent", "failed"}
  /\ Sender!Close(c)
  /\ IF at[c].out = Len(setup.outputs)
     THEN Finish(c, "completed") /\ Note(c, "end", "completed")
     ELSE at' = [at EXCEPT ![c].out = @ + 1] /\ UNCHANGED <<life, log>>
  /\ UNCHANGED <<setup, cancelled, reading, seen, run>>

Delivered(c) ==
  /\ At(c, "mail") /\ mail[c] = "sent"
  /\ Sender!Close(c)
  /\ IF at[c].out = Len(setup.outputs)
     THEN Finish(c, "completed") /\ Note(c, "end", "completed")
     ELSE at' = [at EXCEPT ![c].out = @ + 1] /\ UNCHANGED <<life, log>>
  /\ UNCHANGED <<setup, cancelled, reading, seen, run>>

\* The run fails, and the outputs behind this one are left out.
NotDelivered(c) ==
  /\ At(c, "mail") /\ mail[c] = "failed"
  /\ Sender!Close(c)
  /\ Finish(c, "failed") /\ Note(c, "end", "failed")
  /\ UNCHANGED <<setup, cancelled, reading, seen, run>>

-----------------------------------------------------------------------------
\* A signal; runs go on for as long as the process is there.
Signal ==
  /\ Calls!Cancel
  /\ log' = [r \in DOMAIN log |->
               IF (\E c \in Caller : status[c] = "running" /\ run[c] = r)
                  /\ log[r].signal = "none"
               THEN [log[r] EXCEPT !.signal = "during"] ELSE log[r]]
  /\ UNCHANGED <<setup, life, at, delivery, seen, run>>

\* The process ends, at any point, and is started again.
Restart ==
  /\ Life!Reset
  /\ cancelled' = FALSE
  /\ at' = [c \in Caller |-> Place("page", {})]
  /\ mail' = [c \in Caller |-> "idle"] /\ wire' = [c \in Caller |-> <<>>]
  /\ UNCHANGED <<setup, reading, seen, run, log>>

Step(c) ==
  \/ CallEnds(c) \/ TakePage(c) \/ TakeComments(c) \/ FetchFails(c)
  \/ SkipPost(c) \/ TakePost(c) \/ TakeContent(c) \/ Mark(c)
  \/ NextPage(c) \/ FetchEnds(c)
  \/ LeaveSources(c) \/ Process(c) \/ ProcessFails(c)
  \/ Compose(c) \/ Dial(c) \/ Delivered(c) \/ NotDelivered(c)

Next == Signal \/ Restart \/ \E c \in Caller : Begin(c) \/ Step(c)

Spec == Init /\ [][Next]_vars
-----------------------------------------------------------------------------
(* Properties *)

Taken(r) == log[r].given

(***************************************************************************)
(* A post that is marked is not seen again, so it must not be lost without *)
(* a reason: of a run that completes, and that no signal met, all outputs' *)
(* servers have every post that it marked, except those a processor has    *)
(* dropped, and those of a source whose failure the flow allows.  However  *)
(* a run ends, an output never has posts that the output before it lacks.  *)
(***************************************************************************)
LostForAReason ==
  \A r \in DOMAIN log :
    /\ \A o, q \in DOMAIN Taken(r) : o < q => Taken(r)[q] \subseteq Taken(r)[o]
    /\ log[r].end = "completed" /\ log[r].signal = "none" =>
         \A p \in log[r].marked, o \in DOMAIN Taken(r) :
           p \in Taken(r)[o] \/ p \in log[r].dropped \/ log[r].failed

(***************************************************************************)
(* No server takes a post from two runs, unless these ran side by side,    *)
(* although a signal or the end of the process may come between any two    *)
(* steps of theirs, and the check of the table fails open.                 *)
(***************************************************************************)
DeliveredOnce ==
  \A r, s \in DOMAIN log : r < s /\ r \notin log[s].beside =>
    \A o \in DOMAIN Taken(r) : Taken(r)[o] \cap Taken(s)[o] = {}

(***************************************************************************)
(* A signal costs no post: a post that lost its content to it is not       *)
(* marked, so a later run has it whole, and a run that begins after the    *)
(* signal neither marks nor delivers anything.                             *)
(***************************************************************************)
CutOffComesBack ==
  \A r \in DOMAIN log :
    /\ log[r].marked \cap log[r].cut = {}
    /\ log[r].signal = "before" =>
         log[r].marked = {} /\ \A o \in DOMAIN Taken(r) : Taken(r)[o] = {}

\* Every delivery under way is careful, see Mail.
CarefulMail ==
  \A c \in Caller : At(c, "mail") => Sender!Careful(c, Output(c))
=============================================================================
