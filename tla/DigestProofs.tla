---------------------------- MODULE DigestProofs ----------------------------
(***************************************************************************)
(* Proofs about module Digest, for any number of listeners, posts, runs    *)
(* and outputs, and any flow of the kind it describes.                     *)
(***************************************************************************)
EXTENDS Digest, TLAPS

Spot == [pc : {"page", "comments", "item", "read", "mark", "stage", "mail"},
         page : Nat, listed : SUBSET Post, left : SUBSET Post, asked : SUBSET Post,
         item : Post \cup {None}, blocks : SUBSET Post, out : Nat]

TypeOK ==
  /\ setup \in Setups /\ cancelled \in BOOLEAN
  /\ status \in [Caller -> {"idle", "running", "completed", "failed"}]
  /\ stage \in [Caller -> 1 .. 5]
  /\ at \in [Caller -> Spot]
  /\ reading \in [Caller -> {"none", "answer", "error"}]
  /\ mail \in [Caller -> {"idle", "login", "open", "sent", "failed"}]
  /\ wire \in [Caller -> Seq(Sender!Dialogue)]
  /\ seen \subseteq Post
  /\ run \in [Caller -> 0 .. MaxRuns]
  /\ log \in Seq(Entry) /\ Len(log) <= MaxRuns
  /\ \A c \in Caller : status[c] = "running" => run[c] \in DOMAIN log
  /\ \A c, d \in Caller :
       status[c] = "running" /\ status[d] = "running" /\ run[c] = run[d] => c = d

-----------------------------------------------------------------------------
(* The inductive invariant *)

Running(c) == status[c] = "running"
Fetching(c) == at[c].pc \notin {"stage", "mail"}

\* Runs that were over when run s began.
Earlier(s) == {r \in DOMAIN log : r < s /\ r \notin log[s].beside}

\* What holds of every run, over or not.
Settled(r) ==
  /\ DOMAIN log[r].given = DOMAIN setup.outputs
  /\ log[r].marked \subseteq seen
  /\ log[r].marked \cap log[r].cut = {}
  /\ log[r].signal = "none" => log[r].cut = {}
  /\ log[r].signal = "before" => log[r].marked = {}
  /\ \A o \in DOMAIN log[r].given :
       /\ log[r].given[o] \subseteq log[r].marked
       /\ \A q \in DOMAIN log[r].given : o < q => log[r].given[q] \subseteq log[r].given[o]
  /\ log[r].end = "completed" /\ log[r].signal = "none" =>
       \A p \in log[r].marked, o \in DOMAIN log[r].given :
         p \in log[r].given[o] \/ p \in log[r].dropped \/ log[r].failed

\* The runs that were over stay over, and what they marked stays theirs.
Apart(s) ==
  \A r \in Earlier(s) :
    /\ \A c \in Caller : Running(c) => run[c] # r
    /\ \A o \in DOMAIN log[s].given : log[s].given[o] \cap log[r].marked = {}

\* A run that is not over yet, and the signal.
Open(c) == My(c).end = "none" /\ (My(c).signal = "none" <=> ~cancelled)

\* Where its source is.
Listed(c) ==
  Fetching(c) =>
    /\ My(c).marked \subseteq at[c].listed /\ at[c].left \subseteq at[c].listed
    /\ My(c).marked \cap at[c].left = {}
    /\ at[c].pc \in {"read", "mark"} => at[c].item \in at[c].left
    /\ at[c].pc = "mark" => at[c].item \in at[c].blocks

\* What it has marked it still has, or has dropped; without a signal it has
\* nothing else, and nothing that a run before it has marked.
Carried(c) ==
  /\ My(c).failed \/ My(c).marked \subseteq at[c].blocks \cup My(c).dropped
  /\ ~cancelled =>
       LET mine == {p \in at[c].blocks \cup {at[c].item} :
                      p \in at[c].blocks \/ at[c].pc = "read"} IN
       /\ \A p \in at[c].blocks :
            p \in My(c).marked \/ (at[c].pc = "mark" /\ p = at[c].item)
       /\ \A r \in Earlier(run[c]) : mine \cap log[r].marked = {}

\* What the outputs have, of those before, at and behind the one at hand.
Handed(c) ==
  LET given == My(c).given  a == at[c] IN
  /\ a.pc # "mail" => \A o \in DOMAIN given : given[o] = {}
  /\ a.pc = "mail" =>
       /\ a.out \in DOMAIN given
       /\ \A o \in DOMAIN given :
            /\ o < a.out => given[o] = a.blocks
            /\ o > a.out => given[o] = {}
       /\ given[a.out] \in {{}, a.blocks}
       /\ mail[c] \in {"idle", "login", "open"} => given[a.out] = {}
       /\ mail[c] = "sent" => given[a.out] = a.blocks

\* Where its delivery is.
Posting(c) ==
  LET m == Output(c)  w == wire[c] IN
  /\ mail[c] = "idle" => w = <<>>
  /\ mail[c] \in {"login", "open"} => \A i \in DOMAIN w : ~Sender!Taken(w[i])
  /\ mail[c] = "open" => ~m.user \/ m.host = "local"
  /\ Sender!Careful(c, m)

RunInv(c) ==
  /\ Running(c) => Open(c) /\ Listed(c) /\ Carried(c) /\ Handed(c)
  /\ ~At(c, "mail") => mail[c] = "idle" /\ wire[c] = <<>>
  /\ At(c, "mail") => Posting(c)

IInv ==
  /\ \A r \in DOMAIN log : Settled(r) /\ Apart(r)
  /\ \A c \in Caller : RunInv(c)

-----------------------------------------------------------------------------
(* The process starts with typed variables, whatever its setup.          *)
LEMMA TypeInit == Init => TypeOK
<1> SUFFICES ASSUME Init PROVE TypeOK
  OBVIOUS
<1>1. setup \in Setups /\ cancelled \in BOOLEAN /\ seen \subseteq Post
  BY DEF Init
<1>2. /\ status \in [Caller -> {"idle", "running", "completed", "failed"}]
      /\ stage \in [Caller -> 1 .. 5]
      /\ \A c \in Caller : status[c] # "running"
  BY DEF Init, Life!Init, Life!First
<1>3. at \in [Caller -> Spot]
  BY DEF Init, Place, Spot
<1>4. reading \in [Caller -> {"none", "answer", "error"}]
  BY DEF Init, Calls!Init
<1>5. /\ mail \in [Caller -> {"idle", "login", "open", "sent", "failed"}]
      /\ wire \in [Caller -> Seq(Sender!Dialogue)]
  BY DEF Init
<1>6. run \in [Caller -> 0 .. MaxRuns] /\ log \in Seq(Entry) /\ Len(log) <= MaxRuns
  BY DigestAssumption DEF Init
<1> QED
  BY <1>1, <1>2, <1>3, <1>4, <1>5, <1>6 DEF TypeOK

(* A sequence with one element replaced. *)
LEMMA SeqExcept ==
  ASSUME NEW S, NEW s \in Seq(S), NEW i \in DOMAIN s, NEW x \in S
  PROVE  /\ [s EXCEPT ![i] = x] \in Seq(S)
         /\ Len([s EXCEPT ![i] = x]) = Len(s) /\ DOMAIN [s EXCEPT ![i] = x] = DOMAIN s
<1> DEFINE t == [s EXCEPT ![i] = x]
<1>1. DOMAIN s = 1 .. Len(s) /\ Len(s) \in Nat
  OBVIOUS
<1>2. t = [k \in 1 .. Len(s) |-> IF k = i THEN x ELSE s[k]]
  BY <1>1
<1>3. \A k \in 1 .. Len(s) : (IF k = i THEN x ELSE s[k]) \in S
  BY <1>1
<1>4. t \in Seq(S) /\ Len(t) = Len(s)
  BY <1>1, <1>2, <1>3
<1> QED
  BY <1>1, <1>2, <1>4

(* A step that writes one field of its own entry, or none. *)
LEMMA NoteFacts ==
  ASSUME NEW c \in Caller, TypeOK, Running(c), NEW e \in Entry,
         log' = [log EXCEPT ![run[c]] = e]
  PROVE  /\ log' \in Seq(Entry) /\ Len(log') = Len(log) /\ DOMAIN log' = DOMAIN log
         /\ log'[run[c]] = e
         /\ \A r \in DOMAIN log : r # run[c] => log'[r] = log[r]
BY DEF TypeOK, Running

-----------------------------------------------------------------------------
(***************************************************************************)
(* The steps of a run by what they do to its place, its entry, its         *)
(* delivery and the table.                                                 *)
(***************************************************************************)
Early == {"page", "comments", "item", "read"}

Mine(c) == log'[run[c]]
Goes(c) == status'[c] = "running" /\ mail'[c] = mail[c] /\ wire'[c] = wire[c]
NoMark(c) == seen' = seen

\* Nothing but c's own, and what it adds to the table.
Alone(c) ==
  /\ UNCHANGED <<setup, cancelled, run>>
  /\ DOMAIN log' = DOMAIN log
  /\ \A r \in DOMAIN log : r # run[c] => log'[r] = log[r]
  /\ \A d \in Caller : d # c =>
       /\ status'[d] = status[d] /\ at'[d] = at[d]
       /\ mail'[d] = mail[d] /\ wire'[d] = wire[d]

\* It looks for posts, and at one of them.
Reads(c) ==
  LET a == at[c]  b == at'[c] IN
  /\ a.pc \in Early /\ b.pc \in Early /\ Goes(c) /\ NoMark(c)
  /\ Mine(c) = My(c) /\ b.blocks = a.blocks
  /\ \/ b.left \subseteq a.left /\ b.listed = a.listed
     \/ /\ b.left \cap a.listed = {}
        /\ b.listed = a.listed \cup b.left
  /\ b.pc = "read" =>
       /\ b.item \in b.left
       /\ (a.pc = "read" /\ b.item = a.item) \/ cancelled \/ b.item \notin seen

\* It takes a post, or leaves it out for want of its content.
Takes(c) ==
  LET a == at[c]  b == at'[c] IN
  /\ a.pc \in {"item", "read"} /\ Goes(c) /\ NoMark(c)
  /\ \/ /\ b.pc = "mark" /\ b.blocks = a.blocks \cup {b.item}
        /\ b.listed = a.listed /\ b.left = a.left
        /\ b.item \in a.left
        /\ (a.pc = "read" /\ b.item = a.item) \/ cancelled \/ b.item \notin seen
     \/ /\ a.pc = "read" /\ b.pc = "item" /\ b.blocks = a.blocks
        /\ b.listed = a.listed /\ b.left \subseteq a.left
  /\ \/ Mine(c) = My(c)
     \/ /\ cancelled /\ a.pc = "read"
        /\ Mine(c) = [My(c) EXCEPT !.cut = @ \cup {a.item}]

Marks(c) ==
  LET a == at[c]  b == at'[c] IN
  /\ a.pc = "mark" /\ Goes(c)
  /\ b.pc = "item" /\ b.blocks = a.blocks /\ b.listed = a.listed
  /\ b.left = a.left \ {a.item}
  /\ \/ cancelled /\ NoMark(c) /\ Mine(c) = My(c)
     \/ /\ ~cancelled /\ seen' = seen \cup {a.item}
        /\ Mine(c) = [My(c) EXCEPT !.marked = @ \cup {a.item}]

\* It goes on behind its source, with fewer posts or all.
Moves(c) ==
  LET a == at[c]  b == at'[c] IN
  /\ a.pc \in {"page", "comments", "item", "stage"} /\ Goes(c) /\ NoMark(c)
  /\ b.pc \in {"stage", "mail"} /\ (b.pc = "mail" => b.out = 1) /\ b.blocks \subseteq a.blocks
  /\ \/ b.blocks = a.blocks /\ Mine(c) = My(c)
     \/ b.blocks = {} /\ Mine(c) = [My(c) EXCEPT !.failed = TRUE]
     \/ Mine(c) = [My(c) EXCEPT !.dropped = @ \cup (a.blocks \ b.blocks)]

\* An output at work, and the next one.
Mails(c) ==
  LET a == at[c]  b == at'[c] IN
  /\ a.pc = "mail" /\ status'[c] = "running" /\ NoMark(c)
  /\ \/ /\ b = a /\ Sender!Compose(c, Output(c)) /\ Mine(c) = My(c)
     \/ /\ b = a /\ Sender!Dial(c, Output(c))
        /\ \/ Mine(c) = My(c) /\ (wire'[c] = wire[c] \/ ~Sender!Taken(wire'[c][Len(wire'[c])]))
           \/ /\ wire'[c] # wire[c] /\ Sender!Taken(wire'[c][Len(wire'[c])])
              /\ Mine(c) = [My(c) EXCEPT !.given[a.out] = a.blocks]
     \/ /\ mail[c] = "sent" /\ mail'[c] = "idle" /\ wire'[c] = <<>>
        /\ a.out # Len(setup.outputs) /\ b = [a EXCEPT !.out = @ + 1]
        /\ Mine(c) = My(c)

\* It is over.
Leaves(c) ==
  LET a == at[c] IN
  /\ status'[c] # "running" /\ NoMark(c)
  /\ mail'[c] = "idle" /\ wire'[c] = <<>>
  /\ \/ Mine(c) = [My(c) EXCEPT !.end = "failed"]
     \/ /\ a.pc = "stage"
        /\ Mine(c) = [My(c) EXCEPT !.dropped = @ \cup a.blocks, !.end = "completed"]
     \/ /\ a.pc = "mail" /\ mail[c] = "sent" /\ a.out = Len(setup.outputs)
        /\ Mine(c) = [My(c) EXCEPT !.end = "completed"]

(* What each action does, as one of these. *)
LEMMA StepCases ==
  ASSUME NEW c \in Caller, TypeOK, RunInv(c), Step(c)
  PROVE  /\ Running(c) /\ Alone(c)
         /\ Reads(c) \/ Takes(c) \/ Marks(c) \/ Moves(c) \/ Mails(c) \/ Leaves(c)
<1> DEFINE a == at[c]
           e == My(c)
<1>0. /\ Running(c) /\ at \in [Caller -> Spot] /\ a \in Spot
      /\ run[c] \in DOMAIN log /\ log \in Seq(Entry) /\ e \in Entry
      /\ (~At(c, "mail") => mail[c] = "idle" /\ wire[c] = <<>>)
      /\ (a.pc \in {"read", "mark"} => a.item \in a.left)
      /\ status \in [Caller -> {"idle", "running", "completed", "failed"}]
      /\ mail \in [Caller -> {"idle", "login", "open", "sent", "failed"}]
      /\ wire \in [Caller -> Seq(Sender!Dialogue)]
  <2>1. Running(c)
    BY DEF Step, CallEnds, TakePage, TakeComments, FetchFails, SkipPost, TakePost,
           TakeContent, Mark, NextPage, FetchEnds, LeaveSources, Process, ProcessFails,
           Compose, Dial, Delivered, NotDelivered, At, Running
  <2> QED
    BY <2>1 DEF TypeOK, RunInv, Running, My, Listed, Fetching
<1> DEFINE Shape == Reads(c) \/ Takes(c) \/ Marks(c) \/ Moves(c) \/ Mails(c) \/ Leaves(c)
<1>1. CASE CallEnds(c)
  <2>1. Alone(c)
    BY <1>1 DEF CallEnds, Alone, Calls!End, life, delivery
  <2>2. Reads(c)
    BY <1>0, <1>1 DEF CallEnds, Reads, Early, Goes, NoMark, Mine, My, Running, life, delivery
  <2> QED
    BY <1>0, <2>1, <2>2
<1>2. CASE TakePage(c)
  <2>1. Alone(c)
    BY <1>0, <1>2 DEF TakePage, Alone, life, delivery
  <2>2. Reads(c)
    <3>1. PICK posts \in SUBSET (Post \ a.listed) :
            LET l == IF setup.source.comments /\ posts # {} THEN "comments" ELSE "item" IN
            at' = [at EXCEPT ![c].pc = l, ![c].page = @ + 1,
                             ![c].listed = @ \cup posts, ![c].left = posts]
      BY <1>2 DEF TakePage
    <3>2. /\ at'[c].pc \in {"comments", "item"} /\ at'[c].blocks = a.blocks
          /\ at'[c].listed = a.listed \cup posts /\ at'[c].left = posts
      BY <1>0, <3>1 DEF Spot
    <3>3. posts \cap a.listed = {}
      OBVIOUS
    <3>4. a.pc = "page" /\ Goes(c) /\ NoMark(c) /\ Mine(c) = My(c)
      BY <1>0, <1>2 DEF TakePage, Goes, NoMark, Mine, My, Running, life, delivery, At
    <3> QED
      BY <3>2, <3>3, <3>4 DEF Reads, Early
  <2> QED
    BY <1>0, <2>1, <2>2
<1>3. CASE TakeComments(c)
  <2>1. Alone(c)
    BY <1>0, <1>3 DEF TakeComments, Alone, life, delivery
  <2>2. Reads(c)
    BY <1>0, <1>3 DEF TakeComments, Reads, Early, Goes, NoMark, Mine, My, Running, life,
                      delivery, At, Spot
  <2> QED
    BY <1>0, <2>1, <2>2
<1>4. CASE FetchFails(c)
  <2>1. Alone(c)
    BY <1>0, <1>4 DEF FetchFails, Alone, life, delivery, Leave, Note, Life!Fail
  <2>2. CASE setup.partial
    <3>1. Moves(c)
      BY <1>0, <1>4, <2>2 DEF FetchFails, Moves, Goes, NoMark, Mine, My, Running, life,
                      delivery, At, Leave, Place, Note
    <3> QED
      BY <1>0, <2>1, <3>1
  <2>3. CASE ~setup.partial
    <3>1. Leaves(c)
      BY <1>0, <1>4, <2>3 DEF FetchFails, Leaves, NoMark, Mine, My, Running, life,
                      delivery, At, Note, Life!Fail
    <3> QED
      BY <1>0, <2>1, <3>1
  <2> QED
    BY <2>2, <2>3
<1>5. CASE SkipPost(c)
  <2>1. Alone(c)
    BY <1>0, <1>5 DEF SkipPost, Alone, life, delivery
  <2>2. Reads(c)
    BY <1>0, <1>5 DEF SkipPost, Reads, Early, Goes, NoMark, Mine, My, Running, life,
                      delivery, At, Spot
  <2> QED
    BY <1>0, <2>1, <2>2
<1>6. CASE TakePost(c)
  <2>1. Alone(c)
    BY <1>0, <1>6 DEF TakePost, Alone, life, delivery
  <2>2. CASE setup.source.reads = "none"
    <3>1. Takes(c)
      BY <1>0, <1>6, <2>2 DEF TakePost, Takes, Goes, NoMark, Mine, My, Running, life,
                      delivery, At, Spot
    <3> QED
      BY <1>0, <2>1, <3>1
  <2>3. CASE setup.source.reads # "none"
    <3>1. Reads(c)
      <4>1. PICK p \in IF cancelled THEN a.left ELSE a.left \ seen :
              at' = [at EXCEPT ![c].pc = "read", ![c].item = p]
        BY <1>6, <2>3 DEF TakePost
      <4>2. /\ at'[c].pc = "read" /\ at'[c].item = p /\ at'[c].blocks = a.blocks
            /\ at'[c].left = a.left /\ at'[c].listed = a.listed
        BY <1>0, <4>1 DEF Spot
      <4>3. p \in a.left /\ (cancelled \/ p \notin seen)
        OBVIOUS
      <4>4. a.pc = "item" /\ Goes(c) /\ NoMark(c) /\ Mine(c) = My(c)
        BY <1>0, <1>6 DEF TakePost, Goes, NoMark, Mine, My, Running, life, delivery, At
      <4> QED
        BY <4>2, <4>3, <4>4 DEF Reads, Early
    <3> QED
      BY <1>0, <2>1, <3>1
  <2> QED
    BY <2>2, <2>3
<1>7. CASE TakeContent(c)
  <2>1. Alone(c)
    BY <1>0, <1>7 DEF TakeContent, Alone, life, delivery, Note
  <2>2. a.pc = "read" /\ Goes(c) /\ NoMark(c)
    BY <1>0, <1>7 DEF TakeContent, Goes, NoMark, Running, life, delivery, At
  <2>3. \/ Mine(c) = e
        \/ cancelled /\ Mine(c) = [e EXCEPT !.cut = @ \cup {a.item}]
    <3>1. log' = [log EXCEPT ![run[c]].cut = IF reading[c] = "error" /\ cancelled
                                             THEN e.cut \cup {a.item} ELSE e.cut]
      BY <1>7 DEF TakeContent, Note
    <3>2. Mine(c) = [e EXCEPT !.cut = IF reading[c] = "error" /\ cancelled
                                      THEN e.cut \cup {a.item} ELSE e.cut]
      BY <1>0, <3>1 DEF Mine, My
    <3> QED
      BY <1>0, <3>2 DEF Entry
  <2>4. \/ /\ at'[c].pc = "mark" /\ at'[c].blocks = a.blocks \cup {a.item}
           /\ at'[c].item = a.item /\ at'[c].left = a.left /\ at'[c].listed = a.listed
        \/ /\ at'[c].pc = "item" /\ at'[c].blocks = a.blocks
           /\ at'[c].left = a.left \ {a.item} /\ at'[c].listed = a.listed
    BY <1>0, <1>7 DEF TakeContent, Spot
  <2>5. Takes(c)
    BY <1>0, <2>2, <2>3, <2>4 DEF Takes
  <2> QED
    BY <1>0, <2>1, <2>5
<1>8. CASE Mark(c)
  <2>1. Alone(c)
    BY <1>0, <1>8 DEF Mark, Alone, life, delivery, Note
  <2>2. Marks(c)
    BY <1>0, <1>8 DEF Mark, Marks, Goes, NoMark, Mine, My, Running, life,
                      delivery, At, Spot, Note
  <2> QED
    BY <1>0, <2>1, <2>2
<1>9. CASE NextPage(c)
  <2>1. Alone(c)
    BY <1>0, <1>9 DEF NextPage, Alone, life, delivery
  <2>2. Reads(c)
    BY <1>0, <1>9 DEF NextPage, Reads, Early, Goes, NoMark, Mine, My, Running, life,
                      delivery, At, Spot
  <2> QED
    BY <1>0, <2>1, <2>2
<1>10. CASE FetchEnds(c)
  <2>1. Alone(c)
    BY <1>0, <1>10 DEF FetchEnds, Alone, life, delivery, Leave
  <2>2. Moves(c)
    BY <1>0, <1>10 DEF FetchEnds, Moves, Goes, NoMark, Mine, My, Running, life,
                      delivery, At, Leave, Place
  <2> QED
    BY <1>0, <2>1, <2>2
<1>11. CASE LeaveSources(c)
  <2>1. Alone(c)
    BY <1>0, <1>11 DEF LeaveSources, Alone, life, delivery, Leave, Finish, Note,
                       Life!Fail, Life!Complete, Life!Advance
  <2>2. CASE a.blocks = {}
    <3>1. Mine(c) = [My(c) EXCEPT !.end = "completed"]
      BY <1>0, <1>11, <2>2 DEF LeaveSources, Mine, My, Note
    <3>2. Mine(c) = [My(c) EXCEPT !.dropped = @ \cup a.blocks, !.end = "completed"]
      BY <1>0, <2>2, <3>1 DEF Entry
    <3>3. Leaves(c)
      BY <1>0, <1>11, <2>2, <3>2 DEF LeaveSources, Leaves, NoMark, Running, delivery, At,
                       Finish, Life!Complete, Life!Fail
    <3> QED
      BY <1>0, <2>1, <3>3
  <2>3. CASE a.blocks # {}
    <3>1. Moves(c)
      BY <1>0, <1>11, <2>3 DEF LeaveSources, Moves, Goes, NoMark, Mine, My, Running, life,
                      delivery, At, Life!Advance
    <3> QED
      BY <1>0, <2>1, <3>1
  <2> QED
    BY <2>2, <2>3
<1>12. CASE Process(c)
  <2>1. PICK kept \in SUBSET a.blocks :
          \/ /\ kept = {} /\ Finish(c, "completed")
             /\ log' = [log EXCEPT ![run[c]].dropped = @ \cup a.blocks,
                                   ![run[c]].end = "completed"]
          \/ /\ Life!Advance(c)
             /\ Leave(c, IF stage[c] = 4 THEN "mail" ELSE "stage", kept)
             /\ Note(c, "dropped", My(c).dropped \cup (a.blocks \ kept))
    BY <1>0, <1>12 DEF Process
  <2>2. At(c, "stage") /\ UNCHANGED <<setup, cancelled, reading, delivery, seen, run>>
    BY <1>12 DEF Process
  <2>3. CASE Life!Advance(c)
    <3>1. /\ Leave(c, IF stage[c] = 4 THEN "mail" ELSE "stage", kept)
          /\ Note(c, "dropped", My(c).dropped \cup (a.blocks \ kept))
      BY <1>0, <2>1, <2>3 DEF Life!Advance, Finish, Life!Complete, Life!Fail
    <3>2. Alone(c)
      BY <1>0, <2>2, <2>3, <3>1 DEF Alone, delivery, Leave, Note, Life!Advance
    <3>3. Moves(c)
      BY <1>0, <2>2, <2>3, <3>1 DEF Moves, Goes, NoMark, Mine, My, Running, delivery, At,
                       Leave, Place, Note, Life!Advance
    <3> QED
      BY <1>0, <3>2, <3>3
  <2>4. CASE ~Life!Advance(c)
    <3>1. /\ Finish(c, "completed")
          /\ log' = [log EXCEPT ![run[c]].dropped = @ \cup a.blocks,
                                ![run[c]].end = "completed"]
      BY <2>1, <2>4
    <3>2. Alone(c)
      BY <1>0, <2>2, <3>1 DEF Alone, delivery, Leave, Finish, Life!Complete, Life!Fail
    <3>3. Leaves(c)
      BY <1>0, <2>2, <3>1 DEF Leaves, NoMark, Mine, My, Running, delivery, At,
                       Finish, Life!Complete, Life!Fail
    <3> QED
      BY <1>0, <3>2, <3>3
  <2> QED
    BY <2>3, <2>4
<1>13. CASE ProcessFails(c)
  <2>1. Alone(c)
    BY <1>0, <1>13 DEF ProcessFails, Alone, life, delivery, Leave, Finish, Note,
                       Life!Fail, Life!Complete
  <2>2. Leaves(c)
    BY <1>0, <1>13 DEF ProcessFails, Leaves, NoMark, Mine, My, Running, delivery, At,
                       Finish, Note, Life!Complete, Life!Fail
  <2> QED
    BY <1>0, <2>1, <2>2
<1>14. CASE Compose(c)
  <2>1. Alone(c)
    BY <1>0, <1>14 DEF Compose, Alone, life, Sender!Compose, Sender!To
  <2>2. Mails(c)
    BY <1>0, <1>14 DEF Compose, Mails, NoMark, Mine, My, Running, life, At
  <2> QED
    BY <1>0, <2>1, <2>2
<1>15. CASE Dial(c)
  <2>1. Alone(c)
    BY <1>0, <1>15 DEF Dial, Alone, life, Sender!Dial, Sender!To
  <2>2. Mails(c)
    BY <1>0, <1>15 DEF Dial, Mails, NoMark, Mine, My, Running, life, At
  <2> QED
    BY <1>0, <2>1, <2>2
<1>16. CASE Delivered(c)
  <2>1. Alone(c)
    BY <1>0, <1>16 DEF Delivered, Alone, life, Leave, Finish, Note,
                       Life!Fail, Life!Complete, Sender!Close, Sender!To
  <2>2. CASE a.out = Len(setup.outputs)
    <3>1. Leaves(c)
      BY <1>0, <1>16, <2>2 DEF Delivered, TypeOK, Leaves, NoMark, Mine, My, Running, At,
                       Finish, Note, Life!Complete, Life!Fail, Sender!Close, Sender!To
    <3> QED
      BY <1>0, <2>1, <3>1
  <2>3. CASE a.out # Len(setup.outputs)
    <3>1. Mails(c)
      BY <1>0, <1>16, <2>3 DEF Delivered, TypeOK, Mails, NoMark, Mine, My, Running, At, life,
                       Sender!Close, Sender!To
    <3> QED
      BY <1>0, <2>1, <3>1
  <2> QED
    BY <2>2, <2>3
<1>17. CASE NotDelivered(c)
  <2>1. Alone(c)
    BY <1>0, <1>17 DEF NotDelivered, Alone, life, Leave, Finish, Note,
                       Life!Fail, Life!Complete, Sender!Close, Sender!To
  <2>2. Leaves(c)
    BY <1>0, <1>17 DEF NotDelivered, TypeOK, Leaves, NoMark, Mine, My, Running, At,
                       Finish, Note, Life!Complete, Life!Fail, Sender!Close, Sender!To
  <2> QED
    BY <1>0, <2>1, <2>2
<1> QED
  BY <1>1, <1>2, <1>3, <1>4, <1>5, <1>6, <1>7, <1>8, <1>9, <1>10, <1>11, <1>12, <1>13,
     <1>14, <1>15, <1>16, <1>17 DEF Step

(* A flow has at least one output.                                       *)
LEMMA OutputsSeq ==
  ASSUME TypeOK
  PROVE  /\ setup.outputs \in Seq(Sender!Mailer) /\ Len(setup.outputs) \in Nat \ {0}
         /\ DOMAIN setup.outputs = 1 .. Len(setup.outputs)
<1>1. setup.outputs \in Seq(Sender!Mailer) /\ setup.outputs # <<>>
  BY DigestAssumption DEF TypeOK, Setup
<1> QED
  BY <1>1

(* There is an output at hand whenever a run is at its outputs. *)
LEMMA OutputType ==
  ASSUME NEW c \in Caller, TypeOK, At(c, "mail"), RunInv(c), run[c] \in DOMAIN log,
         Settled(run[c])
  PROVE  Output(c) \in Sender!Mailer /\ at[c].out \in 1 .. Len(setup.outputs)
<1>1. setup.outputs \in Seq(Sender!Mailer)
  BY DigestAssumption DEF TypeOK, Setup
<1>2. at[c].out \in DOMAIN setup.outputs
  BY DEF At, Running, RunInv, Handed, Settled, My
<1> QED
  BY <1>1, <1>2 DEF Output

(* A dialogue is put behind those before it, and settles what comes next. *)
LEMMA DialFacts ==
  ASSUME NEW c \in Caller, NEW m \in Sender!Mailer, Sender!Dial(c, m),
         mail \in [Caller -> {"idle", "login", "open", "sent", "failed"}],
         wire \in [Caller -> Seq(Sender!Dialogue)]
  PROVE  /\ mail' \in [Caller -> {"idle", "login", "open", "sent", "failed"}]
         /\ wire' \in [Caller -> Seq(Sender!Dialogue)]
         /\ \/ wire' = wire /\ mail'[c] = "failed"
            \/ \E d \in Sender!Dialogues(c, m) :
                 /\ d \in Sender!Dialogue
                 /\ wire'[c] = Append(wire[c], d)
                 /\ mail'[c] = IF d.end = "taken" THEN "sent"
                              ELSE IF Sender!ToleratesNoAuth(m, d) THEN "open" ELSE "failed"
<1>1. CASE m.tls = "garbled"
  BY <1>1 DEF Sender!Dial, Sender!To
<1>2. CASE m.tls # "garbled"
  <2>1. PICK d \in Sender!Dialogues(c, m) :
          /\ wire' = [wire EXCEPT ![c] = Append(@, d)]
          /\ mail' = [mail EXCEPT ![c] = IF d.end = "taken" THEN "sent"
                        ELSE IF Sender!ToleratesNoAuth(m, d) THEN "open" ELSE "failed"]
    BY <1>2 DEF Sender!Dial, Sender!To
  <2>2. d \in Sender!Dialogue
    <3>1. Sender!TLSMode(m) \in {"disabled", "starttls", "implicit"}
      BY <1>2 DEF Sender!TLSMode, Sender!Mailer
    <3>2. (mail[c] = "login") \in BOOLEAN
      OBVIOUS
    <3>3. d \in [login : {mail[c] = "login"}, mode : {Sender!TLSMode(m)},
                 end : {"taken", "late", "refused", "noauth"}]
      BY DEF Sender!Dialogues
    <3>4. DOMAIN d = {"login", "mode", "end"} /\ d.login \in BOOLEAN
      BY <3>2, <3>3
    <3> QED
      BY <3>1, <3>2, <3>3 DEF Sender!Dialogue
  <2>3. Append(wire[c], d) \in Seq(Sender!Dialogue)
    BY <2>2
  <2> QED
    BY <2>1, <2>2, <2>3
<1> QED
  BY <1>1, <1>2

(* The steps of a run are those of RunLife; spelled out once for the provers. *)
LEMMA LifeSteps ==
  ASSUME NEW c \in Caller, TypeOK,
         Life!Begin(c) \/ Life!Advance(c) \/ Life!Complete(c) \/ Life!Fail(c)
  PROVE  /\ status' \in [Caller -> {"idle", "running", "completed", "failed"}]
         /\ stage' \in [Caller -> 1 .. 5]
<1> USE DEF Life!First, Life!Last
<1>0. /\ status \in [Caller -> {"idle", "running", "completed", "failed"}]
      /\ stage \in [Caller -> 1 .. 5]
  BY DEF TypeOK
<1>1. CASE Life!Begin(c)
  BY <1>0, <1>1 DEF Life!Begin
<1>2. CASE Life!Advance(c)
  <2>1. stage[c] + 1 \in 1 .. 5
    BY <1>0, <1>2 DEF Life!Advance
  <2> QED BY <1>0, <1>2, <2>1 DEF Life!Advance
<1>3. CASE Life!Complete(c)
  BY <1>0, <1>3 DEF Life!Complete
<1>4. CASE Life!Fail(c)
  BY <1>0, <1>4 DEF Life!Fail
<1> QED BY <1>1, <1>2, <1>3, <1>4

(* No step of a run leaves the types.                                    *)
LEMMA TypeStep ==
  ASSUME NEW c \in Caller, TypeOK, IInv, Step(c)
  PROVE  TypeOK'
<1> DEFINE a == at[c]
           e == My(c)
<1>0. RunInv(c) /\ \A r \in DOMAIN log : Settled(r)
  BY DEF IInv
<1>1. /\ Running(c) /\ at \in [Caller -> Spot] /\ a \in Spot
      /\ run[c] \in DOMAIN log /\ log \in Seq(Entry) /\ e \in Entry /\ e = log[run[c]]
      /\ (a.pc \in {"read", "mark"} => a.item \in Post)
      /\ seen \subseteq Post
  <2>1. Running(c)
    BY <1>0, StepCases
  <2>2. a.pc \in {"read", "mark"} => a.item \in a.left
    BY <1>0, <2>1 DEF RunInv, Listed, Fetching
  <2> QED
    BY <2>1, <2>2 DEF TypeOK, My, Spot, Running
<1>2. /\ status' \in [Caller -> {"idle", "running", "completed", "failed"}]
      /\ stage' \in [Caller -> 1 .. 5]
  <2>1. UNCHANGED life \/ Life!Advance(c) \/ Life!Complete(c) \/ Life!Fail(c)
    BY DEF Step, CallEnds, TakePage, TakeComments, FetchFails, SkipPost, TakePost,
           TakeContent, Mark, NextPage, FetchEnds, LeaveSources, Process, ProcessFails,
           Compose, Dial, Delivered, NotDelivered, Finish
  <2> QED
    BY <2>1, LifeSteps DEF life, TypeOK
<1>3. at' \in [Caller -> Spot]
  <2>0. ASSUME NEW b \in Spot, at' = [at EXCEPT ![c] = b] PROVE at' \in [Caller -> Spot]
    BY <1>1, <2>0
  <2>1. ASSUME NEW l, NEW posts \in SUBSET Post, l \in {"page", "stage", "mail"}, Leave(c, l, posts)
        PROVE  at' \in [Caller -> Spot]
    <3>1. Place(l, posts) \in Spot
      BY <2>1 DEF Place, Spot
    <3> QED
      BY <1>1, <2>1, <3>1 DEF Leave
  <2>2. a.blocks \in SUBSET Post /\ {} \in SUBSET Post
    BY <1>1 DEF Spot
  <2>3. CASE UNCHANGED at
    BY <1>1, <2>3
  <2>4. CASE TakePage(c)
    <3>1. PICK posts \in SUBSET (Post \ a.listed) :
            LET l == IF setup.source.comments /\ posts # {} THEN "comments" ELSE "item" IN
            at' = [at EXCEPT ![c].pc = l, ![c].page = @ + 1,
                             ![c].listed = @ \cup posts, ![c].left = posts]
      BY <2>4 DEF TakePage
    <3>2. PICK l \in {"comments", "item"} :
            at' = [at EXCEPT ![c] = [a EXCEPT !.pc = l, !.page = @ + 1,
                                              !.listed = @ \cup posts, !.left = posts]]
      BY <1>1, <3>1
    <3>3. [a EXCEPT !.pc = l, !.page = @ + 1, !.listed = @ \cup posts, !.left = posts] \in Spot
      <4>1. a.page + 1 \in Nat /\ a.listed \cup posts \in SUBSET Post /\ posts \in SUBSET Post
        BY <1>1 DEF Spot
      <4> QED
        BY <1>1, <4>1 DEF Spot
    <3> QED
      BY <1>1, <3>2, <3>3
  <2>5. CASE TakeComments(c)
    <3>1. PICK p \in a.left \ a.asked, l \in {"comments", "item"} :
            at' = [at EXCEPT ![c] = [a EXCEPT !.pc = l, !.asked = @ \cup {p}]]
      BY <1>1, <2>5 DEF TakeComments
    <3>2. [a EXCEPT !.pc = l, !.asked = @ \cup {p}] \in Spot
      BY <1>1 DEF Spot
    <3> QED
      BY <1>1, <3>1, <3>2
  <2>6. CASE SkipPost(c)
    <3>1. PICK p \in a.left : at' = [at EXCEPT ![c] = [a EXCEPT !.left = @ \ {p}]]
      BY <1>1, <2>6 DEF SkipPost
    <3>2. [a EXCEPT !.left = @ \ {p}] \in Spot
      BY <1>1 DEF Spot
    <3> QED
      BY <1>1, <3>1, <3>2
  <2>7. CASE TakePost(c)
    <3>1. PICK p \in a.left :
            \/ at' = [at EXCEPT ![c] = [a EXCEPT !.pc = "mark", !.item = p,
                                                 !.blocks = @ \cup {p}]]
            \/ at' = [at EXCEPT ![c] = [a EXCEPT !.pc = "read", !.item = p]]
      BY <1>1, <2>7 DEF TakePost
    <3>2. /\ [a EXCEPT !.pc = "mark", !.item = p, !.blocks = @ \cup {p}] \in Spot
          /\ [a EXCEPT !.pc = "read", !.item = p] \in Spot
      BY <1>1 DEF Spot
    <3> QED
      BY <1>1, <3>1, <3>2
  <2>8. CASE TakeContent(c)
    <3>1. \/ at' = [at EXCEPT ![c] = [a EXCEPT !.pc = "mark", !.blocks = @ \cup {a.item}]]
          \/ at' = [at EXCEPT ![c] = [a EXCEPT !.pc = "item", !.left = @ \ {a.item}]]
      BY <1>1, <2>8 DEF TakeContent
    <3>2. /\ [a EXCEPT !.pc = "mark", !.blocks = @ \cup {a.item}] \in Spot
          /\ [a EXCEPT !.pc = "item", !.left = @ \ {a.item}] \in Spot
      BY <1>1, <2>8 DEF Spot, TakeContent, At
    <3> QED
      BY <1>1, <3>1, <3>2
  <2>9. CASE Mark(c)
    <3>1. at' = [at EXCEPT ![c] = [a EXCEPT !.pc = "item", !.left = @ \ {a.item}]]
      BY <1>1, <2>9 DEF Mark
    <3>2. [a EXCEPT !.pc = "item", !.left = @ \ {a.item}] \in Spot
      BY <1>1 DEF Spot
    <3> QED
      BY <1>1, <3>1, <3>2
  <2>10. CASE NextPage(c)
    <3>1. at' = [at EXCEPT ![c] = [a EXCEPT !.pc = "page", !.asked = {}, !.item = None]]
      BY <1>1, <2>10 DEF NextPage
    <3>2. [a EXCEPT !.pc = "page", !.asked = {}, !.item = None] \in Spot
      BY <1>1 DEF Spot
    <3> QED
      BY <1>1, <3>1, <3>2
  <2>11. CASE Delivered(c) /\ a.out # Len(setup.outputs)
    <3>1. at' = [at EXCEPT ![c] = [a EXCEPT !.out = @ + 1]]
      BY <1>1, <2>11 DEF Delivered
    <3>2. [a EXCEPT !.out = @ + 1] \in Spot
      <4>1. a.out + 1 \in Nat
        BY <1>1 DEF Spot
      <4> QED
        BY <1>1, <4>1 DEF Spot
    <3> QED
      BY <1>1, <3>1, <3>2
  <2>12. CASE FetchFails(c) \/ FetchEnds(c)
    BY <2>1, <2>2, <2>12 DEF FetchFails, FetchEnds
  <2>13. CASE LeaveSources(c) \/ ProcessFails(c) \/ NotDelivered(c)
              \/ (Delivered(c) /\ a.out = Len(setup.outputs))
    BY <2>1, <2>2, <2>3, <2>13 DEF LeaveSources, ProcessFails, NotDelivered, Delivered, Finish
  <2>14. CASE Process(c)
    <3>1. PICK kept \in SUBSET a.blocks :
            Leave(c, "page", {}) \/ Leave(c, IF stage[c] = 4 THEN "mail" ELSE "stage", kept)
      BY <2>14 DEF Process, Finish
    <3> QED
      BY <2>1, <2>2, <3>1
  <2> QED
    BY <2>3, <2>4, <2>5, <2>6, <2>7, <2>8, <2>9, <2>10, <2>11, <2>12, <2>13, <2>14
       DEF Step, CallEnds, Compose, Dial
<1>4. log' \in Seq(Entry) /\ Len(log') = Len(log)
  <2>0. ASSUME NEW n \in Entry, log' = [log EXCEPT ![run[c]] = n]
        PROVE  log' \in Seq(Entry) /\ Len(log') = Len(log)
    BY <1>1, <2>0, NoteFacts
  <2>1. CASE UNCHANGED log
    BY <1>1, <2>1
  <2>2. a.blocks \subseteq Post
    BY <1>1 DEF Spot
  <2>3. CASE FetchFails(c)
    <3>1. \/ log' = [log EXCEPT ![run[c]] = [e EXCEPT !.failed = TRUE]]
          \/ log' = [log EXCEPT ![run[c]] = [e EXCEPT !.end = "failed"]]
      BY <1>1, <2>3 DEF FetchFails, Note
    <3>2. [e EXCEPT !.failed = TRUE] \in Entry /\ [e EXCEPT !.end = "failed"] \in Entry
      BY <1>1 DEF Entry
    <3> QED
      BY <2>0, <3>1, <3>2
  <2>4. CASE TakeContent(c)
    <3>1. PICK x \in {e.cut, e.cut \cup {a.item}} :
            log' = [log EXCEPT ![run[c]] = [e EXCEPT !.cut = x]]
      BY <1>1, <2>4 DEF TakeContent, Note, My
    <3>2. [e EXCEPT !.cut = x] \in Entry
      BY <1>1, <2>4 DEF Entry, TakeContent, At
    <3> QED
      BY <2>0, <3>1, <3>2
  <2>5. CASE Mark(c) /\ ~cancelled
    <3>1. log' = [log EXCEPT ![run[c]] = [e EXCEPT !.marked = e.marked \cup {a.item}]]
      BY <1>1, <2>5 DEF Mark, Note, My
    <3>2. [e EXCEPT !.marked = e.marked \cup {a.item}] \in Entry
      BY <1>1, <2>5 DEF Entry, Mark, At
    <3> QED
      BY <2>0, <3>1, <3>2
  <2>6. CASE Note(c, "end", "failed") \/ Note(c, "end", "completed")
    <3>1. \/ log' = [log EXCEPT ![run[c]] = [e EXCEPT !.end = "failed"]]
          \/ log' = [log EXCEPT ![run[c]] = [e EXCEPT !.end = "completed"]]
      BY <1>1, <2>6 DEF Note
    <3>2. [e EXCEPT !.end = "completed"] \in Entry /\ [e EXCEPT !.end = "failed"] \in Entry
      BY <1>1 DEF Entry
    <3> QED
      BY <2>0, <3>1, <3>2
  <2>7. CASE Process(c)
    <3>1. PICK kept \in SUBSET a.blocks :
            \/ log' = [log EXCEPT ![run[c]].dropped = @ \cup a.blocks,
                                  ![run[c]].end = "completed"]
            \/ Note(c, "dropped", My(c).dropped \cup (a.blocks \ kept))
      BY <2>7 DEF Process
    <3>2. \/ log' = [log EXCEPT ![run[c]] =
                      [e EXCEPT !.dropped = e.dropped \cup a.blocks, !.end = "completed"]]
          \/ log' = [log EXCEPT ![run[c]] =
                      [e EXCEPT !.dropped = e.dropped \cup (a.blocks \ kept)]]
      BY <1>1, <3>1 DEF Note, My
    <3>3. /\ [e EXCEPT !.dropped = e.dropped \cup a.blocks, !.end = "completed"] \in Entry
          /\ [e EXCEPT !.dropped = e.dropped \cup (a.blocks \ kept)] \in Entry
      BY <1>1, <2>2 DEF Entry
    <3> QED
      BY <2>0, <3>2, <3>3
  <2>8. CASE Dial(c)
    <3>1. CASE log' = [log EXCEPT ![run[c]].given[a.out] = a.blocks]
      <4>1. log' = [log EXCEPT ![run[c]] =
                      [e EXCEPT !.given = [e.given EXCEPT ![a.out] = a.blocks]]]
        BY <1>1, <3>1
      <4>2. [e.given EXCEPT ![a.out] = a.blocks] \in Seq(SUBSET Post)
        <5>1. /\ e.given \in Seq(SUBSET Post) /\ a.blocks \in SUBSET Post
              /\ a.out \in DOMAIN e.given
          BY <1>0, <1>1, <2>2, <2>8 DEF Entry, Dial, At, Running, RunInv, Handed, My
        <5> QED
          BY <5>1, SeqExcept
      <4>3. [e EXCEPT !.given = [e.given EXCEPT ![a.out] = a.blocks]] \in Entry
        BY <1>1, <4>2 DEF Entry
      <4> QED
        BY <2>0, <4>1, <4>3
    <3> QED
      BY <2>1, <2>8, <3>1 DEF Dial
  <2> QED
    BY <2>1, <2>3, <2>4, <2>5, <2>6, <2>7, <2>8
       DEF Step, CallEnds, TakePage, TakeComments, SkipPost, TakePost, Mark, NextPage,
           FetchEnds, LeaveSources, ProcessFails, Compose, Delivered, NotDelivered
<1>5. reading' \in [Caller -> {"none", "answer", "error"}]
  <2>1. CASE CallEnds(c)
    BY <1>1, <2>1 DEF CallEnds, TypeOK, Then, Calls!Ask, Calls!End, Calls!Answer, Calls!Refuse, Calls!To
  <2>2. CASE TakePage(c)
    BY <1>1, <2>2 DEF TakePage, TypeOK, Then, Calls!Ask, Calls!End, Calls!Answer, Calls!Refuse, Calls!To
  <2>3. CASE TakeComments(c)
    BY <1>1, <2>3 DEF TakeComments, TypeOK, Then, Calls!Ask, Calls!End, Calls!Answer, Calls!Refuse, Calls!To
  <2>4. CASE FetchFails(c)
    BY <1>1, <2>4 DEF FetchFails, TypeOK, Then, Calls!Ask, Calls!End, Calls!Answer, Calls!Refuse, Calls!To
  <2>5. CASE SkipPost(c)
    BY <1>1, <2>5 DEF SkipPost, TypeOK, Then, Calls!Ask, Calls!End, Calls!Answer, Calls!Refuse, Calls!To
  <2>6. CASE TakePost(c)
    BY <1>1, <2>6 DEF TakePost, TypeOK, Then, Calls!Ask, Calls!End, Calls!Answer, Calls!Refuse, Calls!To
  <2>7. CASE TakeContent(c)
    BY <1>1, <2>7 DEF TakeContent, TypeOK, Then, Calls!Ask, Calls!End, Calls!Answer, Calls!Refuse, Calls!To
  <2>8. CASE Mark(c)
    BY <1>1, <2>8 DEF Mark, TypeOK, Then, Calls!Ask, Calls!End, Calls!Answer, Calls!Refuse, Calls!To
  <2>9. CASE NextPage(c)
    BY <1>1, <2>9 DEF NextPage, TypeOK, Then, Calls!Ask, Calls!End, Calls!Answer, Calls!Refuse, Calls!To
  <2>10. CASE FetchEnds(c)
    BY <1>1, <2>10 DEF FetchEnds, TypeOK, Then, Calls!Ask, Calls!End, Calls!Answer, Calls!Refuse, Calls!To
  <2>11. CASE LeaveSources(c)
    BY <1>1, <2>11 DEF LeaveSources, TypeOK, Then, Calls!Ask, Calls!End, Calls!Answer, Calls!Refuse, Calls!To
  <2>12. CASE Process(c)
    BY <1>1, <2>12 DEF Process, TypeOK, Then, Calls!Ask, Calls!End, Calls!Answer, Calls!Refuse, Calls!To
  <2>13. CASE ProcessFails(c)
    BY <1>1, <2>13 DEF ProcessFails, TypeOK, Then, Calls!Ask, Calls!End, Calls!Answer, Calls!Refuse, Calls!To
  <2>14. CASE Compose(c)
    BY <1>1, <2>14 DEF Compose, TypeOK, Then, Calls!Ask, Calls!End, Calls!Answer, Calls!Refuse, Calls!To
  <2>15. CASE Dial(c)
    BY <1>1, <2>15 DEF Dial, TypeOK, Then, Calls!Ask, Calls!End, Calls!Answer, Calls!Refuse, Calls!To
  <2>16. CASE Delivered(c)
    BY <1>1, <2>16 DEF Delivered, TypeOK, Then, Calls!Ask, Calls!End, Calls!Answer, Calls!Refuse, Calls!To
  <2>17. CASE NotDelivered(c)
    BY <1>1, <2>17 DEF NotDelivered, TypeOK, Then, Calls!Ask, Calls!End, Calls!Answer, Calls!Refuse, Calls!To
  <2> QED
    BY <2>1, <2>2, <2>3, <2>4, <2>5, <2>6, <2>7, <2>8, <2>9, <2>10, <2>11, <2>12, <2>13, <2>14, <2>15, <2>16, <2>17 DEF Step
<1>6. /\ mail' \in [Caller -> {"idle", "login", "open", "sent", "failed"}]
      /\ wire' \in [Caller -> Seq(Sender!Dialogue)]
  <2>0. /\ mail \in [Caller -> {"idle", "login", "open", "sent", "failed"}]
        /\ wire \in [Caller -> Seq(Sender!Dialogue)]
    BY DEF TypeOK
  <2>1. CASE UNCHANGED delivery
    BY <2>0, <2>1 DEF delivery
  <2>2. CASE Compose(c)
    BY <2>0, <2>2 DEF Compose, Sender!Compose, Sender!To
  <2>3. CASE Dial(c)
    <3>1. Output(c) \in Sender!Mailer
      BY <1>0, <1>1, <2>3, OutputType DEF Dial
    <3>2. Sender!Dial(c, Output(c))
      BY <2>3 DEF Dial
    <3> QED
      BY <2>0, <3>1, <3>2, DialFacts
  <2>4. CASE Delivered(c) \/ NotDelivered(c)
    <3>1. Sender!Close(c)
      BY <2>4 DEF Delivered, NotDelivered
    <3>2. <<>> \in Seq(Sender!Dialogue)
      OBVIOUS
    <3> QED
      BY <2>0, <3>1, <3>2 DEF Sender!Close, Sender!To
  <2> QED
    BY <2>1, <2>2, <2>3, <2>4
       DEF Step, CallEnds, TakePage, TakeComments, FetchFails, SkipPost, TakePost,
           TakeContent, Mark, NextPage, FetchEnds, LeaveSources, Process, ProcessFails
<1>7. seen' \subseteq Post
  <2>1. CASE CallEnds(c)
    BY <1>1, <2>1 DEF CallEnds, At
  <2>2. CASE TakePage(c)
    BY <1>1, <2>2 DEF TakePage, At
  <2>3. CASE TakeComments(c)
    BY <1>1, <2>3 DEF TakeComments, At
  <2>4. CASE FetchFails(c)
    BY <1>1, <2>4 DEF FetchFails, At
  <2>5. CASE SkipPost(c)
    BY <1>1, <2>5 DEF SkipPost, At
  <2>6. CASE TakePost(c)
    BY <1>1, <2>6 DEF TakePost, At
  <2>7. CASE TakeContent(c)
    BY <1>1, <2>7 DEF TakeContent, At
  <2>8. CASE Mark(c)
    BY <1>1, <2>8 DEF Mark, At
  <2>9. CASE NextPage(c)
    BY <1>1, <2>9 DEF NextPage, At
  <2>10. CASE FetchEnds(c)
    BY <1>1, <2>10 DEF FetchEnds, At
  <2>11. CASE LeaveSources(c)
    BY <1>1, <2>11 DEF LeaveSources, At
  <2>12. CASE Process(c)
    BY <1>1, <2>12 DEF Process, At
  <2>13. CASE ProcessFails(c)
    BY <1>1, <2>13 DEF ProcessFails, At
  <2>14. CASE Compose(c)
    BY <1>1, <2>14 DEF Compose, At
  <2>15. CASE Dial(c)
    BY <1>1, <2>15 DEF Dial, At
  <2>16. CASE Delivered(c)
    BY <1>1, <2>16 DEF Delivered, At
  <2>17. CASE NotDelivered(c)
    BY <1>1, <2>17 DEF NotDelivered, At
  <2> QED
    BY <2>1, <2>2, <2>3, <2>4, <2>5, <2>6, <2>7, <2>8, <2>9, <2>10, <2>11, <2>12, <2>13, <2>14, <2>15, <2>16, <2>17 DEF Step
<1>8. UNCHANGED <<setup, cancelled, run>> /\ \A d \in Caller : d # c => status'[d] = status[d]
  BY <1>0, StepCases DEF Alone
<1>9. DOMAIN log' = DOMAIN log /\ Len(log') <= MaxRuns
  BY <1>1, <1>4 DEF TypeOK
<1>10. /\ \A d \in Caller : status'[d] = "running" => status[d] = "running"
       /\ \A d \in Caller : run'[d] = run[d]
  BY <1>1, <1>8 DEF Running
<1>11. /\ setup' \in Setups /\ cancelled' \in BOOLEAN /\ run' \in [Caller -> 0 .. MaxRuns]
  BY <1>8 DEF TypeOK
<1>12. \A d \in Caller : status'[d] = "running" => run'[d] \in DOMAIN log'
  BY <1>9, <1>10 DEF TypeOK
<1>13. \A d, x \in Caller :
         status'[d] = "running" /\ status'[x] = "running" /\ run'[d] = run'[x] => d = x
  BY <1>10 DEF TypeOK
<1> QED
  BY <1>2, <1>3, <1>4, <1>5, <1>6, <1>7, <1>9, <1>11, <1>12, <1>13 DEF TypeOK

-----------------------------------------------------------------------------
(* What a step leaves of the entries. *)
LEMMA EntryStep ==
  ASSUME NEW c \in Caller, TypeOK, IInv, Step(c)
  PROVE  /\ Running(c) /\ Alone(c) /\ run[c] \in DOMAIN log
         /\ My(c) \in Entry /\ at[c] \in Spot /\ My(c) = log[run[c]]
         /\ My(c)' = Mine(c) /\ seen \subseteq seen'
         /\ Mine(c).beside = My(c).beside /\ Mine(c).signal = My(c).signal
         /\ DOMAIN Mine(c).given = DOMAIN My(c).given
         /\ \A s \in DOMAIN log : Earlier(s)' = Earlier(s)
         /\ status'[c] = "running" => Mine(c).end = My(c).end
<1>1. /\ Running(c) /\ Alone(c)
      /\ Reads(c) \/ Takes(c) \/ Marks(c) \/ Moves(c) \/ Mails(c) \/ Leaves(c)
  BY StepCases DEF IInv
<1>2. /\ run[c] \in DOMAIN log /\ My(c) \in Entry /\ at[c] \in Spot
      /\ My(c) = log[run[c]] /\ My(c)' = Mine(c)
  BY <1>1 DEF TypeOK, Running, My, Alone, Mine
<1>3. seen \subseteq seen'
  BY <1>1 DEF Reads, Takes, Marks, Moves, Mails, Leaves, NoMark
<1>4. /\ Mine(c).beside = My(c).beside /\ Mine(c).signal = My(c).signal
      /\ DOMAIN Mine(c).given = DOMAIN My(c).given
  <2> DEFINE e == My(c)
  <2>1. e \in Entry
    BY <1>2
  <2> HIDE DEF e
  <2>2. \/ Mine(c) = e
        \/ \E x : Mine(c) = [e EXCEPT !.cut = x]
        \/ \E x : Mine(c) = [e EXCEPT !.marked = x]
        \/ Mine(c) = [e EXCEPT !.failed = TRUE]
        \/ \E x : Mine(c) = [e EXCEPT !.dropped = x]
        \/ \E x, y : Mine(c) = [e EXCEPT !.given = [e.given EXCEPT ![x] = y]]
        \/ \E x : Mine(c) = [e EXCEPT !.end = x]
        \/ \E x, y : Mine(c) = [e EXCEPT !.dropped = x, !.end = y]
    <3>1. CASE Reads(c) \/ Takes(c) \/ Marks(c)
      BY <3>1 DEF Reads, Takes, Marks, e
    <3>2. CASE Moves(c)
      BY <3>2 DEF Moves, e
    <3>3. CASE Mails(c)
      <4>1. \/ Mine(c) = e
            \/ Mine(c) = [e EXCEPT !.given = [e.given EXCEPT ![at[c].out] = at[c].blocks]]
        BY <3>3 DEF Mails, e
      <4> QED
        BY <4>1
    <3>4. CASE Leaves(c)
      <4>1. \/ Mine(c) = [e EXCEPT !.end = "failed"]
            \/ Mine(c) = [e EXCEPT !.end = "completed"]
            \/ Mine(c) = [e EXCEPT !.dropped = e.dropped \cup at[c].blocks,
                                    !.end = "completed"]
        BY <3>4 DEF Leaves, e
      <4> QED
        BY <4>1
    <3> QED
      BY <1>1, <3>1, <3>2, <3>3, <3>4
  <2>3. /\ Mine(c).beside = e.beside /\ Mine(c).signal = e.signal
        /\ DOMAIN Mine(c).given = DOMAIN e.given
    BY <2>1, <2>2 DEF Entry
  <2> QED
    BY <2>3 DEF e
<1>5. \A s \in DOMAIN log : log'[s].beside = log[s].beside
  BY <1>1, <1>2, <1>4 DEF Alone, Mine
<1>6. \A s \in DOMAIN log : Earlier(s)' = Earlier(s)
  BY <1>1, <1>5 DEF Earlier, Alone
<1>7. status'[c] = "running" => Mine(c).end = My(c).end
  BY <1>1, <1>2 DEF Reads, Takes, Marks, Moves, Mails, Leaves, Entry
<1> QED
  BY <1>1, <1>2, <1>3, <1>4, <1>6, <1>7

(* A message is taken only while there is no signal. *)
LEMMA TakenUncancelled ==
  ASSUME NEW c \in Caller, TypeOK, NEW m \in Sender!Mailer, Sender!Dial(c, m),
         wire'[c] # wire[c], Sender!Taken(wire'[c][Len(wire'[c])])
  PROVE  ~cancelled
<1>1. PICK d \in Sender!Dialogues(c, m) :
        d \in Sender!Dialogue /\ wire'[c] = Append(wire[c], d)
  BY DialFacts DEF TypeOK
<1>2. wire'[c][Len(wire'[c])] = d
  BY <1>1 DEF TypeOK
<1> QED
  BY <1>1, <1>2 DEF Sender!Dialogues, Sender!Taken

(* The entries that are not the step's own. *)
LEMMA SettledOthers ==
  ASSUME NEW c \in Caller, TypeOK, IInv, Step(c), NEW r \in DOMAIN log, r # run[c]
  PROVE  Settled(r)'
<1>1. log'[r] = log[r] /\ setup' = setup /\ seen \subseteq seen' /\ Settled(r)
  BY EntryStep DEF Alone, IInv
<1> QED
  BY <1>1 DEF Settled

(* The entry of the step's own run. *)
LEMMA SettledStep ==
  ASSUME NEW c \in Caller, TypeOK, IInv, Step(c)
  PROVE  \A r \in {run[c]} : Settled(r)'
<1> DEFINE e == My(c)
           n == Mine(c)
           a == at[c]
<1>0. /\ Running(c) /\ e \in Entry /\ a \in Spot /\ seen \subseteq seen'
      /\ n.signal = e.signal /\ DOMAIN n.given = DOMAIN e.given
      /\ setup' = setup /\ cancelled' = cancelled /\ e = log[run[c]] /\ n = log'[run[c]]
      /\ RunInv(c) /\ run[c] \in DOMAIN log
  BY EntryStep DEF Alone, Mine, IInv
<1>1. Settled(run[c]) /\ Open(c) /\ Listed(c) /\ Carried(c) /\ Handed(c)
  BY <1>0 DEF IInv, RunInv
<1> DEFINE NewSettled ==
      /\ DOMAIN n.given = DOMAIN setup.outputs
      /\ n.marked \subseteq seen'
      /\ n.marked \cap n.cut = {}
      /\ n.signal = "none" => n.cut = {}
      /\ n.signal = "before" => n.marked = {}
      /\ \A o \in DOMAIN n.given :
           /\ n.given[o] \subseteq n.marked
           /\ \A q \in DOMAIN n.given : o < q => n.given[q] \subseteq n.given[o]
      /\ n.end = "completed" /\ n.signal = "none" =>
           \A p \in n.marked, o \in DOMAIN n.given :
             p \in n.given[o] \/ p \in n.dropped \/ n.failed
<1>2. SUFFICES NewSettled
  BY <1>0 DEF Settled
<1>3. /\ DOMAIN e.given = DOMAIN setup.outputs
      /\ e.marked \subseteq seen
      /\ e.marked \cap e.cut = {}
      /\ e.signal = "none" => e.cut = {}
      /\ e.signal = "before" => e.marked = {}
      /\ \A o \in DOMAIN e.given :
           /\ e.given[o] \subseteq e.marked
           /\ \A q \in DOMAIN e.given : o < q => e.given[q] \subseteq e.given[o]
      /\ e.end = "none" /\ (e.signal = "none" <=> ~cancelled)
  BY <1>0, <1>1 DEF Settled, Open
<1>4. CASE n = e
  BY <1>0, <1>3, <1>4
<1>5. CASE Takes(c) /\ n # e
  <2>1. cancelled /\ a.pc = "read" /\ n = [e EXCEPT !.cut = e.cut \cup {a.item}]
    BY <1>5 DEF Takes
  <2>2. a.item \notin e.marked
    BY <1>1, <2>1 DEF Listed, Fetching
  <2> QED
    BY <1>0, <1>3, <2>1, <2>2 DEF Entry
<1>6. CASE Marks(c) /\ n # e
  <2>1. /\ ~cancelled /\ n = [e EXCEPT !.marked = e.marked \cup {a.item}]
        /\ seen' = seen \cup {a.item}
    BY <1>6 DEF Marks
  <2> QED
    BY <1>0, <1>3, <2>1 DEF Entry
<1>7. CASE Moves(c) /\ n # e
  <2>1. n = [e EXCEPT !.failed = TRUE] \/ \E x : n = [e EXCEPT !.dropped = x]
    BY <1>7 DEF Moves
  <2> QED
    BY <1>0, <1>3, <2>1 DEF Entry
<1>8. CASE Mails(c) /\ n # e
  <2>1. /\ n = [e EXCEPT !.given = [e.given EXCEPT ![a.out] = a.blocks]]
        /\ Sender!Dial(c, Output(c)) /\ a.pc = "mail"
        /\ wire'[c] # wire[c] /\ Sender!Taken(wire'[c][Len(wire'[c])])
    BY <1>8 DEF Mails
  <2>2. ~cancelled
    BY <1>0, <1>1, <2>1, OutputType, TakenUncancelled DEF At, Running
  <2>3. a.blocks \subseteq e.marked
    BY <1>1, <2>1, <2>2 DEF Carried
  <2>4. /\ a.out \in DOMAIN e.given
        /\ \A o \in DOMAIN e.given :
             (o < a.out => e.given[o] = a.blocks) /\ (o > a.out => e.given[o] = {})
    BY <1>1, <2>1 DEF Handed
  <2>5. n.given = [e.given EXCEPT ![a.out] = a.blocks]
    BY <1>0, <2>1 DEF Entry
  <2>6. /\ \A o \in DOMAIN n.given :
              n.given[o] = IF o > a.out THEN {} ELSE a.blocks
        /\ DOMAIN n.given = DOMAIN e.given /\ DOMAIN e.given = 1 .. Len(e.given)
    <3>1. e.given \in Seq(SUBSET Post) /\ a.out \in Nat
      BY <1>0 DEF Entry, Spot
    <3>2. DOMAIN e.given = 1 .. Len(e.given) /\ Len(e.given) \in Nat
      BY <3>1
    <3>3. DOMAIN n.given = DOMAIN e.given
      BY <2>5
    <3>4. ASSUME NEW o \in DOMAIN n.given
          PROVE  n.given[o] = IF o > a.out THEN {} ELSE a.blocks
      <4>1. o \in Nat
        BY <3>2, <3>3, <3>4
      <4>2. CASE o = a.out
        BY <2>5, <3>1, <3>3, <4>2
      <4>3. CASE o # a.out
        <5>1. n.given[o] = e.given[o]
          BY <2>5, <3>3, <4>3
        <5> QED
          <6>1. CASE o < a.out
            BY <2>4, <3>1, <3>3, <4>1, <5>1, <6>1
          <6>2. CASE o > a.out
            BY <2>4, <3>3, <5>1, <6>2
          <6> QED
            BY <3>1, <4>1, <4>3, <6>1, <6>2
      <4> QED
        BY <4>2, <4>3
    <3> QED
      BY <3>2, <3>3, <3>4
  <2>7. \A o \in DOMAIN n.given :
          /\ n.given[o] \subseteq e.marked
          /\ \A q \in DOMAIN n.given : o < q => n.given[q] \subseteq n.given[o]
    BY <1>0, <2>3, <2>6 DEF Spot
  <2>8. /\ n.marked = e.marked /\ n.cut = e.cut /\ n.end = e.end
    BY <1>0, <2>1 DEF Entry
  <2> QED
    BY <1>0, <1>3, <2>7, <2>8
<1>9. CASE Leaves(c) /\ n # e
  <2>1. /\ n.marked = e.marked /\ n.cut = e.cut /\ n.given = e.given /\ n.failed = e.failed
        /\ e.dropped \subseteq n.dropped
    BY <1>0, <1>9 DEF Leaves, Entry
  <2>2. ASSUME n.end = "completed", n.signal = "none",
               NEW p \in n.marked, NEW o \in DOMAIN n.given
        PROVE  p \in n.given[o] \/ p \in n.dropped \/ n.failed
    <3>1. e.failed \/ p \in a.blocks \/ p \in e.dropped
      BY <1>1, <2>1, <2>2 DEF Carried
    <3>2. CASE p \in a.blocks
      <4>1. CASE n = [e EXCEPT !.dropped = e.dropped \cup a.blocks, !.end = "completed"]
        BY <1>0, <3>2, <4>1 DEF Entry
      <4>2. CASE a.pc = "mail" /\ mail[c] = "sent" /\ a.out = Len(setup.outputs)
        <5>1. o \in 1 .. Len(setup.outputs) /\ DOMAIN e.given = 1 .. Len(setup.outputs)
          BY <1>3, <2>1, OutputsSeq
        <5>2. e.given[o] = a.blocks
          BY <1>1, <4>2, <5>1, OutputsSeq DEF Handed
        <5> QED
          BY <2>1, <3>2, <5>2
      <4>3. n # [e EXCEPT !.end = "failed"]
        BY <1>0, <2>2 DEF Entry
      <4> QED
        BY <1>9, <4>1, <4>2, <4>3 DEF Leaves
    <3> QED
      BY <2>1, <3>1, <3>2
  <2> QED
    BY <1>0, <1>3, <2>1, <2>2
<1> QED
  <2>1. Reads(c) \/ Takes(c) \/ Marks(c) \/ Moves(c) \/ Mails(c) \/ Leaves(c)
    BY <1>0, StepCases
  <2>2. Reads(c) => n = e
    BY DEF Reads
  <2> QED
    BY <1>4, <1>5, <1>6, <1>7, <1>8, <1>9, <2>1, <2>2

(* Runs that are over stay over, and a server takes nothing of theirs. *)
LEMMA ApartStep ==
  ASSUME NEW c \in Caller, TypeOK, IInv, Step(c), NEW s \in DOMAIN log
  PROVE  Apart(s)'
<1>0. /\ Running(c) /\ Alone(c) /\ run[c] \in DOMAIN log /\ Earlier(s)' = Earlier(s)
      /\ DOMAIN Mine(c).given = DOMAIN My(c).given /\ My(c) = log[run[c]]
      /\ My(c) \in Entry /\ at[c] \in Spot
      /\ RunInv(c) /\ Settled(run[c]) /\ Apart(s)
  BY EntryStep DEF IInv
<1>1. SUFFICES ASSUME NEW r \in Earlier(s)
               PROVE  /\ \A d \in Caller : Running(d)' => run'[d] # r
                      /\ \A o \in DOMAIN log'[s].given :
                           log'[s].given[o] \cap log'[r].marked = {}
  BY <1>0 DEF Apart
<1>2. /\ r \in DOMAIN log /\ \A d \in Caller : Running(d) => run[d] # r
      /\ \A o \in DOMAIN log[s].given : log[s].given[o] \cap log[r].marked = {}
  BY <1>0, <1>1 DEF Apart, Earlier
<1>3. log'[r] = log[r] /\ \A d \in Caller : Running(d)' => run'[d] # r
  BY <1>0, <1>2 DEF Alone, Running
<1>4. \A o \in DOMAIN log'[s].given : log'[s].given[o] \cap log[r].marked = {}
  <2>1. CASE log'[s].given = log[s].given
    BY <1>2, <2>1
  <2>2. CASE log'[s].given # log[s].given
    <3>1. s = run[c] /\ Mine(c).given # My(c).given
      BY <1>0, <2>2 DEF Alone, Mine
    <3>2. ~Reads(c) /\ ~Takes(c) /\ ~Marks(c) /\ ~Moves(c) /\ ~Leaves(c)
      BY <1>0, <3>1 DEF Reads, Takes, Marks, Moves, Leaves, Entry
    <3>3. Mails(c)
      BY <1>0, <3>2, StepCases
    <3>4. /\ Mine(c) = [My(c) EXCEPT !.given[at[c].out] = at[c].blocks]
          /\ Sender!Dial(c, Output(c)) /\ at[c].pc = "mail"
          /\ wire'[c] # wire[c] /\ Sender!Taken(wire'[c][Len(wire'[c])])
      BY <3>1, <3>3 DEF Mails
    <3>5. ~cancelled
      BY <1>0, <3>4, OutputType, TakenUncancelled DEF At, Running
    <3>6. at[c].blocks \cap log[r].marked = {}
      BY <1>0, <1>1, <3>1, <3>5 DEF RunInv, Carried
    <3>7. Mine(c).given = [My(c).given EXCEPT ![at[c].out] = at[c].blocks]
      BY <1>0, <3>4 DEF Entry
    <3>8. log'[s] = Mine(c) /\ log[s] = My(c)
      BY <1>0, <3>1 DEF Alone, Mine
    <3>9. ASSUME NEW o \in DOMAIN log'[s].given
          PROVE  log'[s].given[o] \in {log[s].given[o], at[c].blocks} /\ o \in DOMAIN log[s].given
      BY <1>0, <3>7, <3>8, <3>9
    <3> QED
      BY <1>2, <3>6, <3>9
  <2> QED
    BY <2>1, <2>2
<1> QED
  BY <1>3, <1>4

(* The runs of the other listeners. *)
LEMMA OthersKeep ==
  ASSUME NEW c \in Caller, TypeOK, IInv, Step(c), NEW d \in Caller, d # c
  PROVE  RunInv(d)'
<1>0. /\ Running(c) /\ Alone(c) /\ RunInv(d)
      /\ status'[d] = status[d] /\ at'[d] = at[d] /\ run'[d] = run[d]
      /\ mail'[d] = mail[d] /\ wire'[d] = wire[d] /\ setup' = setup /\ cancelled' = cancelled
  BY EntryStep DEF IInv, Alone
<1>1. CASE ~Running(d)
  BY <1>0, <1>1 DEF RunInv, Running, At
<1>2. CASE Running(d)
  <2>1. run[d] # run[c] /\ run[d] \in DOMAIN log /\ log'[run[d]] = log[run[d]]
    BY <1>0, <1>2 DEF TypeOK, Alone, Running
  <2>2. Earlier(run[d])' = Earlier(run[d])
    BY <1>0, <2>1, EntryStep
  <2>3. \A r \in Earlier(run[d]) : log'[r] = log[r]
    <3>1. Apart(run[d])
      BY <2>1 DEF IInv
    <3> QED
      BY <1>0, <3>1 DEF Apart, Alone, Earlier
  <2>4. My(d)' = My(d)
    BY <1>0, <2>1 DEF My
  <2>5. Open(d)' /\ Listed(d)'
    BY <1>0, <1>2, <2>4 DEF RunInv, Open, Listed, Fetching
  <2>6. Carried(d)'
    BY <1>0, <1>2, <2>2, <2>3, <2>4 DEF RunInv, Carried
  <2>7. Handed(d)'
    BY <1>0, <1>2, <2>4 DEF RunInv, Handed
  <2>8. At(d, "mail")' => Posting(d)'
    BY <1>0 DEF RunInv, At, Posting, Output, Sender!Careful
  <2> QED
    BY <1>0, <2>5, <2>6, <2>7, <2>8 DEF RunInv, At
<1> QED
  BY <1>1, <1>2

(* A run at its posts knows which of them it took and which are left.    *)
LEMMA OpenListedStep ==
  ASSUME NEW c \in Caller, TypeOK, IInv, Step(c), status'[c] = "running"
  PROVE  Open(c)' /\ Listed(c)'
<1> DEFINE e == My(c)
           n == Mine(c)
           a == at[c]
           b == at'[c]
<1>0. /\ e \in Entry /\ a \in Spot /\ b \in Spot /\ My(c)' = n
      /\ n.signal = e.signal /\ cancelled' = cancelled /\ n.end = e.end
      /\ Open(c) /\ Listed(c)
      /\ Reads(c) \/ Takes(c) \/ Marks(c) \/ Moves(c) \/ Mails(c)
  <2>1. Running(c) /\ RunInv(c)
    BY EntryStep DEF IInv
  <2> QED
    BY <2>1, EntryStep, TypeStep, StepCases DEF Alone, RunInv, Leaves, TypeOK
<1>1. Open(c)'
  BY <1>0 DEF Open
<1>2. SUFFICES ASSUME b.pc \notin {"stage", "mail"}
               PROVE  /\ n.marked \subseteq b.listed /\ b.left \subseteq b.listed
                      /\ n.marked \cap b.left = {}
                      /\ b.pc \in {"read", "mark"} => b.item \in b.left
                      /\ b.pc = "mark" => b.item \in b.blocks
  BY <1>0, <1>1 DEF Listed, Fetching
<1>3. a.pc \notin {"stage", "mail"}
  BY <1>0, <1>2 DEF Reads, Takes, Marks, Moves, Mails, Early, Spot
<1>4. /\ e.marked \subseteq a.listed /\ a.left \subseteq a.listed
      /\ e.marked \cap a.left = {}
      /\ a.pc \in {"read", "mark"} => a.item \in a.left
      /\ a.pc = "mark" => a.item \in a.blocks
  BY <1>0, <1>3 DEF Listed, Fetching
<1>5. CASE Reads(c)
  BY <1>4, <1>5 DEF Reads, Early
<1>6. CASE Takes(c)
  <2>1. n.marked = e.marked
    BY <1>0, <1>6 DEF Takes, Entry
  <2> QED
    BY <1>4, <1>6, <2>1 DEF Takes
<1>7. CASE Marks(c)
  <2>1. n.marked = e.marked \/ n.marked = e.marked \cup {a.item}
    BY <1>0, <1>7 DEF Marks, Entry
  <2> QED
    BY <1>4, <1>7, <2>1 DEF Marks
<1> QED
  BY <1>0, <1>2, <1>3, <1>5, <1>6, <1>7 DEF Moves, Mails

(* A post that a run carries on was not delivered by a run before it.    *)
LEMMA CarriedStep ==
  ASSUME NEW c \in Caller, TypeOK, IInv, Step(c), status'[c] = "running"
  PROVE  Carried(c)'
<1> DEFINE e == My(c)
           n == Mine(c)
           a == at[c]
           b == at'[c]
<1>0. /\ e \in Entry /\ a \in Spot /\ b \in Spot /\ My(c)' = n /\ run[c] \in DOMAIN log
      /\ cancelled' = cancelled /\ run' = run /\ Alone(c) /\ Running(c)
      /\ Earlier(run[c])' = Earlier(run[c])
      /\ Listed(c) /\ Carried(c) /\ Apart(run[c]) /\ \A r \in DOMAIN log : Settled(r)
      /\ Reads(c) \/ Takes(c) \/ Marks(c) \/ Moves(c) \/ Mails(c)
  <2>1. Running(c) /\ RunInv(c)
    BY EntryStep DEF IInv
  <2> QED
    <3>0. Alone(c) /\ run[c] \in DOMAIN log
      BY EntryStep
    <3>1. /\ e \in Entry /\ a \in Spot /\ My(c)' = n /\ run[c] \in DOMAIN log
          /\ Alone(c) /\ Earlier(run[c])' = Earlier(run[c])
      <4>1. run'[c] = run[c]
        BY <3>0 DEF Alone
      <4> QED
        BY <3>0, <4>1, EntryStep
    <3>2. b \in Spot
      BY TypeStep DEF TypeOK
    <3>3. Listed(c) /\ Carried(c) /\ Apart(run[c]) /\ \A r \in DOMAIN log : Settled(r)
      BY <2>1, <3>1 DEF IInv, RunInv
    <3>4. Reads(c) \/ Takes(c) \/ Marks(c) \/ Moves(c) \/ Mails(c)
      BY <2>1, StepCases DEF Leaves
    <3> QED
      BY <2>1, <3>1, <3>2, <3>3, <3>4 DEF Alone
<1>1. ASSUME NEW r \in Earlier(run[c]) PROVE log'[r] = log[r] /\ log[r].marked \subseteq seen
  BY <1>0 DEF Apart, Alone, Earlier, Settled
<1>2. e.failed \/ e.marked \subseteq a.blocks \cup e.dropped
  BY <1>0 DEF Carried
<1>3. n.failed \/ n.marked \subseteq b.blocks \cup n.dropped
  <2>1. CASE Reads(c)
    BY <1>2, <2>1 DEF Reads
  <2>2. CASE Takes(c)
    <3>1. n.failed = e.failed /\ n.marked = e.marked /\ n.dropped = e.dropped
      BY <1>0, <2>2 DEF Takes, Entry
    <3> QED
      BY <1>2, <2>2, <3>1 DEF Takes
  <2>3. CASE Marks(c)
    <3>1. n.failed = e.failed /\ n.marked \subseteq e.marked \cup {a.item} /\ n.dropped = e.dropped
      BY <1>0, <2>3 DEF Marks, Entry
    <3>2. a.item \in a.blocks
      BY <1>0, <2>3 DEF Marks, Listed, Fetching
    <3> QED
      BY <1>2, <2>3, <3>1, <3>2 DEF Marks
  <2>4. CASE Moves(c)
    <3>1. CASE n = e /\ b.blocks = a.blocks
      BY <1>2, <3>1
    <3>2. CASE n = [e EXCEPT !.failed = TRUE]
      BY <1>0, <3>2 DEF Entry
    <3>3. CASE n = [e EXCEPT !.dropped = e.dropped \cup (a.blocks \ b.blocks)]
      <4>1. /\ n.failed = e.failed /\ n.marked = e.marked
            /\ n.dropped = e.dropped \cup (a.blocks \ b.blocks)
        BY <1>0, <3>3 DEF Entry
      <4> QED
        BY <1>2, <4>1
    <3> QED
      BY <2>4, <3>1, <3>2, <3>3 DEF Moves
  <2>5. CASE Mails(c)
    <3>1. n.failed = e.failed /\ n.marked = e.marked /\ n.dropped = e.dropped
      BY <1>0, <2>5 DEF Mails, Entry
    <3>2. b.blocks = a.blocks
      BY <1>0, <2>5 DEF Mails, Spot
    <3> QED
      BY <1>2, <3>1, <3>2
  <2> QED
    BY <1>0, <2>1, <2>2, <2>3, <2>4, <2>5
<1>4. ASSUME ~cancelled, NEW p \in b.blocks
      PROVE  p \in n.marked \/ (b.pc = "mark" /\ p = b.item)
  <2>0. \A q \in a.blocks : q \in e.marked \/ (a.pc = "mark" /\ q = a.item)
    BY <1>0, <1>4 DEF Carried
  <2>1. CASE Reads(c)
    BY <1>4, <2>0, <2>1 DEF Reads, Early
  <2>2. CASE Takes(c)
    BY <1>4, <2>0, <2>2 DEF Takes
  <2>3. CASE Marks(c)
    <3>1. n.marked = e.marked \cup {a.item}
      BY <1>0, <1>4, <2>3 DEF Marks, Entry
    <3> QED
      BY <1>4, <2>0, <2>3, <3>1 DEF Marks
  <2>4. CASE Moves(c)
    <3>1. n.marked = e.marked
      BY <1>0, <2>4 DEF Moves, Entry
    <3> QED
      BY <1>4, <2>0, <2>4, <3>1 DEF Moves
  <2>5. CASE Mails(c)
    <3>1. n.marked = e.marked
      BY <1>0, <2>5 DEF Mails, Entry
    <3>2. b.blocks = a.blocks /\ a.pc = "mail"
      BY <1>0, <2>5 DEF Mails, Spot
    <3> QED
      BY <1>4, <2>0, <3>1, <3>2
  <2> QED
    BY <1>0, <2>1, <2>2, <2>3, <2>4, <2>5
<1>5. ASSUME ~cancelled, NEW r \in Earlier(run[c]), NEW p \in b.blocks \cup {b.item},
             p \in b.blocks \/ b.pc = "read"
      PROVE  p \notin log[r].marked
  <2>0. \A q \in a.blocks \cup {a.item} :
          q \in a.blocks \/ a.pc = "read" => q \notin log[r].marked
    BY <1>0, <1>5 DEF Carried
  <2>1. CASE Reads(c)
    BY <1>1, <1>5, <2>0, <2>1 DEF Reads, Early
  <2>2. CASE Takes(c)
    BY <1>1, <1>5, <2>0, <2>2 DEF Takes
  <2>3. CASE Marks(c)
    BY <1>5, <2>0, <2>3 DEF Marks
  <2>4. CASE Moves(c)
    BY <1>5, <2>0, <2>4 DEF Moves
  <2>5. CASE Mails(c)
    <3>1. b.blocks = a.blocks /\ b.pc = "mail"
      BY <1>0, <2>5 DEF Mails, Spot
    <3> QED
      BY <1>5, <2>0, <3>1
  <2> QED
    BY <1>0, <2>1, <2>2, <2>3, <2>4, <2>5
<1>6. \A r \in Earlier(run[c]) : log'[r].marked = log[r].marked
  BY <1>1
<1> QED
  BY <1>0, <1>3, <1>4, <1>5, <1>6 DEF Carried

(* Outputs were handed what the run carries, in order, each once.        *)
LEMMA HandedStep ==
  ASSUME NEW c \in Caller, TypeOK, IInv, Step(c), status'[c] = "running"
  PROVE  Handed(c)'
<1> DEFINE e == My(c)
           n == Mine(c)
           a == at[c]
           b == at'[c]
<1>0. /\ e \in Entry /\ a \in Spot /\ b \in Spot /\ My(c)' = n
      /\ DOMAIN n.given = DOMAIN e.given /\ Handed(c) /\ Running(c) /\ RunInv(c)
      /\ Settled(run[c]) /\ e = log[run[c]] /\ run[c] \in DOMAIN log
  <2>1. Running(c) /\ RunInv(c) /\ e \in Entry /\ a \in Spot /\ My(c)' = n
        /\ DOMAIN n.given = DOMAIN e.given /\ e = log[run[c]] /\ run[c] \in DOMAIN log
    BY EntryStep DEF IInv
  <2>2. b \in Spot
    BY TypeStep DEF TypeOK
  <2> QED
    BY <2>1, <2>2 DEF RunInv, IInv
<1>1. DOMAIN e.given = 1 .. Len(setup.outputs) /\ Len(setup.outputs) \in Nat \ {0}
  BY <1>0, OutputsSeq DEF Settled
<1>2. CASE Reads(c) \/ Takes(c) \/ Marks(c)
  <2>1. n.given = e.given
    BY <1>0, <1>2 DEF Reads, Takes, Marks, Entry
  <2>2. a.pc # "mail" /\ b.pc # "mail"
    BY <1>2 DEF Reads, Takes, Marks, Early
  <2> QED
    BY <1>0, <2>1, <2>2 DEF Handed
<1>3. CASE Moves(c)
  <2>1. n.given = e.given /\ \A o \in DOMAIN e.given : e.given[o] = {}
    BY <1>0, <1>3 DEF Moves, Entry, Handed
  <2>2. b.pc # "mail" \/ b.out = 1
    BY <1>3 DEF Moves
  <2>3. mail'[c] = "idle"
    BY <1>0, <1>3 DEF RunInv, Moves, At, Goes
  <2> QED
    BY <1>0, <1>1, <2>1, <2>2, <2>3 DEF Handed
<1>4. CASE Mails(c)
  <2>0. /\ a.pc = "mail" /\ a.out \in DOMAIN e.given /\ a.out \in 1 .. Len(setup.outputs)
        /\ \A o \in DOMAIN e.given :
             (o < a.out => e.given[o] = a.blocks) /\ (o > a.out => e.given[o] = {})
        /\ e.given[a.out] \in {{}, a.blocks}
        /\ mail[c] \in {"idle", "login", "open"} => e.given[a.out] = {}
        /\ mail[c] = "sent" => e.given[a.out] = a.blocks
    BY <1>0, <1>1, <1>4 DEF Mails, Handed
  <2>m. Output(c) \in Sender!Mailer /\ mail \in [Caller -> {"idle", "login", "open", "sent", "failed"}]
    BY <1>0, <2>0, OutputType DEF At, Running, TypeOK
  <2>1. CASE b = a /\ Sender!Compose(c, Output(c)) /\ n = e
    <3>1. mail[c] = "idle" /\ mail'[c] \in {"login", "open", "failed"}
      BY <2>1, <2>m DEF Sender!Compose, Sender!To
    <3> QED
      BY <1>0, <2>0, <2>1, <3>1 DEF Handed
  <2>2. CASE b = a /\ Sender!Dial(c, Output(c)) /\ n = e
             /\ (wire'[c] = wire[c] \/ ~Sender!Taken(wire'[c][Len(wire'[c])]))
    <3>1. mail[c] \in {"login", "open"}
      BY <2>2 DEF Sender!Dial
    <3>2. mail'[c] # "sent"
      <4>1. wire \in [Caller -> Seq(Sender!Dialogue)]
        BY DEF TypeOK
      <4>2. CASE wire' = wire /\ mail'[c] = "failed"
        BY <4>2
      <4>3. ASSUME NEW d \in Sender!Dialogue, wire'[c] = Append(wire[c], d),
                   mail'[c] = IF d.end = "taken" THEN "sent"
                      ELSE IF Sender!ToleratesNoAuth(Output(c), d) THEN "open" ELSE "failed"
            PROVE  mail'[c] # "sent"
        <5>1. wire'[c] # wire[c] /\ wire'[c][Len(wire'[c])] = d
          BY <4>1, <4>3
        <5> QED
          BY <2>2, <4>3, <5>1 DEF Sender!Taken
      <4> QED
        BY <2>2, <2>m, <4>1, <4>2, <4>3, DialFacts
    <3> QED
      BY <1>0, <2>0, <2>2, <3>1, <3>2 DEF Handed
  <2>3. CASE b = a /\ Sender!Dial(c, Output(c))
             /\ wire'[c] # wire[c] /\ Sender!Taken(wire'[c][Len(wire'[c])])
             /\ n = [e EXCEPT !.given[a.out] = a.blocks]
    <3>1. n.given = [e.given EXCEPT ![a.out] = a.blocks]
      BY <1>0, <2>3 DEF Entry
    <3>2. mail'[c] \in {"sent", "failed"}
      <4>1. wire \in [Caller -> Seq(Sender!Dialogue)]
        BY DEF TypeOK
      <4>3. ASSUME NEW d \in Sender!Dialogue, wire'[c] = Append(wire[c], d),
                   mail'[c] = IF d.end = "taken" THEN "sent"
                      ELSE IF Sender!ToleratesNoAuth(Output(c), d) THEN "open" ELSE "failed"
            PROVE  mail'[c] \in {"sent", "failed"}
        <5>1. wire'[c][Len(wire'[c])] = d
          BY <4>1, <4>3
        <5> QED
          BY <2>3, <4>3, <5>1 DEF Sender!Taken, Sender!ToleratesNoAuth
      <4> QED
        BY <2>3, <2>m, <4>1, <4>3, DialFacts
    <3>3. \A o \in DOMAIN n.given :
            n.given[o] = IF o = a.out THEN a.blocks ELSE e.given[o]
      BY <2>0, <3>1
    <3> QED
      BY <1>0, <2>0, <2>3, <3>2, <3>3 DEF Handed
  <2>4. CASE /\ mail[c] = "sent" /\ mail'[c] = "idle" /\ wire'[c] = <<>>
             /\ a.out # Len(setup.outputs) /\ b = [a EXCEPT !.out = @ + 1] /\ n = e
    <3>1. b.pc = "mail" /\ b.out = a.out + 1 /\ b.blocks = a.blocks
      BY <1>0, <2>0, <2>4 DEF Spot
    <3>2. b.out \in DOMAIN e.given
      BY <1>1, <2>0, <2>4, <3>1
    <3>3. \A o \in DOMAIN e.given :
            (o < b.out => e.given[o] = a.blocks) /\ (o > a.out => e.given[o] = {})
      <4>1. \A o \in DOMAIN e.given : o < b.out => o < a.out \/ o = a.out
        BY <1>1, <2>0, <3>1
      <4> QED
        BY <2>0, <2>4, <4>1
    <3>4. \A o \in DOMAIN e.given : o >= b.out => o > a.out
      BY <1>1, <2>0, <3>1
    <3>5. /\ \A o \in DOMAIN e.given : o > b.out => e.given[o] = {}
          /\ e.given[b.out] = {}
      BY <1>1, <2>0, <3>1, <3>2, <3>3, <3>4
    <3> QED
      BY <1>0, <2>4, <3>1, <3>2, <3>3, <3>5 DEF Handed
  <2> QED
    BY <1>4, <2>1, <2>2, <2>3, <2>4 DEF Mails
<1> QED
  BY <1>0, <1>2, <1>3, <1>4, StepCases DEF Leaves

(* A mail is under way only while the run is at the output that sends it. *)
LEMMA PostingStep ==
  ASSUME NEW c \in Caller, TypeOK, IInv, Step(c)
  PROVE  /\ ~At(c, "mail")' => mail'[c] = "idle" /\ wire'[c] = <<>>
         /\ At(c, "mail")' => Posting(c)'
<1> DEFINE a == at[c]
           b == at'[c]
           w == wire[c]
           x == wire'[c]
           m == Output(c)
<1>0. /\ Running(c) /\ RunInv(c) /\ a \in Spot /\ b \in Spot /\ setup' = setup
      /\ mail \in [Caller -> {"idle", "login", "open", "sent", "failed"}]
      /\ wire \in [Caller -> Seq(Sender!Dialogue)] /\ w \in Seq(Sender!Dialogue)
  <2>1. Running(c) /\ RunInv(c) /\ a \in Spot /\ setup' = setup
    BY EntryStep DEF IInv, Alone
  <2>2. b \in Spot
    BY TypeStep DEF TypeOK
  <2> QED
    BY <2>1, <2>2 DEF TypeOK
<1>1. ASSUME mail'[c] = "idle", wire'[c] = <<>> PROVE Posting(c)'
  BY <1>1 DEF Posting, Sender!Careful
<1>2. CASE a.pc # "mail"
  <2>1. mail[c] = "idle" /\ wire[c] = <<>>
    BY <1>0, <1>2 DEF RunInv, At
  <2>2. mail'[c] = "idle" /\ wire'[c] = <<>>
    BY <1>0, <1>2, <2>1, StepCases DEF Reads, Takes, Marks, Moves, Mails, Leaves, Goes
  <2> QED
    BY <1>1, <2>2
<1>3. CASE a.pc = "mail"
  <2>1. Mails(c) \/ (Leaves(c) /\ mail'[c] = "idle" /\ wire'[c] = <<>>)
    BY <1>0, <1>3, StepCases DEF Leaves, Reads, Early, Takes, Marks, Moves
  <2>2. CASE Leaves(c)
    BY <1>1, <2>2 DEF Leaves
  <2>3. ASSUME Mails(c), ~(mail'[c] = "idle" /\ wire'[c] = <<>>)
        PROVE  b = a /\ (Sender!Compose(c, m) \/ Sender!Dial(c, m))
    BY <2>3 DEF Mails
  <2>4. /\ m \in Sender!Mailer /\ At(c, "mail") /\ Posting(c)
    <3>1. At(c, "mail") /\ run[c] \in DOMAIN log /\ Settled(run[c])
      BY <1>0, <1>3, EntryStep DEF At, Running, IInv
    <3> QED
      BY <1>0, <3>1, OutputType DEF RunInv
  <2>5. b = a => m' = m
    BY <1>0 DEF Output
  <2>6. /\ mail[c] = "idle" => w = <<>>
        /\ mail[c] \in {"login", "open"} => \A i \in DOMAIN w : ~Sender!Taken(w[i])
        /\ mail[c] = "open" => ~m.user \/ m.host = "local"
        /\ Sender!Careful(c, m)
    BY <2>4 DEF Posting
  <2>7. CASE b = a /\ Sender!Compose(c, m)
    <3>1. /\ mail[c] = "idle" /\ w = <<>> /\ x = <<>>
          /\ mail'[c] = "login" \/ (mail'[c] = "open" /\ ~m.user) \/ mail'[c] = "failed"
      BY <1>0, <2>6, <2>7 DEF Sender!Compose, Sender!To
    <3>2. Posting(c)'
      BY <2>5, <2>7, <3>1 DEF Posting, Sender!Careful
    <3> QED
      BY <1>0, <1>3, <2>1, <2>7, <3>2 DEF Mails, Leaves, At
  <2>8. CASE b = a /\ Sender!Dial(c, m)
    <3>1. mail[c] \in {"login", "open"} \/ (x = w /\ mail'[c] = "failed")
      BY <1>0, <2>8 DEF Sender!Dial, Sender!To
    <3>2. ASSUME x = w, mail'[c] = "failed" PROVE Posting(c)'
      <4>1. /\ \A i, j \in DOMAIN x : i < j => ~Sender!Taken(x[i])
            /\ \A i \in DOMAIN x :
                 /\ ~x[i].login => ~m.user \/ m.host = "local"
                 /\ x[i].mode = "disabled" => m.tls = "disabled"
        BY <2>6, <3>2 DEF Sender!Careful
      <4>2. /\ m' = m /\ mail'[c] # "idle" /\ mail'[c] # "login" /\ mail'[c] # "open"
            /\ mail'[c] # "sent"
        BY <2>5, <2>8, <3>2
      <4> QED
        BY <4>1, <4>2 DEF Posting, Sender!Careful
    <3>3. ASSUME NEW d \in Sender!Dialogues(c, m), d \in Sender!Dialogue, x = Append(w, d),
                 mail'[c] = IF d.end = "taken" THEN "sent"
                     ELSE IF Sender!ToleratesNoAuth(m, d) THEN "open" ELSE "failed",
                 mail[c] \in {"login", "open"}
          PROVE  Posting(c)'
      <4>1. /\ DOMAIN w = 1 .. Len(w) /\ Len(w) \in Nat /\ DOMAIN x = 1 .. Len(w) + 1
            /\ Len(x) = Len(w) + 1 /\ x[Len(w) + 1] = d
            /\ \A i \in 1 .. Len(w) : x[i] = w[i] /\ ~Sender!Taken(w[i])
        BY <1>0, <2>6, <3>3
      <4>2. \A i, j \in DOMAIN x : i < j => ~Sender!Taken(x[i])
        <5>1. \A i, j \in DOMAIN x : i < j => i \in 1 .. Len(w)
          BY <4>1
        <5> QED
          BY <4>1, <5>1
      <4>3. /\ ~d.login => ~m.user \/ m.host = "local"
            /\ d.mode = "disabled" => m.tls = "disabled"
        <5>1. d.login = (mail[c] = "login") /\ d.mode = Sender!TLSMode(m)
          BY DEF Sender!Dialogues
        <5>2. ~d.login => mail[c] = "open"
          BY <3>3, <5>1
        <5>3. Sender!TLSMode(m) = "disabled" => m.tls = "disabled"
          BY DEF Sender!TLSMode
        <5> QED
          BY <2>6, <5>1, <5>2, <5>3
      <4>4. \A i \in DOMAIN x :
              /\ ~x[i].login => ~m.user \/ m.host = "local"
              /\ x[i].mode = "disabled" => m.tls = "disabled"
        <5>1. \A i \in DOMAIN x : i \in 1 .. Len(w) \/ x[i] = d
          BY <4>1
        <5> QED
          BY <2>6, <4>1, <4>3, <5>1 DEF Sender!Careful
      <4>5. mail'[c] = "sent" => Sender!Taken(x[Len(x)])
        BY <3>3, <4>1 DEF Sender!Taken
      <4>6. /\ mail'[c] # "idle" /\ mail'[c] # "login"
            /\ mail'[c] = "open" => d.end = "noauth" /\ m.host = "local"
        BY <3>3 DEF Sender!ToleratesNoAuth
      <4>7. mail'[c] = "open" => \A i \in DOMAIN x : ~Sender!Taken(x[i])
        <5>1. \A i \in DOMAIN x : i \in 1 .. Len(w) \/ x[i] = d
          BY <4>1
        <5> QED
          BY <4>1, <4>6, <5>1 DEF Sender!Taken
      <4> QED
        BY <2>5, <2>8, <4>2, <4>4, <4>5, <4>6, <4>7 DEF Posting, Sender!Careful
    <3>4. Posting(c)'
      BY <1>0, <2>4, <2>8, <3>1, <3>2, <3>3, DialFacts
    <3> QED
      BY <1>0, <1>3, <2>1, <2>8, <3>4 DEF Mails, Leaves, At
  <2> QED
    BY <1>1, <2>1, <2>2, <2>3, <2>7, <2>8
<1> QED
  BY <1>2, <1>3

(***************************************************************************)
(* The invariant of all runs, and the steps that are not a run's.          *)
(***************************************************************************)
LEMMA InvStep ==
  ASSUME NEW c \in Caller, TypeOK, IInv, Step(c)
  PROVE  IInv'
<1>1. DOMAIN log' = DOMAIN log /\ run' = run /\ run[c] \in DOMAIN log
  BY EntryStep DEF Alone
<1>2. ASSUME NEW r \in DOMAIN log PROVE Settled(r)' /\ Apart(r)'
  BY SettledOthers, SettledStep, ApartStep
<1>3. RunInv(c)'
  <2>1. Running(c)' => Open(c)' /\ Listed(c)' /\ Carried(c)' /\ Handed(c)'
    BY OpenListedStep, CarriedStep, HandedStep DEF Running
  <2> QED
    BY <2>1, PostingStep DEF RunInv
<1>4. ASSUME NEW d \in Caller, d # c PROVE RunInv(d)'
  BY <1>4, OthersKeep
<1> QED
  BY <1>1, <1>2, <1>3, <1>4 DEF IInv

(* No run has begun, nothing was delivered.                              *)
LEMMA InvInit == Init => IInv
<1> SUFFICES ASSUME Init PROVE IInv
  OBVIOUS
<1>1. DOMAIN log = {}
  BY DEF Init
<1>2. \A c \in Caller : status[c] # "running" /\ mail[c] = "idle" /\ wire[c] = <<>>
  BY DEF Init, Life!Init
<1> QED
  BY <1>1, <1>2 DEF IInv, RunInv, Running, At

(* A run that begins has an entry of its own, and nothing in its hands. *)
LEMMA BeginKeeps ==
  ASSUME NEW c \in Caller, TypeOK, IInv, Begin(c)
  PROVE  TypeOK' /\ IInv'
<1> DEFINE s == Len(log) + 1
<1>1. /\ log \in Seq(Entry) /\ Len(log) \in Nat /\ Len(log) < MaxRuns /\ MaxRuns \in Nat
      /\ DOMAIN log = 1 .. Len(log) /\ s \in 1 .. MaxRuns
      /\ status[c] # "running" /\ status' = [status EXCEPT ![c] = "running"]
      /\ run' = [run EXCEPT ![c] = s] /\ log' = Append(log, Blank)
      /\ at' = [at EXCEPT ![c] = Place("page", {})]
      /\ UNCHANGED <<setup, cancelled, mail, wire, seen>>
      /\ \A d \in Caller : status[d] = "running" => run[d] \in DOMAIN log
  BY DigestAssumption DEF Begin, TypeOK, Life!Begin, Leave, delivery
<1>2. Blank \in Entry
  <2>1. /\ setup.outputs \in Seq(Sender!Mailer) /\ DOMAIN setup.outputs = 1 .. Len(setup.outputs)
        /\ Len(setup.outputs) \in Nat
    BY OutputsSeq
  <2>2. [o \in DOMAIN setup.outputs |-> {}] \in Seq(SUBSET Post)
    <3>1. [o \in 1 .. Len(setup.outputs) |-> {}] \in [1 .. Len(setup.outputs) -> SUBSET Post]
      OBVIOUS
    <3> QED
      BY <2>1, <3>1
  <2>3. {run[d] : d \in {x \in Caller : status[x] = "running"}} \subseteq Run
    BY <1>1 DEF Run
  <2>4. (IF cancelled THEN "before" ELSE "none") \in {"none", "during", "before"}
    OBVIOUS
  <2> QED
    BY <2>2, <2>3, <2>4 DEF Blank, Entry
<1>3. /\ log' \in Seq(Entry) /\ Len(log') = s /\ DOMAIN log' = 1 .. s /\ log'[s] = Blank
      /\ \A r \in DOMAIN log : r \in DOMAIN log' /\ log'[r] = log[r] /\ r # s
      /\ \A r \in DOMAIN log' : r \in DOMAIN log \/ r = s
  BY <1>1, <1>2
<1>4. /\ Blank.marked = {} /\ Blank.cut = {} /\ Blank.dropped = {} /\ Blank.end = "none"
      /\ DOMAIN Blank.given = DOMAIN setup.outputs
      /\ \A o \in DOMAIN Blank.given : Blank.given[o] = {}
      /\ Blank.signal = IF cancelled THEN "before" ELSE "none"
      /\ \A d \in Caller : status[d] = "running" => run[d] \in Blank.beside
  BY DEF Blank
<1> HIDE DEF s
<1>5. TypeOK'
  <2>1. /\ status' \in [Caller -> {"idle", "running", "completed", "failed"}]
        /\ stage' \in [Caller -> 1 .. 5]
    BY LifeSteps DEF Begin
  <2>2. at' \in [Caller -> Spot]
    <3>1. Place("page", {}) \in Spot
      BY DEF Place, Spot
    <3> QED
      BY <1>1, <3>1 DEF TypeOK
  <2>3. reading' \in [Caller -> {"none", "answer", "error"}]
    BY DEF Begin, TypeOK
  <2>4. run' \in [Caller -> 0 .. MaxRuns]
    BY <1>1 DEF TypeOK
  <2>5. \A d \in Caller : /\ status'[d] = IF d = c THEN "running" ELSE status[d]
                          /\ run'[d] = IF d = c THEN s ELSE run[d]
    BY <1>1 DEF TypeOK
  <2>6. \A d \in Caller : status'[d] = "running" => run'[d] \in DOMAIN log'
    BY <1>1, <1>3, <2>5
  <2>7. \A d, x \in Caller :
          status'[d] = "running" /\ status'[x] = "running" /\ run'[d] = run'[x] => d = x
    BY <1>1, <1>3, <2>5 DEF TypeOK
  <2>8. /\ setup' \in Setups /\ cancelled' \in BOOLEAN /\ seen' \subseteq Post
        /\ mail' \in [Caller -> {"idle", "login", "open", "sent", "failed"}]
        /\ wire' \in [Caller -> Seq(Sender!Dialogue)]
    BY <1>1 DEF TypeOK
  <2>9. log' \in Seq(Entry) /\ Len(log') <= MaxRuns
    BY <1>1, <1>3
  <2> QED
    BY <2>1, <2>2, <2>3, <2>4, <2>6, <2>7, <2>8, <2>9 DEF TypeOK
<1>6. \A d \in Caller : /\ status'[d] = IF d = c THEN "running" ELSE status[d]
                        /\ run'[d] = IF d = c THEN s ELSE run[d]
                        /\ at'[d] = IF d = c THEN Place("page", {}) ELSE at[d]
  BY <1>1 DEF TypeOK
<1>7. \A r \in DOMAIN log : Earlier(r)' = Earlier(r)
  <2>1. ASSUME NEW r \in DOMAIN log, NEW q \in DOMAIN log', q < r PROVE q \in DOMAIN log
    BY <1>1, <1>3, <2>1
  <2> QED
    BY <1>1, <1>3, <2>1 DEF Earlier
<1>8. \A q \in {s} : \A r \in Earlier(q)' :
        r \in DOMAIN log /\ \A d \in Caller : status[d] = "running" => run[d] # r
  BY <1>1, <1>3, <1>4 DEF Earlier
<1>9. ASSUME NEW r \in DOMAIN log PROVE Settled(r)' /\ Apart(r)'
  <2>1. Settled(r) /\ Apart(r) /\ log'[r] = log[r]
    BY <1>3 DEF IInv
  <2>2. Settled(r)'
    BY <1>1, <2>1 DEF Settled
  <2>3. \A q \in Earlier(r) : log'[q] = log[q] /\ q # s
    BY <1>3 DEF Earlier
  <2>4. Apart(r)'
    BY <1>6, <1>7, <2>1, <2>3 DEF Apart, Running
  <2> QED
    BY <2>2, <2>4
<1>10. \A q \in {s} : Settled(q)' /\ Apart(q)'
  <2>1. \A q \in {s} : Settled(q)'
    BY <1>1, <1>3, <1>4 DEF Settled
  <2>2. \A q \in {s} : \A r \in Earlier(q)' : r # s
    BY <1>3, <1>8
  <2>3. \A q \in {s} : Apart(q)'
    BY <1>3, <1>4, <1>6, <1>8, <2>2 DEF Apart, Running
  <2> QED
    BY <2>1, <2>3
<1>11. ASSUME NEW d \in Caller, d # c PROVE RunInv(d)'
  <2>1. /\ RunInv(d) /\ status'[d] = status[d] /\ run'[d] = run[d] /\ at'[d] = at[d]
    BY <1>6, <1>11 DEF IInv
  <2>2. CASE ~Running(d)
    BY <1>1, <2>1, <2>2 DEF RunInv, Running, At
  <2>3. CASE Running(d)
    <3>1. run[d] \in DOMAIN log /\ log'[run[d]] = log[run[d]]
      BY <1>1, <1>3, <2>3 DEF Running
    <3>2. Earlier(run[d])' = Earlier(run[d])
      BY <1>7, <2>1, <3>1
    <3>3. \A r \in Earlier(run[d]) : log'[r] = log[r]
      BY <1>3 DEF Earlier
    <3>4. My(d)' = My(d)
      BY <2>1, <3>1 DEF My
    <3>5. Open(d)' /\ Listed(d)' /\ Handed(d)'
      BY <1>1, <2>1, <2>3, <3>4 DEF RunInv, Open, Listed, Fetching, Handed
    <3>6. Carried(d)'
      BY <1>1, <2>1, <2>3, <3>2, <3>3, <3>4 DEF RunInv, Carried
    <3>7. At(d, "mail")' => Posting(d)'
      BY <1>1, <2>1 DEF RunInv, At, Posting, Output, Sender!Careful
    <3> QED
      BY <1>1, <2>1, <3>5, <3>6, <3>7 DEF RunInv, At
  <2> QED
    BY <2>2, <2>3
<1>12. RunInv(c)'
  <2>1. /\ My(c)' = Blank /\ at'[c] = Place("page", {}) /\ mail'[c] = "idle" /\ wire'[c] = <<>>
        /\ run'[c] = s
    BY <1>1, <1>3, <1>6 DEF My, IInv, RunInv, At
  <2>2. /\ at'[c].pc = "page" /\ at'[c].left = {} /\ at'[c].blocks = {}
    BY <2>1 DEF Place
  <2>3. Open(c)' /\ Listed(c)' /\ Carried(c)' /\ Handed(c)'
    BY <1>1, <1>4, <2>1, <2>2 DEF Open, Listed, Fetching, Carried, Handed
  <2> QED
    BY <2>1, <2>2, <2>3 DEF RunInv, At
<1> QED
  BY <1>3, <1>5, <1>9, <1>10, <1>11, <1>12 DEF IInv

(* A signal is noted in the entries of the runs under way, once. *)
LEMMA SignalKeeps == ASSUME TypeOK, IInv, Signal PROVE TypeOK' /\ IInv'
<1> DEFINE Met(r) == /\ \E c \in Caller : status[c] = "running" /\ run[c] = r
                     /\ log[r].signal = "none"
           New(r) == IF Met(r) THEN [log[r] EXCEPT !.signal = "during"] ELSE log[r]
<1>1. /\ ~cancelled /\ cancelled' = TRUE
      /\ UNCHANGED <<setup, status, stage, at, reading, mail, wire, seen, run>>
      /\ log' = [r \in DOMAIN log |-> New(r)]
  BY DEF Signal, Calls!Cancel, life, delivery
<1>2. /\ log \in Seq(Entry) /\ DOMAIN log = 1 .. Len(log) /\ Len(log) \in Nat
      /\ \A r \in DOMAIN log : log[r] \in Entry
  BY DEF TypeOK
<1>3. ASSUME NEW r \in DOMAIN log
      PROVE  /\ New(r) \in Entry
             /\ New(r).marked = log[r].marked /\ New(r).cut = log[r].cut
             /\ New(r).dropped = log[r].dropped /\ New(r).failed = log[r].failed
             /\ New(r).given = log[r].given /\ New(r).beside = log[r].beside
             /\ New(r).end = log[r].end
             /\ New(r).signal = IF Met(r) THEN "during" ELSE log[r].signal
  <2>1. log[r] \in Entry
    BY <1>2
  <2> HIDE DEF Met
  <2> QED
    BY <2>1 DEF Entry
<1>4. \A r \in DOMAIN log : log'[r] = New(r)
  BY <1>1
<1> HIDE DEF New, Met
<1>5. log' \in Seq(Entry) /\ Len(log') = Len(log) /\ DOMAIN log' = DOMAIN log
  BY <1>1, <1>2, <1>3
<1>6. TypeOK'
  BY <1>1, <1>5 DEF TypeOK
<1>7. \A r \in DOMAIN log : Earlier(r)' = Earlier(r)
  BY <1>3, <1>4, <1>5 DEF Earlier
<1>8. ASSUME NEW r \in DOMAIN log PROVE Settled(r)'
  <2>1. Settled(r)
    BY DEF IInv
  <2> QED
    BY <1>1, <1>3, <1>4, <2>1 DEF Settled
<1>9. ASSUME NEW r \in DOMAIN log PROVE Apart(r)'
  <2>1. Apart(r) /\ \A q \in Earlier(r) : q \in DOMAIN log
    BY DEF IInv, Earlier
  <2> QED
    BY <1>1, <1>3, <1>4, <1>7, <2>1 DEF Apart, Running
<1>10. ASSUME NEW c \in Caller PROVE RunInv(c)'
  <2>0. RunInv(c)
    BY DEF IInv
  <2>1. CASE ~Running(c)
    BY <1>1, <2>0, <2>1 DEF RunInv, Running, At
  <2>2. CASE Running(c)
    <3>1. run[c] \in DOMAIN log /\ My(c) = log[run[c]] /\ My(c)' = New(run[c])
      BY <1>1, <1>4, <2>2 DEF TypeOK, Running, My
    <3>2. My(c).signal = "none" => Met(run[c])
      BY <2>2, <3>1 DEF Met, Running
    <3>3. Open(c)'
      BY <1>1, <1>3, <2>0, <2>2, <3>1, <3>2 DEF RunInv, Open
    <3>4. Listed(c)' /\ Handed(c)'
      BY <1>1, <1>3, <2>0, <2>2, <3>1 DEF RunInv, Listed, Fetching, Handed
    <3>5. Carried(c)'
      BY <1>1, <1>3, <2>0, <2>2, <3>1 DEF RunInv, Carried
    <3>6. At(c, "mail")' => Posting(c)'
      BY <1>1, <2>0 DEF RunInv, At, Posting, Output, Sender!Careful
    <3> QED
      BY <1>1, <2>0, <3>3, <3>4, <3>5, <3>6 DEF RunInv, At
  <2> QED
    BY <2>1, <2>2
<1> QED
  BY <1>5, <1>6, <1>8, <1>9, <1>10 DEF IInv

(* A restart ends the runs and keeps the log and what is marked as seen. *)
LEMMA RestartKeeps == ASSUME TypeOK, IInv, Restart PROVE TypeOK' /\ IInv'
<1>1. /\ UNCHANGED <<setup, seen, run, log>> /\ \A c \in Caller : status'[c] = "idle"
      /\ \A c \in Caller : mail'[c] = "idle" /\ wire'[c] = <<>>
  BY DEF Restart, Life!Reset
<1>2. TypeOK'
  <2>1. /\ status' \in [Caller -> {"idle", "running", "completed", "failed"}]
        /\ stage' \in [Caller -> 1 .. 5] /\ cancelled' \in BOOLEAN
        /\ reading' \in [Caller -> {"none", "answer", "error"}]
    BY DEF Restart, Life!Reset, TypeOK
  <2>2. at' \in [Caller -> Spot]
    BY DEF Restart, Place, Spot
  <2>3. /\ mail' \in [Caller -> {"idle", "login", "open", "sent", "failed"}]
        /\ wire' \in [Caller -> Seq(Sender!Dialogue)]
    BY DEF Restart
  <2> QED
    BY <1>1, <2>1, <2>2, <2>3 DEF TypeOK
<1>3. ASSUME NEW r \in DOMAIN log PROVE Settled(r)' /\ Apart(r)'
  BY <1>1 DEF IInv, Settled, Apart, Earlier, Running
<1>4. ASSUME NEW c \in Caller PROVE RunInv(c)'
  BY <1>1 DEF RunInv, Running, At
<1> QED
  BY <1>1, <1>2, <1>3, <1>4 DEF IInv

(* Every step of the process keeps the types and the invariant.          *)
LEMMA InvNext == TypeOK /\ IInv /\ [Next]_vars => TypeOK' /\ IInv'
<1> SUFFICES ASSUME TypeOK, IInv, [Next]_vars PROVE TypeOK' /\ IInv'
  OBVIOUS
<1>1. CASE Signal
  BY <1>1, SignalKeeps
<1>2. CASE Restart
  BY <1>2, RestartKeeps
<1>3. ASSUME NEW c \in Caller, Begin(c) PROVE TypeOK' /\ IInv'
  BY <1>3, BeginKeeps
<1>4. ASSUME NEW c \in Caller, Step(c) PROVE TypeOK' /\ IInv'
  BY <1>4, TypeStep, InvStep
<1>5. CASE UNCHANGED vars
  <2> USE <1>5 DEF vars, life, delivery
  <2>1. TypeOK'
    BY DEF TypeOK
  <2>2. ASSUME NEW r \in DOMAIN log PROVE Settled(r)' /\ Apart(r)'
    BY DEF IInv, Settled, Apart, Earlier, Running
  <2>3. ASSUME NEW c \in Caller PROVE RunInv(c)'
    <3>1. RunInv(c) /\ My(c)' = My(c)
      BY DEF IInv, My
    <3>2. Running(c) => Open(c)' /\ Listed(c)' /\ Handed(c)'
      BY <3>1 DEF RunInv, Open, Listed, Fetching, Handed
    <3>3. Running(c) => Carried(c)'
      BY <3>1 DEF RunInv, Carried, Earlier
    <3>4. At(c, "mail") => Posting(c)'
      BY <3>1 DEF RunInv, Posting, Output, Sender!Careful
    <3> QED
      BY <3>1, <3>2, <3>3, <3>4 DEF RunInv, Running, At
  <2> QED
    BY <2>1, <2>2, <2>3 DEF IInv
<1> QED
  BY <1>1, <1>2, <1>3, <1>4, <1>5 DEF Next

(* So both hold at all times.                                            *)
LEMMA InvHolds == Spec => [](TypeOK /\ IInv)
BY TypeInit, InvInit, InvNext, PTL DEF Spec

(***************************************************************************)
(* A run that completes without a signal hands all that it has marked to   *)
(* every output, but for what was dropped or failed, and no output has     *)
(* posts that the one before it lacks: for any number of outputs, posts    *)
(* and runs side by side.                                                  *)
(***************************************************************************)
THEOREM NothingLostUnseen == Spec => []LostForAReason
<1>1. IInv => LostForAReason
  BY DEF IInv, Settled, LostForAReason, Taken
<1> QED
  BY <1>1, InvHolds, PTL

(***************************************************************************)
(* No server takes a post from two runs unless they ran side by side,      *)
(* whatever signals and ends of the process come between their steps.      *)
(***************************************************************************)
THEOREM NoSecondDelivery == Spec => []DeliveredOnce
<1>1. TypeOK /\ IInv => DeliveredOnce
  <2> SUFFICES ASSUME TypeOK, IInv, NEW r \in DOMAIN log, NEW s \in DOMAIN log,
                      r < s, r \notin log[s].beside, NEW o \in DOMAIN Taken(r)
               PROVE  Taken(r)[o] \cap Taken(s)[o] = {}
    BY DEF DeliveredOnce
  <2>1. Settled(r) /\ Settled(s) /\ Apart(s) /\ r \in Earlier(s)
    BY DEF IInv, Earlier
  <2>2. o \in DOMAIN log[s].given /\ Taken(r)[o] \subseteq log[r].marked
    BY <2>1 DEF Settled, Taken
  <2> QED
    BY <2>1, <2>2 DEF Apart, Taken
<1> QED
  BY <1>1, InvHolds, PTL

(***************************************************************************)
(* A post that lost its content to the signal is never marked, and a run   *)
(* begun after the signal leaves no trace.                                 *)
(***************************************************************************)
THEOREM SignalCostsNothing == Spec => []CutOffComesBack
<1>1. IInv => CutOffComesBack
  BY DEF IInv, Settled, CutOffComesBack, Taken
<1> QED
  BY <1>1, InvHolds, PTL

(***************************************************************************)
(* Every delivery under way is careful: at most one dialogue takes the     *)
(* message, and credentials and TLS are only given up where they may be.   *)
(***************************************************************************)
THEOREM MailIsCareful == Spec => []CarefulMail
<1>1. IInv => CarefulMail
  BY DEF IInv, RunInv, Posting, CarefulMail
<1> QED
  BY <1>1, InvHolds, PTL

-----------------------------------------------------------------------------
(***************************************************************************)
(* The runs of Digest are runs of RunLife, with fetching, marking, mailing *)
(* and calls for steps that RunLife does not see.                          *)
(***************************************************************************)
THEOREM DigestFollowsLife == Spec => Life!Spec
<1>1. Init => Life!Init
  BY DEF Init
<1>2. [Next]_vars => [Life!Next]_Life!life
  <2> SUFFICES ASSUME [Next]_vars PROVE [Life!Next]_Life!life
    OBVIOUS
  <2>1. ASSUME NEW c \in Caller, Begin(c) \/ Step(c)
        PROVE  Life!Next \/ UNCHANGED life
    <3>1. \/ UNCHANGED life
          \/ Life!Begin(c) \/ Life!Advance(c) \/ Life!Complete(c) \/ Life!Fail(c)
      BY <2>1 DEF Begin, Step, CallEnds, TakePage, TakeComments, FetchFails, SkipPost,
           TakePost, TakeContent, Mark, NextPage, FetchEnds, LeaveSources, Process,
           ProcessFails, Compose, Dial, Delivered, NotDelivered, Finish
    <3> QED
      BY <3>1 DEF Life!Next
  <2>2. CASE Signal
    BY <2>2 DEF Signal, life, Life!life
  <2>3. CASE Restart
    BY <2>3 DEF Restart, Life!Next
  <2>4. CASE UNCHANGED vars
    BY <2>4 DEF vars, life, Life!life
  <2> QED
    BY <2>1, <2>2, <2>3, <2>4 DEF Next, life, Life!life
<1> QED
  BY <1>1, <1>2, PTL DEF Spec, Life!Spec
=============================================================================
