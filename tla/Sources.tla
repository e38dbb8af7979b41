------------------------------- MODULE Sources ------------------------------
(***************************************************************************)
(* Fetch of the sources (internal/sources: rss, reddit, arxiv, scrape) and *)
(* the store of seen posts they share (internal/dedupe/sqlite.go).  A      *)
(* Fetcher is a goroutine in Fetch; the fetchers of flows with two         *)
(* triggers, and of documents that name the same database, run side by     *)
(* side.  The store has one connection, so a statement is a step; HasSeen  *)
(* and MarkSeen are separate ones, and so is the deletion of an expired    *)
(* entry in HasSeen.  Operators named Wrong... are variants of a           *)
(* definition with a plausible mistake, used by no specification.          *)
(***************************************************************************)
EXTENDS Integers, Sequences, FiniteSets, SequencesExt

CONSTANTS
  Fetcher,
  Id,          \* identifiers of posts
  NoId,        \* the empty identifier
  Never,       \* no row in the table
  Setups,      \* the source of each fetcher, a subset of [Fetcher -> Config]
  Listings,    \* what a feed, a search or an index page may list
  Ttl,         \* dedupe_store.ttl; 0 keeps entries for ever
  Worlds,      \* the circumstances explored, a subset of World
  MaxTime, MaxFetches  \* bounds

\* pages: the feeds, or max_pages; limit: post_limit, 0 for none.
Config ==
  [kind : {"rss", "scrape"}, pages : Nat \ {0}, limit : Nat, store : BOOLEAN]
  \cup [kind : {"reddit", "arxiv"}, pages : {1}, limit : {0}, store : BOOLEAN]

\* fails: a statement may fail, as all do once the context is done; overlap:
\* fetchers run side by side.
World == [fails : BOOLEAN, overlap : BOOLEAN]

ASSUME SourcesAssumption ==
  /\ Setups \subseteq [Fetcher -> Config]
  /\ Worlds \subseteq World
  /\ \A s \in Setups : \A f \in Fetcher : s[f].kind = "rss" => s[f].limit = 0
  /\ Listings \subseteq Seq(Id \cup {NoId})
  /\ NoId \notin Id /\ Never \notin Nat
  /\ Ttl \in Nat /\ MaxTime \in Nat /\ MaxFetches \in Nat

VARIABLES
  world,    \* the circumstances, for good
  now,      \* the clock
  seenAt,   \* the table: when a post was marked
  conf,     \* the source a fetcher works for
  pc,       \* "idle", "page", "item", "expire", "emit", "mark", "returned", "failed"
  page,     \* pages taken so far
  items,    \* what is left of the page, the current item first
  noted,    \* the local map "seen" (rss) or "discovered" (scrape)
  blocks,   \* the posts gathered
  fetches,  \* number of fetches begun
  markedAt, \* history: when a post was last marked
  known,    \* history: markedAt when the fetch began
  handled,  \* history: the posts the fetch has come to
  missed    \* history: those it could not, or did not want to, extract

vars == <<world, now, seenAt, conf, pc, page, items, noted, blocks, fetches, markedAt,
          known, handled, missed>>
table == <<seenAt, markedAt>>
history == <<known, handled, missed>>

Active(f) == pc[f] \notin {"idle", "returned", "failed"}
Kind(f) == conf[f].kind
Current(f) == Head(items[f])
WrongLimitReached(f) == conf[f].limit > 0 /\ Len(blocks[f]) > conf[f].limit
LimitReached(f) == conf[f].limit > 0 /\ Len(blocks[f]) >= conf[f].limit

Init ==
  /\ world \in Worlds
  /\ now = 0
  /\ seenAt = [i \in Id |-> Never]
  /\ conf \in Setups
  /\ pc = [f \in Fetcher |-> "idle"]
  /\ page = [f \in Fetcher |-> 0]
  /\ items = [f \in Fetcher |-> <<>>]
  /\ noted = [f \in Fetcher |-> {}]
  /\ blocks = [f \in Fetcher |-> <<>>]
  /\ fetches = [f \in Fetcher |-> 0]
  /\ markedAt = seenAt
  /\ known = [f \in Fetcher |-> seenAt]
  /\ handled = [f \in Fetcher |-> {}]
  /\ missed = [f \in Fetcher |-> {}]

\* Time passes; a fetcher may be slow at any point.
Tick ==
  /\ now < MaxTime /\ now' = now + 1
  /\ UNCHANGED <<world, conf, pc, page, items, noted, blocks, fetches, table,
                 history>>

-----------------------------------------------------------------------------
Goto(f, l) == pc' = [pc EXCEPT ![f] = l]

\* Done with the current item.
Advance(f) == items' = [items EXCEPT ![f] = Tail(@)] /\ Goto(f, "item")

Begin(f) ==
  /\ ~Active(f) /\ fetches[f] < MaxFetches
  /\ world.overlap \/ \A g \in Fetcher : ~Active(g)
  /\ fetches' = [fetches EXCEPT ![f] = @ + 1]
  /\ Goto(f, "page")
  /\ page' = [page EXCEPT ![f] = 0]
  /\ items' = [items EXCEPT ![f] = <<>>]
  /\ noted' = [noted EXCEPT ![f] = {}]
  /\ blocks' = [blocks EXCEPT ![f] = <<>>]
  /\ known' = [known EXCEPT ![f] = markedAt]
  /\ handled' = [handled EXCEPT ![f] = {}]
  /\ missed' = [missed EXCEPT ![f] = {}]
  /\ UNCHANGED <<world, now, conf, table>>

\* The next feed, the search, or the next index page; an error ends Fetch
\* without posts.
TakePage(f, more, n) ==
  /\ pc[f] = "page" /\ more /\ ~LimitReached(f)
  /\ \/ /\ \E l \in Listings : items' = [items EXCEPT ![f] = l]
        /\ page' = [page EXCEPT ![f] = n]
        /\ Goto(f, "item")
     \/ Goto(f, "failed") /\ UNCHANGED <<items, page>>
  /\ UNCHANGED <<world, now, conf, noted, blocks, fetches, table, history>>

WrongFetchPageAgain(f) == TakePage(f, page[f] < conf[f].pages, page[f])
FetchPage(f) == TakePage(f, page[f] < conf[f].pages, page[f] + 1)

EndPage(f) ==
  /\ pc[f] = "item" /\ items[f] = <<>>
  /\ Goto(f, "page")
  /\ UNCHANGED <<world, now, conf, page, items, noted, blocks, fetches, table, history>>

\* All pages taken, the limit reached, or no link to a next index page.
Return(f) ==
  /\ pc[f] = "page"
  /\ \/ page[f] = conf[f].pages \/ LimitReached(f)
     \/ Kind(f) = "scrape" /\ page[f] > 0
  /\ Goto(f, "returned")
  /\ UNCHANGED <<world, now, conf, page, items, noted, blocks, fetches, table, history>>

-----------------------------------------------------------------------------
\* Without an identifier (for scrape a link that is no URL, which discoverLinks
\* leaves out of the page), or met before in this fetch; reddit and arxiv do not
\* keep account of the latter, and reddit takes a post without identifier.
PassedOver(f) ==
  \/ Current(f) = NoId /\ Kind(f) # "reddit"
  \/ Current(f) \in noted[f]

WrongExpired(t) == Ttl > 0 /\ now - t >= Ttl
Expired(t) == Ttl > 0 /\ now - t > Ttl

PassOver(f) ==
  /\ pc[f] = "item" /\ items[f] # <<>> /\ PassedOver(f)
  /\ Advance(f)
  /\ UNCHANGED <<world, now, conf, page, noted, blocks, fetches, table, history>>

\* A lookup that fails counts as seen.
WrongLookups(f) ==
  LET t == IF Current(f) = NoId THEN Never ELSE seenAt[Current(f)] IN
  IF ~conf[f].store THEN {"unseen"}
  ELSE (IF world.fails THEN {"seen"} ELSE {})
       \cup {IF t = Never THEN "unseen" ELSE IF Expired(t) THEN "expired" ELSE "seen"}

\* What HasSeen's SELECT makes of the current item; an error is logged and
\* the post taken as unseen.
Lookups(f) ==
  LET t == IF Current(f) = NoId THEN Never ELSE seenAt[Current(f)] IN
  IF ~conf[f].store THEN {"unseen"}
  ELSE (IF world.fails THEN {"unseen"} ELSE {})
       \cup {IF t = Never THEN "unseen" ELSE IF Expired(t) THEN "expired" ELSE "seen"}

\* The local map is not kept.
WrongNoted(f, answer) == noted[f]

\* Scrape notes a link when it meets it, rss when it takes the post.
Noted(f, answer) ==
  IF Kind(f) = "scrape" \/ (Kind(f) = "rss" /\ answer # "seen")
  THEN noted[f] \cup {Current(f)} ELSE noted[f]

LookUp(f) ==
  /\ pc[f] = "item" /\ items[f] # <<>> /\ ~PassedOver(f)
  /\ handled' = [handled EXCEPT ![f] = @ \cup {Current(f)}]
  /\ \E answer \in Lookups(f) :
       /\ noted' = [noted EXCEPT ![f] = Noted(f, answer)]
       /\ \/ answer = "seen" /\ Advance(f)
          \/ answer = "unseen" /\ Goto(f, "emit") /\ UNCHANGED items
          \/ answer = "expired" /\ Goto(f, "expire") /\ UNCHANGED items
  /\ UNCHANGED <<world, now, conf, page, blocks, fetches, table, known, missed>>

\* HasSeen deletes an expired entry; whether that fails or not, the post
\* counts as unseen.
Expire(f) ==
  /\ pc[f] = "expire"
  /\ \/ seenAt' = [seenAt EXCEPT ![Current(f)] = Never]
     \/ world.fails /\ UNCHANGED seenAt
  /\ Goto(f, "emit")
  /\ UNCHANGED <<world, now, conf, page, items, noted, blocks, fetches, markedAt, history>>

\* The post is made and appended; only scrape may fail to, or find it too
\* old, and goes on without marking it.
Emit(f) ==
  /\ pc[f] = "emit"
  /\ \/ /\ blocks' = [blocks EXCEPT ![f] = Append(@, Current(f))]
        /\ Goto(f, "mark")
        /\ UNCHANGED <<items, missed>>
     \/ /\ Kind(f) = "scrape"
        /\ missed' = [missed EXCEPT ![f] = @ \cup {Current(f)}]
        /\ Advance(f)
        /\ UNCHANGED blocks
  /\ UNCHANGED <<world, now, conf, page, noted, fetches, table, known, handled>>

\* MarkSeen, whose error is only logged; then scrape looks at its limit.
Mark(f) ==
  /\ pc[f] = "mark"
  /\ \/ /\ conf[f].store /\ Current(f) # NoId
        /\ seenAt' = [seenAt EXCEPT ![Current(f)] = now]
        /\ markedAt' = [markedAt EXCEPT ![Current(f)] = now]
     \/ /\ world.fails \/ ~conf[f].store \/ Current(f) = NoId
        /\ UNCHANGED table
  /\ items' = [items EXCEPT ![f] = Tail(@)]
  /\ Goto(f, IF LimitReached(f) THEN "returned" ELSE "item")
  /\ UNCHANGED <<world, now, conf, page, noted, blocks, fetches, history>>

\* The process dies; the table is in a file.
Restart ==
  /\ pc' = [f \in Fetcher |-> "idle"]
  /\ UNCHANGED <<world, now, conf, page, items, noted, blocks, fetches, table, history>>

Step(f) ==
  \/ FetchPage(f) \/ EndPage(f) \/ Return(f)
  \/ PassOver(f) \/ LookUp(f) \/ Expire(f) \/ Emit(f) \/ Mark(f)

Next == Tick \/ Restart \/ \E f \in Fetcher : Begin(f) \/ Step(f)

Spec == Init /\ [][Next]_vars

\* Goroutines are scheduled; the requests of fetchers and readers time out.
FairSpec == Spec /\ \A f \in Fetcher : WF_vars(Step(f))

-----------------------------------------------------------------------------
(***************************************************************************)
(* A post limit is kept, and no post is fetched once it is reached.        *)
(***************************************************************************)
LimitKept ==
  \A f \in Fetcher : conf[f].limit > 0 =>
    /\ Len(blocks[f]) <= conf[f].limit
    /\ Len(blocks[f]) = conf[f].limit => pc[f] \in {"idle", "mark", "returned"}

(* Every variable of the fetchers and the table has its type; limits are kept. *)
TypeOK ==
  LET Time == {Never} \cup 0 .. MaxTime IN
  /\ world \in Worlds
  /\ now \in 0 .. MaxTime
  /\ seenAt \in [Id -> Time] /\ markedAt \in [Id -> Time]
  /\ conf \in Setups
  /\ pc \in [Fetcher -> {"idle", "page", "item", "expire", "emit", "mark",
                         "returned", "failed"}]
  /\ page \in [Fetcher -> Nat]
  /\ \A f \in Fetcher : page[f] <= conf[f].pages
  /\ items \in [Fetcher -> Seq(Id \cup {NoId})]
  /\ noted \in [Fetcher -> SUBSET (Id \cup {NoId})]
  /\ blocks \in [Fetcher -> Seq(Id \cup {NoId})]
  /\ fetches \in [Fetcher -> 0 .. MaxFetches]
  /\ known \in [Fetcher -> [Id -> Time]]
  /\ handled \in [Fetcher -> SUBSET (Id \cup {NoId})]
  /\ missed \in [Fetcher -> SUBSET (Id \cup {NoId})]
  /\ LimitKept

(***************************************************************************)
(* A fetch takes no post twice, however often feeds or pages list it.  Rss *)
(* and scrape see to that themselves, whatever becomes of the store; a     *)
(* reddit or arxiv fetch has only the store to tell.                       *)
(***************************************************************************)
NoDuplicates ==
  \A f \in Fetcher : Kind(f) \in {"rss", "scrape"} => IsInjective(blocks[f])

(***************************************************************************)
(* docs/curator_document_spec.md: the store keeps identifiers "so sources  *)
(* can skip previously seen items".  A fetch does not take a post that had *)
(* been marked before it began, up to the ttl and with it: so with a store *)
(* that works, fetches one at a time, restarts in between.                 *)
(***************************************************************************)
Skips(f) ==
  conf[f].store /\ Active(f) /\ blocks'[f] # blocks[f] /\ Current(f) # NoId =>
    LET t == known[f][Current(f)] IN t = Never \/ (Ttl > 0 /\ now - t > Ttl)
SkipsSeen ==
  [][~world.fails /\ ~world.overlap => \A f \in Fetcher : Skips(f)]_vars

(***************************************************************************)
(* The same for fetches side by side.  It does not hold: HasSeen of one    *)
(* fetch may delete the entry that another one has just renewed.           *)
(***************************************************************************)
SkipsSeenSideBySide ==
  [][~world.fails => \A f \in Fetcher : Skips(f)]_vars

(***************************************************************************)
(* A store that fails, or is used by others, never costs a post: each one  *)
(* a successful fetch came to was taken, or left out by scrape, or had     *)
(* really been marked.                                                     *)
(***************************************************************************)
NothingLost ==
  \A f \in Fetcher : pc[f] = "returned" =>
    \A i \in handled[f] :
      Contains(blocks[f], i) \/ i \in missed[f] \/ (i # NoId /\ markedAt[i] # Never)

(***************************************************************************)
(* A fetch ends, also on index pages that lead back to each other.         *)
(***************************************************************************)
FetchEnds == \A f \in Fetcher : Active(f) ~> ~Active(f)
=============================================================================
