---------------------------- MODULE SourcesProofs ---------------------------
(***************************************************************************)
(* Proofs about module Sources, for any fetchers, listings, ttl and number *)
(* of fetches, and about module Chunking, for any texts and settings.      *)
(***************************************************************************)
EXTENDS Sources, Chunking, WellFoundedInduction, SequenceTheorems, TLAPS

(* The inductive invariant.  The item in hand, and the times: *)
Busy(f) == pc[f] \in {"expire", "emit", "mark"} => items[f] # <<>>

Times ==
  /\ \A i \in Id : seenAt[i] \in {Never, markedAt[i]}
  /\ \A i \in Id : markedAt[i] # Never => markedAt[i] <= now
  /\ \A f \in Fetcher : \A i \in Id : known[f][i] # Never => known[f][i] <= now

\* What the local map of a fetch says of its posts.
Taken(f) == {blocks[f][k] : k \in 1 .. Len(blocks[f])}
Mapped(f) ==
  Kind(f) \in {"rss", "scrape"} =>
    /\ IsInjective(blocks[f])
    /\ Taken(f) \subseteq noted[f]
    /\ pc[f] \in {"expire", "emit"} => Current(f) \notin Taken(f) /\ Current(f) \in noted[f]

\* What became of the posts a fetch has come to.
Accounted(f) ==
  pc[f] # "idle" => \A i \in handled[f] :
    \/ i \in Taken(f) \/ i \in missed[f]
    \/ i \in Id /\ markedAt[i] # Never
    \/ pc[f] \in {"expire", "emit"} /\ i = Current(f)

\* One fetch at a time, and a store that works: an entry is gone only when it
\* had expired, and so is one that the fetch knew of.
Gone(t) == t = Never \/ Expired(t)
Alone == \A f, g \in Fetcher : Active(f) /\ Active(g) => f = g
Kept == \A i \in Id : Gone(markedAt[i]) \/ seenAt[i] = markedAt[i]
Informed(f) ==
  Active(f) =>
    /\ \A i \in Id : Gone(known[f][i]) \/ (seenAt[i] # Never /\ known[f][i] <= seenAt[i])
    /\ pc[f] = "expire" => /\ Current(f) \in Id /\ seenAt[Current(f)] # Never
                           /\ Expired(seenAt[Current(f)])
    /\ pc[f] \in {"expire", "emit"} /\ conf[f].store /\ Current(f) # NoId =>
         Gone(known[f][Current(f)])
Orderly == ~world.fails /\ ~world.overlap => Alone /\ Kept /\ \A f \in Fetcher : Informed(f)

IInv ==
  /\ TypeOK /\ Times /\ Orderly
  /\ \A f \in Fetcher : Busy(f) /\ Mapped(f) /\ Accounted(f)

-----------------------------------------------------------------------------
(* Types *)

Label == {"idle", "page", "item", "expire", "emit", "mark", "returned", "failed"}
Item == Id \cup {NoId}
Time == {Never} \cup 0 .. MaxTime

(* What a source may be configured to. *)
LEMMA ConfFacts ==
  ASSUME conf \in Setups
  PROVE  /\ conf \in [Fetcher -> Config]
         /\ \A f \in Fetcher : /\ conf[f].pages \in Nat \ {0} /\ conf[f].limit \in Nat
                               /\ conf[f].store \in BOOLEAN
                               /\ conf[f].kind \in {"rss", "scrape", "reddit", "arxiv"}
                               /\ conf[f].kind # "scrape" => conf[f].limit = 0
<1>1. conf \in [Fetcher -> Config]
  BY SourcesAssumption
<1>2. ASSUME NEW f \in Fetcher
      PROVE  /\ conf[f].pages \in Nat \ {0} /\ conf[f].limit \in Nat
             /\ conf[f].store \in BOOLEAN
             /\ conf[f].kind \in {"rss", "scrape", "reddit", "arxiv"}
             /\ conf[f].kind # "scrape" => conf[f].limit = 0
  <2>1. conf[f] \in Config /\ (conf[f].kind = "rss" => conf[f].limit = 0)
    BY <1>1, SourcesAssumption
  <2>2. CASE conf[f] \in [kind : {"rss", "scrape"}, pages : Nat \ {0}, limit : Nat,
                          store : BOOLEAN]
    BY <2>1, <2>2
  <2>3. CASE conf[f] \in [kind : {"reddit", "arxiv"}, pages : {1}, limit : {0},
                          store : BOOLEAN]
    BY <2>3
  <2> QED
    BY <2>1, <2>2, <2>3 DEF Config
<1> QED
  BY <1>1, <1>2

(* The item in hand is one of the page, and what follows it as well. *)
LEMMA ItemFacts ==
  ASSUME TypeOK, NEW f \in Fetcher, items[f] # <<>>
  PROVE  Current(f) \in Item /\ Tail(items[f]) \in Seq(Item)
<1>1. items[f] \in Seq(Item)
  BY DEF TypeOK, Item
<1> QED
  BY <1>1 DEF Current

(* A new post is the last one of its sequence. *)
LEMMA AppendFacts ==
  ASSUME NEW S, NEW s \in Seq(S), NEW e \in S
  PROVE  /\ Append(s, e) \in Seq(S) /\ Len(Append(s, e)) = Len(s) + 1 /\ Len(s) \in Nat
         /\ \A k \in 1 .. Len(s) : Append(s, e)[k] = s[k]
         /\ Append(s, e)[Len(s) + 1] = e
  OBVIOUS

(* The types hold in the beginning. *)
LEMMA TypeInit == Init => TypeOK
<1> SUFFICES ASSUME Init PROVE TypeOK
  OBVIOUS
<1>1. /\ \A f \in Fetcher : conf[f].pages \in Nat \ {0} /\ conf[f].limit \in Nat
      /\ 0 \in 0 .. MaxTime /\ 0 \in 0 .. MaxFetches
  BY ConfFacts, SourcesAssumption DEF Init
<1>2. seenAt \in [Id -> {Never} \cup 0 .. MaxTime]
  BY DEF Init
<1>3. /\ markedAt = seenAt /\ known = [f \in Fetcher |-> seenAt]
      /\ items = [f \in Fetcher |-> <<>>] /\ blocks = [f \in Fetcher |-> <<>>]
  BY DEF Init
<1>4. \A S : <<>> \in Seq(S) /\ Len(<<>>) = 0
  OBVIOUS
<1>5. /\ items \in [Fetcher -> Seq(Id \cup {NoId})] /\ blocks \in [Fetcher -> Seq(Id \cup {NoId})]
      /\ known \in [Fetcher -> [Id -> {Never} \cup 0 .. MaxTime]]
  BY <1>2, <1>3, <1>4
<1>6. page \in [Fetcher -> Nat] /\ \A f \in Fetcher : page[f] <= conf[f].pages
  BY <1>1 DEF Init
<1>7. LimitKept
  BY <1>1, <1>3, <1>4 DEF Init, LimitKept
<1>8. /\ pc \in [Fetcher -> {"idle", "page", "item", "expire", "emit", "mark", "returned",
                            "failed"}]
      /\ noted \in [Fetcher -> SUBSET (Id \cup {NoId})]
      /\ handled \in [Fetcher -> SUBSET (Id \cup {NoId})]
      /\ missed \in [Fetcher -> SUBSET (Id \cup {NoId})]
      /\ fetches \in [Fetcher -> 0 .. MaxFetches]
  BY <1>1 DEF Init
<1> QED
  BY <1>1, <1>2, <1>3, <1>5, <1>6, <1>7, <1>8 DEF Init, TypeOK

(* A label changes for one fetcher only. *)
LEMMA GotoFacts ==
  ASSUME TypeOK, NEW f \in Fetcher, NEW l \in Label, Goto(f, l)
  PROVE  /\ pc' \in [Fetcher -> Label] /\ pc'[f] = l
         /\ \A g \in Fetcher : g # f => pc'[g] = pc[g]
  BY DEF TypeOK, Goto, Label

\* The types of what a step of a fetcher may change, and of what it does not.
Fixed == UNCHANGED <<world, now, conf>>
Typed ==
  /\ seenAt' \in [Id -> Time] /\ markedAt' \in [Id -> Time]
  /\ pc' \in [Fetcher -> Label]
  /\ page' \in [Fetcher -> Nat] /\ \A f \in Fetcher : page'[f] <= conf[f].pages
  /\ items' \in [Fetcher -> Seq(Item)]
  /\ noted' \in [Fetcher -> SUBSET Item]
  /\ blocks' \in [Fetcher -> Seq(Item)]
  /\ fetches' \in [Fetcher -> 0 .. MaxFetches]
  /\ known' \in [Fetcher -> [Id -> Time]]
  /\ handled' \in [Fetcher -> SUBSET Item] /\ missed' \in [Fetcher -> SUBSET Item]
  /\ LimitKept'

(* So it is when nothing else changes its type. *)
LEMMA TypedIs ==
  ASSUME TypeOK, Fixed, Typed
  PROVE  TypeOK'
  BY DEF TypeOK, Typed, Fixed, Time, Label, Item

(* The limit, as long as no post is added. *)
LEMMA LimitStays ==
  ASSUME TypeOK, Fixed, NEW f \in Fetcher, blocks' = blocks,
         pc'[f] \in {"idle", "mark", "returned"}
           \/ (conf[f].limit > 0 => Len(blocks[f]) # conf[f].limit),
         \A g \in Fetcher : g # f => pc'[g] = pc[g]
  PROVE  LimitKept'
<1>1. ASSUME NEW g \in Fetcher, conf[g].limit > 0
      PROVE  /\ Len(blocks[g]) <= conf[g].limit
             /\ Len(blocks[g]) = conf[g].limit => pc'[g] \in {"idle", "mark", "returned"}
  <2>1. /\ Len(blocks[g]) <= conf[g].limit
        /\ Len(blocks[g]) = conf[g].limit => pc[g] \in {"idle", "mark", "returned"}
    BY <1>1 DEF TypeOK, LimitKept
  <2>2. CASE g = f
    BY <1>1, <2>1, <2>2
  <2>3. CASE g # f
    BY <2>1, <2>3
  <2> QED
    BY <2>2, <2>3
<1> QED
  BY <1>1 DEF LimitKept, Fixed

(* A fetch that is between its pages or at a post has not reached it. *)
LEMMA BelowLimit ==
  ASSUME TypeOK, NEW f \in Fetcher, pc[f] \in {"page", "item", "expire", "emit"},
         conf[f].limit > 0
  PROVE  Len(blocks[f]) < conf[f].limit /\ Len(blocks[f]) # conf[f].limit
<1>1. conf[f].limit \in Nat /\ Len(blocks[f]) \in Nat
  BY ConfFacts DEF TypeOK
<1>2. Len(blocks[f]) <= conf[f].limit /\ Len(blocks[f]) # conf[f].limit
  BY DEF TypeOK, LimitKept
<1> QED
  BY <1>1, <1>2

(* What the other variables are, in the names used here. *)
LEMMA TypeFacts ==
  ASSUME TypeOK
  PROVE  /\ world \in Worlds /\ now \in 0 .. MaxTime /\ now \in Nat /\ conf \in Setups
         /\ seenAt \in [Id -> Time] /\ markedAt \in [Id -> Time]
         /\ pc \in [Fetcher -> Label]
         /\ page \in [Fetcher -> Nat] /\ \A f \in Fetcher : page[f] <= conf[f].pages
         /\ items \in [Fetcher -> Seq(Item)]
         /\ noted \in [Fetcher -> SUBSET Item]
         /\ blocks \in [Fetcher -> Seq(Item)]
         /\ fetches \in [Fetcher -> 0 .. MaxFetches]
         /\ known \in [Fetcher -> [Id -> Time]]
         /\ handled \in [Fetcher -> SUBSET Item] /\ missed \in [Fetcher -> SUBSET Item]
         /\ LimitKept
  BY SourcesAssumption DEF TypeOK, Time, Label, Item

(* Begin, the pages and the end of a fetch. *)
LEMMA PagesTyped ==
  ASSUME TypeOK, NEW f \in Fetcher, Begin(f) \/ FetchPage(f) \/ EndPage(f) \/ Return(f)
  PROVE  TypeOK'
<1>1. CASE Begin(f)
  <2>1. Goto(f, "page") /\ Fixed
    BY <1>1 DEF Begin, Fixed
  <2>2. pc' \in [Fetcher -> Label] /\ pc'[f] = "page" /\ \A g \in Fetcher : g # f => pc'[g] = pc[g]
    BY <2>1, GotoFacts DEF Label
  <2>3. /\ <<>> \in Seq(Item) /\ Len(<<>>) = 0
    OBVIOUS
  <2>4. fetches[f] + 1 \in 0 .. MaxFetches
    BY <1>1, TypeFacts, SourcesAssumption DEF Begin
  <2>5. /\ page' = [page EXCEPT ![f] = 0]
        /\ items' = [items EXCEPT ![f] = <<>>] /\ blocks' = [blocks EXCEPT ![f] = <<>>]
        /\ noted' = [noted EXCEPT ![f] = {}]
        /\ handled' = [handled EXCEPT ![f] = {}] /\ missed' = [missed EXCEPT ![f] = {}]
        /\ known' = [known EXCEPT ![f] = markedAt]
        /\ fetches' = [fetches EXCEPT ![f] = fetches[f] + 1]
        /\ seenAt' = seenAt /\ markedAt' = markedAt
    BY <1>1 DEF Begin, table
  <2>6. page' \in [Fetcher -> Nat] /\ \A g \in Fetcher : page'[g] <= conf[g].pages
    BY <2>5, TypeFacts, ConfFacts
  <2>7. /\ items' \in [Fetcher -> Seq(Item)] /\ blocks' \in [Fetcher -> Seq(Item)]
        /\ noted' \in [Fetcher -> SUBSET Item]
        /\ handled' \in [Fetcher -> SUBSET Item] /\ missed' \in [Fetcher -> SUBSET Item]
        /\ known' \in [Fetcher -> [Id -> Time]]
        /\ fetches' \in [Fetcher -> 0 .. MaxFetches]
    BY <2>3, <2>4, <2>5, TypeFacts
  <2>8. LimitKept'
    <3>1. ASSUME NEW g \in Fetcher, conf[g].limit > 0
          PROVE  /\ Len(blocks'[g]) <= conf[g].limit
                 /\ Len(blocks'[g]) = conf[g].limit => pc'[g] \in {"idle", "mark", "returned"}
      <4>1. CASE g = f
        <5>1. blocks'[f] = <<>>
          BY <2>5, TypeFacts
        <5> QED
          BY <2>3, <3>1, <4>1, <5>1, ConfFacts DEF TypeOK
      <4>2. CASE g # f
        BY <2>2, <2>5, <3>1, <4>2, TypeFacts DEF LimitKept
      <4> QED
        BY <4>1, <4>2
    <3> QED
      BY <2>1, <3>1 DEF LimitKept, Fixed
  <2> QED
    BY <2>1, <2>2, <2>5, <2>6, <2>7, <2>8, TypeFacts, TypedIs DEF Typed
<1>2. CASE FetchPage(f)
  <2>1. /\ pc[f] = "page" /\ page[f] < conf[f].pages /\ ~LimitReached(f) /\ Fixed
        /\ UNCHANGED <<noted, blocks, fetches, seenAt, markedAt, known, handled, missed>>
    BY <1>2 DEF FetchPage, TakePage, Fixed, table, history
  <2>2. PICK l \in {"item", "failed"} : Goto(f, l)
    BY <1>2 DEF FetchPage, TakePage
  <2>3. /\ pc' \in [Fetcher -> Label] /\ pc'[f] = l /\ \A g \in Fetcher : g # f => pc'[g] = pc[g]
    BY <2>2, GotoFacts DEF Label
  <2>4. LimitKept'
    BY <2>1, <2>3, BelowLimit, LimitStays
  <2>5. items' \in [Fetcher -> Seq(Item)]
    <3>1. \A k \in Listings : k \in Seq(Item)
      BY SourcesAssumption DEF Item
    <3>2. \/ \E k \in Listings : items' = [items EXCEPT ![f] = k]
          \/ items' = items
      BY <1>2 DEF FetchPage, TakePage
    <3> QED
      BY <3>1, <3>2, TypeFacts
  <2>6. page' \in [Fetcher -> Nat] /\ \A g \in Fetcher : page'[g] <= conf[g].pages
    <3>1. page' = [page EXCEPT ![f] = page[f] + 1] \/ page' = page
      BY <1>2 DEF FetchPage, TakePage
    <3>2. page[f] + 1 \in Nat /\ page[f] + 1 <= conf[f].pages
      BY <2>1, TypeFacts, ConfFacts
    <3> QED
      BY <3>1, <3>2, TypeFacts
  <2> QED
    BY <2>1, <2>3, <2>4, <2>5, <2>6, TypeFacts, TypedIs DEF Typed
<1>3. CASE EndPage(f) \/ Return(f)
  <2>1. /\ pc[f] \in {"page", "item"} /\ Fixed
        /\ UNCHANGED <<page, items, noted, blocks, fetches, seenAt, markedAt, known, handled,
                       missed>>
    BY <1>3 DEF EndPage, Return, Fixed, table, history
  <2>2. PICK l \in {"page", "returned"} : Goto(f, l)
    BY <1>3 DEF EndPage, Return
  <2>3. /\ pc' \in [Fetcher -> Label] /\ pc'[f] = l /\ \A g \in Fetcher : g # f => pc'[g] = pc[g]
    BY <2>2, GotoFacts DEF Label
  <2>4. LimitKept'
    BY <2>1, <2>3, BelowLimit, LimitStays
  <2> QED
    BY <2>1, <2>3, <2>4, TypeFacts, TypedIs DEF Typed
<1> QED
  BY <1>1, <1>2, <1>3

(* The steps at a post. *)
LEMMA PostsTyped ==
  ASSUME TypeOK, NEW f \in Fetcher, Busy(f),
         PassOver(f) \/ LookUp(f) \/ Expire(f) \/ Emit(f) \/ Mark(f)
  PROVE  TypeOK'
<1>1. /\ items[f] # <<>> /\ Current(f) \in Item /\ Tail(items[f]) \in Seq(Item)
      /\ pc[f] \in {"item", "expire", "emit", "mark"}
  BY ItemFacts DEF Busy, PassOver, LookUp, Expire, Emit, Mark
<1>2. /\ Fixed /\ UNCHANGED <<page, fetches, known>>
  BY DEF PassOver, LookUp, Expire, Emit, Mark, Fixed, history
<1>3. items' = [items EXCEPT ![f] = Tail(items[f])] \/ items' = items
  BY DEF PassOver, LookUp, Expire, Emit, Mark, Advance
<1>4. items' \in [Fetcher -> Seq(Item)]
  BY <1>1, <1>3, TypeFacts
<1>5. ASSUME NEW l \in Label, Goto(f, l)
      PROVE  /\ pc' \in [Fetcher -> Label] /\ pc'[f] = l
             /\ \A g \in Fetcher : g # f => pc'[g] = pc[g]
  BY <1>5, GotoFacts
<1>6. CASE PassOver(f)
  <2>1. /\ Goto(f, "item") /\ "item" \in Label /\ pc[f] = "item"
        /\ UNCHANGED <<noted, blocks, seenAt, markedAt, handled, missed>>
    BY <1>6 DEF PassOver, Advance, table, history, Label
  <2>2. LimitKept'
    BY <1>2, <1>5, <2>1, BelowLimit, LimitStays
  <2> QED
    BY <1>2, <1>4, <1>5, <2>1, <2>2, TypeFacts, TypedIs DEF Typed
<1>7. CASE LookUp(f)
  <2>1. /\ pc[f] = "item" /\ UNCHANGED <<blocks, seenAt, markedAt, missed>>
        /\ handled' = [handled EXCEPT ![f] = handled[f] \cup {Current(f)}]
    BY <1>7 DEF LookUp, table
  <2>2. PICK l \in {"item", "emit", "expire"} : Goto(f, l)
    BY <1>7 DEF LookUp, Advance
  <2>3. l \in Label
    BY DEF Label
  <2>4. LimitKept'
    BY <1>2, <1>5, <2>1, <2>2, <2>3, BelowLimit, LimitStays
  <2>5. noted' \in [Fetcher -> SUBSET Item]
    <3>1. PICK answer : noted' = [noted EXCEPT ![f] = Noted(f, answer)]
      BY <1>7 DEF LookUp
    <3>2. Noted(f, answer) \in SUBSET Item
      BY <1>1, TypeFacts DEF Noted
    <3> QED
      BY <3>1, <3>2, TypeFacts
  <2>6. handled' \in [Fetcher -> SUBSET Item]
    BY <1>1, <2>1, TypeFacts
  <2> QED
    BY <1>2, <1>4, <1>5, <2>1, <2>2, <2>3, <2>4, <2>5, <2>6, TypeFacts, TypedIs DEF Typed
<1>8. CASE Expire(f)
  <2>1. /\ Goto(f, "emit") /\ "emit" \in Label /\ pc[f] = "expire"
        /\ UNCHANGED <<noted, blocks, markedAt, handled, missed>>
    BY <1>8 DEF Expire, history, Label
  <2>2. LimitKept'
    BY <1>2, <1>5, <2>1, BelowLimit, LimitStays
  <2>3. seenAt' \in [Id -> Time]
    <3>1. seenAt' = [seenAt EXCEPT ![Current(f)] = Never] \/ seenAt' = seenAt
      BY <1>8 DEF Expire
    <3> QED
      BY <3>1, TypeFacts DEF Time
  <2> QED
    BY <1>2, <1>4, <1>5, <2>1, <2>2, <2>3, TypeFacts, TypedIs DEF Typed
<1>9. CASE Emit(f)
  <2>0. /\ pc[f] = "emit" /\ UNCHANGED <<noted, seenAt, markedAt, handled>>
    BY <1>9 DEF Emit, table
  <2>1. CASE /\ blocks' = [blocks EXCEPT ![f] = Append(@, Current(f))]
             /\ Goto(f, "mark")
             /\ UNCHANGED <<items, missed>>
    <3>1. pc' \in [Fetcher -> Label] /\ pc'[f] = "mark" /\ \A g \in Fetcher : g # f => pc'[g] = pc[g]
      BY <2>1, GotoFacts DEF Label
    <3>2. /\ Append(blocks[f], Current(f)) \in Seq(Item)
          /\ Len(Append(blocks[f], Current(f))) = Len(blocks[f]) + 1
          /\ Len(blocks[f]) \in Nat
      <4>1. blocks[f] \in Seq(Item)
        BY TypeFacts
      <4> QED
        BY <1>1, <4>1, AppendFacts
    <3>3. blocks' = [blocks EXCEPT ![f] = Append(blocks[f], Current(f))]
      BY <2>1
    <3>4. /\ blocks' \in [Fetcher -> Seq(Item)] /\ Len(blocks'[f]) = Len(blocks[f]) + 1
          /\ \A g \in Fetcher : g # f => blocks'[g] = blocks[g]
      BY <3>2, <3>3, TypeFacts
    <3>5. LimitKept'
      <4>1. ASSUME NEW g \in Fetcher, conf[g].limit > 0
            PROVE  /\ Len(blocks'[g]) <= conf[g].limit
                   /\ Len(blocks'[g]) = conf[g].limit => pc'[g] \in {"idle", "mark", "returned"}
        <5>1. CASE g = f
          <6>1. conf[f].limit \in Nat /\ Len(blocks[f]) < conf[f].limit
            BY <2>0, <4>1, <5>1, BelowLimit, ConfFacts DEF TypeOK
          <6> QED
            BY <3>1, <3>2, <3>4, <5>1, <6>1
        <5>2. CASE g # f
          BY <3>1, <3>4, <4>1, <5>2, TypeFacts DEF LimitKept
        <5> QED
          BY <5>1, <5>2
      <4> QED
        BY <1>2, <4>1 DEF LimitKept, Fixed
    <3> QED
      BY <1>2, <1>4, <2>0, <2>1, <3>1, <3>4, <3>5, TypeFacts, TypedIs DEF Typed
  <2>2. CASE /\ missed' = [missed EXCEPT ![f] = @ \cup {Current(f)}]
             /\ Advance(f)
             /\ UNCHANGED blocks
    <3>1. pc' \in [Fetcher -> Label] /\ pc'[f] = "item" /\ \A g \in Fetcher : g # f => pc'[g] = pc[g]
      BY <2>2, GotoFacts DEF Label, Advance
    <3>2. LimitKept'
      BY <1>2, <2>0, <2>2, <3>1, BelowLimit, LimitStays
    <3>3. missed' \in [Fetcher -> SUBSET Item]
      BY <1>1, <2>2, TypeFacts
    <3> QED
      BY <1>2, <1>4, <2>0, <2>2, <3>1, <3>2, <3>3, TypeFacts, TypedIs DEF Typed
  <2> QED
    BY <1>9, <2>1, <2>2 DEF Emit
<1>10. CASE Mark(f)
  <2>1. /\ pc[f] = "mark" /\ UNCHANGED <<noted, blocks, handled, missed>>
        /\ Goto(f, IF LimitReached(f) THEN "returned" ELSE "item")
    BY <1>10 DEF Mark, history
  <2>2. PICK l \in {"item", "returned"} : Goto(f, l) /\ (l = "item" <=> ~LimitReached(f))
    BY <2>1
  <2>3. l \in Label
    BY DEF Label
  <2>4. pc' \in [Fetcher -> Label] /\ pc'[f] = l /\ \A g \in Fetcher : g # f => pc'[g] = pc[g]
    BY <1>5, <2>2, <2>3
  <2>5. LimitKept'
    <3>1. conf[f].limit \in Nat /\ Len(blocks[f]) \in Nat
      BY ConfFacts DEF TypeOK
    <3>2. ~LimitReached(f) => (conf[f].limit > 0 => Len(blocks[f]) # conf[f].limit)
      BY <3>1 DEF LimitReached
    <3> QED
      BY <1>2, <2>1, <2>2, <2>4, <3>2, LimitStays
  <2>6. seenAt' \in [Id -> Time] /\ markedAt' \in [Id -> Time]
    <3>1. \/ /\ seenAt' = [seenAt EXCEPT ![Current(f)] = now]
             /\ markedAt' = [markedAt EXCEPT ![Current(f)] = now]
          \/ seenAt' = seenAt /\ markedAt' = markedAt
      BY <1>10 DEF Mark, table
    <3> QED
      BY <3>1, TypeFacts DEF Time
  <2> QED
    BY <1>2, <1>4, <2>1, <2>4, <2>5, <2>6, TypeFacts, TypedIs DEF Typed
<1> QED
  BY <1>6, <1>7, <1>8, <1>9, <1>10

(* The clock, the end of the process, and no step at all. *)
LEMMA WorldTyped ==
  ASSUME TypeOK, Tick \/ Restart \/ vars' = vars
  PROVE  TypeOK'
<1>1. CASE Tick
  <2>1. /\ now' \in 0 .. MaxTime /\ world' = world /\ conf' = conf
        /\ UNCHANGED <<pc, page, items, noted, blocks, fetches, seenAt, markedAt, known,
                       handled, missed>>
    BY <1>1, TypeFacts, SourcesAssumption DEF Tick, table, history
  <2> QED
    BY <2>1 DEF TypeOK, LimitKept
<1>2. CASE Restart
  <2>1. /\ pc' = [f \in Fetcher |-> "idle"] /\ Fixed
        /\ UNCHANGED <<page, items, noted, blocks, fetches, seenAt, markedAt, known,
                       handled, missed>>
    BY <1>2 DEF Restart, Fixed, table, history
  <2>2. pc' \in [Fetcher -> Label]
    BY <2>1 DEF Label
  <2>3. LimitKept'
    BY <2>1, TypeFacts DEF LimitKept, Fixed
  <2> QED
    BY <2>1, <2>2, <2>3, TypeFacts, TypedIs DEF Typed
<1>3. CASE vars' = vars
  BY <1>3 DEF vars, TypeOK, LimitKept
<1> QED
  BY <1>1, <1>2, <1>3

-----------------------------------------------------------------------------
(* The fetchers *)

(* A step of a fetcher touches nothing that another one owns. *)
LEMMA StepIsOwn ==
  ASSUME TypeOK, NEW f \in Fetcher, Begin(f) \/ Step(f)
  PROVE  /\ Fixed
         /\ \A g \in Fetcher : g # f =>
              /\ pc'[g] = pc[g] /\ items'[g] = items[g] /\ noted'[g] = noted[g]
              /\ blocks'[g] = blocks[g] /\ known'[g] = known[g]
              /\ handled'[g] = handled[g] /\ missed'[g] = missed[g]
<1>1. Fixed
  BY DEF Step, Begin, FetchPage, TakePage, EndPage, Return, PassOver, LookUp, Expire, Emit,
     Mark, Fixed
<1>2. ASSUME NEW g \in Fetcher, g # f
      PROVE  pc'[g] = pc[g] /\ items'[g] = items[g] /\ noted'[g] = noted[g]
  BY <1>2, TypeFacts
     DEF Step, Begin, FetchPage, TakePage, EndPage, Return, PassOver, LookUp, Expire, Emit,
         Mark, Goto, Advance
<1>3. ASSUME NEW g \in Fetcher, g # f
      PROVE  /\ blocks'[g] = blocks[g] /\ known'[g] = known[g]
             /\ handled'[g] = handled[g] /\ missed'[g] = missed[g]
  BY <1>3, TypeFacts
     DEF Step, Begin, FetchPage, TakePage, EndPage, Return, PassOver, LookUp, Expire, Emit,
         Mark, history
<1> QED
  BY <1>1, <1>2, <1>3

(* No mark in the history is ever taken back. *)
LEMMA MarksStay ==
  ASSUME TypeOK, [Next]_vars
  PROVE  \A i \in Id : markedAt[i] # Never => markedAt'[i] # Never
<1>1. markedAt' = markedAt \/ \E i : markedAt' = [markedAt EXCEPT ![i] = now]
  BY DEF Next, Step, Tick, Restart, Begin, FetchPage, TakePage, EndPage, Return, PassOver,
     LookUp, Expire, Emit, Mark, table, vars
<1> QED
  BY <1>1, TypeFacts, SourcesAssumption

(* A fetcher that does not move keeps its part of the invariant. *)
LEMMA OthersKeep ==
  ASSUME NEW g \in Fetcher, Busy(g), Mapped(g), Accounted(g), conf' = conf,
         pc'[g] = pc[g] \/ pc'[g] = "idle",
         items'[g] = items[g], noted'[g] = noted[g], blocks'[g] = blocks[g],
         handled'[g] = handled[g], missed'[g] = missed[g],
         \A i \in Id : markedAt[i] # Never => markedAt'[i] # Never
  PROVE  Busy(g)' /\ Mapped(g)' /\ Accounted(g)'
<1>1. Taken(g)' = Taken(g) /\ Current(g)' = Current(g) /\ Kind(g)' = Kind(g)
  BY DEF Taken, Current, Kind
<1>2. Busy(g)'
  BY DEF Busy
<1>3. Mapped(g)'
  BY <1>1 DEF Mapped
<1>4. Accounted(g)'
  BY <1>1 DEF Accounted
<1> QED
  BY <1>2, <1>3, <1>4

(* The fetcher that moves, between its posts. *)
LEMMA PagesKeep ==
  ASSUME TypeOK, NEW f \in Fetcher, Mapped(f), Accounted(f),
         Begin(f) \/ FetchPage(f) \/ EndPage(f) \/ Return(f),
         \A i \in Id : markedAt[i] # Never => markedAt'[i] # Never
  PROVE  Busy(f)' /\ Mapped(f)' /\ Accounted(f)'
<1>1. CASE Begin(f)
  <2>1. pc'[f] = "page" /\ blocks'[f] = <<>> /\ noted'[f] = {} /\ handled'[f] = {}
    BY <1>1, TypeFacts DEF Begin, Goto
  <2>2. Taken(f)' = {} /\ IsInjective(blocks'[f])
    BY <2>1 DEF Taken, IsInjective
  <2> QED
    BY <2>1, <2>2 DEF Busy, Mapped, Accounted
<1>2. CASE FetchPage(f) \/ EndPage(f) \/ Return(f)
  <2>1. /\ pc[f] \in {"page", "item"} /\ pc'[f] \in {"page", "item", "returned", "failed"}
        /\ UNCHANGED <<conf, noted, blocks, handled, missed>>
    BY <1>2, TypeFacts DEF FetchPage, TakePage, EndPage, Return, Goto, history
  <2>2. Taken(f)' = Taken(f) /\ Kind(f)' = Kind(f)
    BY <2>1 DEF Taken, Kind
  <2> QED
    BY <2>1, <2>2 DEF Busy, Mapped, Accounted
<1> QED
  BY <1>1, <1>2

(* A post that was not taken before is added: none is there twice. *)
LEMMA InjectiveAppend ==
  ASSUME NEW s \in Seq(Item), NEW e \in Item, IsInjective(s),
         e \notin {s[k] : k \in 1 .. Len(s)}
  PROVE  IsInjective(Append(s, e))
<1>1. /\ Append(s, e) \in Seq(Item) /\ Len(Append(s, e)) = Len(s) + 1 /\ Len(s) \in Nat
      /\ \A k \in 1 .. Len(s) : Append(s, e)[k] = s[k]
      /\ Append(s, e)[Len(s) + 1] = e
  BY AppendFacts
<1>2. DOMAIN s = 1 .. Len(s) /\ DOMAIN Append(s, e) = 1 .. Len(s) + 1
  BY <1>1
<1>3. ASSUME NEW j \in 1 .. Len(s) + 1, NEW k \in 1 .. Len(s) + 1,
             Append(s, e)[j] = Append(s, e)[k]
      PROVE  j = k
  <2>1. CASE j \in 1 .. Len(s) /\ k \in 1 .. Len(s)
    BY <1>1, <1>2, <1>3, <2>1 DEF IsInjective
  <2>2. CASE j = Len(s) + 1 \/ k = Len(s) + 1
    BY <1>1, <1>3, <2>2
  <2> QED
    BY <1>1, <2>1, <2>2
<1> QED
  BY <1>2, <1>3 DEF IsInjective

(* The posts taken, with a new one. *)
LEMMA TakenAppend ==
  ASSUME NEW s \in Seq(Item), NEW e \in Item
  PROVE  {Append(s, e)[k] : k \in 1 .. Len(Append(s, e))} = {s[k] : k \in 1 .. Len(s)} \cup {e}
<1>1. /\ Len(Append(s, e)) = Len(s) + 1 /\ Len(s) \in Nat
      /\ \A k \in 1 .. Len(s) : Append(s, e)[k] = s[k]
      /\ Append(s, e)[Len(s) + 1] = e
  BY AppendFacts
<1>2. 1 .. Len(s) + 1 = (1 .. Len(s)) \cup {Len(s) + 1}
  BY <1>1
<1> QED
  BY <1>1, <1>2

(* The fetcher that moves, at a post. *)
LEMMA PostsKeep ==
  ASSUME TypeOK, NEW f \in Fetcher, Busy(f), Mapped(f), Accounted(f), Times,
         PassOver(f) \/ LookUp(f) \/ Expire(f) \/ Emit(f) \/ Mark(f),
         \A i \in Id : markedAt[i] # Never => markedAt'[i] # Never
  PROVE  Busy(f)' /\ Mapped(f)' /\ Accounted(f)'
<1>0. /\ items[f] # <<>> /\ Current(f) \in Item
      /\ pc[f] \in {"item", "expire", "emit", "mark"} /\ pc[f] # "idle"
  BY ItemFacts DEF Busy, PassOver, LookUp, Expire, Emit, Mark
<1>1. conf' = conf /\ Kind(f)' = Kind(f)
  BY DEF PassOver, LookUp, Expire, Emit, Mark, Kind
<1>2. CASE PassOver(f)
  <2>1. /\ pc'[f] = "item" /\ pc[f] = "item"
        /\ UNCHANGED <<noted, blocks, handled, missed>>
    BY <1>2, TypeFacts DEF PassOver, Advance, Goto, history
  <2>2. Taken(f)' = Taken(f)
    BY <2>1 DEF Taken
  <2> QED
    BY <1>1, <2>1, <2>2 DEF Busy, Mapped, Accounted
<1>3. CASE LookUp(f)
  <2>1. PICK answer \in Lookups(f) :
          /\ noted' = [noted EXCEPT ![f] = Noted(f, answer)]
          /\ \/ answer = "seen" /\ Advance(f)
             \/ answer = "unseen" /\ Goto(f, "emit") /\ UNCHANGED items
             \/ answer = "expired" /\ Goto(f, "expire") /\ UNCHANGED items
    BY <1>3 DEF LookUp
  <2>2. /\ pc[f] = "item" /\ ~PassedOver(f) /\ UNCHANGED <<blocks, missed>>
        /\ noted'[f] = Noted(f, answer)
        /\ handled'[f] = handled[f] \cup {Current(f)}
    BY <1>3, <2>1, TypeFacts DEF LookUp
  <2>3. Taken(f)' = Taken(f)
    BY <2>2 DEF Taken
  <2>4. noted[f] \subseteq noted'[f] /\ Current(f) \notin noted[f]
    BY <2>2 DEF Noted, PassedOver
  <2>5. CASE answer = "seen"
    <3>1. pc'[f] = "item"
      BY <2>1, <2>5, TypeFacts DEF Advance, Goto
    <3>2. Current(f) \in Id /\ seenAt[Current(f)] # Never
      BY <1>0, <2>1, <2>5 DEF Lookups, Item
    <3>3. markedAt'[Current(f)] # Never
      BY <3>2 DEF Times
    <3>4. Mapped(f)'
      BY <1>1, <2>2, <2>3, <2>4, <3>1 DEF Mapped
    <3>5. Accounted(f)'
      BY <1>0, <2>2, <2>3, <3>1, <3>2, <3>3 DEF Accounted
    <3> QED
      BY <3>1, <3>4, <3>5 DEF Busy
  <2>6. CASE answer # "seen"
    <3>1. pc'[f] \in {"expire", "emit"} /\ items' = items /\ Current(f)' = Current(f)
      BY <2>1, <2>6, TypeFacts DEF Goto, Current
    <3>2. Kind(f) \in {"rss", "scrape"} => Current(f) \in noted'[f]
      BY <2>2, <2>6 DEF Noted
    <3>3. Mapped(f)'
      BY <1>1, <2>2, <2>3, <2>4, <3>1, <3>2 DEF Mapped
    <3>4. Accounted(f)'
      BY <1>0, <2>2, <2>3, <3>1 DEF Accounted
    <3> QED
      BY <1>0, <3>1, <3>3, <3>4 DEF Busy
  <2> QED
    BY <2>5, <2>6
<1>4. CASE Expire(f)
  <2>1. /\ pc[f] = "expire" /\ pc'[f] = "emit"
        /\ UNCHANGED <<items, noted, blocks, handled, missed>>
    BY <1>4, TypeFacts DEF Expire, Goto, history
  <2>2. Taken(f)' = Taken(f) /\ Current(f)' = Current(f)
    BY <2>1 DEF Taken, Current
  <2> QED
    BY <1>0, <1>1, <2>1, <2>2 DEF Busy, Mapped, Accounted
<1>5. CASE Emit(f)
  <2>0. pc[f] = "emit" /\ UNCHANGED <<noted, handled>>
    BY <1>5 DEF Emit
  <2>1. CASE /\ blocks' = [blocks EXCEPT ![f] = Append(@, Current(f))]
             /\ Goto(f, "mark")
             /\ UNCHANGED <<items, missed>>
    <3>1. /\ blocks[f] \in Seq(Item) /\ pc'[f] = "mark"
          /\ blocks'[f] = Append(blocks[f], Current(f))
      BY <2>1, TypeFacts DEF Goto
    <3>2. Taken(f)' = Taken(f) \cup {Current(f)}
      BY <1>0, <3>1, TakenAppend DEF Taken
    <3>3. Mapped(f)'
      <4>1. ASSUME Kind(f) \in {"rss", "scrape"}
            PROVE  IsInjective(blocks'[f]) /\ Taken(f)' \subseteq noted[f]
        BY <1>0, <2>0, <3>1, <3>2, <4>1, InjectiveAppend DEF Mapped, Taken
      <4> QED
        BY <1>1, <2>0, <3>1, <4>1 DEF Mapped
    <3>4. Accounted(f)'
      BY <1>0, <2>0, <2>1, <3>1, <3>2 DEF Accounted
    <3> QED
      BY <1>0, <2>1, <3>3, <3>4 DEF Busy
  <2>2. CASE /\ missed' = [missed EXCEPT ![f] = @ \cup {Current(f)}]
             /\ Advance(f)
             /\ UNCHANGED blocks
    <3>1. missed'[f] = missed[f] \cup {Current(f)} /\ pc'[f] = "item"
      BY <2>2, TypeFacts DEF Advance, Goto
    <3>2. Taken(f)' = Taken(f)
      BY <2>2 DEF Taken
    <3> QED
      BY <1>0, <1>1, <2>0, <2>2, <3>1, <3>2 DEF Busy, Mapped, Accounted
  <2> QED
    BY <1>5, <2>1, <2>2 DEF Emit
<1>6. CASE Mark(f)
  <2>1. /\ pc[f] = "mark" /\ pc'[f] \in {"item", "returned"}
        /\ UNCHANGED <<noted, blocks, handled, missed>>
    BY <1>6, TypeFacts DEF Mark, Goto, history
  <2>2. Taken(f)' = Taken(f)
    BY <2>1 DEF Taken
  <2> QED
    BY <1>1, <2>1, <2>2 DEF Busy, Mapped, Accounted
<1> QED
  BY <1>2, <1>3, <1>4, <1>5, <1>6

-----------------------------------------------------------------------------
(* The table *)

(* A marked post is in the table as it was marked, or not at all; no mark  *)
(* is of the future.                                                       *)
LEMMA TimesStep ==
  ASSUME TypeOK, Times, [Next]_vars
  PROVE  Times'
<1> DEFINE Marks == /\ \A i \in Id : seenAt'[i] \in {Never, markedAt'[i]}
                    /\ \A i \in Id : markedAt'[i] # Never => markedAt'[i] <= now'
<1>1. CASE UNCHANGED <<seenAt, markedAt, known>> /\ now' \in {now, now + 1}
  <2>1. now <= now' /\ now \in Nat /\ now' \in Nat
    BY <1>1, TypeFacts
  <2>2. \A t \in Time : t # Never /\ t <= now => t <= now'
    BY <2>1, SourcesAssumption DEF Time
  <2>3. /\ \A i \in Id : markedAt[i] \in Time
        /\ \A f \in Fetcher : \A i \in Id : known[f][i] \in Time
    BY TypeFacts
  <2> QED
    BY <1>1, <2>2, <2>3 DEF Times
<1>2. ASSUME NEW f \in Fetcher, Begin(f)
      PROVE  Times'
  <2>1. /\ known' = [known EXCEPT ![f] = markedAt] /\ UNCHANGED <<now, seenAt, markedAt>>
    BY <1>2 DEF Begin, table
  <2>2. ASSUME NEW g \in Fetcher, NEW i \in Id, known'[g][i] # Never
        PROVE  known'[g][i] <= now
    <3>1. known'[g] = markedAt \/ known'[g] = known[g]
      BY <2>1, TypeFacts
    <3> QED
      BY <2>2, <3>1 DEF Times
  <2> QED
    BY <2>1, <2>2 DEF Times
<1>3. ASSUME NEW f \in Fetcher, Expire(f)
      PROVE  Times'
  <2>1. /\ seenAt' = seenAt \/ seenAt' = [seenAt EXCEPT ![Current(f)] = Never]
        /\ UNCHANGED <<now, markedAt, known>>
    BY <1>3 DEF Expire, history
  <2>2. \A i \in Id : seenAt'[i] \in {Never, seenAt[i]}
    BY <2>1, TypeFacts
  <2> QED
    BY <2>1, <2>2 DEF Times
<1>4. ASSUME NEW f \in Fetcher, Mark(f)
      PROVE  Times'
  <2>1. /\ \/ seenAt' = seenAt /\ markedAt' = markedAt
           \/ /\ seenAt' = [seenAt EXCEPT ![Current(f)] = now]
              /\ markedAt' = [markedAt EXCEPT ![Current(f)] = now]
        /\ UNCHANGED <<now, known>>
    BY <1>4 DEF Mark, table, history
  <2>2. \A i \in Id : \/ seenAt'[i] = seenAt[i] /\ markedAt'[i] = markedAt[i]
                      \/ seenAt'[i] = now /\ markedAt'[i] = now
    BY <2>1, TypeFacts
  <2>3. now \in Nat
    BY TypeFacts
  <2> QED
    BY <2>1, <2>2, <2>3 DEF Times
<1>5. ASSUME NEW f \in Fetcher,
             FetchPage(f) \/ EndPage(f) \/ Return(f) \/ PassOver(f) \/ LookUp(f) \/ Emit(f)
      PROVE  UNCHANGED <<seenAt, markedAt, known>> /\ now' \in {now, now + 1}
  BY <1>5 DEF FetchPage, TakePage, EndPage, Return, PassOver, LookUp, Emit, table, history
<1>6. CASE Tick \/ Restart \/ vars' = vars
  BY <1>1, <1>6 DEF Tick, Restart, vars, table, history
<1> QED
  BY <1>1, <1>2, <1>3, <1>4, <1>5, <1>6 DEF Next, Step

(* An entry that has expired stays so, and so has every older one.         *)
LEMMA GoneFacts ==
  ASSUME TypeOK
  PROVE  /\ \A s, t \in Time : Gone(t) /\ s # Never /\ t # Never /\ s <= t => Gone(s)
         /\ \A t \in Time : Gone(t) /\ now' = now + 1 =>
              t = Never \/ (Ttl > 0 /\ now' - t > Ttl)
  BY TypeFacts, SourcesAssumption DEF Gone, Expired, Time

(* One at a time, a step of a fetcher leaves the table and what it knew of *)
(* the table consistent.                                                   *)
LEMMA OrderlyFetch ==
  ASSUME TypeOK, Times, ~world.fails, ~world.overlap,
         Alone, Kept, \A g \in Fetcher : Informed(g) /\ Busy(g),
         NEW f \in Fetcher, Begin(f) \/ Step(f)
  PROVE  Alone' /\ Kept' /\ \A g \in Fetcher : Informed(g)'
<1>0. /\ Fixed
      /\ \A g \in Fetcher : g # f => pc'[g] = pc[g]
  BY StepIsOwn
<1>1. ASSUME NEW g \in Fetcher, g # f PROVE ~Active(g) /\ ~Active(g)'
  <2>1. ~Active(g)
    <3>1. CASE Begin(f)
      BY <1>1, <3>1 DEF Begin
    <3>2. CASE Step(f)
      <4>1. Active(f)
        BY <3>2 DEF Step, FetchPage, TakePage, EndPage, Return, PassOver, LookUp, Expire,
           Emit, Mark, Active
      <4> QED
        BY <1>1, <4>1 DEF Alone
    <3> QED
      BY <3>1, <3>2
  <2> QED
    BY <1>0, <1>1, <2>1 DEF Active
<1>2. Alone'
  BY <1>1 DEF Alone
<1>3. \A g \in Fetcher : g # f => Informed(g)'
  BY <1>1 DEF Informed
<1>4. SUFFICES Kept' /\ Informed(f)'
  BY <1>2, <1>3
<1>5. CASE Begin(f)
  <2>1. pc'[f] = "page" /\ known'[f] = markedAt /\ UNCHANGED <<now, seenAt, markedAt>>
    BY <1>5, TypeFacts DEF Begin, Goto, table
  <2>2. Kept'
    BY <2>1 DEF Kept, Gone, Expired
  <2>3. \A i \in Id : markedAt[i] \in Time
    BY TypeFacts
  <2>4. ASSUME NEW i \in Id
        PROVE  Gone(markedAt[i]) \/ (seenAt[i] # Never /\ markedAt[i] <= seenAt[i])
    <3>1. CASE Gone(markedAt[i])
      BY <3>1
    <3>2. CASE ~Gone(markedAt[i])
      <4>1. seenAt[i] = markedAt[i] /\ markedAt[i] # Never
        BY <3>2 DEF Kept, Gone
      <4>2. markedAt[i] \in Nat
        BY <2>3, <4>1, SourcesAssumption DEF Time
      <4> QED
        BY <4>1, <4>2
    <3> QED
      BY <3>1, <3>2
  <2>5. Informed(f)'
    BY <2>1, <2>4 DEF Informed, Gone, Expired
  <2> QED
    BY <2>2, <2>5
<1>6. CASE FetchPage(f) \/ EndPage(f) \/ Return(f) \/ PassOver(f) \/ Emit(f)
  <2>1. /\ pc'[f] \notin {"expire", "emit"} /\ UNCHANGED <<now, seenAt, markedAt, known>>
        /\ Active(f)
    BY <1>6, TypeFacts
       DEF FetchPage, TakePage, EndPage, Return, PassOver, Emit, Goto, Advance, table, history,
           Active
  <2>2. Kept'
    BY <2>1 DEF Kept, Gone, Expired
  <2>3. Informed(f)'
    BY <2>1 DEF Informed, Gone, Expired
  <2> QED
    BY <2>2, <2>3
<1>7. CASE LookUp(f)
  <2>1. PICK answer \in Lookups(f) :
          \/ answer = "seen" /\ Advance(f)
          \/ answer = "unseen" /\ Goto(f, "emit") /\ UNCHANGED items
          \/ answer = "expired" /\ Goto(f, "expire") /\ UNCHANGED items
    BY <1>7 DEF LookUp
  <2>2. /\ Active(f) /\ items[f] # <<>> /\ UNCHANGED <<now, conf, seenAt, markedAt, known>>
    BY <1>7 DEF LookUp, table, Active
  <2>3. Kept'
    BY <2>2 DEF Kept, Gone, Expired
  <2>4. \A i \in Id : Gone(known[f][i]) \/ (seenAt[i] # Never /\ known[f][i] <= seenAt[i])
    BY <2>2 DEF Informed
  <2>5. Current(f) \in Item
    BY <2>2, ItemFacts
  <2>6. CASE answer = "seen"
    <3>1. pc'[f] = "item"
      BY <2>1, <2>6, TypeFacts DEF Advance, Goto
    <3> QED
      BY <2>2, <2>3, <2>4, <3>1 DEF Informed, Gone, Expired
  <2>7. CASE answer = "unseen"
    <3>1. pc'[f] = "emit" /\ Current(f)' = Current(f)
      BY <2>1, <2>7, TypeFacts DEF Goto, Current
    <3>2. ASSUME conf[f].store, Current(f) # NoId
          PROVE  Gone(known[f][Current(f)])
      <4>1. Current(f) \in Id /\ seenAt[Current(f)] = Never
        BY <2>1, <2>5, <2>7, <3>2 DEF Lookups, Item
      <4> QED
        BY <2>4, <4>1
    <3> QED
      BY <2>2, <2>3, <2>4, <3>1, <3>2 DEF Informed, Gone, Expired
  <2>8. CASE answer = "expired"
    <3>1. pc'[f] = "expire" /\ Current(f)' = Current(f)
      BY <2>1, <2>8, TypeFacts DEF Goto, Current
    <3>2. /\ Current(f) \in Id /\ seenAt[Current(f)] # Never
          /\ Expired(seenAt[Current(f)])
      BY <2>1, <2>5, <2>8 DEF Lookups, Item
    <3>3. seenAt[Current(f)] \in Time /\ known[f][Current(f)] \in Time
      BY <3>2, TypeFacts
    <3>4. Gone(known[f][Current(f)])
      BY <2>4, <3>2, <3>3, GoneFacts DEF Gone
    <3> QED
      BY <2>2, <2>3, <2>4, <3>1, <3>2, <3>4 DEF Informed, Gone, Expired
  <2> QED
    BY <2>1, <2>6, <2>7, <2>8
<1>8. CASE Expire(f)
  <2>1. /\ seenAt' = [seenAt EXCEPT ![Current(f)] = Never]
        /\ pc[f] = "expire" /\ pc'[f] = "emit" /\ Active(f)
        /\ UNCHANGED <<now, conf, items, markedAt, known>>
    BY <1>8, TypeFacts DEF Expire, Goto, history, Active
  <2>2. Current(f)' = Current(f)
    BY <2>1 DEF Current
  <2>3. /\ \A i \in Id : Gone(known[f][i]) \/ (seenAt[i] # Never /\ known[f][i] <= seenAt[i])
        /\ seenAt[Current(f)] # Never /\ Expired(seenAt[Current(f)])
        /\ conf[f].store /\ Current(f) # NoId => Gone(known[f][Current(f)])
    BY <2>1 DEF Informed
  <2>4. \A i \in Id : /\ i # Current(f) => seenAt'[i] = seenAt[i]
                      /\ i = Current(f) => seenAt'[i] = Never
    BY <2>1, TypeFacts
  <2>5. ASSUME NEW i \in Id, i = Current(f)
        PROVE  Gone(markedAt[i]) /\ Gone(known[f][i])
    <3>1. seenAt[i] = markedAt[i] /\ Gone(seenAt[i]) /\ seenAt[i] # Never
      BY <2>3, <2>5 DEF Times, Gone
    <3>2. seenAt[i] \in Time /\ known[f][i] \in Time
      BY TypeFacts
    <3>3. Gone(known[f][i])
      BY <2>3, <3>1, <3>2, GoneFacts DEF Gone
    <3> QED
      BY <3>1, <3>3
  <2>6. Kept'
    BY <2>1, <2>4, <2>5 DEF Kept, Gone, Expired
  <2>7. Informed(f)'
    BY <2>1, <2>2, <2>3, <2>4, <2>5 DEF Informed, Gone, Expired
  <2> QED
    BY <2>6, <2>7
<1>9. CASE Mark(f)
  <2>1. /\ \/ seenAt' = seenAt /\ markedAt' = markedAt
           \/ /\ seenAt' = [seenAt EXCEPT ![Current(f)] = now]
              /\ markedAt' = [markedAt EXCEPT ![Current(f)] = now]
        /\ pc'[f] \in {"item", "returned"} /\ Active(f) /\ UNCHANGED <<now, known>>
    BY <1>9, TypeFacts DEF Mark, Goto, table, history, Active
  <2>2. \A i \in Id : \/ seenAt'[i] = seenAt[i] /\ markedAt'[i] = markedAt[i]
                      \/ seenAt'[i] = now /\ markedAt'[i] = now
    BY <2>1, TypeFacts
  <2>3. now \in Nat /\ now # Never
    BY TypeFacts, SourcesAssumption
  <2>4. Kept'
    BY <2>1, <2>2 DEF Kept, Gone, Expired
  <2>5. ASSUME NEW i \in Id
        PROVE  Gone(known[f][i]) \/ (seenAt'[i] # Never /\ known[f][i] <= seenAt'[i])
    <3>1. Gone(known[f][i]) \/ (seenAt[i] # Never /\ known[f][i] <= seenAt[i])
      BY <2>1 DEF Informed
    <3>2. known[f][i] # Never => known[f][i] <= now
      BY DEF Times
    <3> QED
      BY <2>2, <2>3, <3>1, <3>2 DEF Gone
  <2>6. Informed(f)'
    BY <2>1, <2>5 DEF Informed, Gone, Expired
  <2> QED
    BY <2>4, <2>6
<1> QED
  BY <1>5, <1>6, <1>7, <1>8, <1>9 DEF Step

(* The clock, the end of the process, and no step at all, too. *)
LEMMA OrderlyWorld ==
  ASSUME TypeOK, Alone, Kept, \A g \in Fetcher : Informed(g) /\ Busy(g),
         Tick \/ Restart \/ vars' = vars
  PROVE  Alone' /\ Kept' /\ \A g \in Fetcher : Informed(g)'
<1>1. CASE Tick
  <2>1. /\ now' = now + 1 /\ UNCHANGED <<conf, pc, items, seenAt, markedAt, known>>
    BY <1>1 DEF Tick, table, history
  <2>2. \A t \in Time : Gone(t) => t = Never \/ (Ttl > 0 /\ now' - t > Ttl)
    BY <2>1, GoneFacts
  <2>3. /\ \A i \in Id : seenAt[i] \in Time /\ markedAt[i] \in Time
        /\ \A g \in Fetcher : \A i \in Id : known[g][i] \in Time
    BY TypeFacts
  <2>4. Alone'
    BY <2>1 DEF Alone, Active
  <2>5. Kept'
    BY <2>1, <2>2, <2>3 DEF Kept, Gone, Expired
  <2>6. ASSUME NEW g \in Fetcher PROVE Informed(g)'
    <3>1. CASE ~Active(g)
      BY <2>1, <3>1 DEF Informed, Active
    <3>2. CASE Active(g)
      <4>1. ASSUME NEW i \in Id
            PROVE  (known[g][i] = Never \/ (Ttl > 0 /\ now' - known[g][i] > Ttl))
                     \/ (seenAt[i] # Never /\ known[g][i] <= seenAt[i])
        BY <2>2, <2>3, <3>2 DEF Informed
      <4>2. ASSUME pc[g] = "expire"
            PROVE  /\ Current(g) \in Id /\ seenAt[Current(g)] # Never
                   /\ Ttl > 0 /\ now' - seenAt[Current(g)] > Ttl
        <5>1. /\ Current(g) \in Id /\ seenAt[Current(g)] # Never
              /\ Gone(seenAt[Current(g)])
          BY <3>2, <4>2 DEF Informed, Gone
        <5> QED
          BY <2>2, <2>3, <5>1
      <4>3. ASSUME pc[g] \in {"expire", "emit"}, conf[g].store, Current(g) # NoId
            PROVE  \/ known[g][Current(g)] = Never
                   \/ Ttl > 0 /\ now' - known[g][Current(g)] > Ttl
        <5>1. Current(g) \in Id
          BY <4>3, ItemFacts DEF Busy, Item
        <5>2. Gone(known[g][Current(g)])
          BY <3>2, <4>3 DEF Informed
        <5> QED
          BY <2>2, <2>3, <5>1, <5>2
      <4>4. Current(g)' = Current(g)
        BY <2>1 DEF Current
      <4> QED
        BY <2>1, <4>1, <4>2, <4>3, <4>4 DEF Informed, Gone, Expired
    <3> QED
      BY <3>1, <3>2
  <2> QED
    BY <2>4, <2>5, <2>6
<1>2. CASE Restart
  <2>1. \A g \in Fetcher : ~Active(g)'
    BY <1>2 DEF Restart, Active
  <2>2. UNCHANGED <<now, seenAt, markedAt>>
    BY <1>2 DEF Restart, table
  <2> QED
    BY <2>1, <2>2 DEF Alone, Kept, Informed, Gone, Expired
<1>3. CASE vars' = vars
  BY <1>3 DEF vars, Alone, Kept, Informed, Gone, Expired, Active, Current
<1> QED
  BY <1>1, <1>2, <1>3

-----------------------------------------------------------------------------
(* The invariant *)

(* It holds in the beginning, when no post is marked and nobody fetches. *)
LEMMA InvInit == Init => IInv
<1> SUFFICES ASSUME Init PROVE IInv
  OBVIOUS
<1>1. TypeOK
  BY TypeInit
<1>2. /\ \A i \in Id : seenAt[i] = Never /\ markedAt[i] = Never
      /\ \A f \in Fetcher : /\ pc[f] = "idle" /\ blocks[f] = <<>>
                            /\ \A i \in Id : known[f][i] = Never
  BY DEF Init
<1>3. ASSUME NEW f \in Fetcher PROVE Busy(f) /\ Mapped(f) /\ Accounted(f)
  <2>1. Taken(f) = {} /\ IsInjective(blocks[f])
    BY <1>2 DEF Taken, IsInjective
  <2> QED
    BY <1>2, <2>1 DEF Busy, Mapped, Accounted
<1>4. Times
  BY <1>2 DEF Times
<1>5. Orderly
  BY <1>2 DEF Orderly, Alone, Kept, Informed, Active, Gone
<1> QED
  BY <1>1, <1>3, <1>4, <1>5 DEF IInv

(* Every step keeps it. *)
LEMMA InvStep ==
  ASSUME IInv, [Next]_vars
  PROVE  IInv'
<1>1. /\ TypeOK /\ Times /\ Orderly
      /\ \A f \in Fetcher : Busy(f) /\ Mapped(f) /\ Accounted(f)
  BY DEF IInv
<1>2. \A i \in Id : markedAt[i] # Never => markedAt'[i] # Never
  BY <1>1, MarksStay
<1>3. Times'
  BY <1>1, TimesStep
<1>4. ASSUME NEW f \in Fetcher, Begin(f) \/ Step(f)
      PROVE  IInv'
  <2>1. TypeOK'
    BY <1>1, <1>4, PagesTyped, PostsTyped DEF Step
  <2>2. Fixed
    BY <1>1, <1>4, StepIsOwn
  <2>3. Busy(f)' /\ Mapped(f)' /\ Accounted(f)'
    <3>1. CASE Begin(f) \/ FetchPage(f) \/ EndPage(f) \/ Return(f)
      BY <1>1, <1>2, <3>1, PagesKeep
    <3>2. CASE PassOver(f) \/ LookUp(f) \/ Expire(f) \/ Emit(f) \/ Mark(f)
      BY <1>1, <1>2, <3>2, PostsKeep
    <3> QED
      BY <1>4, <3>1, <3>2 DEF Step
  <2>4. ASSUME NEW g \in Fetcher, g # f PROVE Busy(g)' /\ Mapped(g)' /\ Accounted(g)'
    <3>1. /\ pc'[g] = pc[g] /\ items'[g] = items[g] /\ noted'[g] = noted[g]
          /\ blocks'[g] = blocks[g] /\ handled'[g] = handled[g] /\ missed'[g] = missed[g]
      BY <1>1, <1>4, <2>4, StepIsOwn
    <3> QED
      BY <1>1, <1>2, <2>2, <3>1, OthersKeep DEF Fixed
  <2>5. Orderly'
    <3>1. CASE ~world.fails /\ ~world.overlap
      BY <1>1, <1>4, <3>1, OrderlyFetch DEF Orderly
    <3>2. CASE world.fails \/ world.overlap
      BY <2>2, <3>2 DEF Orderly, Fixed
    <3> QED
      BY <3>1, <3>2
  <2> QED
    BY <1>3, <2>1, <2>3, <2>4, <2>5 DEF IInv
<1>5. CASE Tick \/ Restart \/ vars' = vars
  <2>1. TypeOK'
    BY <1>1, <1>5, WorldTyped
  <2>2. ASSUME NEW g \in Fetcher PROVE Busy(g)' /\ Mapped(g)' /\ Accounted(g)'
    <3>1. /\ pc'[g] = pc[g] \/ pc'[g] = "idle"
          /\ UNCHANGED <<conf, items, noted, blocks, handled, missed>>
      BY <1>5 DEF Tick, Restart, vars, history
    <3> QED
      BY <1>1, <1>2, <3>1, OthersKeep
  <2>3. Orderly'
    <3>0. world' = world
      BY <1>5 DEF Tick, Restart, vars
    <3>1. CASE ~world.fails /\ ~world.overlap
      BY <1>1, <1>5, <3>1, OrderlyWorld DEF Orderly
    <3>2. CASE world.fails \/ world.overlap
      BY <3>0, <3>2 DEF Orderly
    <3> QED
      BY <3>1, <3>2
  <2> QED
    BY <1>3, <2>1, <2>2, <2>3 DEF IInv
<1> QED
  BY <1>4, <1>5 DEF Next

(* So it holds in every state. *)
LEMMA InvHolds == Spec => []IInv
<1> QED
  BY InvInit, InvStep, PTL DEF Spec

-----------------------------------------------------------------------------
(* The results *)

(* The variables of the fetchers and the table keep their types, and a     *)
(* post limit is kept.                                                     *)
THEOREM SourcesTyped == Spec => []TypeOK
<1>1. IInv => TypeOK
  BY DEF IInv
<1> QED
  BY <1>1, InvHolds, PTL

(* An rss or scrape fetch takes no post twice, whatever the feeds and      *)
(* pages list, whatever becomes of the store, whoever else uses it.        *)
THEOREM TakenOnce == Spec => []NoDuplicates
<1>1. IInv => NoDuplicates
  BY DEF IInv, Mapped, NoDuplicates
<1> QED
  BY <1>1, InvHolds, PTL

(* No post is lost: each one a successful fetch came to was taken, left    *)
(* out by scrape, or had been marked before.                               *)
THEOREM NonePassedUnmarked == Spec => []NothingLost
<1>1. ASSUME IInv, NEW f \in Fetcher, pc[f] = "returned", NEW i \in handled[f]
      PROVE  Contains(blocks[f], i) \/ i \in missed[f] \/ (i # NoId /\ markedAt[i] # Never)
  <2>1. i \in Taken(f) \/ i \in missed[f] \/ (i \in Id /\ markedAt[i] # Never)
    BY <1>1 DEF IInv, Accounted
  <2> QED
    BY <2>1, SourcesAssumption DEF Taken, Contains
<1>2. IInv => NothingLost
  BY <1>1 DEF NothingLost
<1> QED
  BY <1>2, InvHolds, PTL

(* With a store that works and fetches one at a time, restarts in between, *)
(* none takes a post that was marked before it began and has not expired.  *)
THEOREM SeenAreSkipped == Spec => SkipsSeen
<1>1. ASSUME IInv, Next, ~world.fails, ~world.overlap, NEW f \in Fetcher
      PROVE  Skips(f)
  <2> SUFFICES ASSUME conf[f].store, Active(f), blocks'[f] # blocks[f], Current(f) # NoId
               PROVE  Gone(known[f][Current(f)])
    BY DEF Skips, Gone, Expired
  <2>0. TypeOK /\ Informed(f)
    BY <1>1 DEF IInv, Orderly
  <2>1. Begin(f) \/ Step(f)
    <3>1. ASSUME NEW g \in Fetcher, g # f, Begin(g) \/ Step(g) PROVE FALSE
      BY <2>0, <3>1, StepIsOwn
    <3>2. ~Tick /\ ~Restart
      BY DEF Tick, Restart
    <3> QED
      BY <1>1, <3>1, <3>2 DEF Next
  <2>2. Emit(f)
    BY <2>1 DEF Begin, Step, FetchPage, TakePage, EndPage, Return, PassOver, LookUp, Expire,
       Mark
  <2>3. pc[f] = "emit"
    BY <2>2 DEF Emit
  <2> QED
    BY <2>0, <2>3 DEF Informed
<1>2. IInv /\ [Next]_vars =>
        [~world.fails /\ ~world.overlap => \A f \in Fetcher : Skips(f)]_vars
  BY <1>1
<1> QED
  BY <1>2, InvHolds, PTL DEF Spec, SkipsSeen

-----------------------------------------------------------------------------
(***************************************************************************)
(* What sources make of the papers and files they fetch: proofs about      *)
(* module Chunking.                                                        *)
(***************************************************************************)
(* Recursion over lines and sections *)

(* Induction, for a set: what holds at 0 and goes on holds for all.        *)
LEMMA SetInduction ==
  ASSUME NEW T, 0 \in T, \A n \in Nat : n \in T => n + 1 \in T
  PROVE  Nat \subseteq T
<1> DEFINE U == {n \in Nat : n \notin T}
           R == {p \in Nat \X Nat : p[1] < p[2]}
<1>1. IsWellFoundedOn(R, Nat)
  BY NatLessThanWellFounded DEF OpToRel
<1>2. SUFFICES ASSUME U # {} PROVE FALSE
  OBVIOUS
<1>3. U \subseteq Nat
  OBVIOUS
<1> HIDE DEF R, U
<1>4. PICK x \in U : \A y \in U : ~(<<y, x>> \in R)
  BY <1>1, <1>2, <1>3, WFMin
<1> USE DEF U
<1>5. x # 0 /\ x - 1 \in Nat
  BY <1>4
<1>6. x - 1 \in U
  BY <1>5
<1>7. <<x - 1, x>> \in R
  BY <1>5 DEF R
<1> QED
  BY <1>4, <1>6, <1>7

\* f begins with b, and goes on with what F makes of a number and of its
\* value at the number before.
Recurs(f, N, b, F) == f = [n \in 0 .. N |-> IF n = 0 THEN b ELSE F[n][f[n - 1]]]

(* There is such a function up to every number, and its values are those   *)
(* that F has.                                                             *)
LEMMA RecursionExists ==
  ASSUME NEW S, NEW b \in S, NEW M \in Nat, NEW F \in [1 .. M -> [S -> S]]
  PROVE  \E f \in [0 .. M -> S] : Recurs(f, M, b, F)
<1> DEFINE T == {N \in Nat : N <= M => \E f \in [0 .. N -> S] : Recurs(f, N, b, F)}
<1>1. 0 \in T
  <2>1. [n \in 0 .. 0 |-> b] \in [0 .. 0 -> S] /\ Recurs([n \in 0 .. 0 |-> b], 0, b, F)
    BY DEF Recurs
  <2> QED
    BY <2>1
<1>2. ASSUME NEW N \in Nat, N \in T PROVE N + 1 \in T
  <2>1. SUFFICES ASSUME N + 1 <= M
                 PROVE  \E f \in [0 .. N + 1 -> S] : Recurs(f, N + 1, b, F)
    OBVIOUS
  <2>2. PICK g \in [0 .. N -> S] : Recurs(g, N, b, F)
    BY <1>2, <2>1
  <2> DEFINE h == [n \in 0 .. N + 1 |-> IF n = N + 1 THEN F[N + 1][g[N]] ELSE g[n]]
  <2>3. F[N + 1][g[N]] \in S
    BY <2>1, <2>2
  <2>4. h \in [0 .. N + 1 -> S]
    BY <2>2, <2>3
  <2>5. ASSUME NEW n \in 0 .. N + 1
        PROVE  h[n] = IF n = 0 THEN b ELSE F[n][h[n - 1]]
    <3>1. CASE n = N + 1
      <4>1. n # 0 /\ n - 1 = N /\ N # N + 1 /\ N \in 0 .. N + 1
        BY <3>1
      <4> QED
        BY <3>1, <4>1
    <3>2. CASE n \in 0 .. N
      <4>1. g[n] = IF n = 0 THEN b ELSE F[n][g[n - 1]]
        BY <2>2, <3>2 DEF Recurs
      <4>2. h[n] = g[n] /\ (n # 0 => h[n - 1] = g[n - 1])
        BY <3>2
      <4> QED
        BY <4>1, <4>2
    <3> QED
      BY <3>1, <3>2
  <2> HIDE DEF h
  <2>6. Recurs(h, N + 1, b, F)
    BY <2>4, <2>5 DEF Recurs
  <2> QED
    BY <2>4, <2>6
<1> HIDE DEF T
<1>3. Nat \subseteq T
  BY <1>1, <1>2, SetInduction
<1> QED
  BY <1>3 DEF T

(* What holds at 0, and at each number up to M if at the one before, holds  *)
(* up to M.                                                                *)
LEMMA CountingUp ==
  ASSUME NEW M \in Nat, NEW T, 0 \in T, \A n \in 1 .. M : n - 1 \in T => n \in T
  PROVE  0 .. M \subseteq T
<1> DEFINE U == {n \in Nat : n <= M => n \in T}
<1>1. 0 \in U
  OBVIOUS
<1>2. ASSUME NEW n \in Nat, n \in U PROVE n + 1 \in U
  <2>1. SUFFICES ASSUME n + 1 <= M PROVE n + 1 \in T
    OBVIOUS
  <2>2. n + 1 \in 1 .. M /\ (n + 1) - 1 = n /\ n \in T
    BY <1>2, <2>1
  <2> QED
    BY <2>2
<1> HIDE DEF U
<1>3. Nat \subseteq U
  BY <1>1, <1>2, SetInduction
<1> QED
  BY <1>3 DEF U

-----------------------------------------------------------------------------
(* Lines of texts *)

Text == Seq(Line)
NonBlank(t, n) == t[n].kind # "blank"

(* A set of positions that is not empty has a first one, and a last one if *)
(* there is a bound.                                                       *)
LEMMA FirstOf ==
  ASSUME NEW N \in Nat, NEW I \in SUBSET (1 .. N), I # {}
  PROVE  Min(I) \in I /\ \A j \in I : Min(I) <= j
<1> DEFINE R == {p \in Nat \X Nat : p[1] < p[2]}
<1>0. I \in SUBSET Nat
  OBVIOUS
<1>1. IsWellFoundedOn(R, Nat)
  BY NatLessThanWellFounded DEF OpToRel
<1> HIDE DEF R
<1>2. PICK x \in I : \A y \in I : ~(<<y, x>> \in R)
  BY <1>0, <1>1, WFMin
<1>3. ASSUME NEW y \in I PROVE x <= y
  <2>1. x \in Nat /\ y \in Nat /\ <<y, x>> \in Nat \X Nat
    OBVIOUS
  <2>2. ~(y < x)
    BY <1>2, <2>1 DEF R
  <2> QED
    BY <2>1, <2>2
<1> QED
  BY <1>3 DEF Min

LEMMA LastOf ==
  ASSUME NEW N \in Nat, NEW I \in SUBSET (1 .. N), I # {}
  PROVE  Max(I) \in I /\ \A j \in I : j <= Max(I)
<1> DEFINE R == {p \in Nat \X Nat : p[1] < p[2]}
           J == {N - i : i \in I}
<1>0. J \in SUBSET Nat /\ J # {}
  <2>1. ASSUME NEW i \in I PROVE N - i \in Nat
    OBVIOUS
  <2> QED
    BY <2>1
<1>1. IsWellFoundedOn(R, Nat)
  BY NatLessThanWellFounded DEF OpToRel
<1> HIDE DEF R, J
<1>2. PICK x \in J : \A y \in J : ~(<<y, x>> \in R)
  BY <1>0, <1>1, WFMin
<1>3. PICK i \in I : x = N - i
  BY DEF J
<1>4. ASSUME NEW j \in I PROVE j <= i
  <2>1. x \in Nat /\ N - j \in J /\ N - j \in Nat
    BY <1>0 DEF J
  <2>2. ~(N - j < x)
    BY <1>2, <2>1 DEF R
  <2> QED
    BY <1>3, <2>1, <2>2
<1>5. \E m \in I : \A j \in I : m >= j
  BY <1>4
<1>6. Max(I) \in I /\ \A j \in I : Max(I) >= j
  BY <1>5 DEF Max
<1> QED
  BY <1>6

(* A part of a sequence.                                                   *)
LEMMA PartOf ==
  ASSUME NEW S, NEW B \in Seq(S), NEW a \in 1 .. Len(B), NEW b \in 1 .. Len(B), a <= b
  PROVE  /\ SubSeq(B, a, b) \in Seq(S) /\ Len(SubSeq(B, a, b)) = b - a + 1
         /\ SubSeq(B, a, b) # <<>>
         /\ \A i \in 1 .. b - a + 1 : SubSeq(B, a, b)[i] = B[a + i - 1]
<1> DEFINE L == SubSeq(B, a, b)
           K == Len(B)
<1>1. K \in Nat /\ a \in 1 .. K /\ b \in 1 .. K
  OBVIOUS
<1>2. \A i \in a .. b : B[i] \in S
  BY <1>1
<1>3. L = [i \in 1 .. b - a + 1 |-> B[a + i - 1]]
  BY <1>1
<1>4. b - a + 1 \in Nat \ {0}
  BY <1>1
<1>5. \A i \in 1 .. b - a + 1 : a + i - 1 \in a .. b
  BY <1>1
<1> HIDE DEF L, K
<1>6. L \in Seq(S) /\ Len(L) = b - a + 1
  BY <1>2, <1>3, <1>4, <1>5
<1>7. L # <<>>
  BY <1>4, <1>6
<1> HIDE DEF L
<1>8. \A i \in 1 .. b - a + 1 : L[i] = B[a + i - 1]
  BY <1>3
<1> QED
  BY <1>6, <1>7, <1>8 DEF L

(* What is trimmed off some lines of a text is blank, and what is left     *)
(* begins and ends with lines that are not.                                *)
LEMMA TrimmedFacts ==
  ASSUME NEW t \in Text, NEW ns \in Seq(1 .. Len(t))
  PROVE  \/ /\ TrimmedLines(t, ns) = <<>>
            /\ \A i \in 1 .. Len(ns) : ~NonBlank(t, ns[i])
         \/ \E first, last \in 1 .. Len(ns) :
              /\ first <= last
              /\ TrimmedLines(t, ns) = SubSeq(ns, first, last)
              /\ NonBlank(t, ns[first]) /\ NonBlank(t, ns[last])
              /\ \A i \in 1 .. Len(ns) : NonBlank(t, ns[i]) => i \in first .. last
<1> DEFINE I == {i \in 1 .. Len(ns) : t[ns[i]].kind # "blank"}
           first == IF I # {} THEN Min(I) ELSE 0
           last == IF I # {} THEN Max(I) ELSE 0
<1>1. TrimmedLines(t, ns) = IF first = 0 THEN <<>> ELSE SubSeq(ns, first, last)
  BY DEF TrimmedLines, SelectInSeq, SelectLastInSeq
<1>2. I \in SUBSET (1 .. Len(ns)) /\ Len(ns) \in Nat
  OBVIOUS
<1>3. \A i \in 1 .. Len(ns) : i \in I <=> NonBlank(t, ns[i])
  BY DEF NonBlank
<1> HIDE DEF I
<1>4. CASE I = {}
  <2>1. TrimmedLines(t, ns) = <<>>
    BY <1>1, <1>4
  <2> QED
    BY <1>3, <1>4, <2>1
<1>5. CASE I # {}
  <2>1. first \in I /\ \A j \in I : first <= j
    BY <1>2, <1>5, FirstOf
  <2>2. last \in I /\ \A j \in I : j <= last
    BY <1>2, <1>5, LastOf
  <2> HIDE DEF first, last
  <2>3. first \in 1 .. Len(ns) /\ last \in 1 .. Len(ns) /\ first <= last /\ first # 0
    BY <1>2, <2>1, <2>2
  <2>4. TrimmedLines(t, ns) = SubSeq(ns, first, last)
    BY <1>1, <2>3
  <2>5. \A i \in 1 .. Len(ns) : NonBlank(t, ns[i]) => i \in first .. last
    BY <1>2, <1>3, <2>1, <2>2, <2>3
  <2> QED
    BY <1>3, <2>1, <2>2, <2>3, <2>4, <2>5
<1> QED
  BY <1>4, <1>5

(* The number of characters is one.                                        *)
LEMMA CharsFacts ==
  ASSUME NEW t \in Text, NEW ns \in Seq(0 .. Len(t))
  PROVE  Chars(t, ns) \in Nat
<1> DEFINE c(k) == CharsAt(t, ns, k)
           F == [k \in 1 .. Len(ns) |-> [m \in Nat |-> m + c(k)]]
           Rec(f) == f = [k \in 0 .. Len(ns) |-> IF k = 0 THEN 0 ELSE f[k - 1] + c(k)]
           sum == CHOOSE f : Rec(f)
<1>0. Len(ns) \in Nat
  OBVIOUS
<1>1. ASSUME NEW k \in 1 .. Len(ns) PROVE c(k) \in Nat
  <2>1. ns[k] \in 0 .. Len(t)
    OBVIOUS
  <2>2. ns[k] # 0 => t[ns[k]] \in Line
    BY <2>1 DEF Text
  <2>3. ns[k] # 0 => /\ t[ns[k]].chars \in Nat /\ t[ns[k]].marks \in Nat
                     /\ t[ns[k]].marks <= t[ns[k]].chars
                     /\ t[ns[k]].lead \in Nat /\ t[ns[k]].trail \in Nat
    BY <2>2 DEF Line
  <2> DEFINE line == t[ns[k]]
             before == IF k = 1 \/ (k > 2 /\ ns[k - 2] = 0) THEN 0 ELSE line.lead
             behind == IF k = Len(ns) \/ ns[k + 1] = 0 THEN 0 ELSE line.trail
  <2>4. \/ ns[k] = 0 /\ c(k) = 0
        \/ ns[k] # 0 /\ c(k) = line.chars - line.marks
        \/ ns[k] # 0 /\ c(k) = before + line.chars + behind
    BY DEF CharsAt
  <2>5. ns[k] # 0 => before \in Nat /\ behind \in Nat
    BY <2>3
  <2> HIDE DEF before, behind
  <2> QED
    BY <2>3, <2>4, <2>5
<1>2. F \in [1 .. Len(ns) -> [Nat -> Nat]]
  BY <1>1
<1>3. Chars(t, ns) = sum[Len(ns)] + IF ns = <<>> THEN 0 ELSE Len(ns) - 1
  BY DEF Chars
<1>4. PICK g \in [0 .. Len(ns) -> Nat] : Recurs(g, Len(ns), 0, F)
  BY <1>0, <1>2, RecursionExists
<1>5. Rec(g)
  <2>1. ASSUME NEW k \in 1 .. Len(ns) PROVE F[k][g[k - 1]] = g[k - 1] + c(k)
    <3>1. g[k - 1] \in Nat
      <4> HIDE DEF F, c
      <4> QED
        BY <1>0, <1>4
    <3> HIDE DEF c
    <3> QED
      BY <3>1
  <2> HIDE DEF F, c
  <2>2. \A k \in 0 .. Len(ns) :
          (IF k = 0 THEN 0 ELSE F[k][g[k - 1]]) = IF k = 0 THEN 0 ELSE g[k - 1] + c(k)
    BY <1>0, <2>1
  <2>3. g = [k \in 0 .. Len(ns) |-> IF k = 0 THEN 0 ELSE F[k][g[k - 1]]]
    BY <1>4 DEF Recurs
  <2> QED
    BY <2>2, <2>3
<1>6. Rec(sum)
  <2> HIDE DEF Rec
  <2> QED
    BY <1>5
<1> HIDE DEF sum, c
<1>7. sum[0] = 0 /\ \A k \in 1 .. Len(ns) : sum[k] = sum[k - 1] + c(k)
  <2>1. \A k \in 0 .. Len(ns) : sum[k] = IF k = 0 THEN 0 ELSE sum[k - 1] + c(k)
    BY <1>6
  <2> QED
    BY <1>0, <2>1
<1> DEFINE T == {k \in Nat : sum[k] \in Nat}
<1>8. 0 .. Len(ns) \subseteq T
  <2>1. 0 \in T
    BY <1>7
  <2>2. ASSUME NEW k \in 1 .. Len(ns), k - 1 \in T PROVE k \in T
    <3>1. sum[k - 1] \in Nat /\ c(k) \in Nat /\ sum[k] = sum[k - 1] + c(k)
      BY <1>1, <1>7, <2>2
    <3> QED
      BY <3>1
  <2> HIDE DEF T
  <2> QED
    BY <1>0, <2>1, <2>2, CountingUp
<1>9. sum[Len(ns)] \in Nat
  BY <1>0, <1>8
<1>10. ns # <<>> => Len(ns) - 1 \in Nat
  OBVIOUS
<1> QED
  BY <1>3, <1>9, <1>10

\* How far the characters of a line and of those before it go.
Ends(t, n) == LineEnds(t)[n]
Width(line) == line.lead + line.chars + line.trail + 1

(* Lines are behind each other.                                            *)
LEMMA EndsFacts ==
  ASSUME NEW t \in Text
  PROVE  /\ Ends(t, 0) = 0 /\ \A n \in 0 .. Len(t) : Ends(t, n) \in Nat
         /\ \A n \in 1 .. Len(t) : Ends(t, n) = Ends(t, n - 1) + Width(t[n])
         /\ \A n \in 1 .. Len(t) : Ends(t, n) <= Ends(t, Len(t))
<1> DEFINE N == Len(t)
           c(n) == Width(t[n])
           F == [n \in 1 .. N |-> [m \in Nat |-> m + c(n)]]
           Rec(f) == f = [n \in 0 .. N |-> IF n = 0 THEN 0 ELSE f[n - 1] + c(n)]
           ends == CHOOSE f : Rec(f)
<1>0. N \in Nat
  BY DEF Text
<1>1. ASSUME NEW n \in 1 .. N PROVE c(n) \in Nat
  <2>1. t[n] \in Line
    BY DEF Text
  <2> QED
    BY <2>1 DEF Line, Width
<1>2. F \in [1 .. N -> [Nat -> Nat]]
  BY <1>1
<1>3. LineEnds(t) = ends
  BY DEF LineEnds, Width
<1>4. PICK g \in [0 .. N -> Nat] : Recurs(g, N, 0, F)
  BY <1>0, <1>2, RecursionExists
<1>5. Rec(g)
  <2>1. ASSUME NEW n \in 1 .. N PROVE F[n][g[n - 1]] = g[n - 1] + c(n)
    <3>1. g[n - 1] \in Nat
      <4> HIDE DEF F, c, N
      <4> QED
        BY <1>0, <1>4
    <3> HIDE DEF c
    <3> QED
      BY <3>1
  <2> HIDE DEF F, c, N
  <2>2. \A n \in 0 .. N :
          (IF n = 0 THEN 0 ELSE F[n][g[n - 1]]) = IF n = 0 THEN 0 ELSE g[n - 1] + c(n)
    BY <1>0, <2>1
  <2>3. g = [n \in 0 .. N |-> IF n = 0 THEN 0 ELSE F[n][g[n - 1]]]
    BY <1>4 DEF Recurs
  <2> QED
    BY <2>2, <2>3
<1>6. Rec(ends)
  <2> HIDE DEF Rec
  <2> QED
    BY <1>5
<1> HIDE DEF ends, c, N
<1>7. ends[0] = 0 /\ \A n \in 1 .. N : ends[n] = ends[n - 1] + c(n)
  <2>1. \A n \in 0 .. N : ends[n] = IF n = 0 THEN 0 ELSE ends[n - 1] + c(n)
    BY <1>6
  <2> QED
    BY <1>0, <2>1
<1> DEFINE T == {n \in Nat : ends[n] \in Nat
                             /\ \A m \in 1 .. n : ends[m] \in Nat /\ ends[m] <= ends[n]}
<1>8. 0 .. N \subseteq T
  <2>1. 0 \in T
    BY <1>7
  <2>2. ASSUME NEW n \in 1 .. N, n - 1 \in T PROVE n \in T
    <3>1. /\ n \in Nat /\ ends[n - 1] \in Nat /\ c(n) \in Nat /\ ends[n] = ends[n - 1] + c(n)
          /\ \A m \in 1 .. n - 1 : ends[m] \in Nat /\ ends[m] <= ends[n - 1]
      BY <1>0, <1>1, <1>7, <2>2
    <3>2. \A m \in 1 .. n - 1 : ends[m] \in Nat /\ ends[m] <= ends[n]
      BY <3>1
    <3>3. \A m \in 1 .. n : m = n \/ m \in 1 .. n - 1
      BY <3>1
    <3> QED
      BY <3>1, <3>2, <3>3
  <2> HIDE DEF T
  <2> QED
    BY <1>0, <2>1, <2>2, CountingUp
<1>9. /\ \A n \in 0 .. N : ends[n] \in Nat
      /\ \A n \in 1 .. N : ends[n] <= ends[N]
  BY <1>0, <1>8
<1> QED
  BY <1>3, <1>7, <1>9 DEF Ends, c, N

(* The size of a text is a number.  What is no white space is in it, and a *)
(* text without characters tells nothing.                                  *)
LEMMA SizeFacts ==
  ASSUME NEW t \in Text
  PROVE  /\ Size(t) \in Nat /\ Ink(t) \subseteq 1 .. Size(t)
         /\ \A n \in DOMAIN t : t[n].chars # 0 => Size(t) # 0
<1> DEFINE N == Len(t)
           e(n) == Ends(t, n)
<1>0. N \in Nat /\ DOMAIN t = 1 .. N /\ (t = <<>> <=> N = 0)
  BY DEF Text
<1>1. /\ e(0) = 0 /\ \A n \in 0 .. N : e(n) \in Nat
      /\ \A n \in 1 .. N : e(n) = e(n - 1) + Width(t[n])
      /\ \A n \in 1 .. N : e(n) <= e(N)
  BY EndsFacts
<1>2. Size(t) = IF N = 0 THEN 0 ELSE e(N) - 1
  BY <1>0 DEF Size, Ends
<1>3. Ink(t) =
        UNION {{e(n - 1) + t[n].lead + p : p \in (1 .. t[n].chars) \ t[n].gaps} : n \in 1 .. N}
  BY <1>0 DEF Ink, Ends
<1> HIDE DEF e, N
<1>4. ASSUME NEW n \in 1 .. N
      PROVE  /\ t[n].lead \in Nat /\ t[n].chars \in Nat /\ t[n].trail \in Nat
             /\ e(n - 1) \in Nat /\ Size(t) \in Nat
             /\ e(n - 1) + t[n].lead + t[n].chars <= Size(t)
  <2>1. t[n] \in Line
    BY <1>0 DEF Text, N
  <2>2. t[n].lead \in Nat /\ t[n].chars \in Nat /\ t[n].trail \in Nat
    BY <2>1 DEF Line
  <2>3. n - 1 \in 0 .. N /\ n \in 0 .. N /\ N \in 0 .. N /\ N # 0
    BY <1>0
  <2>4. /\ e(n - 1) \in Nat /\ e(N) \in Nat /\ e(n) <= e(N)
        /\ e(n) = e(n - 1) + (t[n].lead + t[n].chars + t[n].trail + 1)
    BY <1>1, <2>3 DEF Width
  <2> QED
    BY <1>2, <2>2, <2>3, <2>4
<1>5. Size(t) \in Nat
  <2>1. CASE N = 0
    BY <1>2, <2>1
  <2>2. CASE N # 0
    <3>1. N \in 1 .. N
      BY <1>0, <2>2
    <3> QED
      BY <1>4, <3>1
  <2> QED
    BY <2>1, <2>2
<1>6. ASSUME NEW q \in Ink(t) PROVE q \in 1 .. Size(t)
  <2>1. PICK n \in 1 .. N : \E p \in 1 .. t[n].chars : q = e(n - 1) + t[n].lead + p
    BY <1>3
  <2>2. PICK p \in 1 .. t[n].chars : q = e(n - 1) + t[n].lead + p
    BY <2>1
  <2> QED
    BY <1>4, <1>5, <2>2
<1>7. ASSUME NEW n \in 1 .. N, t[n].chars # 0 PROVE Size(t) # 0
  BY <1>4, <1>7
<1> QED
  BY <1>0, <1>5, <1>6, <1>7

-----------------------------------------------------------------------------
(* Splitting *)

SectionOf(t) == [title : 0 .. Len(t), lines : Seq(1 .. Len(t))]
LastLine(s) == s.lines[Len(s.lines)]

\* A section has the lines under its heading, from one that is not blank to
\* another, and none of them is a heading.
GoodSection(t, s) ==
  /\ s \in SectionOf(t) /\ s.lines # <<>>
  /\ \A i \in 1 .. Len(s.lines) : s.lines[i] = s.lines[1] + i - 1
  /\ s.title < s.lines[1] /\ NonBlank(t, s.lines[1])
  /\ \A m \in s.title + 1 .. LastLine(s) : ~Heading(t[m])
  /\ s.title # 0 => Heading(t[s.title])

\* Sections of the first n lines: good ones, one behind the other, with every
\* line of text.
SplitInto(t, ss, n) ==
  /\ ss \in Seq(SectionOf(t))
  /\ \A k \in 1 .. Len(ss) : GoodSection(t, ss[k]) /\ LastLine(ss[k]) <= n
  /\ \A k, l \in 1 .. Len(ss) : k < l => LastLine(ss[k]) < ss[l].title
  /\ \A m \in 1 .. n : NonBlank(t, m) /\ ~Heading(t[m]) =>
       \E k \in 1 .. Len(ss) : \E i \in 1 .. Len(ss[k].lines) : m = ss[k].lines[i]

Progress(t) == [sections : Seq(SectionOf(t)), title : 0 .. Len(t), buffer : Seq(1 .. Len(t))]

\* How far splitSections has come with n lines: the buffer has those behind
\* the last heading.
ReadSoFar(t, n, q) ==
  /\ q \in Progress(t) /\ q.title <= n
  /\ Len(q.buffer) = n - q.title
  /\ \A i \in 1 .. Len(q.buffer) : q.buffer[i] = q.title + i
  /\ \A m \in q.title + 1 .. n : ~Heading(t[m])
  /\ q.title # 0 => Heading(t[q.title])
  /\ SplitInto(t, q.sections, q.title - 1)

\* What is left of the lines B behind a heading when they are trimmed.
KeptLines(t, title, B, first, last, s) ==
  /\ title \in 0 .. Len(t) /\ B \in Seq(1 .. Len(t))
  /\ \A i \in 1 .. Len(B) : B[i] = title + i
  /\ \A m \in title + 1 .. title + Len(B) : ~Heading(t[m])
  /\ title # 0 => Heading(t[title])
  /\ first \in 1 .. Len(B) /\ last \in 1 .. Len(B) /\ first <= last
  /\ NonBlank(t, B[first])
  /\ s = [title |-> title, lines |-> SubSeq(B, first, last)]

(* It is a section.                                                        *)
LEMMA BufferIsSection ==
  ASSUME NEW t \in Text, NEW title, NEW B, NEW first, NEW last, NEW s,
         KeptLines(t, title, B, first, last, s)
  PROVE  /\ GoodSection(t, s) /\ LastLine(s) = title + last
         /\ Len(s.lines) = last - first + 1
         /\ \A i \in 1 .. Len(s.lines) : s.lines[i] = title + first + i - 1
<1> USE DEF KeptLines
<1> DEFINE L == SubSeq(B, first, last)
           N == Len(t)
           K == Len(B)
<1>0. N \in Nat /\ K \in Nat /\ title \in 0 .. N /\ first \in 1 .. K /\ last \in 1 .. K
  BY DEF Text
<1>1. \A i \in 1 .. K : B[i] = title + i
  OBVIOUS
<1>2. /\ L \in Seq(1 .. N) /\ Len(L) = last - first + 1
      /\ \A i \in 1 .. last - first + 1 : L[i] = B[first + i - 1]
  BY PartOf
<1>3. \A m \in title + 1 .. title + K : ~Heading(t[m])
  OBVIOUS
<1> HIDE DEF L, N, K
<1>4. ASSUME NEW i \in 1 .. Len(L) PROVE L[i] = title + first + i - 1
  <2>1. first + i - 1 \in 1 .. K /\ i \in 1 .. last - first + 1
    BY <1>0, <1>2
  <2>2. L[i] = title + (first + i - 1)
    BY <1>1, <1>2, <2>1
  <2> QED
    BY <1>0, <2>1, <2>2
<1>5. Len(L) \in Nat \ {0} /\ 1 \in 1 .. Len(L) /\ Len(L) \in 1 .. Len(L)
  BY <1>0, <1>2
<1>6. L[1] = title + first /\ L[Len(L)] = title + last
  <2>1. L[1] = title + first + 1 - 1 /\ L[Len(L)] = title + first + Len(L) - 1
    BY <1>4, <1>5
  <2> QED
    BY <1>0, <1>2, <2>1
<1>7. s.title = title /\ s.lines = L /\ s \in SectionOf(t)
  BY <1>0, <1>2 DEF SectionOf, N, L
<1>8. NonBlank(t, L[1])
  BY <1>0, <1>1, <1>6
<1>9. \A m \in title + 1 .. title + last : ~Heading(t[m])
  BY <1>0, <1>3
<1>10. \A i \in 1 .. Len(L) : L[i] = L[1] + i - 1
  BY <1>0, <1>2, <1>4, <1>6
<1>11. L # <<>> /\ title < L[1]
  BY <1>0, <1>5, <1>6
<1>12. LastLine(s) = title + last /\ Len(s.lines) = last - first + 1
  BY <1>2, <1>6, <1>7 DEF LastLine
<1>13. GoodSection(t, s)
  BY <1>6, <1>7, <1>8, <1>9, <1>10, <1>11, <1>12 DEF GoodSection
<1>14. \A i \in 1 .. Len(s.lines) : s.lines[i] = title + first + i - 1
  BY <1>4, <1>7
<1> QED
  BY <1>12, <1>13, <1>14 DEF L

(* The last line of a section is one of the text, behind its heading.      *)
LEMMA LastLineFacts ==
  ASSUME NEW t \in Text, NEW s, GoodSection(t, s)
  PROVE  /\ LastLine(s) \in 1 .. Len(t) /\ s.title \in 0 .. Len(t) /\ s.title < LastLine(s)
         /\ Len(s.lines) \in Nat \ {0} /\ s.lines[1] \in 1 .. Len(t)
         /\ \A i \in 1 .. Len(s.lines) : s.lines[i] \in s.title + 1 .. LastLine(s)
<1> DEFINE L == s.lines
           K == Len(L)
           N == Len(t)
           T == s.title
<1>1. /\ L \in Seq(1 .. N) /\ L # <<>> /\ T \in 0 .. N /\ N \in Nat
      /\ \A i \in 1 .. K : L[i] = L[1] + i - 1
      /\ T < L[1] /\ LastLine(s) = L[K]
  BY DEF GoodSection, SectionOf, Text, LastLine
<1> HIDE DEF L, T, N
<1>2. K \in Nat \ {0}
  BY <1>1
<1>3. \A i \in 1 .. K : L[i] \in 1 .. N
  BY <1>1, <1>2
<1> HIDE DEF K
<1>4. 1 \in 1 .. K /\ K \in 1 .. K
  BY <1>2
<1>5. L[1] \in 1 .. N /\ L[K] \in 1 .. N /\ L[K] = L[1] + K - 1
  BY <1>1, <1>3, <1>4
<1>6. \A i \in 1 .. K : L[i] \in T + 1 .. L[K]
  <2> SUFFICES ASSUME NEW i \in 1 .. K PROVE L[i] \in T + 1 .. L[K]
    OBVIOUS
  <2> DEFINE a == L[1]
             z == L[K]
  <2>1. L[i] = a + i - 1 /\ a \in Nat /\ z = a + K - 1 /\ T \in Nat /\ T < a
    BY <1>1, <1>5
  <2> HIDE DEF a, z
  <2>2. L[i] \in T + 1 .. z
    BY <1>2, <2>1
  <2> QED
    BY <2>2 DEF z
<1>7. T < L[K]
  BY <1>1, <1>2, <1>5
<1> QED
  BY <1>1, <1>2, <1>5, <1>6, <1>7 DEF L, T, N, K

(* flush makes of what is read so far all sections there are.              *)
LEMMA FlushFacts ==
  ASSUME NEW t \in Text, NEW n \in 0 .. Len(t), NEW q, ReadSoFar(t, n, q)
  PROVE  /\ Flush(t, q) \in Progress(t) /\ Flush(t, q).buffer = <<>>
         /\ SplitInto(t, Flush(t, q).sections, n)
<1> DEFINE B == q.buffer
           T == q.title
           K == Len(B)
           lines == TrimmedLines(t, B)
           S == SectionOf(t)
           ss == q.sections
           new == [title |-> T, lines |-> lines]
           f == Flush(t, q)
<1>0. /\ Len(t) \in Nat /\ n \in 0 .. Len(t) /\ B \in Seq(1 .. Len(t))
      /\ T \in 0 .. n /\ T \in 0 .. Len(t) /\ ss \in Seq(S) /\ K \in Nat
      /\ K = n - T /\ SplitInto(t, ss, T - 1)
      /\ \A i \in 1 .. K : B[i] = T + i
      /\ T # 0 => Heading(t[T])
      /\ \A m \in T + 1 .. n : ~Heading(t[m])
  BY DEF ReadSoFar, Progress, Text
<1>1. /\ q = [sections |-> ss, title |-> T, buffer |-> B]
      /\ f = [q EXCEPT !.buffer = <<>>,
                       !.sections = IF lines = <<>> THEN ss ELSE Append(ss, new)]
  BY DEF ReadSoFar, Progress, Flush
<1> HIDE DEF T, B, ss, S
<1>2. f = [sections |-> IF lines = <<>> THEN ss ELSE Append(ss, new),
           title |-> T, buffer |-> <<>>]
  BY <1>1
<1> HIDE DEF f
<1>a. /\ f.sections = IF lines = <<>> THEN ss ELSE Append(ss, new)
      /\ f.buffer = <<>>
      /\ \A all \in Seq(S) : f.sections = all => f \in Progress(t)
  BY <1>0, <1>2 DEF Progress, S
<1>b. ASSUME NEW k \in 1 .. Len(ss)
      PROVE  /\ GoodSection(t, ss[k]) /\ LastLine(ss[k]) \in Nat
             /\ LastLine(ss[k]) < T /\ LastLine(ss[k]) <= n
  <2>1. LastLine(ss[k]) <= T - 1 /\ GoodSection(t, ss[k])
    BY <1>0 DEF SplitInto
  <2>2. LastLine(ss[k]) \in Nat
    BY <2>1, <1>0, LastLineFacts
  <2> QED
    BY <1>0, <2>1, <2>2
<1>c. ASSUME NEW m \in T + 1 .. n
      PROVE  m - T \in 1 .. K /\ B[m - T] = m
  <2> HIDE DEF K
  <2>1. m - T \in 1 .. K
    BY <1>0
  <2>2. B[m - T] = T + (m - T)
    BY <1>0, <2>1
  <2> QED
    BY <1>0, <2>1, <2>2
<1>d. ASSUME NEW m \in 1 .. n, ~Heading(t[m])
      PROVE  m \in T + 1 .. n \/ m \in 1 .. T - 1
  <2>1. m # T
    BY <1>0, <1>d
  <2> QED
    BY <1>0, <2>1
<1>3. CASE lines = <<>>
  <2>1. \A i \in 1 .. K : ~NonBlank(t, B[i])
    <3>1. ASSUME NEW a \in 1 .. Len(B), NEW b \in 1 .. Len(B), a <= b
          PROVE  SubSeq(B, a, b) # <<>>
      BY <1>0, <3>1, PartOf
    <3>2. B \in Seq(1 .. Len(t))
      BY <1>0
    <3> QED
      BY <1>3, <3>1, <3>2, TrimmedFacts
  <2>2. f.sections = ss /\ f.buffer = <<>> /\ f \in Progress(t)
    BY <1>0, <1>a, <1>3
  <2>3. ASSUME NEW m \in 1 .. n, NonBlank(t, m), ~Heading(t[m])
        PROVE  m \in 1 .. T - 1
    <3>1. m \notin T + 1 .. n
      BY <1>c, <2>1, <2>3
    <3> QED
      BY <1>d, <2>3, <3>1
  <2>4. SplitInto(t, ss, n)
    BY <1>0, <1>b, <2>3 DEF SplitInto, S
  <2> QED
    BY <2>2, <2>4 DEF f
<1>4. CASE lines # <<>>
  <2>1. PICK first \in 1 .. Len(B), last \in 1 .. Len(B) :
          /\ first <= last /\ lines = SubSeq(B, first, last)
          /\ NonBlank(t, B[first])
          /\ \A i \in 1 .. Len(B) : NonBlank(t, B[i]) => i \in first .. last
    <3>1. B \in Seq(1 .. Len(t))
      BY <1>0
    <3> QED
      BY <1>4, <3>1, TrimmedFacts
  <2>2. /\ GoodSection(t, new) /\ LastLine(new) = T + last
        /\ Len(new.lines) = last - first + 1
        /\ \A i \in 1 .. Len(new.lines) : new.lines[i] = T + first + i - 1
    <3>1. \A m \in T + 1 .. T + Len(B) : ~Heading(t[m])
      <4>1. T + Len(B) = n
        BY <1>0
      <4> QED
        BY <1>0, <4>1
    <3>2. /\ T \in 0 .. Len(t) /\ B \in Seq(1 .. Len(t))
          /\ \A i \in 1 .. Len(B) : B[i] = T + i
          /\ T # 0 => Heading(t[T])
      BY <1>0
    <3>3. new = [title |-> T, lines |-> SubSeq(B, first, last)]
      BY <2>1
    <3>4. first <= last /\ NonBlank(t, B[first])
      BY <2>1
    <3> HIDE DEF new, K, lines
    <3>5. KeptLines(t, T, B, first, last, new)
      BY <3>1, <3>2, <3>3, <3>4 DEF KeptLines
    <3> QED
      BY <3>5, BufferIsSection
  <2>3. new \in S
    BY <2>2 DEF GoodSection, S
  <2> DEFINE all == Append(ss, new)
             M == Len(ss)
  <2>4. /\ all \in Seq(S) /\ M \in Nat /\ Len(all) = M + 1
        /\ \A k \in 1 .. M : all[k] = ss[k]
        /\ all[M + 1] = new /\ new.title = T
    BY <1>0, <2>3
  <2>5. f.sections = all /\ f.buffer = <<>> /\ f \in Progress(t)
    BY <1>a, <1>4, <2>4
  <2> HIDE DEF all, new, K, lines
  <2>8. T + last <= n
    BY <1>0, <2>1 DEF K
  <2>9. ASSUME NEW k \in 1 .. Len(all)
        PROVE  GoodSection(t, all[k]) /\ LastLine(all[k]) <= n
    <3> HIDE DEF M
    <3>1. CASE k \in 1 .. M
      BY <1>b, <2>4, <3>1 DEF M
    <3>2. CASE k = M + 1
      BY <2>2, <2>4, <2>8, <3>2
    <3> QED
      BY <2>4, <3>1, <3>2
  <2>11. ASSUME NEW k \in 1 .. Len(all), NEW l \in 1 .. Len(all), k < l
         PROVE  LastLine(all[k]) < all[l].title
    <3>0. M \in Nat /\ k \in 1 .. M + 1 /\ l \in 1 .. M + 1
      BY <2>4
    <3> HIDE DEF M
    <3>1. k \in 1 .. M /\ (l \in 1 .. M \/ l = M + 1)
      BY <2>11, <3>0
    <3>2. CASE l \in 1 .. M
      BY <1>0, <2>4, <2>11, <3>1, <3>2 DEF SplitInto, M
    <3>3. CASE l = M + 1
      BY <1>b, <2>4, <3>1, <3>3 DEF M
    <3> QED
      BY <3>1, <3>2, <3>3
  <2>12. ASSUME NEW m \in 1 .. n, NonBlank(t, m), ~Heading(t[m])
         PROVE  \E k \in 1 .. Len(all) : \E i \in 1 .. Len(all[k].lines) : m = all[k].lines[i]
    <3>1. CASE m \in T + 1 .. n
      <4>1. m - T \in 1 .. Len(B) /\ B[m - T] = m
        BY <1>c, <3>1 DEF K
      <4>2. m - T \in first .. last
        BY <2>1, <2>12, <4>1
      <4> DEFINE i == m - T - first + 1
      <4>3. i \in 1 .. last - first + 1 /\ T + first + i - 1 = m
        BY <1>0, <2>1, <4>2
      <4> HIDE DEF i
      <4>4. i \in 1 .. Len(new.lines) /\ m = new.lines[i]
        BY <2>2, <4>3
      <4>5. M + 1 \in 1 .. Len(all)
        BY <2>4
      <4> QED
        BY <2>4, <4>4, <4>5
    <3>2. CASE m \in 1 .. T - 1
      <4>1. PICK k \in 1 .. Len(ss) : \E i \in 1 .. Len(ss[k].lines) : m = ss[k].lines[i]
        BY <1>0, <2>12, <3>2 DEF SplitInto
      <4>2. k \in 1 .. Len(all) /\ all[k] = ss[k]
        BY <2>4
      <4> QED
        BY <4>1, <4>2
    <3> QED
      BY <1>d, <2>12, <3>1, <3>2
  <2>13. SplitInto(t, all, n)
    BY <2>4, <2>9, <2>11, <2>12 DEF SplitInto, S
  <2> QED
    BY <2>5, <2>13 DEF f
<1> QED
  BY <1>3, <1>4

(* flush, of whatever is read.                                             *)
LEMMA FlushTyped ==
  ASSUME NEW t \in Text, NEW q \in Progress(t)
  PROVE  Flush(t, q) \in Progress(t)
<1> DEFINE B == q.buffer
           lines == TrimmedLines(t, B)
           new == [title |-> q.title, lines |-> lines]
<1>1. /\ B \in Seq(1 .. Len(t)) /\ q.sections \in Seq(SectionOf(t)) /\ q.title \in 0 .. Len(t)
      /\ Flush(t, q) = [sections |-> IF lines = <<>> THEN q.sections
                                           ELSE Append(q.sections, new),
                              title |-> q.title, buffer |-> <<>>]
  <2>1. q = [sections |-> q.sections, title |-> q.title, buffer |-> q.buffer]
    BY DEF Progress
  <2>2. Flush(t, q) = [q EXCEPT !.buffer = <<>>,
               !.sections = IF lines = <<>> THEN q.sections ELSE Append(q.sections, new)]
    BY DEF Flush
  <2>3. q.buffer \in Seq(1 .. Len(t)) /\ q.sections \in Seq(SectionOf(t)) /\ q.title \in 0 .. Len(t)
    BY DEF Progress
  <2> HIDE DEF lines, new
  <2> QED
    BY <2>1, <2>2, <2>3
<1> HIDE DEF B
<1>2. lines \in Seq(1 .. Len(t))
  <2>1. CASE lines = <<>>
    BY <2>1
  <2>2. ASSUME NEW first \in 1 .. Len(B), NEW last \in 1 .. Len(B), first <= last,
               lines = SubSeq(B, first, last)
        PROVE  lines \in Seq(1 .. Len(t))
    BY <1>1, <2>2, PartOf
  <2> QED
    BY <1>1, <2>1, <2>2, TrimmedFacts
<1> HIDE DEF lines
<1>3. new \in SectionOf(t)
  BY <1>1, <1>2 DEF SectionOf
<1> HIDE DEF new
<1> QED
  BY <1>1, <1>3 DEF Progress

\* What splitSections makes of what it knows, of a line and of nothing yet.
ReadOn(t, n, q) ==
  IF Heading(t[n]) THEN [Flush(t, q) EXCEPT !.title = n]
  ELSE [q EXCEPT !.buffer = Append(@, n)]
Unread == [sections |-> <<>>, title |-> 0, buffer |-> <<>>]

(* It goes on as it should, line by line.                                  *)
LEMMA ReadOnFacts ==
  ASSUME NEW t \in Text, NEW n \in 1 .. Len(t), NEW q, ReadSoFar(t, n - 1, q)
  PROVE  ReadSoFar(t, n, ReadOn(t, n, q))
<1> DEFINE N == Len(t)
           f == Flush(t, q)
           r == ReadOn(t, n, q)
<1>0. N \in Nat /\ n \in 1 .. N /\ n - 1 \in 0 .. N
  BY DEF Text
<1>1. CASE Heading(t[n])
  <2>1. /\ f \in Progress(t) /\ f.buffer = <<>> /\ SplitInto(t, f.sections, n - 1)
    BY <1>0, FlushFacts
  <2>2. r = [f EXCEPT !.title = n]
    BY <1>1 DEF ReadOn
  <2> HIDE DEF f, r, N
  <2>3. r \in Progress(t) /\ r.title = n /\ r.buffer = <<>> /\ r.sections = f.sections
    BY <1>0, <2>1, <2>2 DEF Progress, N
  <2>4. Len(r.buffer) = n - r.title /\ r.title <= n
    BY <1>0, <2>3
  <2>5. \A m \in r.title + 1 .. n : FALSE
    BY <1>0, <2>3
  <2> HIDE DEF N
  <2>6. ReadSoFar(t, n, r)
    BY <1>0, <1>1, <2>1, <2>3, <2>4, <2>5 DEF ReadSoFar
  <2> QED
    BY <2>6 DEF r
<1>2. CASE ~Heading(t[n])
  <2> DEFINE B == q.buffer
             T == q.title
             A == Append(B, n)
  <2>1. /\ q \in Progress(t) /\ T \in 0 .. N /\ T <= n - 1 /\ B \in Seq(1 .. N)
        /\ Len(B) = n - 1 - T
        /\ \A i \in 1 .. Len(B) : B[i] = T + i
        /\ \A m \in T + 1 .. n - 1 : ~Heading(t[m])
        /\ T # 0 => Heading(t[T])
        /\ SplitInto(t, q.sections, T - 1)
    BY DEF ReadSoFar, Progress
  <2>2. r = [q EXCEPT !.buffer = A]
    BY <1>2 DEF ReadOn
  <2>3. r \in Progress(t) /\ r.buffer = A /\ r.title = T /\ r.sections = q.sections
    <3>1. A \in Seq(1 .. N)
      BY <1>0, <2>1
    <3> HIDE DEF A, r
    <3> QED
      BY <2>1, <2>2, <3>1 DEF Progress
  <2> HIDE DEF B, T, N, r
  <2>4. /\ Len(A) = Len(B) + 1 /\ Len(B) \in Nat
        /\ \A i \in 1 .. Len(B) : A[i] = B[i]
        /\ A[Len(B) + 1] = n
    BY <1>0, <2>1
  <2> DEFINE K == Len(B)
  <2> HIDE DEF A, K
  <2>5. Len(A) = n - T
    BY <1>0, <2>1, <2>4
  <2>6. ASSUME NEW i \in 1 .. Len(A) PROVE A[i] = T + i
    <3>0. K \in Nat /\ Len(A) = K + 1 /\ K = n - 1 - T
      BY <2>1, <2>4 DEF K
    <3>1. CASE i \in 1 .. K
      BY <2>1, <2>4, <3>1 DEF K
    <3>2. CASE i = K + 1
      <4>1. A[i] = n
        BY <2>4, <3>2 DEF K
      <4>2. T + i = n
        BY <1>0, <2>1, <3>0, <3>2
      <4> QED
        BY <4>1, <4>2
    <3> QED
      BY <3>0, <3>1, <3>2
  <2>7. \A m \in T + 1 .. n : ~Heading(t[m])
    <3>1. \A m \in T + 1 .. n : m = n \/ m \in T + 1 .. n - 1
      BY <1>0, <2>1
    <3> QED
      BY <1>2, <2>1, <3>1
  <2>8. T <= n
    BY <1>0, <2>1
  <2>9. ReadSoFar(t, n, r)
    BY <2>1, <2>3, <2>5, <2>6, <2>7, <2>8 DEF ReadSoFar
  <2> QED
    BY <2>9 DEF r
<1> QED
  BY <1>1, <1>2

(* splitSections reads to the end, and has then all sections there are.    *)
LEMMA SplitFacts ==
  ASSUME NEW t \in Text
  PROVE  SplitInto(t, SplitSections(t), Len(t))
<1> DEFINE N == Len(t)
           P == Progress(t)
           F == [n \in 1 .. N |-> [q \in P |-> ReadOn(t, n, q)]]
           Rec(f) == f = [n \in 0 .. N |->
             IF n = 0 THEN [sections |-> <<>>, title |-> 0, buffer |-> <<>>]
             ELSE IF Heading(t[n]) THEN [Flush(t, f[n - 1]) EXCEPT !.title = n]
             ELSE [f[n - 1] EXCEPT !.buffer = Append(@, n)]]
           read == CHOOSE f : Rec(f)
<1>0. N \in Nat
  BY DEF Text
<1>1. ASSUME NEW n \in 1 .. N, NEW q \in P PROVE ReadOn(t, n, q) \in P
  <2>1. Flush(t, q) \in P
    BY FlushTyped
  <2>2. Append(q.buffer, n) \in Seq(1 .. Len(t))
    BY DEF Progress
  <2>3. n \in 0 .. Len(t)
    BY <1>0
  <2> QED
    BY <2>1, <2>2, <2>3 DEF Progress, ReadOn
<1>2. F \in [1 .. N -> [P -> P]]
  BY <1>1
<1>3. Unread \in P
  BY <1>0 DEF Progress, Unread
<1>4. PICK g \in [0 .. N -> P] : Recurs(g, N, Unread, F)
  <2> HIDE DEF N, P, F
  <2> QED
    BY <1>0, <1>2, <1>3, RecursionExists
<1>5. Rec(g)
  <2>1. ASSUME NEW n \in 1 .. N PROVE F[n][g[n - 1]] = ReadOn(t, n, g[n - 1])
    <3>1. g[n - 1] \in P
      <4> HIDE DEF P, F, N
      <4> QED
        BY <1>0, <1>4
    <3> HIDE DEF P, N
    <3> QED
      BY <3>1
  <2>2. g = [n \in 0 .. N |-> IF n = 0 THEN Unread ELSE F[n][g[n - 1]]]
    BY <1>4 DEF Recurs
  <2> HIDE DEF F
  <2>3. \A n \in 0 .. N : (IF n = 0 THEN Unread ELSE F[n][g[n - 1]])
                          = IF n = 0 THEN Unread ELSE ReadOn(t, n, g[n - 1])
    BY <1>0, <2>1
  <2>4. g = [n \in 0 .. N |-> IF n = 0 THEN Unread ELSE ReadOn(t, n, g[n - 1])]
    BY <2>2, <2>3
  <2> QED
    BY <2>4 DEF ReadOn, Unread
<1>6. Rec(read)
  <2> HIDE DEF Rec
  <2> QED
    BY <1>5
<1>7. SplitUpTo(t) = read
  BY DEF SplitUpTo
<1> HIDE DEF read
<1>8. read[0] = Unread /\ \A n \in 1 .. N : read[n] = ReadOn(t, n, read[n - 1])
  <2>1. \A n \in 0 .. N : read[n] = IF n = 0 THEN Unread ELSE ReadOn(t, n, read[n - 1])
    BY <1>6 DEF ReadOn, Unread
  <2> QED
    BY <1>0, <2>1
<1> DEFINE T == {n \in Nat : ReadSoFar(t, n, read[n])}
<1> HIDE DEF N, P, F, Rec
<1>9. 0 .. N \subseteq T
  <2>1. 0 \in T
    <3>1. ReadSoFar(t, 0, Unread)
      <4>1. SplitInto(t, <<>>, 0 - 1)
        BY DEF SplitInto
      <4> QED
        BY <1>3, <4>1 DEF ReadSoFar, Unread, P
    <3> QED
      BY <1>8, <3>1
  <2>2. ASSUME NEW n \in 1 .. N, n - 1 \in T PROVE n \in T
    <3>1. ReadSoFar(t, n, ReadOn(t, n, read[n - 1]))
      BY <2>2, ReadOnFacts DEF N
    <3> QED
      BY <1>0, <1>8, <3>1
  <2> HIDE DEF T
  <2> QED
    BY <1>0, <2>1, <2>2, CountingUp
<1>10. ReadSoFar(t, Len(t), read[Len(t)]) /\ Len(t) \in 0 .. Len(t)
  BY <1>0, <1>9 DEF N
<1> QED
  BY <1>7, <1>10, FlushFacts DEF SplitSections

-----------------------------------------------------------------------------
(* Merging *)

MergedOf(t) == [title : 0 .. Len(t), lines : Seq(0 .. Len(t))]
NumbersOf(s) == {s.title} \cup {s.lines[i] : i \in 1 .. Len(s.lines)}

\* Lines in their order, empty ones that were put in left aside.
Ordered(s) ==
  /\ \A i, j \in 1 .. Len(s.lines) : i < j /\ s.lines[j] # 0 => s.lines[i] < s.lines[j]
  /\ \A j \in 1 .. Len(s.lines) : s.lines[j] # 0 => s.title < s.lines[j]

\* At each empty line that was put in the lines before it were too few.
SmallJoints(t, s) ==
  \A i \in 1 .. Len(s.lines) :
    s.lines[i] = 0 => Chars(t, SubSeq(s.lines, 1, i - 1)) < MinChars

Swallowed(m, s) == [m EXCEPT !.lines = @ \o <<0, s.title>> \o s.lines]

(* A section as it is split has its lines in order, and no empty one.      *)
LEMMA GoodIsOrdered ==
  ASSUME NEW t \in Text, NEW s, GoodSection(t, s)
  PROVE  /\ s \in MergedOf(t) /\ s.lines # <<>> /\ Ordered(s) /\ SmallJoints(t, s)
         /\ \A x \in NumbersOf(s) : x \in s.title .. LastLine(s)
         /\ \A i \in 1 .. Len(s.lines) : s.lines[i] # 0
<1> DEFINE L == s.lines
           K == Len(L)
           N == Len(t)
           T == s.title
<1>1. /\ L \in Seq(1 .. N) /\ L # <<>> /\ T \in 0 .. N /\ N \in Nat
      /\ \A i \in 1 .. K : L[i] = L[1] + i - 1
      /\ s = [title |-> T, lines |-> L]
  BY DEF GoodSection, SectionOf, Text
<1>2. /\ LastLine(s) \in 1 .. N /\ T < LastLine(s) /\ K \in Nat \ {0} /\ L[1] \in 1 .. N
      /\ \A i \in 1 .. K : L[i] \in T + 1 .. LastLine(s)
  BY LastLineFacts
<1>3. s \in MergedOf(t)
  <2>1. L \in Seq(0 .. N)
    BY <1>1
  <2> HIDE DEF L, T
  <2> QED
    BY <1>1, <2>1 DEF MergedOf
<1> DEFINE a == L[1]
           z == LastLine(s)
<1> HIDE DEF L, K, N, T, a, z
<1>4. /\ a \in Nat /\ z \in Nat /\ T \in Nat /\ T < z /\ K \in Nat
      /\ \A i \in 1 .. K : L[i] = a + i - 1 /\ L[i] \in T + 1 .. z
  BY <1>1, <1>2 DEF a, z
<1>5. \A i \in 1 .. K : L[i] # 0 /\ T < L[i] /\ L[i] \in T .. z
  BY <1>4
<1>6. \A i, j \in 1 .. K : i < j => L[i] < L[j]
  BY <1>4
<1>7. Ordered(s)
  BY <1>5, <1>6 DEF Ordered, L, K, T
<1>8. \A x \in NumbersOf(s) : x \in T .. z
  BY <1>4, <1>5 DEF NumbersOf, L, K, T
<1>9. SmallJoints(t, s)
  BY <1>5 DEF SmallJoints, L, K
<1> QED
  BY <1>1, <1>3, <1>5, <1>7, <1>8, <1>9 DEF L, K, T, z

(* What a section that is too small is after it has swallowed the next.    *)
LEMMA SwallowFacts ==
  ASSUME NEW t \in Text, NEW m \in MergedOf(t), NEW s, GoodSection(t, s), s.title # 0,
         \A x \in NumbersOf(m) : x < s.title,
         Ordered(m), SmallJoints(t, m), Chars(t, m.lines) < MinChars
  PROVE  /\ Swallowed(m, s) \in MergedOf(t) /\ Swallowed(m, s).lines # <<>>
         /\ Ordered(Swallowed(m, s)) /\ SmallJoints(t, Swallowed(m, s))
         /\ NumbersOf(Swallowed(m, s)) = NumbersOf(m) \cup NumbersOf(s) \cup {0}
         /\ Swallowed(m, s).title = m.title
         /\ m.lines # <<>> => Swallowed(m, s).lines[1] = m.lines[1]
<1> DEFINE A == m.lines
           p == Len(A)
           B == s.lines
           K == Len(B)
           N == Len(t)
           T == s.title
           w == Swallowed(m, s)
           L == w.lines
           H == <<0, T>>
<1>1. /\ m = [title |-> m.title, lines |-> A] /\ A \in Seq(0 .. N) /\ p \in Nat
      /\ m.title \in 0 .. N /\ m.title < T
  <2>1. m.title \in NumbersOf(m)
    BY DEF NumbersOf
  <2> QED
    BY <2>1 DEF MergedOf
<1>2. /\ T \in 1 .. N /\ N \in Nat /\ B \in Seq(1 .. N) /\ K \in Nat \ {0}
      /\ \A j \in 1 .. K : B[j] \in T + 1 .. N /\ B[j] # 0 /\ T < B[j]
      /\ \A i, j \in 1 .. K : i < j => B[i] < B[j]
  <2>0. T \in 0 .. N /\ N \in Nat /\ B \in Seq(1 .. N)
    BY DEF GoodSection, SectionOf, Text
  <2>1. /\ T \in 0 .. N /\ N \in Nat /\ B \in Seq(1 .. N) /\ K \in Nat \ {0}
        /\ LastLine(s) \in 1 .. N
        /\ \A j \in 1 .. K : B[j] \in T + 1 .. LastLine(s)
    BY <2>0, LastLineFacts
  <2>2. \A i, j \in 1 .. K : i < j /\ B[j] # 0 => B[i] < B[j]
    BY GoodIsOrdered DEF Ordered
  <2> HIDE DEF T, N, B, K
  <2>3. \A j \in 1 .. K : B[j] \in T + 1 .. N /\ B[j] # 0 /\ T < B[j]
    BY <2>1
  <2>4. T \in 1 .. N
    BY <2>1 DEF T
  <2> QED
    BY <2>1, <2>2, <2>3, <2>4
<1>3. /\ \A i \in 1 .. p : A[i] \in 0 .. N /\ A[i] < T
      /\ \A i, j \in 1 .. p : i < j /\ A[j] # 0 => A[i] < A[j]
      /\ \A j \in 1 .. p : A[j] # 0 => m.title < A[j]
  <2>1. \A i \in 1 .. p : A[i] \in NumbersOf(m)
    BY DEF NumbersOf
  <2> QED
    BY <1>1, <2>1 DEF Ordered
<1>4. w = [title |-> m.title, lines |-> A \o H \o B]
  <2>1. w = [m EXCEPT !.lines = A \o H \o B]
    BY DEF Swallowed
  <2> HIDE DEF A, B, H, w
  <2> QED
    BY <1>1, <2>1
<1> HIDE DEF A, p, B, K, N, T, w
<1>5. /\ w.title = m.title /\ L = A \o H \o B
  BY <1>4
<1>6. /\ L \in Seq(0 .. N) /\ Len(L) = p + 2 + K
      /\ \A i \in 1 .. p : L[i] = A[i]
      /\ L[p + 1] = 0 /\ L[p + 2] = T
      /\ \A j \in 1 .. K : L[p + 2 + j] = B[j]
  <2> DEFINE C == A \o H
  <2>1. H \in Seq(0 .. N) /\ Len(H) = 2 /\ H[1] = 0 /\ H[2] = T
    BY <1>2
  <2> HIDE DEF H
  <2>2. /\ C \in Seq(0 .. N) /\ Len(C) = p + 2
        /\ \A i \in 1 .. p : C[i] = A[i]
        /\ C[p + 1] = 0 /\ C[p + 2] = T
    <3>1. /\ C \in Seq(0 .. N) /\ Len(C) = Len(A) + Len(H)
          /\ \A i \in 1 .. Len(A) + Len(H) :
               C[i] = IF i <= Len(A) THEN A[i] ELSE H[i - Len(A)]
      BY <1>1, <2>1, ConcatProperties
    <3> HIDE DEF C
    <3>2. /\ p + 1 \in 1 .. p + 2 /\ p + 2 \in 1 .. p + 2 /\ ~(p + 1 <= p) /\ ~(p + 2 <= p)
          /\ (p + 1) - p = 1 /\ (p + 2) - p = 2
          /\ \A i \in 1 .. p : i \in 1 .. p + 2 /\ i <= p
      BY <1>1
    <3>3. /\ Len(C) = p + 2
          /\ \A i \in 1 .. p + 2 : C[i] = IF i <= p THEN A[i] ELSE H[i - p]
      BY <2>1, <3>1 DEF p
    <3> QED
      BY <2>1, <3>1, <3>2, <3>3
  <2>3. B \in Seq(0 .. N) /\ Len(B) = K
    BY <1>2 DEF K
  <2>4. L = C \o B
    BY <1>5
  <2> HIDE DEF C, L
  <2>5. /\ L \in Seq(0 .. N) /\ Len(L) = p + 2 + K
        /\ \A i \in 1 .. p + 2 : L[i] = C[i]
        /\ \A j \in 1 .. K : L[p + 2 + j] = B[j]
    <3>1. /\ L \in Seq(0 .. N) /\ Len(L) = Len(C) + Len(B)
          /\ \A i \in 1 .. Len(C) + Len(B) :
               L[i] = IF i <= Len(C) THEN C[i] ELSE B[i - Len(C)]
      BY <2>2, <2>3, <2>4, ConcatProperties
    <3>2. /\ \A i \in 1 .. p + 2 : i \in 1 .. p + 2 + K /\ i <= p + 2
          /\ \A j \in 1 .. K : /\ p + 2 + j \in 1 .. p + 2 + K /\ ~(p + 2 + j <= p + 2)
                              /\ (p + 2 + j) - (p + 2) = j
      BY <1>1, <1>2
    <3>3. \A i \in 1 .. p + 2 + K : L[i] = IF i <= p + 2 THEN C[i] ELSE B[i - (p + 2)]
      BY <2>2, <2>3, <3>1
    <3>4. \A i \in 1 .. p + 2 : L[i] = C[i]
      BY <3>2, <3>3
    <3>5. \A j \in 1 .. K : L[p + 2 + j] = B[j]
      <4> SUFFICES ASSUME NEW j \in 1 .. K PROVE L[p + 2 + j] = B[j]
        OBVIOUS
      <4> DEFINE i == p + 2 + j
      <4>1. i \in 1 .. p + 2 + K /\ ~(i <= p + 2) /\ i - (p + 2) = j
        BY <3>2
      <4> HIDE DEF i
      <4>2. L[i] = B[j]
        BY <3>3, <4>1
      <4> QED
        BY <4>2 DEF i
    <3> QED
      BY <2>2, <2>3, <3>1, <3>4, <3>5
  <2> QED
    BY <1>1, <2>2, <2>5
<1> HIDE DEF L, H
<1>7. ASSUME NEW i \in 1 .. Len(L)
      PROVE  \/ i \in 1 .. p
             \/ i = p + 1
             \/ i = p + 2
             \/ i - p - 2 \in 1 .. K /\ i = p + 2 + (i - p - 2)
  <2>1. i \in 1 .. p + 2 + K /\ p \in Nat /\ K \in Nat
    BY <1>1, <1>2, <1>6
  <2> QED
    BY <2>1
<1>8. ASSUME NEW i \in 1 .. Len(L)
      PROVE  \/ i \in 1 .. p /\ L[i] = A[i]
             \/ i = p + 1 /\ L[i] = 0
             \/ i = p + 2 /\ L[i] = T
             \/ i - p - 2 \in 1 .. K /\ L[i] = B[i - p - 2]
  <2> DEFINE j == i - p - 2
  <2> HIDE DEF j
  <2>1. i \in 1 .. p \/ i = p + 1 \/ i = p + 2 \/ (j \in 1 .. K /\ i = p + 2 + j)
    BY <1>7 DEF j
  <2>2. j \in 1 .. K /\ i = p + 2 + j => L[i] = B[j]
    BY <1>6
  <2> QED
    BY <1>6, <2>1, <2>2 DEF j
<1>9. w \in MergedOf(t) /\ L # <<>>
  <2>1. Len(L) # 0
    BY <1>1, <1>2, <1>6
  <2> QED
    BY <1>1, <1>4, <1>5, <1>6, <2>1 DEF MergedOf, N, L
<1>10. \A i, j \in 1 .. Len(L) : i < j /\ L[j] # 0 => L[i] < L[j]
  <2> SUFFICES ASSUME NEW i \in 1 .. Len(L), NEW j \in 1 .. Len(L), i < j, L[j] # 0
               PROVE  L[i] < L[j]
    OBVIOUS
  <2>0. i \in Int /\ j \in Int
    BY <1>1, <1>2, <1>6
  <2>1. CASE j \in 1 .. p /\ L[j] = A[j]
    <3>1. i \in 1 .. p
      BY <1>1, <2>0, <2>1
    <3> QED
      BY <1>3, <1>6, <2>1, <3>1
  <2>2. CASE j = p + 2 /\ L[j] = T
    <3>1. i \in 1 .. p \/ i = p + 1
      BY <1>1, <2>0, <2>2
    <3>2. L[i] < T
      <4>1. CASE i \in 1 .. p
        <5>1. L[i] = A[i] /\ A[i] < T
          BY <1>3, <1>6, <4>1
        <5> QED
          BY <5>1
      <4>2. CASE i = p + 1
        <5>1. 0 < T
          BY <1>2
        <5> QED
          BY <1>6, <4>2, <5>1
      <4> QED
        BY <3>1, <4>1, <4>2
    <3> QED
      BY <2>2, <3>2
  <2>3. CASE j - p - 2 \in 1 .. K /\ L[j] = B[j - p - 2]
    <3> DEFINE b == j - p - 2
    <3>1. T < B[b] /\ T \in Nat /\ B[b] \in Nat
      BY <1>2, <2>3
    <3>2. CASE i \in 1 .. p
      <4>1. L[i] = A[i] /\ A[i] \in Nat /\ A[i] < T
        BY <1>2, <1>3, <1>6, <3>2
      <4> HIDE DEF b
      <4> QED
        BY <2>3, <3>1, <4>1 DEF b
    <3>3. CASE i = p + 1
      BY <1>6, <2>3, <3>1, <3>3
    <3>4. CASE i = p + 2
      BY <1>6, <2>3, <3>1, <3>4
    <3>5. CASE i - p - 2 \in 1 .. K /\ L[i] = B[i - p - 2]
      <4>1. i - p - 2 < j - p - 2
        BY <1>1, <2>0
      <4> QED
        BY <1>2, <2>3, <3>5, <4>1
    <3> QED
      BY <1>8, <3>2, <3>3, <3>4, <3>5
  <2> QED
    BY <1>8, <2>1, <2>2, <2>3
<1>11. \A j \in 1 .. Len(L) : L[j] # 0 => w.title < L[j]
  <2> SUFFICES ASSUME NEW j \in 1 .. Len(L), L[j] # 0 PROVE m.title < L[j]
    BY <1>5
  <2>1. CASE j \in 1 .. p /\ L[j] = A[j]
    BY <1>3, <2>1
  <2>2. CASE j = p + 2 /\ L[j] = T
    BY <1>1, <2>2
  <2>3. CASE j - p - 2 \in 1 .. K /\ L[j] = B[j - p - 2]
    <3> DEFINE b == j - p - 2
    <3>1. T < B[b] /\ T \in Nat /\ B[b] \in Nat
      BY <1>2, <2>3
    <3> HIDE DEF b
    <3> QED
      BY <1>1, <2>3, <3>1 DEF b
  <2> QED
    BY <1>8, <2>1, <2>2, <2>3
<1>12. Ordered(w)
  BY <1>10, <1>11 DEF Ordered, L
<1>13. \A i \in 1 .. Len(L) :
         L[i] = 0 => Chars(t, SubSeq(L, 1, i - 1)) < MinChars
  <2> SUFFICES ASSUME NEW i \in 1 .. Len(L), L[i] = 0
               PROVE  Chars(t, SubSeq(L, 1, i - 1)) < MinChars
    OBVIOUS
  <2>1. CASE i \in 1 .. p /\ L[i] = A[i]
    <3>1. Chars(t, SubSeq(A, 1, i - 1)) < MinChars
      BY <2>1 DEF SmallJoints, A, p
    <3>2. \A k \in 1 .. i - 1 : A[k] = L[k]
      BY <1>1, <1>6, <2>1
    <3>3. /\ SubSeq(A, 1, i - 1) = [k \in 1 .. i - 1 |-> A[k]]
          /\ SubSeq(L, 1, i - 1) = [k \in 1 .. i - 1 |-> L[k]]
      BY <1>1, <2>1
    <3>4. SubSeq(A, 1, i - 1) = SubSeq(L, 1, i - 1)
      BY <3>2, <3>3
    <3> QED
      BY <3>1, <3>4
  <2>2. CASE i = p + 1
    <3>1. SubSeq(L, 1, i - 1) = [k \in 1 .. p |-> L[k]]
      BY <1>1, <2>2
    <3>2. A = [k \in 1 .. p |-> A[k]]
      BY <1>1 DEF p
    <3>3. SubSeq(L, 1, i - 1) = A
      BY <1>6, <3>1, <3>2
    <3> QED
      BY <3>3 DEF A
  <2>3. T # 0 /\ \A j \in 1 .. K : B[j] # 0
    BY <1>2
  <2> QED
    BY <1>8, <2>1, <2>2, <2>3
<1>14. SmallJoints(t, w)
  BY <1>13 DEF SmallJoints, L
<1>15. NumbersOf(w) = NumbersOf(m) \cup NumbersOf(s) \cup {0}
  <2>1. ASSUME NEW i \in 1 .. Len(L) PROVE L[i] \in NumbersOf(m) \cup NumbersOf(s) \cup {0}
    BY <1>8 DEF NumbersOf, A, p, B, K, T
  <2>0. /\ \A i \in 1 .. p : i \in 1 .. p + 2 + K
        /\ \A j \in 1 .. K : p + 2 + j \in 1 .. p + 2 + K
        /\ p + 1 \in 1 .. p + 2 + K /\ p + 2 \in 1 .. p + 2 + K
    BY <1>1, <1>2
  <2>2. \A i \in 1 .. p : i \in 1 .. Len(L) /\ L[i] = A[i]
    BY <1>6, <2>0
  <2>3. \A j \in 1 .. K : p + 2 + j \in 1 .. Len(L) /\ L[p + 2 + j] = B[j]
    BY <1>6, <2>0
  <2>4. p + 1 \in 1 .. Len(L) /\ p + 2 \in 1 .. Len(L)
    BY <1>6, <2>0
  <2>5. NumbersOf(w) = {m.title} \cup {L[i] : i \in 1 .. Len(L)}
    BY <1>5 DEF NumbersOf, L
  <2>6. NumbersOf(m) = {m.title} \cup {A[i] : i \in 1 .. p}
    BY DEF NumbersOf, A, p
  <2>7. NumbersOf(s) = {T} \cup {B[i] : i \in 1 .. K}
    BY DEF NumbersOf, B, K, T
  <2>8. NumbersOf(w) \subseteq NumbersOf(m) \cup NumbersOf(s) \cup {0}
    BY <2>1, <2>5, <2>6
  <2>9. NumbersOf(m) \subseteq NumbersOf(w)
    BY <2>2, <2>5, <2>6
  <2>10. NumbersOf(s) \subseteq NumbersOf(w)
    <3>1. \A j \in 1 .. K : B[j] \in {L[i] : i \in 1 .. Len(L)}
      BY <2>3
    <3>2. T \in {L[i] : i \in 1 .. Len(L)}
      BY <1>6, <2>4
    <3> QED
      BY <2>5, <2>7, <3>1, <3>2
  <2>11. 0 \in NumbersOf(w)
    BY <1>6, <2>4, <2>5
  <2> QED
    BY <2>8, <2>9, <2>10, <2>11
<1>16. A # <<>> => L[1] = A[1]
  <2>1. A # <<>> => 1 \in 1 .. p
    BY <1>1 DEF p
  <2> QED
    BY <1>6, <2>1
<1> QED
  BY <1>5, <1>9, <1>12, <1>14, <1>15, <1>16 DEF w, L, A

BeginsLike(m, s) == m.title = s.title /\ m.lines[1] = s.lines[1]

\* How far mergeSmallSections has come with k sections.
EndOf(ss, k) == IF k = 0 THEN 0 ELSE LastLine(ss[k])
MergedSoFar(t, ss, k, mm) ==
  /\ mm \in Seq(MergedOf(t)) /\ (k = 0 <=> mm = <<>>)
  /\ \A a \in 1 .. Len(mm) :
       mm[a].lines # <<>> /\ Ordered(mm[a]) /\ SmallJoints(t, mm[a])
  /\ \A a \in 1 .. Len(mm) : \A x \in NumbersOf(mm[a]) : x <= EndOf(ss, k)
  /\ \A a, b \in 1 .. Len(mm) : a < b =>
       \A x \in NumbersOf(mm[a]), y \in NumbersOf(mm[b]) : y # 0 => x < y
  /\ \A a \in 1 .. Len(mm) :
       a < Len(mm) => ~(Chars(t, mm[a].lines) < MinChars)
  /\ \A m \in 1 .. Len(t) :
       (\E a \in 1 .. Len(mm) : m \in NumbersOf(mm[a]))
         <=> \E j \in 1 .. k : m \in NumbersOf(ss[j])
  /\ \A a \in 1 .. Len(mm) : \E j \in 1 .. k : BeginsLike(mm[a], ss[j])

(* It goes on as it should, section by section.                            *)
LEMMA MergeOnFacts ==
  ASSUME NEW t \in Text, NEW ss, SplitInto(t, ss, Len(t)), NEW k \in 1 .. Len(ss),
         NEW mm, MergedSoFar(t, ss, k - 1, mm)
  PROVE  MergedSoFar(t, ss, k, Merge(t, mm, ss[k]))
<1> DEFINE s == ss[k]
           N == Len(t)
           M == Len(mm)
           e == EndOf(ss, k - 1)
           z == LastLine(s)
           new == Merge(t, mm, s)
<1>1. /\ GoodSection(t, s) /\ k \in Nat \ {0} /\ N \in Nat /\ M \in Nat
      /\ mm \in Seq(MergedOf(t)) /\ EndOf(ss, k) = z
  BY DEF SplitInto, MergedSoFar, EndOf, Text
<1>2. /\ s \in MergedOf(t) /\ s.lines # <<>> /\ Ordered(s) /\ SmallJoints(t, s)
      /\ \A x \in NumbersOf(s) : x \in s.title .. z
      /\ z \in 1 .. N /\ s.title \in 0 .. N /\ s.title < z
  BY <1>1, GoodIsOrdered, LastLineFacts
<1>3. /\ \A a \in 1 .. M : mm[a].lines # <<>> /\ Ordered(mm[a]) /\ SmallJoints(t, mm[a])
      /\ \A a \in 1 .. M : \A x \in NumbersOf(mm[a]) : x <= e
      /\ \A a, b \in 1 .. M : a < b =>
           \A x \in NumbersOf(mm[a]), y \in NumbersOf(mm[b]) : y # 0 => x < y
      /\ \A a \in 1 .. M : a < M => ~(Chars(t, mm[a].lines) < MinChars)
      /\ \A m \in 1 .. N :
           (\E a \in 1 .. M : m \in NumbersOf(mm[a]))
             <=> \E j \in 1 .. k - 1 : m \in NumbersOf(ss[j])
      /\ k = 1 <=> mm = <<>>
  <2> HIDE DEF s, z, new
  <2>1. \A a \in 1 .. M :
          mm[a].lines # <<>> /\ Ordered(mm[a]) /\ SmallJoints(t, mm[a])
    BY DEF MergedSoFar
  <2>2. \A a \in 1 .. M : \A x \in NumbersOf(mm[a]) : x <= e
    BY DEF MergedSoFar
  <2>3. \A a, b \in 1 .. M : a < b =>
          \A x \in NumbersOf(mm[a]), y \in NumbersOf(mm[b]) : y # 0 => x < y
    BY DEF MergedSoFar
  <2>4. \A a \in 1 .. M : a < M => ~(Chars(t, mm[a].lines) < MinChars)
    BY DEF MergedSoFar
  <2>5. \A m \in 1 .. N :
          (\E a \in 1 .. M : m \in NumbersOf(mm[a]))
            <=> \E j \in 1 .. k - 1 : m \in NumbersOf(ss[j])
    BY DEF MergedSoFar
  <2>6. k = 1 <=> mm = <<>>
    <3>1. k - 1 = 0 <=> mm = <<>>
      BY DEF MergedSoFar
    <3> QED
      BY <1>1, <3>1
  <2> QED
    BY <2>1, <2>2, <2>3, <2>4, <2>5, <2>6
<1>c. \A a \in 1 .. M : \E j \in 1 .. k - 1 : BeginsLike(mm[a], ss[j])
  BY DEF MergedSoFar
<1>4. mm # <<>> => e \in Nat /\ e < s.title
  <2>1. SUFFICES ASSUME k # 1 PROVE e \in Nat /\ e < s.title
    BY <1>3
  <2>2. k - 1 \in 1 .. Len(ss) /\ k - 1 < k /\ k - 1 # 0
    BY <1>1, <2>1
  <2>3. GoodSection(t, ss[k - 1]) /\ LastLine(ss[k - 1]) < s.title
    BY <2>2 DEF SplitInto
  <2>4. LastLine(ss[k - 1]) \in 1 .. N
    BY <2>3, LastLineFacts
  <2> QED
    BY <1>1, <2>2, <2>3, <2>4 DEF EndOf
<1>5. ASSUME NEW a \in 1 .. M, NEW x \in NumbersOf(mm[a])
      PROVE  x \in Nat /\ x < s.title /\ x <= z
  <2>0. mm[a] \in MergedOf(t) /\ mm # <<>> /\ x <= e
    BY <1>1, <1>3
  <2>1. x \in Nat
    BY <1>1, <2>0 DEF NumbersOf, MergedOf
  <2> HIDE DEF e, z, s
  <2> QED
    BY <1>2, <1>4, <2>0, <2>1 DEF s
<1>6. ASSUME NEW x \in NumbersOf(s) PROVE x \in Nat /\ s.title <= x /\ x <= z
  BY <1>2, <1>6
<1>7. \A j : j \in 1 .. k <=> j \in 1 .. k - 1 \/ j = k
  BY <1>1
<1>8. Last(mm) = mm[M]
  BY DEF Last
<1>a. CASE mm # <<>> /\ Chars(t, mm[M].lines) < MinChars
  <2> DEFINE w == Swallowed(mm[M], s)
  <2>1. M \in 1 .. M /\ mm[M] \in MergedOf(t) /\ s.title # 0
    BY <1>1, <1>2, <1>4, <1>a
  <2>2. new = [mm EXCEPT ![M] = w]
    BY <1>8, <1>a DEF Merge, Swallowed
  <2>3. /\ w \in MergedOf(t) /\ w.lines # <<>> /\ Ordered(w) /\ SmallJoints(t, w)
        /\ NumbersOf(w) = NumbersOf(mm[M]) \cup NumbersOf(s) \cup {0}
        /\ BeginsLike(w, mm[M])
    BY <1>1, <1>3, <1>5, <1>a, <2>1, SwallowFacts DEF BeginsLike
  <2> HIDE DEF new, w
  <2>4. /\ new \in Seq(MergedOf(t)) /\ Len(new) = M /\ new # <<>>
        /\ \A a \in 1 .. M : new[a] = IF a = M THEN w ELSE mm[a]
    BY <1>1, <2>1, <2>2, <2>3
  <2> HIDE DEF M, e, z, s, N
  <2>5. \A a \in 1 .. M : new[a].lines # <<>> /\ Ordered(new[a]) /\ SmallJoints(t, new[a])
    BY <1>3, <2>3, <2>4
  <2>6. \A x \in NumbersOf(w) : x \in Nat /\ x <= z
    BY <1>2, <1>5, <1>6, <2>1, <2>3
  <2>7. \A a \in 1 .. M : \A x \in NumbersOf(new[a]) : x <= z
    BY <1>5, <2>4, <2>6
  <2>8. ASSUME NEW a \in 1 .. M, NEW b \in 1 .. M, a < b,
               NEW x \in NumbersOf(new[a]), NEW y \in NumbersOf(new[b]), y # 0
        PROVE  x < y
    <3>1. a # M /\ new[a] = mm[a]
      BY <1>1, <2>4, <2>8
    <3>2. CASE b # M
      BY <1>3, <2>4, <2>8, <3>1, <3>2
    <3>3. CASE b = M /\ y \in NumbersOf(mm[M])
      BY <1>3, <2>1, <2>8, <3>1, <3>3
    <3>4. CASE b = M /\ y \in NumbersOf(s)
      <4>1. x \in Nat /\ x < s.title /\ y \in Nat /\ s.title <= y
        BY <1>5, <1>6, <2>8, <3>1, <3>4
      <4> QED
        BY <1>2, <4>1
    <3>5. b = M => new[b] = w
      BY <2>1, <2>4
    <3> QED
      BY <2>3, <2>8, <3>2, <3>3, <3>4, <3>5
  <2>9. \A a \in 1 .. M : a < M => ~(Chars(t, new[a].lines) < MinChars)
    <3>1. \A a \in 1 .. M : a < M => new[a] = mm[a]
      BY <1>1, <2>4
    <3> QED
      BY <1>3, <3>1
  <2>10. ASSUME NEW m \in 1 .. N
         PROVE  (\E a \in 1 .. M : m \in NumbersOf(new[a]))
                   <=> \E j \in 1 .. k : m \in NumbersOf(ss[j])
    <3>1. m # 0
      BY <1>1
    <3>2. m \in NumbersOf(w) <=> m \in NumbersOf(mm[M]) \/ m \in NumbersOf(s)
      BY <2>3, <3>1
    <3>3. (\E a \in 1 .. M : m \in NumbersOf(new[a]))
            <=> (\E a \in 1 .. M : m \in NumbersOf(mm[a])) \/ m \in NumbersOf(s)
      BY <2>1, <2>4, <3>2
    <3>4. (\E j \in 1 .. k : m \in NumbersOf(ss[j]))
            <=> (\E j \in 1 .. k - 1 : m \in NumbersOf(ss[j])) \/ m \in NumbersOf(s)
      BY <1>7 DEF s
    <3> QED
      BY <1>3, <3>3, <3>4
  <2>a. ASSUME NEW a \in 1 .. M PROVE \E j \in 1 .. k : BeginsLike(new[a], ss[j])
    <3>1. BeginsLike(new[a], mm[a])
      BY <2>3, <2>4 DEF BeginsLike
    <3>2. PICK j \in 1 .. k - 1 : BeginsLike(mm[a], ss[j])
      BY <1>c
    <3> QED
      BY <1>7, <3>1, <3>2 DEF BeginsLike
  <2>11. MergedSoFar(t, ss, k, new)
    BY <1>1, <2>4, <2>5, <2>7, <2>8, <2>9, <2>10, <2>a DEF MergedSoFar, N
  <2> QED
    BY <2>11 DEF new, s
<1>b. CASE ~(mm # <<>> /\ Chars(t, mm[M].lines) < MinChars)
  <2>1. new = Append(mm, s)
    BY <1>8, <1>b DEF Merge
  <2> HIDE DEF new
  <2>2. /\ new \in Seq(MergedOf(t)) /\ Len(new) = M + 1 /\ new # <<>>
        /\ \A a \in 1 .. M : new[a] = mm[a]
        /\ new[M + 1] = s
    BY <1>1, <1>2, <2>1
  <2>3. M # 0 => mm # <<>> /\ M \in 1 .. M
    BY <1>1
  <2> HIDE DEF e, z, s, N, M
  <2>4. \A a \in 1 .. M + 1 : a \in 1 .. M \/ a = M + 1
    BY <1>1
  <2>5. \A a \in 1 .. M + 1 :
          new[a].lines # <<>> /\ Ordered(new[a]) /\ SmallJoints(t, new[a])
    BY <1>2, <1>3, <2>2, <2>4
  <2>7. \A a \in 1 .. M + 1 : \A x \in NumbersOf(new[a]) : x <= z
    BY <1>5, <1>6, <2>2, <2>4
  <2>8. ASSUME NEW a \in 1 .. M + 1, NEW b \in 1 .. M + 1, a < b,
               NEW x \in NumbersOf(new[a]), NEW y \in NumbersOf(new[b]), y # 0
        PROVE  x < y
    <3>1. a \in 1 .. M /\ new[a] = mm[a]
      BY <1>1, <2>2, <2>8
    <3>2. CASE b \in 1 .. M
      BY <1>3, <2>2, <2>8, <3>1, <3>2
    <3>3. CASE b = M + 1
      <4>1. x \in Nat /\ x < s.title /\ y \in Nat /\ s.title <= y
        BY <1>5, <1>6, <2>2, <2>8, <3>1, <3>3
      <4> QED
        BY <1>2, <4>1
    <3> QED
      BY <2>4, <3>2, <3>3
  <2>9. ASSUME NEW a \in 1 .. M + 1, a < M + 1
        PROVE  ~(Chars(t, new[a].lines) < MinChars)
    <3>1. a \in 1 .. M /\ new[a] = mm[a] /\ M # 0
      BY <1>1, <2>2, <2>9
    <3>2. CASE a = M
      BY <1>b, <2>3, <3>1, <3>2
    <3>3. CASE a # M
      <4>1. a < M
        BY <1>1, <3>1, <3>3
      <4> QED
        BY <1>3, <3>1, <4>1
    <3> QED
      BY <3>2, <3>3
  <2>10. ASSUME NEW m \in 1 .. N
         PROVE  (\E a \in 1 .. M + 1 : m \in NumbersOf(new[a]))
                   <=> \E j \in 1 .. k : m \in NumbersOf(ss[j])
    <3>0. M + 1 \in 1 .. M + 1 /\ \A a \in 1 .. M : a \in 1 .. M + 1
      BY <1>1
    <3>3. (\E a \in 1 .. M + 1 : m \in NumbersOf(new[a]))
            <=> (\E a \in 1 .. M : m \in NumbersOf(mm[a])) \/ m \in NumbersOf(s)
      BY <2>2, <2>4, <3>0
    <3>4. (\E j \in 1 .. k : m \in NumbersOf(ss[j]))
            <=> (\E j \in 1 .. k - 1 : m \in NumbersOf(ss[j])) \/ m \in NumbersOf(s)
      BY <1>7 DEF s
    <3> QED
      BY <1>3, <3>3, <3>4
  <2>a. ASSUME NEW a \in 1 .. M + 1 PROVE \E j \in 1 .. k : BeginsLike(new[a], ss[j])
    <3>1. CASE a \in 1 .. M
      <4>1. PICK j \in 1 .. k - 1 : BeginsLike(mm[a], ss[j])
        BY <1>c, <3>1
      <4> QED
        BY <1>7, <2>2, <3>1, <4>1
    <3>2. CASE a = M + 1
      BY <1>7, <2>2, <3>2 DEF BeginsLike, s
    <3> QED
      BY <2>4, <3>1, <3>2
  <2>11. MergedSoFar(t, ss, k, new)
    BY <1>1, <2>2, <2>5, <2>7, <2>8, <2>9, <2>10, <2>a DEF MergedSoFar, N
  <2> QED
    BY <2>11 DEF new, s
<1> QED
  BY <1>a, <1>b

(* Merging, whatever is merged with whatever.                              *)
LEMMA MergeTyped ==
  ASSUME NEW t \in Text, NEW mm \in Seq(MergedOf(t)), NEW s \in SectionOf(t)
  PROVE  Merge(t, mm, s) \in Seq(MergedOf(t))
<1>1. s \in MergedOf(t) /\ <<0, s.title>> \in Seq(0 .. Len(t)) /\ s.lines \in Seq(0 .. Len(t))
  BY DEF SectionOf, MergedOf, Text
<1>2. CASE mm # <<>>
  <2> DEFINE M == Len(mm)
             L == mm[M].lines
             w == [mm[M] EXCEPT !.lines = @ \o <<0, s.title>> \o s.lines]
  <2>1. M \in 1 .. M /\ mm[M] \in MergedOf(t)
    BY <1>2
  <2>2. L \in Seq(0 .. Len(t))
    BY <2>1 DEF MergedOf
  <2>3. L \o <<0, s.title>> \o s.lines \in Seq(0 .. Len(t))
    BY <1>1, <2>2, ConcatProperties
  <2>4. w \in MergedOf(t)
    BY <2>1, <2>3 DEF MergedOf
  <2>5. [mm EXCEPT ![M].lines = @ \o <<0, s.title>> \o s.lines] = [mm EXCEPT ![M] = w]
    OBVIOUS
  <2> HIDE DEF w, M
  <2>6. [mm EXCEPT ![M] = w] \in Seq(MergedOf(t))
    BY <2>1, <2>4 DEF M
  <2>7. Append(mm, s) \in Seq(MergedOf(t))
    BY <1>1
  <2>8. \/ Merge(t, mm, s) = [mm EXCEPT ![Len(mm)].lines = @ \o <<0, s.title>> \o s.lines]
        \/ Merge(t, mm, s) = Append(mm, s)
    BY DEF Merge
  <2>9. [mm EXCEPT ![Len(mm)].lines = @ \o <<0, s.title>> \o s.lines] \in Seq(MergedOf(t))
    BY <2>5, <2>6 DEF M
  <2> QED
    BY <2>7, <2>8, <2>9
<1>3. CASE mm = <<>>
  BY <1>1, <1>3 DEF Merge
<1> QED
  BY <1>2, <1>3

(* mergeSmallSections goes on to the end.                                  *)
LEMMA MergeFacts ==
  ASSUME NEW t \in Text, NEW ss, SplitInto(t, ss, Len(t))
  PROVE  MergedSoFar(t, ss, Len(ss), MergeSmallSections(t, ss))
<1> DEFINE N == Len(ss)
           P == Seq(MergedOf(t))
           F == [k \in 1 .. N |-> [mm \in P |-> Merge(t, mm, ss[k])]]
           Rec(f) == f = [k \in 0 .. N |->
             IF k = 0 THEN <<>> ELSE Merge(t, f[k - 1], ss[k])]
           merged == CHOOSE f : Rec(f)
<1>0. N \in Nat /\ \A k \in 1 .. N : ss[k] \in SectionOf(t)
  BY DEF SplitInto
<1>1. ASSUME NEW k \in 1 .. N, NEW mm \in P PROVE Merge(t, mm, ss[k]) \in P
  BY <1>0, MergeTyped
<1>2. F \in [1 .. N -> [P -> P]]
  BY <1>1
<1>3. <<>> \in P
  OBVIOUS
<1>4. PICK g \in [0 .. N -> P] : Recurs(g, N, <<>>, F)
  <2> HIDE DEF N, P, F
  <2> QED
    BY <1>0, <1>2, <1>3, RecursionExists
<1>5. Rec(g)
  <2>1. ASSUME NEW k \in 1 .. N PROVE F[k][g[k - 1]] = Merge(t, g[k - 1], ss[k])
    <3>1. g[k - 1] \in P
      <4> HIDE DEF P, F, N
      <4> QED
        BY <1>0, <1>4
    <3> HIDE DEF P, N
    <3> QED
      BY <3>1
  <2>2. g = [k \in 0 .. N |-> IF k = 0 THEN <<>> ELSE F[k][g[k - 1]]]
    BY <1>4 DEF Recurs
  <2> HIDE DEF F
  <2>3. \A k \in 0 .. N : (IF k = 0 THEN <<>> ELSE F[k][g[k - 1]])
                          = IF k = 0 THEN <<>> ELSE Merge(t, g[k - 1], ss[k])
    BY <1>0, <2>1
  <2> QED
    BY <2>2, <2>3
<1>6. Rec(merged)
  <2> HIDE DEF Rec
  <2> QED
    BY <1>5
<1>7. MergedUpTo(t, ss) = merged
  BY DEF MergedUpTo
<1> HIDE DEF merged
<1>8. merged[0] = <<>> /\ \A k \in 1 .. N : merged[k] = Merge(t, merged[k - 1], ss[k])
  <2>1. \A k \in 0 .. N : merged[k] = IF k = 0 THEN <<>>
                                       ELSE Merge(t, merged[k - 1], ss[k])
    BY <1>6
  <2> QED
    BY <1>0, <2>1
<1> DEFINE T == {k \in Nat : MergedSoFar(t, ss, k, merged[k])}
<1> HIDE DEF N, P, F, Rec
<1>9. 0 .. N \subseteq T
  <2>1. 0 \in T
    <3>1. MergedSoFar(t, ss, 0, <<>>)
      BY DEF MergedSoFar
    <3> QED
      BY <1>8, <3>1
  <2>2. ASSUME NEW k \in 1 .. N, k - 1 \in T PROVE k \in T
    <3>1. MergedSoFar(t, ss, k, Merge(t, merged[k - 1], ss[k]))
      BY <2>2, MergeOnFacts DEF N
    <3> QED
      BY <1>0, <1>8, <3>1
  <2> HIDE DEF T
  <2> QED
    BY <1>0, <2>1, <2>2, CountingUp
<1>10. MergedSoFar(t, ss, Len(ss), merged[Len(ss)])
  BY <1>0, <1>9 DEF N
<1> QED
  BY <1>7, <1>10 DEF MergeSmallSections

-----------------------------------------------------------------------------
(* Cutting by size *)

(* More times as much is no less.                                          *)
LEMMA MoreTimes ==
  ASSUME NEW a \in Nat, NEW b \in Nat, a <= b, NEW c \in Nat
  PROVE  a * c <= b * c
  OBVIOUS

Needed(total, max, N) == N = (total + max - 1) \div max

(* There are as many ranges as it takes, and no range is empty.            *)
LEMMA RangesNeeded ==
  ASSUME NEW total \in Nat, NEW max \in Nat \ {0}, NEW N, Needed(total, max, N)
  PROVE  /\ N \in Nat /\ (N = 0 <=> total = 0)
         /\ N * max >= total
         /\ N # 0 => (N - 1) * max < total
<1>1. N \in Nat /\ total + max - 1 \in Nat
  BY DEF Needed
<1>2. N * max <= total + max - 1 /\ total + max - 1 < N * max + max
  BY <1>1 DEF Needed
<1>3. (N - 1) * max = N * max - max
  BY <1>1
<1>4. N = 0 => N * max = 0
  OBVIOUS
<1>5. N # 0 => N * max >= max
  <2>1. N # 0 => 1 * max <= N * max
    BY <1>1, MoreTimes
  <2> QED
    BY <2>1
<1>6. N * max \in Nat
  BY <1>1
<1> DEFINE p == N * max
<1> HIDE DEF p
<1>7. p \in Nat /\ p <= total + max - 1 /\ total < p + 1 /\ (N = 0 => p = 0) /\ (N # 0 => p >= max)
  BY <1>2, <1>4, <1>5, <1>6 DEF p
<1>8. N # 0 => (N - 1) * max < total
  BY <1>3, <1>7 DEF p
<1> QED
  BY <1>1, <1>7, <1>8 DEF p

\* What a range is, and the range number k of those a text is cut into.
RangeOf == [part : {"range"}, from : Nat, to : Nat]
Ending(k, total, max) == IF k * max > total THEN total ELSE k * max

\* Each range begins where the one before ends, and is as large as it may be;
\* the last ends with the text.
EvenlyCut(total, max, N, cs) ==
  /\ N \in Nat /\ (N = 0 => total = 0) /\ total <= N * max
  /\ DOMAIN cs = 1 .. N /\ Len(cs) = N /\ cs \in Seq(RangeOf)
  /\ \A k \in 1 .. N :
       /\ cs[k] \in RangeOf /\ cs[k].from = (k - 1) * max
       /\ k < N => cs[k].to = k * max
       /\ k = N => cs[k].to = total
       /\ cs[k].to - cs[k].from \in 1 .. max
       /\ cs[k].to <= total /\ (k - 1) * max < total

(* That is how a text is cut.                                              *)
LEMMA RangeFacts ==
  ASSUME NEW total \in Nat, NEW max \in Nat \ {0},
         NEW cs, cs = CutBySize(total, max),
         NEW N, Needed(total, max, N)
  PROVE  EvenlyCut(total, max, N, cs)
<1> DEFINE to(k) == Ending(k, total, max)
           from(k) == (k - 1) * max
           rec(k) == [part |-> "range", from |-> from(k), to |-> to(k)]
<1>1. /\ N \in Nat /\ (N = 0 <=> total = 0) /\ N * max >= total
      /\ N # 0 => (N - 1) * max < total
  BY RangesNeeded
<1>2. cs = [k \in 1 .. N |-> rec(k)]
  BY DEF CutBySize, Needed, Ending
<1>3. ASSUME NEW k \in 1 .. N
      PROVE  /\ from(k) \in Nat /\ from(k) < total /\ to(k) \in Nat /\ to(k) <= total
             /\ k < N => to(k) = k * max
             /\ k = N => to(k) = total
             /\ to(k) - from(k) \in 1 .. max
  <2>1. k - 1 \in Nat /\ N - 1 \in Nat /\ k - 1 <= N - 1 /\ (k < N => k <= N - 1)
    BY <1>1
  <2>2. (k - 1) * max <= (N - 1) * max
    BY <2>1, MoreTimes
  <2>3. k < N => k * max <= (N - 1) * max
    BY <2>1, MoreTimes
  <2>4. (k - 1) * max \in Nat /\ k * max \in Nat /\ (N - 1) * max \in Nat
    BY <2>1
  <2>5. k * max = (k - 1) * max + max
    BY <1>1
  <2>6. k = N => k * max >= total
    BY <1>1
  <2> DEFINE p == (N - 1) * max
             q == (k - 1) * max
             r == k * max
  <2>7. p < total
    BY <1>1
  <2> HIDE DEF p, q, r
  <2>8. /\ q \in Nat /\ r \in Nat /\ p \in Nat /\ q <= p /\ r = q + max
        /\ k < N => r <= p
        /\ k = N => r >= total
    BY <2>2, <2>3, <2>4, <2>5, <2>6 DEF p, q, r
  <2>9. to(k) = IF r > total THEN total ELSE r
    BY DEF r, Ending
  <2> HIDE DEF to
  <2>10. /\ q < total /\ to(k) \in Nat /\ to(k) <= total /\ to(k) - q \in 1 .. max
         /\ k < N => to(k) = r
         /\ k = N => to(k) = total
    BY <2>7, <2>8, <2>9
  <2> QED
    BY <2>8, <2>10 DEF q, r
<1> HIDE DEF to, from
<1>4. ASSUME NEW k \in 1 .. N
      PROVE  rec(k) \in RangeOf /\ rec(k).from = from(k) /\ rec(k).to = to(k)
  BY <1>3 DEF RangeOf
<1>5. \A k \in 1 .. N : cs[k] = rec(k)
  BY <1>2
<1>6. DOMAIN cs = 1 .. N /\ Len(cs) = N /\ cs \in Seq(RangeOf)
  <2>1. cs \in [1 .. N -> RangeOf]
    BY <1>2, <1>4
  <2>2. cs \in Seq(RangeOf)
    BY <1>1, <2>1, SeqDef
  <2> HIDE DEF rec
  <2>3. Len(cs) = N
    BY <1>1, <1>2, <2>2
  <2> QED
    BY <1>2, <2>2, <2>3
<1> HIDE DEF rec
<1>7. \A k \in 1 .. N : cs[k] \in RangeOf /\ cs[k].from = from(k) /\ cs[k].to = to(k)
  BY <1>4, <1>5
<1>8. \A k \in 1 .. N : from(k) = (k - 1) * max
  BY DEF from
<1> QED
  BY <1>1, <1>3, <1>6, <1>7, <1>8 DEF EvenlyCut

\* Ranges of a text in their order, not larger than asked for and no more of
\* them than that needs, with all the places keep.
RangesKeep(t, keep, max, rs) ==
  /\ rs \in Seq(RangeOf) /\ (Len(rs) = 0 => Size(t) = 0)
  /\ \A k \in 1 .. Len(rs) :
       /\ rs[k].from <= rs[k].to /\ rs[k].to <= Size(t)
       /\ rs[k].to - rs[k].from <= max /\ (k - 1) * max < Size(t)
  /\ \A k, l \in 1 .. Len(rs) : k < l => rs[k].to <= rs[l].from
  /\ \A p \in keep : \E k \in 1 .. Len(rs) : p \in rs[k].from + 1 .. rs[k].to

(* Ranges as they are cut have every place of the text.                    *)
LEMMA CutKeeps ==
  ASSUME NEW t, Size(t) \in Nat, NEW max \in Nat \ {0}
  PROVE  RangesKeep(t, 1 .. Size(t), max, CutBySize(Size(t), max))
<1> DEFINE total == Size(t)
           N == (total + max - 1) \div max
           cs == CutBySize(total, max)
<1>1. Needed(total, max, N) /\ cs = CutBySize(total, max) /\ total \in Nat
  BY DEF Needed
<1> HIDE DEF N, cs, total
<1>a. EvenlyCut(total, max, N, cs)
  BY <1>1, RangeFacts
<1>2. /\ N \in Nat /\ (N = 0 => total = 0) /\ total <= N * max
      /\ DOMAIN cs = 1 .. N /\ Len(cs) = N /\ cs \in Seq(RangeOf)
      /\ \A k \in 1 .. N :
           /\ cs[k] \in RangeOf /\ cs[k].from = (k - 1) * max
           /\ k < N => cs[k].to = k * max
           /\ k = N => cs[k].to = total
           /\ cs[k].to - cs[k].from \in 1 .. max
           /\ cs[k].to <= total /\ (k - 1) * max < total
  BY <1>a DEF EvenlyCut
<1>3. ASSUME NEW k \in 1 .. N
      PROVE  /\ cs[k].from \in Nat /\ cs[k].to \in Nat
             /\ cs[k].from <= cs[k].to /\ cs[k].to - cs[k].from <= max
  <2>1. cs[k].from \in Nat /\ cs[k].to \in Nat
    BY <1>2 DEF RangeOf
  <2>2. cs[k].to - cs[k].from \in 1 .. max
    BY <1>2
  <2> QED
    BY <2>1, <2>2
<1>4. ASSUME NEW k \in 1 .. N, NEW l \in 1 .. N, k < l
      PROVE  cs[k].to <= cs[l].from
  <2>1. k \in Nat /\ l - 1 \in Nat /\ k <= l - 1 /\ k < N
    BY <1>2, <1>4
  <2>2. k * max <= (l - 1) * max
    BY <2>1, MoreTimes
  <2>3. cs[k].to = k * max /\ cs[l].from = (l - 1) * max
    BY <1>2, <2>1
  <2> QED
    BY <2>2, <2>3
<1>5. ASSUME NEW p \in 1 .. total
      PROVE  \E k \in 1 .. N : p \in cs[k].from + 1 .. cs[k].to
  <2> DEFINE q == (p - 1) \div max
             k == q + 1
  <2>1. q \in Nat /\ q * max <= p - 1 /\ p - 1 < q * max + max
    BY <1>1
  <2> HIDE DEF q
  <2>2. q < N
    <3>1. SUFFICES ASSUME N <= q PROVE FALSE
      BY <1>2, <2>1
    <3>2. N * max <= q * max
      BY <1>2, <2>1, <3>1, MoreTimes
    <3> DEFINE a == N * max
               b == q * max
    <3>3. a \in Nat /\ b \in Nat
      BY <1>2, <2>1
    <3>4. a <= b /\ total <= a /\ b <= p - 1
      BY <1>2, <2>1, <3>2
    <3> HIDE DEF a, b
    <3> QED
      BY <1>1, <3>3, <3>4
  <2>3. k \in 1 .. N /\ k - 1 = q
    BY <1>2, <2>1, <2>2
  <2>4. (q + 1) * max = q * max + max
    BY <2>1
  <2>5. /\ cs[k].from = q * max
        /\ k < N => cs[k].to = q * max + max
        /\ k = N => cs[k].to = total
    BY <1>2, <2>3, <2>4
  <2> DEFINE b == q * max
  <2>6. b \in Nat /\ b <= p - 1 /\ p - 1 < b + max
    BY <2>1
  <2>7. /\ cs[k].from = b
        /\ k < N => cs[k].to = b + max
        /\ k = N => cs[k].to = total
    BY <2>5
  <2> HIDE DEF k, b
  <2>8. cs[k].from \in Nat /\ cs[k].to \in Nat
    BY <1>3, <2>3
  <2>9. p \in cs[k].from + 1 .. cs[k].to
    <3>1. k < N \/ k = N
      BY <1>2, <2>3
    <3> QED
      BY <1>1, <2>6, <2>7, <2>8, <3>1
  <2> QED
    BY <2>3, <2>9
<1> QED
  BY <1>1, <1>2, <1>3, <1>4, <1>5 DEF RangesKeep, cs, total

(* A range that is trimmed keeps all that is no white space.               *)
LEMMA TrimRangeFacts ==
  ASSUME NEW t, NEW range \in RangeOf, range.from <= range.to
  PROVE  LET less == TrimRange(t, range) IN
         /\ less \in RangeOf
         /\ range.from <= less.from /\ less.from <= less.to /\ less.to <= range.to
         /\ \A p \in Ink(t) : p \in range.from + 1 .. range.to => p \in less.from + 1 .. less.to
<1> DEFINE a == range.from
           b == range.to
           ink == Ink(t) \cap (a + 1 .. b)
           less == TrimRange(t, range)
<1>1. a \in Nat /\ b \in Nat /\ a <= b /\ range = [part |-> "range", from |-> a, to |-> b]
  BY DEF RangeOf
<1>2. less = IF ink = {} THEN [range EXCEPT !.to = a]
             ELSE [range EXCEPT !.from = Min(ink) - 1, !.to = Max(ink)]
  BY DEF TrimRange
<1>3. ink \in SUBSET (1 .. b) /\ ink \subseteq a + 1 .. b
  BY <1>1
<1>4. \A p \in Ink(t) : p \in a + 1 .. b => p \in ink
  OBVIOUS
<1> HIDE DEF a, b, ink, less
<1>5. CASE ink = {}
  <2>1. less = [part |-> "range", from |-> a, to |-> a]
    BY <1>1, <1>2, <1>5
  <2> QED
    BY <1>1, <1>4, <1>5, <2>1 DEF RangeOf, a, b, less
<1>6. CASE ink # {}
  <2> DEFINE x == Min(ink)
             y == Max(ink)
  <2>1. x \in ink /\ \A j \in ink : x <= j
    BY <1>1, <1>3, <1>6, FirstOf
  <2>2. y \in ink /\ \A j \in ink : j <= y
    BY <1>1, <1>3, <1>6, LastOf
  <2>3. less = [part |-> "range", from |-> x - 1, to |-> y]
    BY <1>1, <1>2, <1>6
  <2> HIDE DEF x, y
  <2>4. x \in a + 1 .. b /\ y \in a + 1 .. b /\ x <= y
    BY <1>3, <2>1, <2>2
  <2>5. /\ x - 1 \in Nat /\ y \in Nat /\ a <= x - 1 /\ x - 1 <= y /\ y <= b
        /\ \A p \in ink : p \in (x - 1) + 1 .. y
    BY <1>1, <1>3, <2>1, <2>2, <2>4
  <2>6. less.from = x - 1 /\ less.to = y /\ less \in RangeOf
    BY <2>3, <2>5 DEF RangeOf
  <2> QED
    BY <1>4, <2>5, <2>6 DEF a, b, less
<1> QED
  BY <1>5, <1>6

(* Ranges that are trimmed, all of them, keep it too.                      *)
LEMMA TrimKeeps ==
  ASSUME NEW t \in Text, NEW max \in Nat \ {0}
  PROVE  RangesKeep(t, Ink(t), max, ChunkBySize(t, max))
<1> DEFINE cut == CutBySize(Size(t), max)
           rs == ChunkBySize(t, max)
           N == Len(cut)
<1>1. Size(t) \in Nat /\ Ink(t) \subseteq 1 .. Size(t)
  BY SizeFacts
<1>2. RangesKeep(t, 1 .. Size(t), max, cut)
  BY <1>1, CutKeeps
<1>3. rs = [k \in DOMAIN cut |-> TrimRange(t, cut[k])]
  BY DEF ChunkBySize
<1> HIDE DEF cut, rs
<1>4. /\ cut \in Seq(RangeOf) /\ N \in Nat /\ DOMAIN cut = 1 .. N /\ (N = 0 => Size(t) = 0)
      /\ \A k \in 1 .. N : cut[k] \in RangeOf
  BY <1>2 DEF RangesKeep
<1>5. ASSUME NEW k \in 1 .. N
      PROVE  /\ cut[k].from <= cut[k].to /\ cut[k].to <= Size(t)
             /\ cut[k].to - cut[k].from <= max /\ (k - 1) * max < Size(t)
  BY <1>2 DEF RangesKeep
<1> HIDE DEF N
<1>6. ASSUME NEW k \in 1 .. N
      PROVE  /\ rs[k] \in RangeOf
             /\ cut[k].from <= rs[k].from /\ rs[k].from <= rs[k].to /\ rs[k].to <= cut[k].to
             /\ \A p \in Ink(t) :
                  p \in cut[k].from + 1 .. cut[k].to => p \in rs[k].from + 1 .. rs[k].to
  <2> DEFINE range == cut[k]
  <2>1. range \in RangeOf /\ range.from <= range.to
    BY <1>4, <1>5
  <2>2. rs[k] = TrimRange(t, range)
    BY <1>3, <1>4
  <2> HIDE DEF range
  <2>3. /\ rs[k] \in RangeOf
        /\ range.from <= rs[k].from /\ rs[k].from <= rs[k].to /\ rs[k].to <= range.to
        /\ \A p \in Ink(t) :
             p \in range.from + 1 .. range.to => p \in rs[k].from + 1 .. rs[k].to
    BY <2>1, <2>2, TrimRangeFacts
  <2> QED
    BY <2>3 DEF range
<1>7. rs \in Seq(RangeOf) /\ Len(rs) = N
  <2>1. rs \in [1 .. N -> RangeOf] /\ DOMAIN rs = 1 .. N
    BY <1>3, <1>4, <1>6
  <2>2. rs \in Seq(RangeOf)
    BY <1>4, <2>1, SeqDef
  <2> QED
    BY <1>4, <2>1, <2>2
<1>8. ASSUME NEW k \in 1 .. N
      PROVE  /\ cut[k].from \in Nat /\ cut[k].to \in Nat
             /\ rs[k].from \in Nat /\ rs[k].to \in Nat
  BY <1>4, <1>6 DEF RangeOf
<1>9. ASSUME NEW k \in 1 .. N
      PROVE  rs[k].to <= Size(t) /\ rs[k].to - rs[k].from <= max
  <2> DEFINE a == cut[k].from
             b == cut[k].to
             c == rs[k].from
             d == rs[k].to
  <2>1. /\ a \in Nat /\ b \in Nat /\ c \in Nat /\ d \in Nat
        /\ a <= c /\ c <= d /\ d <= b /\ b <= Size(t) /\ b - a <= max
    BY <1>5, <1>6, <1>8
  <2> HIDE DEF a, b, c, d
  <2>2. d <= Size(t) /\ d - c <= max
    BY <1>1, <2>1
  <2> QED
    BY <2>2 DEF c, d
<1>10. ASSUME NEW k \in 1 .. N, NEW l \in 1 .. N, k < l
       PROVE  rs[k].to <= rs[l].from
  <2>1. cut[k].to <= cut[l].from
    BY <1>2, <1>10 DEF RangesKeep, N
  <2> DEFINE b == cut[k].to
             d == rs[k].to
             a == cut[l].from
             c == rs[l].from
  <2>2. a \in Nat /\ b \in Nat /\ c \in Nat /\ d \in Nat /\ d <= b /\ b <= a /\ a <= c
    BY <1>6, <1>8, <2>1
  <2> HIDE DEF a, b, c, d
  <2>3. d <= c
    BY <2>2
  <2> QED
    BY <2>3 DEF c, d
<1>11. ASSUME NEW p \in Ink(t)
       PROVE  \E k \in 1 .. N : p \in rs[k].from + 1 .. rs[k].to
  <2>1. PICK k \in 1 .. N : p \in cut[k].from + 1 .. cut[k].to
    BY <1>1, <1>2 DEF RangesKeep, N
  <2> QED
    BY <1>6, <2>1
<1> QED
  BY <1>4, <1>5, <1>6, <1>7, <1>9, <1>10, <1>11 DEF RangesKeep, rs

-----------------------------------------------------------------------------
(* Trimming *)

\* The blank lines are those without characters.
Plain(t) == \A n \in DOMAIN t : (t[n].kind = "blank") <=> (t[n].chars = 0)

Retrimmed(line, x, y) == [line EXCEPT !.lead = x, !.trail = y]

(* A line is still one with other white space around it.                   *)
LEMMA RetrimmedFacts ==
  ASSUME NEW line \in Line, NEW x \in Nat, NEW y \in Nat
  PROVE  /\ Retrimmed(line, x, y) \in Line
         /\ Retrimmed(line, x, y).kind = line.kind
         /\ Retrimmed(line, x, y).chars = line.chars
  BY DEF Line, Retrimmed

(* A trimmed text is a text, and empty if it was blank.                    *)
LEMMA TrimFacts ==
  ASSUME NEW t \in Text, Plain(t)
  PROVE  /\ TrimSpace(t) \in Text /\ Plain(TrimSpace(t))
         /\ TrimSpace(t) = <<>> <=> Blank(t)
<1> DEFINE ns == TrimmedLines(t, Numbers(t))
           w == TrimSpace(t)
           N == Len(t)
<1>1. N \in Nat /\ DOMAIN t = 1 .. N /\ \A n \in 1 .. N : t[n] \in Line
  BY DEF Text
<1>2. /\ Numbers(t) = [n \in 1 .. N |-> n]
      /\ Numbers(t) \in Seq(1 .. N) /\ Len(Numbers(t)) = N
      /\ \A n \in 1 .. N : Numbers(t)[n] = n
  <2>1. Numbers(t) = [n \in 1 .. N |-> n]
    BY <1>1 DEF Numbers
  <2> HIDE DEF N
  <2> QED
    BY <1>1, <2>1
<1> DEFINE lead(i) == IF i = 1 THEN 0 ELSE t[ns[i]].lead
           trail(i) == IF i = Len(ns) THEN 0 ELSE t[ns[i]].trail
<1>3. w = [i \in DOMAIN ns |-> Retrimmed(t[ns[i]], lead(i), trail(i))]
  BY DEF TrimSpace, Retrimmed
<1>4. \/ ns = <<>> /\ \A i \in 1 .. N : ~NonBlank(t, i)
      \/ /\ ns \in Seq(1 .. N) /\ ns # <<>>
         /\ \E i \in 1 .. N : NonBlank(t, i)
  <2>1. CASE ns = <<>> /\ \A i \in 1 .. Len(Numbers(t)) : ~NonBlank(t, Numbers(t)[i])
    BY <1>2, <2>1
  <2>2. ASSUME NEW first \in 1 .. N, NEW last \in 1 .. N, first <= last,
               ns = SubSeq(Numbers(t), first, last), NonBlank(t, Numbers(t)[first])
        PROVE  ns \in Seq(1 .. N) /\ ns # <<>> /\ \E i \in 1 .. N : NonBlank(t, i)
    <3> DEFINE B == Numbers(t)
    <3>0. B \in Seq(1 .. N) /\ first \in 1 .. Len(B) /\ last \in 1 .. Len(B)
      BY <1>2
    <3> HIDE DEF ns, N, B
    <3>1. ns \in Seq(1 .. N) /\ ns # <<>>
      <4>1. SubSeq(B, first, last) \in Seq(1 .. N) /\ SubSeq(B, first, last) # <<>>
        BY <2>2, <3>0, PartOf
      <4> QED
        BY <2>2, <4>1 DEF B
    <3> QED
      BY <1>2, <2>2, <3>1
  <2> HIDE DEF ns
  <2> QED
    BY <1>2, <2>1, <2>2, TrimmedFacts DEF ns
<1> HIDE DEF ns, w, N
<1>5. CASE ns = <<>> /\ \A i \in 1 .. N : ~NonBlank(t, i)
  <2>1. w = <<>>
    BY <1>3, <1>5
  <2>2. Blank(t)
    BY <1>1, <1>5 DEF Blank, NonBlank
  <2> QED
    BY <2>1, <2>2 DEF w, Text, Plain
<1>6. CASE ns \in Seq(1 .. N) /\ ns # <<>> /\ \E i \in 1 .. N : NonBlank(t, i)
  <2>0. Len(ns) \in Nat /\ DOMAIN ns = 1 .. Len(ns) /\ Len(ns) # 0
    BY <1>6, EmptySeq, LenProperties
  <2>1. Len(ns) \in Nat \ {0} /\ DOMAIN ns = 1 .. Len(ns) /\ \A i \in 1 .. Len(ns) : ns[i] \in 1 .. N
    <3>1. \A i \in 1 .. Len(ns) : ns[i] \in 1 .. N
      BY <1>6, ElementOfSeq
    <3> QED
      BY <2>0, <3>1
  <2>b. ASSUME NEW i \in 1 .. Len(ns)
        PROVE  w[i] \in Line /\ w[i].kind = t[ns[i]].kind /\ w[i].chars = t[ns[i]].chars
    <3> DEFINE line == t[ns[i]]
               x == lead(i)
               y == trail(i)
    <3>1. line \in Line
      BY <1>1, <2>1
    <3>2. x \in Nat /\ y \in Nat
      BY <3>1 DEF Line
    <3>3. w[i] = Retrimmed(line, x, y)
      BY <1>3, <2>1
    <3> HIDE DEF line, x, y
    <3>4. /\ Retrimmed(line, x, y) \in Line
          /\ Retrimmed(line, x, y).kind = line.kind
          /\ Retrimmed(line, x, y).chars = line.chars
      BY <3>1, <3>2, RetrimmedFacts, Zenon
    <3> QED
      BY <3>3, <3>4 DEF line
  <2>2. w \in Text /\ Len(w) = Len(ns) /\ DOMAIN w = 1 .. Len(ns)
    <3>1. w \in [1 .. Len(ns) -> Line] /\ DOMAIN w = 1 .. Len(ns)
      <4> HIDE DEF lead, trail
      <4> QED
        BY <1>3, <2>1, <2>b
    <3>2. w \in Seq(Line)
      BY <2>1, <3>1, SeqDef
    <3> QED
      BY <2>1, <3>1, <3>2 DEF Text
  <2>3. w # <<>> /\ DOMAIN w = 1 .. Len(ns)
    BY <2>1, <2>2
  <2>4. Plain(w)
    <3> SUFFICES ASSUME NEW i \in 1 .. Len(ns)
                 PROVE  w[i].kind = "blank" <=> w[i].chars = 0
      BY <2>3 DEF Plain
    <3>1. ns[i] \in DOMAIN t
      BY <1>1, <2>1
    <3> QED
      BY <2>b, <3>1 DEF Plain
  <2>5. ~Blank(t)
    BY <1>1, <1>6 DEF Blank, NonBlank
  <2> QED
    BY <2>2, <2>3, <2>4, <2>5 DEF w
<1> QED
  BY <1>4, <1>5, <1>6

-----------------------------------------------------------------------------
(* What chunks tell *)

TellingOf(t) ==
  {n \in DOMAIN t :
    /\ t[n].kind # "blank"
    /\ Heading(t[n]) =>
         \E m \in n + 1 .. Len(t) :
           /\ t[m].kind # "blank"
           /\ \A i \in n + 1 .. m : ~Heading(t[i])}

(* The sections have every line of text, and the heading of every section  *)
(* with text, and of other lines only blank ones.                          *)
LEMMA TellingSections ==
  ASSUME NEW t \in Text, NEW ss, SplitInto(t, ss, Len(t)), NEW m \in 1 .. Len(t)
  PROVE  m \in TellingOf(t)
           <=> NonBlank(t, m) /\ \E k \in 1 .. Len(ss) : m \in NumbersOf(ss[k])
<1> DEFINE N == Len(t)
<1>1. N \in Nat /\ DOMAIN t = 1 .. N
  BY DEF Text
<1>2. \A n : Heading(t[n]) => NonBlank(t, n)
  BY DEF Heading, NonBlank
<1>3. ASSUME NEW k \in 1 .. Len(ss)
      PROVE  /\ GoodSection(t, ss[k]) /\ LastLine(ss[k]) \in 1 .. N /\ ss[k].title \in 0 .. N
             /\ ss[k].title < LastLine(ss[k])
             /\ 1 \in 1 .. Len(ss[k].lines)
             /\ \A i \in 1 .. Len(ss[k].lines) :
                  ss[k].lines[i] \in ss[k].title + 1 .. LastLine(ss[k])
             /\ \A i \in ss[k].title + 1 .. LastLine(ss[k]) : ~Heading(t[i])
             /\ NonBlank(t, ss[k].lines[1])
             /\ ss[k].title # 0 => Heading(t[ss[k].title])
  <2>1. GoodSection(t, ss[k])
    BY DEF SplitInto
  <2>2. 1 \in 1 .. Len(ss[k].lines)
    BY <2>1, LastLineFacts
  <2> QED
    BY <2>1, <2>2, LastLineFacts DEF GoodSection
<1>4. ASSUME NEW k \in 1 .. Len(ss), m \in NumbersOf(ss[k]), NonBlank(t, m)
      PROVE  m \in TellingOf(t)
  <2> DEFINE s == ss[k]
             T == s.title
             z == LastLine(s)
  <2>1. CASE m = T
    <3> DEFINE x == s.lines[1]
    <3>1. x \in T + 1 .. z /\ z \in 1 .. N /\ T \in 0 .. N
      BY <1>3
    <3>2. NonBlank(t, x) /\ \A i \in T + 1 .. z : ~Heading(t[i])
      BY <1>3
    <3> HIDE DEF x, T, z, s
    <3>3. x \in m + 1 .. N /\ \A i \in m + 1 .. x : ~Heading(t[i])
      BY <1>1, <2>1, <3>1, <3>2
    <3> HIDE DEF N
    <3> QED
      BY <1>1, <1>4, <3>2, <3>3 DEF TellingOf, NonBlank, N
  <2>2. CASE m # T
    <3>1. PICK i \in 1 .. Len(s.lines) : m = s.lines[i]
      BY <1>4, <2>2 DEF NumbersOf
    <3>2. ~Heading(t[m])
      BY <1>3, <3>1
    <3> QED
      BY <1>1, <1>4, <3>2 DEF TellingOf, NonBlank
  <2> QED
    BY <2>1, <2>2
<1>5. ASSUME NEW x \in 1 .. N, NonBlank(t, x), ~Heading(t[x])
      PROVE  \E k \in 1 .. Len(ss) : \E i \in 1 .. Len(ss[k].lines) : x = ss[k].lines[i]
  BY <1>5 DEF SplitInto
<1>6. ASSUME m \in TellingOf(t), Heading(t[m])
      PROVE  \E k \in 1 .. Len(ss) : m \in NumbersOf(ss[k])
  <2>1. PICK x \in m + 1 .. N :
          NonBlank(t, x) /\ \A i \in m + 1 .. x : ~Heading(t[i])
    BY <1>6 DEF TellingOf, NonBlank
  <2>2. x \in 1 .. N /\ ~Heading(t[x])
    BY <1>1, <2>1
  <2>3. PICK k \in 1 .. Len(ss) : \E i \in 1 .. Len(ss[k].lines) : x = ss[k].lines[i]
    BY <1>5, <2>1, <2>2
  <2> DEFINE T == ss[k].title
             z == LastLine(ss[k])
  <2>4. /\ x \in T + 1 .. z /\ T \in 0 .. N /\ z \in 1 .. N
        /\ \A i \in T + 1 .. z : ~Heading(t[i])
        /\ T # 0 => Heading(t[T])
    BY <1>3, <2>3
  <2> HIDE DEF T, z
  <2>5. m <= T
    <3>1. m \notin T + 1 .. z
      BY <1>6, <2>4
    <3> QED
      BY <1>1, <2>4, <3>1
  <2>6. ~(T > m)
    <3>1. SUFFICES ASSUME T > m PROVE FALSE
      OBVIOUS
    <3>2. T # 0 /\ T \in m + 1 .. x
      BY <1>1, <2>4, <3>1
    <3> QED
      BY <2>1, <2>4, <3>2
  <2>7. m = T
    BY <1>1, <2>4, <2>5, <2>6
  <2> QED
    BY <2>7 DEF NumbersOf, T
<1>7. ASSUME m \in TellingOf(t), ~Heading(t[m])
      PROVE  \E k \in 1 .. Len(ss) : m \in NumbersOf(ss[k])
  <2>1. NonBlank(t, m) /\ m \in 1 .. N
    BY <1>7 DEF TellingOf, NonBlank
  <2>2. PICK k \in 1 .. Len(ss) : \E i \in 1 .. Len(ss[k].lines) : m = ss[k].lines[i]
    BY <1>5, <1>7, <2>1
  <2> QED
    BY <2>2 DEF NumbersOf
<1>8. m \in TellingOf(t) => NonBlank(t, m)
  BY DEF TellingOf, NonBlank
<1> QED
  BY <1>4, <1>6, <1>7, <1>8

(* A text that has no characters tells nothing.                            *)
LEMMA EmptyTellsNothing ==
  ASSUME NEW t \in Text, Plain(t), Size(t) = 0
  PROVE  TellingOf(t) = {}
<1>1. \A n \in DOMAIN t : t[n].chars = 0
  BY SizeFacts
<1>2. \A n \in DOMAIN t : t[n].kind = "blank"
  BY <1>1 DEF Plain
<1> QED
  BY <1>2 DEF TellingOf

ToldBy(c) == <<c.title>> \o c.lines

(* A chunk that is a section has its lines in order behind its heading.    *)
LEMMA ToldInOrder ==
  ASSUME NEW t \in Text, NEW s \in MergedOf(t), Ordered(s),
         NEW c, c.title = s.title, c.lines = s.lines
  PROVE  /\ ToSet(ToldBy(c)) = NumbersOf(s)
         /\ \A i, j \in DOMAIN ToldBy(c) :
              i < j /\ ToldBy(c)[j] # 0 => ToldBy(c)[i] < ToldBy(c)[j]
<1> DEFINE H == <<s.title>>
           B == s.lines
           K == Len(B)
           N == Len(t)
           w == ToldBy(c)
<1>1. /\ H \in Seq(0 .. N) /\ Len(H) = 1 /\ H[1] = s.title /\ B \in Seq(0 .. N) /\ K \in Nat
      /\ N \in Nat
  BY DEF MergedOf, Text
<1>2. w = H \o B
  BY DEF ToldBy
<1> HIDE DEF H, B, w, N
<1>3. /\ w \in Seq(0 .. N) /\ Len(w) = Len(H) + Len(B)
      /\ \A i \in 1 .. Len(H) + Len(B) : w[i] = IF i <= Len(H) THEN H[i] ELSE B[i - Len(H)]
  <2> DEFINE C == H \o B
  <2>1. /\ C \in Seq(0 .. N) /\ Len(C) = Len(H) + Len(B)
        /\ \A i \in 1 .. Len(H) + Len(B) : C[i] = IF i <= Len(H) THEN H[i] ELSE B[i - Len(H)]
    BY <1>1, ConcatProperties
  <2>2. w = C
    BY <1>2
  <2> HIDE DEF C
  <2> QED
    BY <2>1, <2>2
<1>4. DOMAIN w = 1 .. K + 1
  BY <1>1, <1>3
<1> HIDE DEF K
<1>5. w[1] = s.title /\ 1 \in 1 .. K + 1
  BY <1>1, <1>3 DEF K
<1>6. ASSUME NEW i \in 1 .. K + 1, i # 1
      PROVE  i - 1 \in 1 .. K /\ w[i] = B[i - 1]
  <2>1. i - 1 \in 1 .. K /\ ~(i <= 1)
    BY <1>1, <1>6
  <2>2. w[i] = IF i <= 1 THEN H[i] ELSE B[i - 1]
    <3>1. i \in 1 .. Len(H) + Len(B)
      BY <1>1 DEF K
    <3> QED
      BY <1>1, <1>3, <3>1
  <2> QED
    BY <2>1, <2>2
<1>7. \A j \in 1 .. K : j + 1 \in 1 .. K + 1 /\ j + 1 # 1 /\ (j + 1) - 1 = j
  BY <1>1
<1>8. {w[i] : i \in DOMAIN w} = NumbersOf(s)
  <2>1. \A i \in 1 .. K + 1 : w[i] \in NumbersOf(s)
    BY <1>5, <1>6 DEF NumbersOf, B, K
  <2>2. \A j \in 1 .. K : \E i \in 1 .. K + 1 : w[i] = B[j]
    BY <1>6, <1>7
  <2>3. NumbersOf(s) = {s.title} \cup {B[j] : j \in 1 .. K}
    BY DEF NumbersOf, B, K
  <2>4. {w[i] : i \in 1 .. K + 1} = NumbersOf(s)
    <3> DEFINE W == {w[i] : i \in 1 .. K + 1}
    <3>1. W \subseteq NumbersOf(s)
      BY <2>1
    <3>2. s.title \in W
      BY <1>5
    <3>3. \A j \in 1 .. K : B[j] \in W
      BY <2>2
    <3> HIDE DEF W
    <3>4. NumbersOf(s) \subseteq W
      BY <2>3, <3>2, <3>3
    <3>5. W = NumbersOf(s)
      BY <3>1, <3>4
    <3> QED
      BY <3>5 DEF W
  <2> QED
    BY <1>4, <2>4
<1>9. ASSUME NEW i \in 1 .. K + 1, NEW j \in 1 .. K + 1, i < j, w[j] # 0
      PROVE  w[i] < w[j]
  <2>1. j # 1 /\ i \in Nat /\ j \in Nat
    BY <1>1, <1>9
  <2>2. j - 1 \in 1 .. K /\ w[j] = B[j - 1]
    BY <1>6, <2>1
  <2>3. CASE i = 1
    BY <1>5, <1>9, <2>2, <2>3 DEF Ordered, B, K
  <2>4. CASE i # 1
    <3>0. i - 1 \in 1 .. K /\ w[i] = B[i - 1]
      BY <1>6, <2>4
    <3>a. i < j
      BY <1>9
    <3>b. i - 1 < j - 1
      BY <2>1, <3>a
    <3>1. i - 1 \in 1 .. K /\ w[i] = B[i - 1] /\ i - 1 < j - 1
      BY <3>0, <3>b
    <3> QED
      BY <1>9, <2>2, <3>1 DEF Ordered, B, K
  <2> QED
    BY <2>3, <2>4
<1> QED
  BY <1>4, <1>8, <1>9 DEF w, ToSet

\* A section as its chunk shows it: a heading "Abstract" is left out.
Shown(t, s) == [s EXCEPT !.title = SectionChunk(t, s).title]
Hidden(t, s, m) ==
  m = s.title /\ s.title # 0 /\ t[s.title].isAbstract /\ Shown(t, s).title = 0

(* Nothing but that heading is left out.                                   *)
LEMMA ShownFacts ==
  ASSUME NEW t \in Text, NEW s \in MergedOf(t), Ordered(s)
  PROVE  /\ Shown(t, s) \in MergedOf(t) /\ Ordered(Shown(t, s))
         /\ Shown(t, s).lines = s.lines /\ Shown(t, s).title = SectionChunk(t, s).title
         /\ \A m : m # 0 =>
              (m \in NumbersOf(s) <=> m \in NumbersOf(Shown(t, s)) \/ Hidden(t, s, m))
<1> DEFINE L == s.lines
           T == s.title
           hide == T # 0 /\ t[T].isAbstract
           u == Shown(t, s)
<1>1. /\ s = [title |-> T, lines |-> L] /\ T \in 0 .. Len(t) /\ L \in Seq(0 .. Len(t))
      /\ 0 \in 0 .. Len(t)
  BY DEF MergedOf, Text
<1>2. SectionChunk(t, s).title = IF hide THEN 0 ELSE T
  BY DEF SectionChunk
<1>3. u = [s EXCEPT !.title = IF hide THEN 0 ELSE T]
  BY <1>2 DEF Shown
<1> HIDE DEF hide, u, T, L
<1>4. u = [title |-> IF hide THEN 0 ELSE T, lines |-> L]
  BY <1>1, <1>3
<1>5. u.title = (IF hide THEN 0 ELSE T) /\ u.lines = L /\ s.title = T /\ s.lines = L
  BY <1>4 DEF T, L
<1>6. u \in MergedOf(t)
  BY <1>1, <1>4 DEF MergedOf
<1>7. \A j \in 1 .. Len(L) : L[j] \in Nat
  BY <1>1
<1>8. Ordered(u)
  <2>1. \A i, j \in 1 .. Len(L) : i < j /\ L[j] # 0 => L[i] < L[j]
    BY <1>5 DEF Ordered
  <2>2. \A j \in 1 .. Len(L) : L[j] # 0 => T < L[j]
    BY <1>5 DEF Ordered
  <2>3. \A j \in 1 .. Len(L) : L[j] # 0 => u.title < L[j]
    BY <1>5, <1>7, <2>2
  <2> QED
    BY <1>5, <2>1, <2>3 DEF Ordered
<1>9. ASSUME NEW m, m # 0
      PROVE  m \in NumbersOf(s) <=> m \in NumbersOf(u) \/ Hidden(t, s, m)
  <2>1. m \in NumbersOf(s) <=> m = T \/ \E i \in 1 .. Len(L) : m = L[i]
    BY <1>5 DEF NumbersOf
  <2>2. m \in NumbersOf(u) <=> m = u.title \/ \E i \in 1 .. Len(L) : m = L[i]
    BY <1>5 DEF NumbersOf
  <2>3. Hidden(t, s, m) <=> m = T /\ hide
    BY <1>5 DEF Hidden, hide, u, T
  <2> QED
    BY <1>5, <1>9, <2>1, <2>2, <2>3
<1> QED
  BY <1>2, <1>5, <1>6, <1>8, <1>9 DEF u, L

-----------------------------------------------------------------------------
(* Chunks, whatever they are made from *)

PartsOf(cs, part) == {k \in DOMAIN cs : cs[k].part = part}

\* NothingLostInChunks and SizesKept, of a text and its chunks, with the
\* abstract where it is in front, and the places keep in ranges.
LinesToldBy(cs) == (UNION {ToSet(ToldBy(cs[k])) : k \in PartsOf(cs, "section")}) \ {0}
LeftOutOf(t, cs, n) ==
  /\ Heading(t[n]) /\ t[n].isAbstract
  /\ \E k \in PartsOf(cs, "section") :
       LET first == cs[k].lines[1] IN
       /\ cs[k].title = 0 /\ n < first
       /\ \A m \in n + 1 .. first : ~Heading(t[m])
SectionsFaithful(t, cs) ==
  PartsOf(cs, "section") # {} =>
    /\ PartsOf(cs, "range") = {}
    /\ \A k \in PartsOf(cs, "section") : \A i, j \in DOMAIN ToldBy(cs[k]) :
         i < j /\ ToldBy(cs[k])[j] # 0 => ToldBy(cs[k])[i] < ToldBy(cs[k])[j]
    /\ \A k, l \in PartsOf(cs, "section") : k < l =>
         \A m \in ToSet(ToldBy(cs[k])), n \in ToSet(ToldBy(cs[l])) :
           n # 0 => m < n
    /\ {n \in LinesToldBy(cs) : t[n].kind # "blank"} \subseteq TellingOf(t)
    /\ \A n \in TellingOf(t) \ LinesToldBy(cs) : LeftOutOf(t, cs, n)
RangesFaithful(t, cs, keep) ==
  PartsOf(cs, "range") # {} =>
    /\ \A p \in keep : \E k \in PartsOf(cs, "range") : p \in cs[k].from + 1 .. cs[k].to
    /\ \A k \in PartsOf(cs, "range") :
         0 <= cs[k].from /\ cs[k].from <= cs[k].to /\ cs[k].to <= Size(t)
    /\ \A k, l \in PartsOf(cs, "range") : k < l => cs[k].to <= cs[l].from
Faithful(t, cs, keep, front) ==
  /\ SectionsFaithful(t, cs) /\ RangesFaithful(t, cs, keep)
  /\ PartsOf(cs, "section") \cup PartsOf(cs, "range") = {} => TellingOf(t) = {}
  /\ PartsOf(cs, "abstract") = front
SectionsSized(t, cs) ==
  \A k \in PartsOf(cs, "section") :
    /\ k < Len(cs) => Chars(t, cs[k].lines) >= MinChars
    /\ \A i \in DOMAIN cs[k].lines : cs[k].lines[i] = 0 =>
         Chars(t, SubSeq(cs[k].lines, 1, i - 1)) < MinChars
RangesSized(t, cs, max) ==
  \A k \in PartsOf(cs, "range") :
    LET before == IF 1 \in PartsOf(cs, "abstract") THEN k - 2 ELSE k - 1 IN
    cs[k].to - cs[k].from <= max /\ before * max < Size(t)

\* cs is rest, with the abstract in front if off is 1.
Fronted(cs, off, rest) ==
  /\ off \in {0, 1} /\ Len(rest) \in Nat
  /\ DOMAIN cs = 1 .. off + Len(rest) /\ Len(cs) = off + Len(rest)
  /\ off = 1 => cs[1].part = "abstract"
  /\ \A k \in 1 .. Len(rest) : cs[off + k] = rest[k]

(* The chunk in front is in front.                                         *)
LEMMA FrontFacts ==
  ASSUME NEW R, NEW rest \in Seq(R), NEW b \in BOOLEAN,
         NEW cs, cs = (IF b THEN <<AbstractChunk>> ELSE <<>>) \o rest
  PROVE  Fronted(cs, IF b THEN 1 ELSE 0, rest)
<1> DEFINE S == R \cup {AbstractChunk}
           H == <<AbstractChunk>>
<1>1. rest \in Seq(S) /\ Len(rest) \in Nat
  BY SeqMonotonic
<1>2. AbstractChunk.part = "abstract"
  BY DEF AbstractChunk
<1>3. CASE b
  <2>1. H \in Seq(S) /\ Len(H) = 1 /\ H[1] = AbstractChunk
    OBVIOUS
  <2>2. cs = H \o rest
    BY <1>3
  <2> HIDE DEF H, S
  <2>3. /\ cs \in Seq(S) /\ Len(cs) = 1 + Len(rest)
        /\ \A i \in 1 .. 1 + Len(rest) : cs[i] = IF i <= 1 THEN H[i] ELSE rest[i - 1]
    <3> DEFINE C == H \o rest
    <3>1. /\ C \in Seq(S) /\ Len(C) = Len(H) + Len(rest)
          /\ \A i \in 1 .. Len(H) + Len(rest) :
               C[i] = IF i <= Len(H) THEN H[i] ELSE rest[i - Len(H)]
      BY <1>1, <2>1, ConcatProperties
    <3> HIDE DEF C
    <3> QED
      BY <2>1, <2>2, <3>1 DEF C
  <2>4. cs[1] = AbstractChunk
    BY <1>1, <2>1, <2>3
  <2>5. ASSUME NEW k \in 1 .. Len(rest) PROVE cs[1 + k] = rest[k]
    <3> DEFINE i == 1 + k
    <3>1. i \in 1 .. 1 + Len(rest) /\ ~(i <= 1) /\ i - 1 = k
      BY <1>1
    <3> HIDE DEF i
    <3>2. cs[i] = rest[k]
      BY <2>3, <3>1
    <3> QED
      BY <3>2 DEF i
  <2>6. DOMAIN cs = 1 .. 1 + Len(rest)
    BY <2>3
  <2> QED
    BY <1>1, <1>2, <1>3, <2>3, <2>4, <2>5, <2>6 DEF Fronted
<1>4. CASE ~b
  <2>1. cs = rest
    BY <1>1, <1>4, ConcatEmptySeq
  <2> QED
    BY <1>1, <1>4, <2>1 DEF Fronted
<1> QED
  BY <1>3, <1>4

AllOf(cs, part) == part # "abstract" /\ \A k \in 1 .. Len(cs) : cs[k].part = part

(* What is in front is of its own kind, and the rest of another.           *)
LEMMA PartsFacts ==
  ASSUME NEW cs, NEW off, NEW rest, Fronted(cs, off, rest),
         NEW part, AllOf(rest, part)
  PROVE  /\ PartsOf(cs, "abstract") = IF off = 1 THEN {1} ELSE {}
         /\ \A k : k \in PartsOf(cs, part) <=> k - off \in 1 .. Len(rest) /\ k \in DOMAIN cs
         /\ \A k \in 1 .. Len(rest) : off + k \in PartsOf(cs, part)
         /\ \A k \in PartsOf(cs, part) :
              k \in Nat /\ k - off \in 1 .. Len(rest) /\ cs[k] = rest[k - off]
         /\ \A p : p # "abstract" /\ p # part => PartsOf(cs, p) = {}
<1> DEFINE K == Len(rest)
<1>1. /\ off \in {0, 1} /\ K \in Nat /\ DOMAIN cs = 1 .. off + K
      /\ off = 1 => cs[1].part = "abstract"
      /\ \A k \in 1 .. K : cs[off + k] = rest[k] /\ cs[off + k].part = part
      /\ part # "abstract"
  BY DEF Fronted, AllOf
<1> HIDE DEF K
<1>2. ASSUME NEW k \in 1 .. off + K
      PROVE  \/ k = 1 /\ off = 1 /\ cs[k].part = "abstract" /\ k - off \notin 1 .. K
             \/ k - off \in 1 .. K /\ cs[k] = rest[k - off] /\ cs[k].part = part /\ k # 0
  <2> DEFINE j == k - off
  <2>1. (k = 1 /\ off = 1) \/ (j \in 1 .. K /\ k = off + j)
    BY <1>1
  <2>2. k = 1 /\ off = 1 => j \notin 1 .. K
    OBVIOUS
  <2>3. k # 0
    BY <1>1
  <2> HIDE DEF j
  <2>4. j \in 1 .. K /\ k = off + j => cs[k] = rest[j] /\ cs[k].part = part
    BY <1>1
  <2> QED
    BY <1>1, <2>1, <2>2, <2>3, <2>4 DEF j
<1>3. PartsOf(cs, "abstract") = IF off = 1 THEN {1} ELSE {}
  <2>1. ASSUME off = 1 PROVE 1 \in 1 .. off + K
    BY <1>1, <2>1
  <2>2. \A k \in 1 .. off + K : cs[k].part = "abstract" <=> k = 1 /\ off = 1
    BY <1>1, <1>2
  <2> QED
    BY <1>1, <2>1, <2>2 DEF PartsOf
<1>4. \A k \in 1 .. off + K : cs[k].part = part <=> k - off \in 1 .. K
  BY <1>1, <1>2
<1>5. \A k \in 1 .. K : off + k \in 1 .. off + K /\ (off + k) - off = k
  BY <1>1
<1>6. \A k \in PartsOf(cs, part) : k \in Nat /\ k - off \in 1 .. K /\ cs[k] = rest[k - off]
  <2> SUFFICES ASSUME NEW k \in PartsOf(cs, part)
               PROVE  k \in Nat /\ k - off \in 1 .. K /\ cs[k] = rest[k - off]
    OBVIOUS
  <2>1. k \in 1 .. off + K /\ cs[k].part = part
    BY <1>1 DEF PartsOf
  <2>2. k \in Nat
    BY <1>1, <2>1
  <2> QED
    BY <1>1, <1>2, <2>1, <2>2
<1>7. \A p : p # "abstract" /\ p # part => PartsOf(cs, p) = {}
  BY <1>1, <1>2 DEF PartsOf
<1>8. \A k : k \in PartsOf(cs, part) <=> k - off \in 1 .. K /\ k \in DOMAIN cs
  BY <1>1, <1>4 DEF PartsOf
<1>9. \A k \in 1 .. K : off + k \in PartsOf(cs, part)
  BY <1>1, <1>5 DEF PartsOf
<1> QED
  BY <1>3, <1>6, <1>7, <1>8, <1>9 DEF K

(* A text that is cut by size loses nothing that is to be kept.            *)
LEMMA RangesTold ==
  ASSUME NEW t \in Text, Plain(t), NEW max \in Nat \ {0}, NEW keep,
         NEW rs, RangesKeep(t, keep, max, rs),
         NEW cs, NEW off, Fronted(cs, off, rs)
  PROVE  /\ Faithful(t, cs, keep, IF off = 1 THEN {1} ELSE {})
         /\ SectionsSized(t, cs) /\ RangesSized(t, cs, max)
<1> DEFINE N == Len(rs)
           ranges == PartsOf(cs, "range")
<1>1. rs \in Seq(RangeOf) /\ N \in Nat /\ \A k \in 1 .. N : rs[k] \in RangeOf
  BY DEF RangesKeep
<1>2. /\ N = 0 => Size(t) = 0
      /\ \A k \in 1 .. N :
           /\ rs[k].from <= rs[k].to /\ rs[k].to <= Size(t)
           /\ rs[k].to - rs[k].from <= max /\ (k - 1) * max < Size(t)
      /\ \A k, l \in 1 .. N : k < l => rs[k].to <= rs[l].from
      /\ \A p \in keep : \E k \in 1 .. N : p \in rs[k].from + 1 .. rs[k].to
  BY DEF RangesKeep
<1>3. \A k \in 1 .. N : rs[k].part = "range" /\ rs[k].from \in Nat
  BY <1>1 DEF RangeOf
<1>4. /\ PartsOf(cs, "abstract") = IF off = 1 THEN {1} ELSE {}
      /\ PartsOf(cs, "section") = {}
      /\ \A k \in 1 .. N : off + k \in ranges
      /\ \A k \in ranges : k \in Nat /\ k - off \in 1 .. N /\ cs[k] = rs[k - off]
  <2>1. AllOf(rs, "range")
    BY <1>3 DEF AllOf
  <2>2. /\ PartsOf(cs, "abstract") = IF off = 1 THEN {1} ELSE {}
        /\ \A k \in 1 .. Len(rs) : off + k \in PartsOf(cs, "range")
        /\ \A k \in PartsOf(cs, "range") :
             k \in Nat /\ k - off \in 1 .. Len(rs) /\ cs[k] = rs[k - off]
        /\ \A p : p # "abstract" /\ p # "range" => PartsOf(cs, p) = {}
    BY <2>1, PartsFacts
  <2>3. PartsOf(cs, "section") = {}
    BY <2>2
  <2> QED
    BY <2>2, <2>3
<1>5. off \in {0, 1} /\ \A k \in 1 .. N : (off + k) - off = k /\ cs[off + k] = rs[k]
  BY <1>1 DEF Fronted
<1> HIDE DEF N, ranges
<1>6. ASSUME NEW p \in keep PROVE \E k \in ranges : p \in cs[k].from + 1 .. cs[k].to
  <2>1. PICK j \in 1 .. N : p \in rs[j].from + 1 .. rs[j].to
    BY <1>2
  <2> DEFINE k == off + j
  <2>2. k \in ranges /\ cs[k] = rs[j]
    BY <1>4, <1>5
  <2> HIDE DEF k
  <2> QED
    BY <2>1, <2>2
<1>7. ASSUME NEW k \in ranges
      PROVE  0 <= cs[k].from /\ cs[k].from <= cs[k].to /\ cs[k].to <= Size(t)
  <2> DEFINE j == k - off
  <2>1. j \in 1 .. N /\ cs[k] = rs[j]
    BY <1>4
  <2> HIDE DEF j
  <2> QED
    BY <1>2, <1>3, <2>1
<1>8. ASSUME NEW k \in ranges, NEW l \in ranges, k < l PROVE cs[k].to <= cs[l].from
  <2> DEFINE i == k - off
             j == l - off
  <2>1. i \in 1 .. N /\ j \in 1 .. N /\ cs[k] = rs[i] /\ cs[l] = rs[j]
    BY <1>4
  <2>2. i < j
    BY <1>4, <1>5, <1>8
  <2> HIDE DEF i, j
  <2> QED
    BY <1>2, <2>1, <2>2
<1>9. RangesFaithful(t, cs, keep)
  BY <1>6, <1>7, <1>8 DEF RangesFaithful, ranges
<1>10. ranges = {} => TellingOf(t) = {}
  <2>1. SUFFICES ASSUME ranges = {} PROVE N = 0
    BY <1>2, EmptyTellsNothing
  <2>2. 1 \notin 1 .. N
    BY <1>4, <2>1
  <2> QED
    BY <1>1, <2>2 DEF N
<1>11. Faithful(t, cs, keep, IF off = 1 THEN {1} ELSE {})
  BY <1>4, <1>9, <1>10 DEF Faithful, SectionsFaithful, ranges
<1>12. SectionsSized(t, cs)
  BY <1>4 DEF SectionsSized
<1>13. ASSUME NEW k \in ranges
       PROVE  /\ cs[k].to - cs[k].from <= max
              /\ (IF 1 \in PartsOf(cs, "abstract") THEN k - 2 ELSE k - 1) * max < Size(t)
  <2> DEFINE j == k - off
             before == IF 1 \in PartsOf(cs, "abstract") THEN k - 2 ELSE k - 1
  <2>1. j \in 1 .. N /\ cs[k] = rs[j] /\ k \in Nat
    BY <1>4
  <2>2. before = j - 1
    BY <1>4, <1>5, <2>1
  <2> HIDE DEF j, before
  <2>3. cs[k].to - cs[k].from <= max /\ before * max < Size(t)
    BY <1>2, <2>1, <2>2
  <2> QED
    BY <2>3 DEF before
<1>14. RangesSized(t, cs, max)
  BY <1>13 DEF RangesSized, ranges
<1> QED
  BY <1>11, <1>12, <1>14

(* A text that is cut at its headings loses only headings without text.    *)
LEMMA SectionsTold ==
  ASSUME NEW t \in Text, NEW max, MinChars \in Nat,
         NEW ss, SplitInto(t, ss, Len(t)),
         NEW mm, MergedSoFar(t, ss, Len(ss), mm),
         NEW rest, rest = [k \in DOMAIN mm |-> SectionChunk(t, mm[k])],
         NEW cs, NEW off, Fronted(cs, off, rest), NEW keep
  PROVE  /\ Faithful(t, cs, keep, IF off = 1 THEN {1} ELSE {})
         /\ SectionsSized(t, cs) /\ RangesSized(t, cs, max)
<1> DEFINE M == Len(mm)
           sections == PartsOf(cs, "section")
           N == Len(t)
<1>1. /\ M \in Nat /\ DOMAIN mm = 1 .. M /\ N \in Nat /\ Len(ss) \in Nat
      /\ \A a \in 1 .. M : mm[a] \in MergedOf(t)
  BY DEF MergedSoFar, SplitInto, Text
<1>2. /\ \A a \in 1 .. M : mm[a].lines # <<>> /\ Ordered(mm[a]) /\ SmallJoints(t, mm[a])
      /\ \A a, b \in 1 .. M : a < b =>
           \A x \in NumbersOf(mm[a]), y \in NumbersOf(mm[b]) : y # 0 => x < y
      /\ \A a \in 1 .. M : a < M => ~(Chars(t, mm[a].lines) < MinChars)
      /\ \A m \in 1 .. N :
           (\E a \in 1 .. M : m \in NumbersOf(mm[a]))
             <=> \E j \in 1 .. Len(ss) : m \in NumbersOf(ss[j])
  BY DEF MergedSoFar
<1>3. /\ Len(rest) = M /\ DOMAIN rest = 1 .. M
      /\ \A k \in 1 .. M :
           /\ rest[k].part = "section" /\ rest[k].lines = mm[k].lines
           /\ rest[k].title = SectionChunk(t, mm[k]).title
  <2>1. rest = [k \in 1 .. M |-> SectionChunk(t, mm[k])]
    BY <1>1
  <2> HIDE DEF M
  <2>2. Len(rest) = M /\ DOMAIN rest = 1 .. M
    BY <1>1, <2>1
  <2> QED
    BY <2>1, <2>2 DEF SectionChunk
<1> HIDE DEF M, N
<1>4. /\ PartsOf(cs, "abstract") = IF off = 1 THEN {1} ELSE {}
      /\ PartsOf(cs, "range") = {}
      /\ \A k \in 1 .. M : off + k \in sections
      /\ \A k \in sections : k \in Nat /\ k - off \in 1 .. M /\ cs[k] = rest[k - off]
  <2>1. AllOf(rest, "section")
    BY <1>3 DEF AllOf
  <2>2. /\ PartsOf(cs, "abstract") = IF off = 1 THEN {1} ELSE {}
        /\ \A k \in 1 .. Len(rest) : off + k \in PartsOf(cs, "section")
        /\ \A k \in PartsOf(cs, "section") :
             k \in Nat /\ k - off \in 1 .. Len(rest) /\ cs[k] = rest[k - off]
        /\ \A p : p # "abstract" /\ p # "section" => PartsOf(cs, p) = {}
    BY <2>1, PartsFacts
  <2>3. PartsOf(cs, "range") = {}
    BY <2>2
  <2> QED
    BY <1>3, <2>2, <2>3
<1>5. off \in {0, 1} /\ Len(cs) = off + M
  BY <1>3 DEF Fronted
<1> HIDE DEF sections
<1> DEFINE u(a) == Shown(t, mm[a])
<1>a. ASSUME NEW a \in 1 .. M
      PROVE  /\ u(a) \in MergedOf(t) /\ Ordered(u(a)) /\ u(a).lines = mm[a].lines
             /\ u(a).title = SectionChunk(t, mm[a]).title
             /\ \A m : m # 0 =>
                  (m \in NumbersOf(mm[a]) <=> m \in NumbersOf(u(a)) \/ Hidden(t, mm[a], m))
  <2> DEFINE s == mm[a]
  <2>1. s \in MergedOf(t) /\ Ordered(s)
    BY <1>1, <1>2
  <2> HIDE DEF s
  <2> QED
    BY <2>1, ShownFacts DEF s
<1> HIDE DEF u
<1>6. ASSUME NEW k \in sections
      PROVE  /\ k - off \in 1 .. M
             /\ cs[k].title = u(k - off).title /\ cs[k].lines = mm[k - off].lines
             /\ ToSet(ToldBy(cs[k])) = NumbersOf(u(k - off))
             /\ \A i, j \in DOMAIN ToldBy(cs[k]) :
                  i < j /\ ToldBy(cs[k])[j] # 0 => ToldBy(cs[k])[i] < ToldBy(cs[k])[j]
  <2> DEFINE a == k - off
             s == u(a)
  <2>0. a \in 1 .. M /\ cs[k] = rest[a]
    BY <1>4
  <2> HIDE DEF a
  <2>1. cs[k].title = s.title /\ cs[k].lines = s.lines /\ s.lines = mm[a].lines
    BY <1>3, <1>a, <2>0
  <2>2. s \in MergedOf(t) /\ Ordered(s)
    BY <1>a, <2>0
  <2> HIDE DEF s
  <2>3. /\ ToSet(ToldBy(cs[k])) = NumbersOf(s)
        /\ \A i, j \in DOMAIN ToldBy(cs[k]) :
             i < j /\ ToldBy(cs[k])[j] # 0 => ToldBy(cs[k])[i] < ToldBy(cs[k])[j]
    BY <2>1, <2>2, ToldInOrder
  <2> QED
    BY <2>0, <2>1, <2>3 DEF a, s
<1>7. ASSUME NEW k \in sections, NEW l \in sections, k < l,
             NEW m \in ToSet(ToldBy(cs[k])), NEW n \in ToSet(ToldBy(cs[l])), n # 0
      PROVE  m < n
  <2>0. k \in Nat /\ l \in Nat /\ k < l /\ off \in {0, 1}
    BY <1>4, <1>5, <1>7
  <2> DEFINE a == k - off
             b == l - off
  <2>1. a < b
    BY <2>0
  <2>2. /\ a \in 1 .. M /\ b \in 1 .. M
        /\ m \in NumbersOf(u(a)) /\ n \in NumbersOf(u(b))
    BY <1>6, <1>7
  <2> HIDE DEF a, b
  <2>3. n \in NumbersOf(mm[b])
    BY <1>7, <1>a, <2>2
  <2>4. CASE m = 0
    <3>1. u(b) \in MergedOf(t)
      BY <1>a, <2>2
    <3>2. n \in Nat
      BY <2>2, <3>1 DEF NumbersOf, MergedOf
    <3> QED
      BY <1>7, <2>4, <3>2
  <2>5. CASE m # 0
    <3>1. m \in NumbersOf(mm[a])
      BY <1>a, <2>2, <2>5
    <3> QED
      BY <1>2, <1>7, <2>1, <2>2, <2>3, <3>1
  <2> QED
    BY <2>4, <2>5
<1>8. ASSUME NEW m
      PROVE  m \in LinesToldBy(cs) <=> m # 0 /\ \E a \in 1 .. M : m \in NumbersOf(u(a))
  <2>1. ASSUME NEW a \in 1 .. M
        PROVE  off + a \in sections /\ (off + a) - off = a
    BY <1>1, <1>4, <1>5
  <2>2. ASSUME NEW a \in 1 .. M, m \in NumbersOf(u(a))
        PROVE  \E k \in sections : m \in ToSet(ToldBy(cs[k]))
    <3> DEFINE k == off + a
    <3>1. k \in sections /\ k - off = a
      BY <2>1
    <3> HIDE DEF k
    <3>2. ToSet(ToldBy(cs[k])) = NumbersOf(u(a))
      BY <1>6, <3>1
    <3> QED
      BY <2>2, <3>1, <3>2
  <2>3. ASSUME NEW k \in sections, m \in ToSet(ToldBy(cs[k]))
        PROVE  \E a \in 1 .. M : m \in NumbersOf(u(a))
    BY <1>6, <2>3
  <2>4. m \in LinesToldBy(cs) <=> m # 0 /\ \E k \in sections : m \in ToSet(ToldBy(cs[k]))
    BY DEF LinesToldBy, sections
  <2> QED
    BY <2>2, <2>3, <2>4
<1>9. ASSUME NEW a \in 1 .. M, NEW m \in NumbersOf(mm[a]), m # 0 PROVE m \in 1 .. N
  BY <1>1, <1>9 DEF NumbersOf, MergedOf, N
<1>10. ASSUME NEW m
       PROVE  m \in TellingOf(t)
                <=> /\ m # 0 /\ NonBlank(t, m)
                    /\ \E a \in 1 .. M : m \in NumbersOf(mm[a])
  <2>1. m \in TellingOf(t) => m \in 1 .. N
    BY <1>1 DEF TellingOf, N, Text
  <2>2. m \in 1 .. N => (m \in TellingOf(t) <=> NonBlank(t, m)
                           /\ \E a \in 1 .. M : m \in NumbersOf(mm[a]))
    BY <1>2, TellingSections DEF N
  <2>3. m \in 1 .. N => m # 0
    BY <1>1
  <2> QED
    BY <1>9, <2>1, <2>2, <2>3
<1>11. {n \in LinesToldBy(cs) : t[n].kind # "blank"} \subseteq TellingOf(t)
  <2> SUFFICES ASSUME NEW n \in LinesToldBy(cs), t[n].kind # "blank" PROVE n \in TellingOf(t)
    OBVIOUS
  <2>1. n # 0 /\ \E a \in 1 .. M : n \in NumbersOf(u(a))
    BY <1>8
  <2>2. \E a \in 1 .. M : n \in NumbersOf(mm[a])
    BY <1>a, <2>1
  <2> QED
    BY <1>10, <2>1, <2>2 DEF NonBlank
<1>b. ASSUME NEW n \in TellingOf(t), n \notin LinesToldBy(cs) PROVE LeftOutOf(t, cs, n)
  <2>1. PICK a \in 1 .. M : n \in NumbersOf(mm[a])
    BY <1>10
  <2>2. n # 0
    BY <1>10
  <2>3. Hidden(t, mm[a], n)
    BY <1>8, <1>a, <1>b, <2>1, <2>2
  <2>4. PICK j \in 1 .. Len(ss) : BeginsLike(mm[a], ss[j])
    BY DEF MergedSoFar, M
  <2> DEFINE s == ss[j]
             first == s.lines[1]
  <2>5. GoodSection(t, s)
    BY DEF SplitInto
  <2>6. /\ first \in s.title + 1 .. LastLine(s) /\ s.title \in 0 .. Len(t)
        /\ LastLine(s) \in 1 .. Len(t)
    <3>1. 1 \in 1 .. Len(s.lines)
      BY <2>5, LastLineFacts
    <3> QED
      BY <2>5, <3>1, LastLineFacts
  <2>7. /\ \A m \in s.title + 1 .. LastLine(s) : ~Heading(t[m])
        /\ s.title # 0 => Heading(t[s.title])
    BY <2>5 DEF GoodSection
  <2>8. n = s.title /\ t[n].isAbstract /\ u(a).title = 0 /\ mm[a].lines[1] = first
    BY <2>3, <2>4 DEF Hidden, BeginsLike, u
  <2> HIDE DEF s, first
  <2>9. n < first /\ Heading(t[n]) /\ \A m \in n + 1 .. first : ~Heading(t[m])
    <3>1. n \in Nat /\ first \in n + 1 .. LastLine(s) /\ LastLine(s) \in Nat
      BY <1>1, <2>6, <2>8
    <3>2. n < first /\ \A m \in n + 1 .. first : m \in n + 1 .. LastLine(s)
      BY <3>1
    <3> QED
      BY <2>2, <2>7, <2>8, <3>2
  <2> DEFINE k == off + a
  <2>10. k \in sections /\ k - off = a
    <3>1. a \in Int /\ off \in Int
      BY <1>1, <1>5
    <3>2. k \in sections
      BY <1>4
    <3> QED
      BY <3>1, <3>2
  <2> HIDE DEF k
  <2>11. cs[k].title = 0 /\ cs[k].lines[1] = first
    BY <1>6, <2>8, <2>10
  <2> QED
    BY <2>8, <2>9, <2>10, <2>11 DEF LeftOutOf, sections
<1>12. sections = {} => TellingOf(t) = {}
  <2>1. SUFFICES ASSUME sections = {} PROVE \A m : m \notin TellingOf(t)
    OBVIOUS
  <2>2. \A m : ~ \E a \in 1 .. M : m \in NumbersOf(mm[a])
    BY <1>4, <2>1
  <2> QED
    BY <1>10, <2>2
<1>c. SectionsFaithful(t, cs)
  BY <1>4, <1>6, <1>7, <1>11, <1>b DEF SectionsFaithful, sections
<1>13. Faithful(t, cs, keep, IF off = 1 THEN {1} ELSE {})
  BY <1>4, <1>12, <1>c DEF Faithful, RangesFaithful, sections
<1>14. SectionsSized(t, cs)
  <2> SUFFICES ASSUME NEW k \in sections
               PROVE  /\ k < Len(cs) => Chars(t, cs[k].lines) >= MinChars
                      /\ \A i \in DOMAIN cs[k].lines : cs[k].lines[i] = 0 =>
                           Chars(t, SubSeq(cs[k].lines, 1, i - 1)) < MinChars
    BY DEF SectionsSized, sections
  <2> DEFINE a == k - off
             L == mm[a].lines
  <2>0. k \in Nat /\ M \in Nat /\ off \in {0, 1} /\ Len(cs) = off + M
    BY <1>1, <1>4, <1>5
  <2>a. k < Len(cs) => a < M
    BY <2>0
  <2>1. a \in 1 .. M /\ cs[k].lines = L /\ (k < Len(cs) => a < M)
    BY <1>6, <2>a
  <2>2. L \in Seq(0 .. Len(t)) /\ DOMAIN L = 1 .. Len(L)
    BY <1>1, <2>1 DEF MergedOf
  <2>3. Chars(t, L) \in Nat
    BY <2>2, CharsFacts
  <2>4. k < Len(cs) => Chars(t, L) >= MinChars
    <3>1. k < Len(cs) => ~(Chars(t, L) < MinChars)
      BY <1>2, <2>1
    <3> HIDE DEF L
    <3> QED
      BY <2>3, <3>1
  <2>5. \A i \in 1 .. Len(L) : L[i] = 0 =>
          Chars(t, SubSeq(L, 1, i - 1)) < MinChars
    BY <1>2, <2>1 DEF SmallJoints
  <2> HIDE DEF L
  <2> QED
    BY <2>1, <2>2, <2>4, <2>5
<1>15. RangesSized(t, cs, max)
  BY <1>4 DEF RangesSized
<1> QED
  BY <1>13, <1>14, <1>15

FrontOf(t, include) ==
  IF ~Blank(abstract) /\ (include \/ t = <<>>) THEN {1} ELSE {}

(* chunkArxivContent is faithful, and keeps sizes.                         *)
LEMMA ChunksFacts ==
  ASSUME NEW t \in Text, Plain(t), NEW include \in BOOLEAN,
         MinChars \in Nat, MaxChars \in Nat \ {0}
  PROVE  /\ Faithful(t, Chunks(t, include), Ink(t), FrontOf(t, include))
         /\ SectionsSized(t, Chunks(t, include))
         /\ RangesSized(t, Chunks(t, include), MaxChars)
<1> DEFINE cs == Chunks(t, include)
           b == include /\ ~Blank(abstract)
           off == IF b THEN 1 ELSE 0
           front == IF b THEN <<AbstractChunk>> ELSE <<>>
           ss == SplitSections(t)
           mm == MergeSmallSections(t, ss)
           rs == ChunkBySize(t, MaxChars)
           rest == [k \in DOMAIN mm |-> SectionChunk(t, mm[k])]
           keep == Ink(t)
           alone == t = <<>> /\ ~Blank(abstract)
<1>1. \/ alone /\ cs = <<AbstractChunk>>
      \/ ~alone /\ cs = front \o rs
      \/ ~alone /\ cs = front \o rest
  BY DEF Chunks
<1>2. CASE alone /\ cs = <<AbstractChunk>>
  <2>1. DOMAIN cs = {1} /\ Len(cs) = 1 /\ cs[1].part = "abstract"
    BY <1>2 DEF AbstractChunk
  <2>2. TellingOf(t) = {}
    BY <1>2 DEF TellingOf
  <2>3. FrontOf(t, include) = {1}
    BY <1>2 DEF FrontOf
  <2> HIDE DEF cs
  <2>4. /\ PartsOf(cs, "abstract") = {1} /\ PartsOf(cs, "section") = {}
        /\ PartsOf(cs, "range") = {}
    BY <2>1 DEF PartsOf
  <2>5. Faithful(t, cs, keep, FrontOf(t, include)) /\ SectionsSized(t, cs)
        /\ RangesSized(t, cs, MaxChars)
    BY <2>2, <2>3, <2>4
    DEF Faithful, SectionsFaithful, RangesFaithful, SectionsSized, RangesSized
  <2> QED
    BY <2>5 DEF cs
<1>3. ~alone => FrontOf(t, include) = IF off = 1 THEN {1} ELSE {}
  BY DEF FrontOf
<1>4. CASE ~alone /\ cs = front \o rs
  <2>1. RangesKeep(t, keep, MaxChars, rs)
    BY TrimKeeps
  <2> HIDE DEF rs, cs, keep
  <2>2. rs \in Seq(RangeOf)
    BY <2>1 DEF RangesKeep
  <2>3. b \in BOOLEAN /\ cs = (IF b THEN <<AbstractChunk>> ELSE <<>>) \o rs
    BY <1>4
  <2> HIDE DEF b
  <2>4. Fronted(cs, off, rs)
    BY <2>2, <2>3, FrontFacts
  <2> HIDE DEF off
  <2>5. /\ Faithful(t, cs, keep, IF off = 1 THEN {1} ELSE {})
        /\ SectionsSized(t, cs) /\ RangesSized(t, cs, MaxChars)
    BY <2>1, <2>4, RangesTold
  <2>6. Faithful(t, cs, keep, FrontOf(t, include))
    BY <1>3, <1>4, <2>5
  <2> QED
    BY <2>5, <2>6 DEF cs, keep
<1>5. CASE ~alone /\ cs = front \o rest
  <2> DEFINE R == {SectionChunk(t, mm[k]) : k \in DOMAIN mm}
  <2>1. SplitInto(t, ss, Len(t))
    BY SplitFacts
  <2> HIDE DEF ss
  <2>2. MergedSoFar(t, ss, Len(ss), mm)
    BY <2>1, MergeFacts
  <2> HIDE DEF mm, cs, keep
  <2>3. mm \in Seq(MergedOf(t))
    BY <2>2 DEF MergedSoFar
  <2>4. rest \in Seq(R)
    <3>1. DOMAIN mm = 1 .. Len(mm) /\ Len(mm) \in Nat
      BY <2>3
    <3>2. rest \in [1 .. Len(mm) -> R]
      BY <3>1
    <3> HIDE DEF R, rest
    <3> QED
      BY <3>1, <3>2, SeqDef
  <2>5. rest = [k \in DOMAIN mm |-> SectionChunk(t, mm[k])]
    OBVIOUS
  <2> HIDE DEF R, rest
  <2>6. b \in BOOLEAN /\ cs = (IF b THEN <<AbstractChunk>> ELSE <<>>) \o rest
    BY <1>5
  <2> HIDE DEF b
  <2>7. Fronted(cs, off, rest)
    BY <2>4, <2>6, FrontFacts
  <2> HIDE DEF off
  <2>8. /\ Faithful(t, cs, keep, IF off = 1 THEN {1} ELSE {})
        /\ SectionsSized(t, cs) /\ RangesSized(t, cs, MaxChars)
    BY <2>1, <2>2, <2>5, <2>7, SectionsTold
  <2>9. Faithful(t, cs, keep, FrontOf(t, include))
    BY <1>3, <1>5, <2>8
  <2> QED
    BY <2>8, <2>9 DEF cs, keep
<1> QED
  BY <1>1, <1>2, <1>4, <1>5

-----------------------------------------------------------------------------
(* The papers *)

PaperTyped ==
  /\ body \in Text /\ abstract \in Text /\ config \in ArxivConfig
  /\ Plain(body) /\ Plain(abstract)
PaperInv == PaperTyped /\ NothingLostInChunks /\ SizesKept

\* What is promised of a text that was chunked.
MustKeep(u, t) == IF u = "testfile" THEN 1 .. Size(t) ELSE Ink(t)
Promised(t, cs, front, u) ==
  /\ Faithful(t, cs, MustKeep(u, t), front) /\ SectionsSized(t, cs)
  /\ u # "testfile" => RangesSized(t, cs, MaxChars)
AbstractIn(u, t) ==
  IF /\ u \in {"arxiv", "tool"} /\ ~Blank(abstract)
     /\ config.include \/ t = <<>>
     /\ u = "arxiv" => ~Blank(body)
  THEN {1} ELSE {}

(* Every use of a paper keeps what is promised.                            *)
LEMMA UsesKeep ==
  ASSUME PaperTyped, PaperNext
  PROVE  /\ user' # "none" /\ UNCHANGED <<body, abstract, config>>
         /\ Promised(content', chunks', AbstractIn(user', content'), user')
<1>1. MinChars \in Nat /\ MaxChars \in Nat \ {0} /\ config.include \in BOOLEAN
      /\ config.max \in Int
  <2>1. config.max \in Int /\ config.min \in Int /\ config.include \in BOOLEAN
    BY DEF PaperTyped, ArxivConfig
  <2>2. MinChars \in Nat
    BY <2>1 DEF MinChars
  <2>3. MaxChars \in Nat \ {0}
    BY <2>1 DEF MaxChars
  <2> QED
    BY <2>1, <2>2, <2>3
<1>2. ASSUME NEW t \in Text, Plain(t)
      PROVE  /\ TrimSpace(t) \in Text /\ Plain(TrimSpace(t))
             /\ TrimSpace(t) = <<>> <=> Blank(t)
  BY <1>2, TrimFacts
<1>3. ASSUME NEW t \in Text, Plain(t), NEW include \in BOOLEAN
      PROVE  /\ Faithful(t, Chunks(t, include), Ink(t), FrontOf(t, include))
             /\ SectionsSized(t, Chunks(t, include))
             /\ RangesSized(t, Chunks(t, include), MaxChars)
  BY <1>1, <1>3, ChunksFacts
<1>4. CASE FetchPaper
  <2> DEFINE t == IF Blank(body) THEN abstract ELSE body
             include == config.include /\ ~Blank(body)
  <2>1. t \in Text /\ Plain(t) /\ include \in BOOLEAN
    BY <1>1 DEF PaperTyped
  <2>2. /\ user' = "arxiv" /\ UNCHANGED <<body, abstract, config>>
        /\ content' = TrimSpace(t) /\ chunks' = Chunks(content', include)
    BY <1>4 DEF FetchPaper, Use
  <2>3. content' = <<>> <=> Blank(t)
    BY <1>2, <2>1, <2>2
  <2>4. AbstractIn("arxiv", content') = FrontOf(content', include)
    BY <2>3 DEF AbstractIn, FrontOf
  <2>5. content' \in Text /\ Plain(content')
    BY <1>2, <2>1, <2>2
  <2> HIDE DEF include, t
  <2>6. /\ Faithful(content', Chunks(content', include), Ink(content'), FrontOf(content', include))
        /\ SectionsSized(content', Chunks(content', include))
        /\ RangesSized(content', Chunks(content', include), MaxChars)
    BY <1>3, <2>1, <2>5
  <2> QED
    BY <2>2, <2>4, <2>6 DEF Promised, MustKeep
<1>5. CASE FetchAbstract
  <2>1. /\ user' = "abstract" /\ UNCHANGED <<body, abstract, config>>
        /\ content' = TrimSpace(abstract) /\ chunks' = Chunks(content', FALSE)
    BY <1>5 DEF FetchAbstract, Use
  <2>2. content' \in Text /\ Plain(content') /\ (content' = <<>> <=> Blank(abstract))
    BY <1>2, <2>1 DEF PaperTyped
  <2>3. AbstractIn("abstract", content') = FrontOf(content', FALSE)
    BY <2>2 DEF AbstractIn, FrontOf
  <2>4. /\ Faithful(content', Chunks(content', FALSE), Ink(content'), FrontOf(content', FALSE))
        /\ SectionsSized(content', Chunks(content', FALSE))
        /\ RangesSized(content', Chunks(content', FALSE), MaxChars)
    BY <1>3, <2>2
  <2> QED
    BY <2>1, <2>3, <2>4 DEF Promised, MustKeep
<1>6. CASE PreviewChunking
  <2>1. /\ user' = "tool" /\ UNCHANGED <<body, abstract, config>>
        /\ content' = TrimSpace(body)
        /\ chunks' = Chunks(content', config.include)
    BY <1>6 DEF PreviewChunking, Use
  <2>2. content' \in Text /\ Plain(content') /\ (content' = <<>> <=> Blank(body))
    BY <1>2, <2>1 DEF PaperTyped
  <2>3. AbstractIn("tool", content') = FrontOf(content', config.include)
    BY DEF AbstractIn, FrontOf
  <2> DEFINE include == config.include
  <2>4. include \in BOOLEAN
    BY <1>1
  <2>5. include = config.include
    OBVIOUS
  <2> HIDE DEF include
  <2>6. /\ Faithful(content', Chunks(content', include), Ink(content'), FrontOf(content', include))
        /\ SectionsSized(content', Chunks(content', include))
        /\ RangesSized(content', Chunks(content', include), MaxChars)
    BY <1>3, <2>2, <2>4
  <2> QED
    BY <2>1, <2>3, <2>5, <2>6 DEF Promised, MustKeep
<1>7. CASE FetchTestFile
  <2> DEFINE total == Size(body)
             keep == 1 .. total
             one == <<[part |-> "range", from |-> 0, to |-> total]>>
             cs == chunks'
  <2>1. /\ user' = "testfile" /\ UNCHANGED <<body, abstract, config>> /\ content' = body
        /\ cs = IF config.max <= 0 THEN one ELSE CutBySize(total, config.max)
    BY <1>7 DEF FetchTestFile, Use
  <2>2. AbstractIn("testfile", body) = {} /\ MustKeep("testfile", body) = keep
    BY DEF AbstractIn, MustKeep
  <2>3. body \in Text /\ Plain(body) /\ total \in Nat
    BY SizeFacts DEF PaperTyped
  <2>4. CASE config.max <= 0
    <3>1. cs = one
      BY <2>1, <2>4
    <3>2. /\ DOMAIN cs = {1} /\ Len(cs) = 1 /\ cs[1].part = "range"
          /\ cs[1].from = 0 /\ cs[1].to = total
      BY <3>1
    <3>3. total \in Nat /\ total <= Size(body) /\ \A p \in keep : p \in 0 + 1 .. total
      BY <2>3
    <3> HIDE DEF total, keep, cs
    <3>4. /\ PartsOf(cs, "range") = {1} /\ PartsOf(cs, "section") = {}
          /\ PartsOf(cs, "abstract") = {}
      BY <3>2 DEF PartsOf
    <3>5. RangesFaithful(body, cs, keep)
      BY <3>2, <3>3, <3>4 DEF RangesFaithful
    <3>6. Faithful(body, cs, keep, {}) /\ SectionsSized(body, cs)
      BY <3>4, <3>5 DEF Faithful, SectionsFaithful, SectionsSized
    <3> QED
      BY <2>1, <2>2, <3>6 DEF Promised, cs
  <2>5. CASE ~(config.max <= 0)
    <3> DEFINE max == config.max
    <3>1. max \in Nat \ {0} /\ cs = CutBySize(total, max)
      BY <1>1, <2>1, <2>5
    <3> HIDE DEF max
    <3>2. RangesKeep(body, keep, max, cs)
      BY <2>3, <3>1, CutKeeps
    <3> HIDE DEF cs, keep, total
    <3>3. Fronted(cs, 0, cs)
      BY <3>2 DEF Fronted, RangesKeep
    <3>4. Faithful(body, cs, keep, IF 0 = 1 THEN {1} ELSE {}) /\ SectionsSized(body, cs)
      BY <2>3, <3>1, <3>2, <3>3, RangesTold
    <3>5. (IF 0 = 1 THEN {1} ELSE {}) = {}
      OBVIOUS
    <3> QED
      BY <2>1, <2>2, <3>4, <3>5 DEF Promised, cs
  <2> QED
    BY <2>4, <2>5
<1> QED
  BY <1>4, <1>5, <1>6, <1>7 DEF PaperNext

(* Nothing is chunked at first.                                            *)
LEMMA PaperBegins ==
  ASSUME PaperInit
  PROVE  PaperInv
<1>1. PaperTyped
  BY ChunkingAssumption DEF PaperInit, PaperTyped, Plain, Text
<1> QED
  BY <1>1 DEF PaperInv, PaperInit, NothingLostInChunks, SizesKept

(* Each use of a paper keeps the invariant, and so does what is no use.    *)
LEMMA PaperGoesOn ==
  ASSUME PaperInv, [PaperNext]_paperVars
  PROVE  PaperInv'
<1>1. CASE PaperNext
  <2>1. /\ user' # "none" /\ UNCHANGED <<body, abstract, config>>
        /\ Promised(content', chunks', AbstractIn(user', content'), user')
    BY <1>1, UsesKeep DEF PaperInv
  <2>2. PaperTyped'
    BY <2>1 DEF PaperInv, PaperTyped
  <2>3. NothingLostInChunks'
    <3>1. Faithful(content', chunks', MustKeep(user', content'), AbstractIn(user', content'))
      BY <2>1 DEF Promised
    <3>2. /\ Faithful(content', chunks', ToKeep', AbstractIn(user', content'))
          /\ MustKeep(user', content') = ToKeep'
      BY <3>1 DEF MustKeep, ToKeep
    <3>3. /\ Parts("section")' = PartsOf(chunks', "section")
          /\ Parts("range")' = PartsOf(chunks', "range")
          /\ Parts("abstract")' = PartsOf(chunks', "abstract")
          /\ Telling' = TellingOf(content')
      BY DEF Parts, PartsOf, Telling, TellingOf
    <3>4. LinesTold' = LinesToldBy(chunks') /\ \A k : Told(k)' = ToldBy(chunks'[k])
      BY <3>3 DEF LinesTold, LinesToldBy, Told, ToldBy
    <3>5. \A n : LeftOut(n)' <=> LeftOutOf(content', chunks', n)
      BY <3>3 DEF LeftOut, LeftOutOf
    <3> QED
      BY <2>1, <3>2, <3>3, <3>4, <3>5 DEF NothingLostInChunks, InPlace, Faithful,
         SectionsFaithful, RangesFaithful, AbstractIn
  <2>4. SizesKept'
    <3>1. MinChars' = MinChars /\ MaxChars' = MaxChars
      BY <2>1 DEF MinChars, MaxChars
    <3>2. /\ SectionsSized(content', chunks')
          /\ user' # "testfile" => RangesSized(content', chunks', MaxChars)
      BY <2>1 DEF Promised
    <3> QED
      BY <3>1, <3>2 DEF SizesKept, Parts, SectionsSized, RangesSized, PartsOf
  <2> QED
    BY <2>2, <2>3, <2>4 DEF PaperInv
<1>2. CASE UNCHANGED paperVars
  BY <1>2 DEF paperVars, PaperInv, PaperTyped, NothingLostInChunks, SizesKept,
     Parts, InPlace, Told, LinesTold, Telling, LeftOut, ToKeep,
     MinChars, MaxChars
<1> QED
  BY <1>1, <1>2

(***************************************************************************)
(* Of a paper nothing but white space and the heading "Abstract" is lost   *)
(* when it becomes chunks, and nothing is doubled or moved, whatever its   *)
(* text, its abstract and the settings are.                                *)
(***************************************************************************)
THEOREM ChunksAreFaithful ==
  PaperSpec => []NothingLostInChunks
<1>1. PaperInit => PaperInv
  BY PaperBegins
<1>2. PaperInv /\ [PaperNext]_paperVars => PaperInv'
  BY PaperGoesOn
<1>3. PaperInv => NothingLostInChunks
  BY DEF PaperInv
<1> QED
  BY <1>1, <1>2, <1>3, PTL DEF PaperSpec

(***************************************************************************)
(* No section is smaller than it may be but the last, none has swallowed   *)
(* another without need, no range is larger than asked for, and there are  *)
(* no more of them than the text needs.                                    *)
(***************************************************************************)
THEOREM ChunksKeepSizes ==
  PaperSpec => []SizesKept
<1>1. PaperInit => PaperInv
  BY PaperBegins
<1>2. PaperInv /\ [PaperNext]_paperVars => PaperInv'
  BY PaperGoesOn
<1>3. PaperInv => SizesKept
  BY DEF PaperInv
<1> QED
  BY <1>1, <1>2, <1>3, PTL DEF PaperSpec
=============================================================================
