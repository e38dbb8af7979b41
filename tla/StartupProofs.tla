---------------------------- MODULE StartupProofs ----------------------------
(***************************************************************************)
(* Proofs about module Startup, for any documents, any number of them and  *)
(* any number of entries in their sections.                                *)
(***************************************************************************)
EXTENDS Startup, WellFoundedInduction, TLAPS

-----------------------------------------------------------------------------
(* FlattenSeq, with which flows are put together *)

(* Induction, for a set: what holds at 0 and goes on holds for all.        *)
LEMMA SetInduction ==
  ASSUME NEW T, 0 \in T, \A n \in Nat : n \in T => n + 1 \in T
  PROVE  Nat \subseteq T
<1> DEFINE U == {n \in Nat : n \notin T}
           R == {p \in Nat \X Nat : p[1] < p[2]}
<1>1. IsWellFoundedOn(R, Nat)
  BY NatLessThanWellFounded DEF OpToRel
<1>2. SUFFICES ASSUME U # {} PROVE FALSE
  OBVIOUS
<1>3. U \subseteq Nat
  OBVIOUS
<1> HIDE DEF R, U
<1>4. PICK x \in U : \A y \in U : ~(<<y, x>> \in R)
  BY <1>1, <1>2, <1>3, WFMin
<1> USE DEF U
<1>5. x # 0 /\ x - 1 \in Nat
  BY <1>4
<1>6. x - 1 \in U
  BY <1>5
<1>7. <<x - 1, x>> \in R
  BY <1>5 DEF R
<1> QED
  BY <1>4, <1>6, <1>7

\* Of the sequences q, the first k put together, for every k up to n.
Flattenings(q, S, n) ==
  {g \in [1 .. n -> Seq(S)] :
     /\ g[1] = q[1]
     /\ \A k \in 2 .. n : g[k] = g[k - 1] \o q[k]}

(* FlattenSeq computes the last of them. *)
LEMMA SomePrefixes ==
  ASSUME NEW S, NEW q \in Seq(Seq(S)), q # <<>>
  PROVE  Flattenings(q, S, Len(q)) # {}
<1> DEFINE T == {n \in Nat : n <= Len(q) => n = 0 \/ Flattenings(q, S, n) # {}}
<1>1. 0 \in T
  OBVIOUS
<1>2. ASSUME NEW n \in Nat, n \in T PROVE n + 1 \in T
  <2>1. SUFFICES ASSUME n + 1 <= Len(q) PROVE Flattenings(q, S, n + 1) # {}
    OBVIOUS
  <2>2. CASE n = 0
    <3>1. [k \in 1 .. 1 |-> q[1]] \in Flattenings(q, S, 1)
      BY <2>1, <2>2 DEF Flattenings
    <3> QED
      BY <2>2, <3>1
  <2>3. CASE n # 0
    <3>1. PICK g \in Flattenings(q, S, n) : TRUE
      BY <1>2, <2>1, <2>3
    <3> DEFINE h == [k \in 1 .. n + 1 |-> IF k = n + 1 THEN g[n] \o q[k] ELSE g[k]]
    <3>2. g \in [1 .. n -> Seq(S)] /\ g[1] = q[1]
      BY DEF Flattenings
    <3>3. \A k \in 2 .. n : g[k] = g[k - 1] \o q[k]
      BY DEF Flattenings
    <3>4. g[n] \o q[n + 1] \in Seq(S)
      <4>1. g[n] \in Seq(S) /\ q[n + 1] \in Seq(S)
        BY <2>1, <2>3, <3>2
      <4> QED
        BY <4>1
    <3>5. h \in [1 .. n + 1 -> Seq(S)] /\ h[1] = q[1]
      BY <2>3, <3>2, <3>4
    <3>6. ASSUME NEW k \in 2 .. n + 1 PROVE h[k] = h[k - 1] \o q[k]
      <4>1. CASE k = n + 1
        <5>1. k \in 1 .. n + 1 /\ k - 1 = n /\ n \in 1 .. n + 1 /\ n # n + 1
          BY <4>1, <2>3
        <5>2. h[k] = g[n] \o q[k] /\ h[k - 1] = g[n]
          BY <5>1, <4>1
        <5> QED
          BY <5>2
      <4>2. CASE k # n + 1
        <5>1. /\ k \in 2 .. n /\ k \in 1 .. n + 1 /\ k - 1 \in 1 .. n + 1
              /\ k - 1 # n + 1
          BY <4>2
        <5>2. h[k] = g[k] /\ h[k - 1] = g[k - 1]
          BY <5>1, <4>2
        <5> QED
          BY <3>3, <5>1, <5>2
      <4> QED
        BY <4>1, <4>2
    <3> HIDE DEF h
    <3>7. h \in Flattenings(q, S, n + 1)
      BY <3>5, <3>6 DEF Flattenings
    <3> QED
      BY <3>7
  <2> QED
    BY <2>2, <2>3
<1> HIDE DEF T
<1>3. Nat \subseteq T
  BY <1>1, <1>2, SetInduction
<1> QED
  BY <1>3 DEF T

(* And so it is one of them: a recursion that always ends. *)
LEMMA FlattenIsPrefix ==
  ASSUME NEW S, NEW q \in Seq(Seq(S)), q # <<>>
  PROVE  \E g \in Flattenings(q, S, Len(q)) : FlattenSeq(q) = g[Len(q)]
<1> DEFINE Rec(f) == f = [i \in 1 .. Len(q) |->
                          IF i = 1 THEN q[i] ELSE f[i - 1] \o q[i]]
           w == CHOOSE f : Rec(f)
<1>1. PICK g \in Flattenings(q, S, Len(q)) : TRUE
  BY SomePrefixes
<1>2. Rec(g)
  <2>1. g \in [1 .. Len(q) -> Seq(S)] /\ g[1] = q[1]
    BY DEF Flattenings
  <2>2. \A k \in 2 .. Len(q) : g[k] = g[k - 1] \o q[k]
    BY DEF Flattenings
  <2> DEFINE r == [i \in 1 .. Len(q) |-> IF i = 1 THEN q[i] ELSE g[i - 1] \o q[i]]
  <2>3. ASSUME NEW k \in 1 .. Len(q) PROVE g[k] = r[k]
    <3>1. CASE k = 1
      BY <2>1, <3>1
    <3>2. CASE k # 1
      <4>1. k \in 2 .. Len(q)
        BY <3>2
      <4> QED
        BY <2>2, <3>2, <4>1
    <3> QED
      BY <3>1, <3>2
  <2>4. DOMAIN g = DOMAIN r /\ g = [k \in DOMAIN g |-> g[k]]
    BY <2>1
  <2>5. r = [k \in DOMAIN r |-> r[k]]
    OBVIOUS
  <2> HIDE DEF r
  <2>6. g = r
    BY <2>1, <2>3, <2>4, <2>5
  <2> QED
    BY <2>6 DEF r
<1>3. Rec(w)
  BY <1>2
<1>4. FlattenSeq(q) = w[Len(q)]
  BY DEF FlattenSeq
<1> HIDE DEF w
<1>5. w[1] = q[1] /\ \A k \in 2 .. Len(q) : w[k] = w[k - 1] \o q[k]
  <2>1. 1 \in 1 .. Len(q)
    OBVIOUS
  <2>2. \A k \in 1 .. Len(q) : w[k] = IF k = 1 THEN q[k] ELSE w[k - 1] \o q[k]
    BY <1>3
  <2>3. ASSUME NEW k \in 2 .. Len(q) PROVE w[k] = w[k - 1] \o q[k]
    <3>1. k \in 1 .. Len(q) /\ k # 1
      OBVIOUS
    <3> QED
      BY <2>2, <3>1
  <2> QED
    BY <2>1, <2>2, <2>3
<1>6. \A k \in Nat : k \in 1 .. Len(q) => w[k] \in Seq(S)
  <2> DEFINE T == {k \in Nat : k \in 1 .. Len(q) => w[k] \in Seq(S)}
  <2>1. 0 \in T
    OBVIOUS
  <2>2. ASSUME NEW n \in Nat, n \in T PROVE n + 1 \in T
    <3>1. SUFFICES ASSUME n + 1 \in 1 .. Len(q) PROVE w[n + 1] \in Seq(S)
      OBVIOUS
    <3>2. q[n + 1] \in Seq(S)
      BY <3>1
    <3>3. CASE n = 0
      BY <1>5, <3>2, <3>3
    <3>4. CASE n # 0
      <4>1. n \in 1 .. Len(q) /\ n + 1 \in 2 .. Len(q) /\ (n + 1) - 1 = n
        BY <3>1, <3>4
      <4>2. w[n] \in Seq(S)
        BY <2>2, <4>1
      <4>3. w[n + 1] = w[(n + 1) - 1] \o q[n + 1]
        BY <1>5, <4>1
      <4>4. w[n + 1] = w[n] \o q[n + 1]
        BY <4>1, <4>3
      <4> QED
        BY <3>2, <4>2, <4>4
    <3> QED
      BY <3>3, <3>4
  <2> HIDE DEF T
  <2>3. Nat \subseteq T
    BY <2>1, <2>2, SetInduction
  <2> QED
    BY <2>3 DEF T
<1>7. w \in [1 .. Len(q) -> Seq(S)]
  BY <1>3, <1>6
<1>8. w \in Flattenings(q, S, Len(q))
  BY <1>5, <1>7 DEF Flattenings
<1> QED
  BY <1>4, <1>8

(* How long the prefixes get.                                              *)
LEMMA PrefixLengths ==
  ASSUME NEW S, NEW q \in Seq(Seq(S)), NEW g \in Flattenings(q, S, Len(q))
  PROVE  \A k \in 1 .. Len(q) :
           /\ (\A i \in DOMAIN q : q[i] # <<>>) => Len(g[k]) >= k
           /\ (\A i \in DOMAIN q : Len(q[i]) = 1) => Len(g[k]) = k
           /\ \A i \in 1 .. k : Len(q[i]) <= Len(g[k])
<1> DEFINE Fine(k) ==
             /\ (\A i \in DOMAIN q : q[i] # <<>>) => Len(g[k]) >= k
             /\ (\A i \in DOMAIN q : Len(q[i]) = 1) => Len(g[k]) = k
             /\ \A i \in 1 .. k : Len(q[i]) <= Len(g[k])
           T == {k \in Nat : k \in 1 .. Len(q) => Fine(k)}
<1>1. g \in [1 .. Len(q) -> Seq(S)] /\ g[1] = q[1]
  BY DEF Flattenings
<1>2. \A k \in 2 .. Len(q) : g[k] = g[k - 1] \o q[k]
  BY DEF Flattenings
<1>3. \A k \in 1 .. Len(q) : q[k] \in Seq(S)
  OBVIOUS
<1>4. ASSUME NEW n \in Nat, n \in T PROVE n + 1 \in T
  <2>1. SUFFICES ASSUME n + 1 \in 1 .. Len(q) PROVE Fine(n + 1)
    OBVIOUS
  <2>2. CASE n = 0
    <3>1. g[1] = q[1] /\ q[1] \in Seq(S) /\ 1 \in DOMAIN q
      BY <1>1, <2>1, <2>2
    <3> QED
      BY <3>1, <2>2
  <2>3. CASE n # 0
    <3>1. n \in 1 .. Len(q) /\ n + 1 \in 2 .. Len(q) /\ (n + 1) - 1 = n
      BY <2>1, <2>3
    <3>2. Fine(n)
      BY <1>4, <3>1
    <3>3. g[n + 1] = g[n] \o q[n + 1]
      BY <1>2, <3>1
    <3>4. g[n] \in Seq(S) /\ q[n + 1] \in Seq(S)
      BY <1>1, <1>3, <2>1, <3>1
    <3>5. /\ Len(g[n + 1]) = Len(g[n]) + Len(q[n + 1])
          /\ Len(g[n]) \in Nat /\ Len(q[n + 1]) \in Nat
      BY <3>3, <3>4
    <3>6. n + 1 \in DOMAIN q
      BY <3>1
    <3>7. q[n + 1] # <<>> => Len(q[n + 1]) > 0
      BY <3>4
    <3> DEFINE before == Len(g[n])
               added == Len(q[n + 1])
               total == Len(g[n + 1])
    <3>11. total = before + added /\ before \in Nat /\ added \in Nat
      BY <3>5
    <3> HIDE DEF before, added, total
    <3>8. ASSUME NEW i \in 1 .. n + 1 PROVE Len(q[i]) <= Len(g[n + 1])
      <4>1. CASE i = n + 1
        <5>1. Len(q[i]) = added /\ Len(g[n + 1]) = total
          BY <4>1 DEF added, total
        <5> QED
          BY <5>1, <3>11
      <4>2. CASE i # n + 1
        <5>1. i \in 1 .. n /\ i \in 1 .. Len(q)
          BY <4>2, <3>1
        <5>2. Len(q[i]) <= before /\ Len(q[i]) \in Nat
          BY <5>1, <3>2, <1>3 DEF before
        <5>3. Len(q[i]) <= total
          BY <5>2, <3>11
        <5> QED
          BY <5>3 DEF total
      <4> QED
        BY <4>1, <4>2
    <3>9. (\A i \in DOMAIN q : q[i] # <<>>) => Len(g[n + 1]) >= n + 1
      <4>1. SUFFICES ASSUME \A i \in DOMAIN q : q[i] # <<>> PROVE total >= n + 1
        BY DEF total
      <4>2. before >= n /\ added > 0
        BY <4>1, <3>2, <3>6, <3>7 DEF before, added
      <4> QED
        BY <4>2, <3>11
    <3>10. (\A i \in DOMAIN q : Len(q[i]) = 1) => Len(g[n + 1]) = n + 1
      <4>1. SUFFICES ASSUME \A i \in DOMAIN q : Len(q[i]) = 1 PROVE total = n + 1
        BY DEF total
      <4>2. before = n /\ added = 1
        BY <4>1, <3>2, <3>6 DEF before, added
      <4> QED
        BY <4>2, <3>11
    <3> QED
      BY <3>8, <3>9, <3>10
  <2> QED
    BY <2>2, <2>3
<1>5. 0 \in T
  OBVIOUS
<1> HIDE DEF T
<1>6. Nat \subseteq T
  BY <1>4, <1>5, SetInduction
<1> QED
  BY <1>6 DEF T

(* What FlattenSeq makes of sequences over S: a sequence over S, no        *)
(* shorter than any of them; one element for each, if each has one.        *)
LEMMA FlattenFacts ==
  ASSUME NEW S, NEW q \in Seq(Seq(S))
  PROVE  /\ FlattenSeq(q) \in Seq(S)
         /\ (\A i \in DOMAIN q : q[i] # <<>>) => Len(FlattenSeq(q)) >= Len(q)
         /\ (\A i \in DOMAIN q : Len(q[i]) = 1) => Len(FlattenSeq(q)) = Len(q)
         /\ \A i \in DOMAIN q : Len(q[i]) <= Len(FlattenSeq(q))
<1>1. CASE q = <<>>
  <2>1. Len(q) = 0
    BY <1>1
  <2>2. FlattenSeq(q) = q
    BY <2>1 DEF FlattenSeq
  <2>3. \A i \in DOMAIN q : FALSE
    BY <1>1
  <2>4. q \in Seq(S)
    BY <1>1
  <2> QED
    BY <2>1, <2>2, <2>3, <2>4
<1>2. CASE q # <<>>
  <2>1. PICK g \in Flattenings(q, S, Len(q)) : FlattenSeq(q) = g[Len(q)]
    BY <1>2, FlattenIsPrefix
  <2>2. Len(q) \in 1 .. Len(q) /\ DOMAIN q = 1 .. Len(q)
    BY <1>2
  <2>3. g[Len(q)] \in Seq(S)
    BY <2>2 DEF Flattenings
  <2> QED
    BY <2>1, <2>2, <2>3, PrefixLengths
<1> QED
  BY <1>1, <1>2

-----------------------------------------------------------------------------
(* What is built of a document *)

(* The variants an entry sets are all listed, and no others are.           *)
LEMMA GivenListed ==
  ASSUME NEW s \in Stages, NEW e \in EntryOf(s)
  PROVE  /\ GivenInOrder(s, e) \in Seq(Given(e))
         /\ Given(e) # {} => GivenInOrder(s, e) # <<>>
<1> DEFINE Name == {"reddit", "rss", "arxiv", "scrape", "testfile", "rule", "llm",
                    "markdown", "email"}
           v == Variants[s]
           q == [k \in DOMAIN v |-> IF v[k] \in Given(e) THEN <<v[k]>> ELSE <<>>]
<1>1. v \in Seq(Name)
  <2>1. s \in {1, 2, 3, 4, 5}
    BY DEF Stages, Source, Output
  <2>2. \/ v = <<"reddit", "rss", "arxiv", "scrape", "testfile">>
        \/ v = <<"rule", "llm">> \/ v = <<"llm", "markdown">> \/ v = <<"email">>
    BY <2>1 DEF Variants
  <2>3. /\ <<"reddit", "rss", "arxiv", "scrape", "testfile">> \in Seq(Name)
        /\ <<"rule", "llm">> \in Seq(Name)
        /\ <<"llm", "markdown">> \in Seq(Name) /\ <<"email">> \in Seq(Name)
    OBVIOUS
  <2> HIDE DEF v
  <2> QED
    BY <2>2, <2>3
<1>2. q \in Seq(Seq(Given(e))) /\ DOMAIN q = DOMAIN v
  <2>1. DOMAIN v = 1 .. Len(v) /\ Len(v) \in Nat
    BY <1>1
  <2> HIDE DEF v
  <2>2. ASSUME NEW k \in DOMAIN v PROVE q[k] \in Seq(Given(e))
    OBVIOUS
  <2> QED
    BY <2>1, <2>2
<1>3. GivenInOrder(s, e) = FlattenSeq(q)
  BY DEF GivenInOrder
<1>4. ASSUME Given(e) # {} PROVE FlattenSeq(q) # <<>>
  <2>1. PICK x \in Given(e) : TRUE
    BY <1>4
  <2>2. x \in ToSet(v)
    BY DEF Given, EntryOf
  <2>3. PICK k \in DOMAIN v : v[k] = x
    BY <2>2 DEF ToSet
  <2>4. Len(q[k]) = 1
    BY <2>3
  <2> HIDE DEF q
  <2> QED
    BY <1>2, <2>4, FlattenFacts
<1> HIDE DEF q
<1> QED
  BY <1>2, <1>3, <1>4, FlattenFacts

(* Of a valid entry something is built: of a section other than the        *)
(* sources one processor, each of them for a variant the entry sets.       *)
LEMMA SomethingBuilt ==
  ASSUME NEW s \in Stages, NEW e \in EntryOf(s), EntryValid(e)
  PROVE  /\ Built(s, e) \in Seq(Given(e))
         /\ Built(s, e) # <<>>
         /\ s # Source => Len(Built(s, e)) = 1
<1> DEFINE l == GivenInOrder(s, e)
<1>1. l \in Seq(Given(e)) /\ l # <<>> /\ Given(e) # {}
  BY GivenListed DEF EntryValid
<1>2. Built(s, e) = IF s = Source THEN l ELSE <<Head(l)>>
  BY <1>1 DEF Built
<1> HIDE DEF l
<1>3. Head(l) \in Given(e)
  BY <1>1
<1> QED
  BY <1>1, <1>2, <1>3

(* A processor made of a valid part is one a runner knows: if it saves or  *)
(* restores, it has a file.                                                *)
LEMMA ConstructsProcessors ==
  ASSUME NEW s, NEW v, NEW part \in Part, SnapshotValid(part.snap)
  PROVE  Construct(s, v, part) \in Processor
<1>1. /\ part.snap.path \in {Nil} \cup Path /\ part.snap.snapshot \in BOOLEAN
      /\ part.snap.restore \in BOOLEAN
  BY DEF Part, Snap
<1>2. Mode(part.snap) \in {"none", "snapshot", "restore"}
  BY DEF Mode
<1>3. Mode(part.snap) # "none" => part.snap.path \in Path
  BY <1>1 DEF Mode, SnapshotValid
<1> QED
  BY <1>2, <1>3 DEF Construct, Processor, Kind

(* An entry becomes one processor for each variant that is built.          *)
LEMMA EntryBuilt ==
  ASSUME NEW s \in Stages, NEW e \in EntryOf(s), EntryValid(e)
  PROVE  /\ BuildEntry(s, e) \in Seq(Processor)
         /\ BuildEntry(s, e) # <<>>
         /\ s # Source => Len(BuildEntry(s, e)) = 1
<1> DEFINE l == Built(s, e)
<1>1. /\ l \in Seq(Given(e)) /\ l # <<>>
      /\ s # Source => Len(l) = 1
  BY SomethingBuilt
<1>2. BuildEntry(s, e) = [k \in DOMAIN l |-> Construct(s, l[k], e[l[k]])]
  BY DEF BuildEntry
<1> HIDE DEF l
<1>3. ASSUME NEW k \in DOMAIN l PROVE Construct(s, l[k], e[l[k]]) \in Processor
  <2>1. l[k] \in Given(e)
    BY <1>1
  <2>2. e[l[k]] \in Part
    BY <2>1 DEF Given, EntryOf
  <2>3. SnapshotValid(e[l[k]].snap)
    BY <2>1 DEF EntryValid
  <2> QED
    BY <2>2, <2>3, ConstructsProcessors
<1>4. DOMAIN l = 1 .. Len(l) /\ Len(l) \in Nat
  BY <1>1
<1>5. BuildEntry(s, e) \in [1 .. Len(l) -> Processor]
  BY <1>2, <1>3, <1>4
<1>6. BuildEntry(s, e) \in Seq(Processor) /\ Len(BuildEntry(s, e)) = Len(l)
  BY <1>4, <1>5
<1> QED
  BY <1>1, <1>6

(* The sections of a document are sequences of entries.                    *)
LEMMA SectionsListed ==
  ASSUME NEW d \in Document, NEW s \in Stages
  PROVE  Section(d, s) \in Seq(EntryOf(s))
<1>1. /\ d.sources \in Seq(EntryOf(1)) /\ d.quality \in Seq(EntryOf(2))
      /\ d.post_summary \in Seq(EntryOf(3)) /\ d.run_summary \in Seq(EntryOf(4))
      /\ d.output \in Seq(EntryOf(5))
  BY DEF Document, Source, Quality, PostSummary, RunSummary, Output
<1>2. s \in {1, 2, 3, 4, 5}
  BY DEF Stages, Source, Output
<1> QED
  BY <1>1, <1>2 DEF Section

(* A valid document becomes a flow RunOnce can run.                        *)
LEMMA ValidIsBuilt ==
  ASSUME NEW d \in Document, Valid(d)
  PROVE  /\ BuildStages(d) \in FlowDef
         /\ BuildStages(d)[Source] # <<>> /\ BuildStages(d)[Output] # <<>>
         /\ \A s \in Stages : Len(BuildStages(d)[s]) >= Len(Section(d, s))
         /\ \A s \in Stages \ {Source} :
              Len(BuildStages(d)[s]) = Len(Section(d, s))
<1> DEFINE q(s) == [i \in DOMAIN Section(d, s) |-> BuildEntry(s, Section(d, s)[i])]
<1>1. ASSUME NEW s \in Stages
      PROVE  /\ BuildStages(d)[s] = FlattenSeq(q(s))
             /\ FlattenSeq(q(s)) \in Seq(Processor)
             /\ Len(FlattenSeq(q(s))) >= Len(Section(d, s))
             /\ s # Source => Len(FlattenSeq(q(s))) = Len(Section(d, s))
  <2>1. Section(d, s) \in Seq(EntryOf(s))
    BY SectionsListed
  <2>2. ASSUME NEW i \in DOMAIN Section(d, s)
        PROVE  /\ BuildEntry(s, Section(d, s)[i]) \in Seq(Processor)
               /\ BuildEntry(s, Section(d, s)[i]) # <<>>
               /\ s # Source => Len(BuildEntry(s, Section(d, s)[i])) = 1
    <3>1. Section(d, s)[i] \in EntryOf(s)
      BY <2>1
    <3>2. EntryValid(Section(d, s)[i])
      BY DEF Valid
    <3> QED
      BY <3>1, <3>2, EntryBuilt
  <2>3. DOMAIN Section(d, s) = 1 .. Len(Section(d, s)) /\ Len(Section(d, s)) \in Nat
    BY <2>1
  <2>4. /\ q(s) \in [1 .. Len(Section(d, s)) -> Seq(Processor)]
        /\ \A i \in DOMAIN q(s) : q(s)[i] # <<>>
        /\ s # Source => \A i \in DOMAIN q(s) : Len(q(s)[i]) = 1
    BY <2>2, <2>3
  <2>5. BuildStages(d)[s] = FlattenSeq(q(s))
    BY DEF BuildStages
  <2> HIDE DEF q
  <2>6. q(s) \in Seq(Seq(Processor)) /\ Len(q(s)) = Len(Section(d, s))
    BY <2>3, <2>4
  <2> QED
    BY <2>4, <2>5, <2>6, FlattenFacts
<1> HIDE DEF q
<1>2. BuildStages(d) \in FlowDef
  <2>1. BuildStages(d) = [s \in Stages |-> BuildStages(d)[s]]
    BY DEF BuildStages
  <2>2. \A s \in Stages : BuildStages(d)[s] \in Seq(Processor)
    BY <1>1
  <2> QED
    BY <2>1, <2>2 DEF FlowDef
<1>3. Source \in Stages /\ Output \in Stages /\ Output # Source
  BY DEF Stages, Source, Output
<1>4. /\ Section(d, Source) = d.sources /\ Section(d, Output) = d.output
      /\ d.sources # <<>> /\ d.output # <<>>
  BY DEF Section, Source, Output, Valid
<1>5. Len(d.sources) > 0 /\ Len(d.output) > 0
  BY <1>3, <1>4, SectionsListed
<1>6. BuildStages(d)[Source] # <<>> /\ BuildStages(d)[Output] # <<>>
  BY <1>1, <1>3, <1>4, <1>5
<1> QED
  BY <1>1, <1>2, <1>6

-----------------------------------------------------------------------------
(* The inductive invariant *)

\* What the variables hold; the process stays within its documents.
Typed ==
  /\ docs \in Seq(Documents) /\ Len(docs) <= MaxDocs
  /\ runOnce \in BOOLEAN /\ envSound \in BOOLEAN
  /\ main \in {"loading", "building", "starting", "running", "scheduled",
               "exited", "panicked"}
  /\ next \in 1 .. Len(docs) + 1
  /\ factory \in {Nil} \cup DOMAIN docs
  /\ flows \in Seq(FlowRecord) /\ Len(flows) <= Len(docs)
  /\ seenFlowIDs \in [Bases -> Nat]
  /\ status \in [{"main"} -> {"idle", "running", "completed", "failed"}]
  /\ failed \subseteq DOMAIN flows

\* How far main has come, by where it is.
Progress ==
  /\ main = "loading" => flows = <<>> /\ next = 1
  /\ main = "building" =>
       /\ docs # <<>> /\ \A i \in DOMAIN docs : docs[i].readable
       /\ Len(flows) = next - 1
  /\ WholeStart
  /\ main \in {"starting", "running"} => next <= Len(flows) + 1

\* Each flow is that of its document, store and all.
OfDocuments ==
  \A i \in DOMAIN flows :
    /\ Valid(docs[i])
    /\ flows[i].triggers = docs[i].triggers
    /\ flows[i].stages = BuildStages(docs[i])
    /\ flows[i].store = IF docs[i].store = "ok" THEN i ELSE Nil

\* A name is given out plain at first, then with the numbers up to its counter.
IdsApart ==
  /\ \A b \in Bases : seenFlowIDs[b] <= Len(flows)
  /\ Len(docs) # 1 =>
       \A i \in DOMAIN flows :
         LET b == Base(docs[i]) IN
         /\ seenFlowIDs[b] >= 1
         /\ \/ flows[i].id = b
            \/ \E n \in 1 .. seenFlowIDs[b] - 1 : flows[i].id = Append(b, n)
         /\ \A j \in DOMAIN flows :
              i # j /\ Base(docs[j]) = b => flows[i].id # flows[j].id

\* Runs are begun one after the other, and only by main with -run-once.
Runs ==
  /\ ran = [i \in 1 .. Len(ran) |-> i] /\ Len(ran) \in Nat
  /\ Len(ran) <= Len(flows)
  /\ main = "running" =>
       Len(ran) = IF status["main"] = "running" THEN next ELSE next - 1
  /\ status["main"] = "running" => main = "running" /\ next \in DOMAIN flows
  /\ main \notin {"running", "exited", "panicked"} => ran = <<>> /\ failed = {}
  /\ RunsAll

\* The factory has the store of the last flow, and no other is open.
LastStore ==
  /\ open = {factory} \ {Nil}
  /\ main # "panicked" /\ flows # <<>> => factory = Last(flows).store

IInv == Typed /\ Progress /\ OfDocuments /\ LastStore /\ IdsApart /\ Runs

(* A document is one of the documents there may be, and its name is a      *)
(* sequence of words.                                                      *)
LEMMA DocumentsTyped ==
  ASSUME Typed
  PROVE  /\ DOMAIN docs = 1 .. Len(docs) /\ Len(docs) \in Nat
         /\ \A i \in DOMAIN docs :
              /\ docs[i] \in Document
              /\ Base(docs[i]) \in Seq(Word \cup Nat) /\ Base(docs[i]) \in Bases
<1>1. DOMAIN docs = 1 .. Len(docs) /\ Len(docs) \in Nat
  BY DEF Typed
<1>2. ASSUME NEW i \in DOMAIN docs
      PROVE  /\ docs[i] \in Document
             /\ Base(docs[i]) \in Seq(Word \cup Nat) /\ Base(docs[i]) \in Bases
  <2>1. docs[i] \in Document
    BY StartupAssumption DEF Typed
  <2>2. docs[i].words \in Seq(Word \cup Nat)
    BY <2>1 DEF Document
  <2>3. <<Flow>> \in Seq(Word \cup Nat)
    BY StartupAssumption
  <2> QED
    BY <2>1, <2>2, <2>3 DEF Base, Bases
<1> QED
  BY <1>1, <1>2

(* The process starts with no flow, no store and no run.                   *)
LEMMA InvInit == Init => IInv
<1> SUFFICES ASSUME Init PROVE IInv
  OBVIOUS
<1>1. PICK n \in 0 .. MaxDocs : docs \in [1 .. n -> Documents]
  BY DEF Init
<1>2. n \in Nat /\ n <= MaxDocs
  BY StartupAssumption
<1>3. docs \in Seq(Documents) /\ Len(docs) = n
  BY <1>1, <1>2
<1>4. status = [c \in {"main"} |-> "idle"]
  BY DEF Init, Run!Init
<1>5. flows = <<>> /\ ran = <<>> /\ DOMAIN flows = {} /\ Len(flows) = 0 /\ Len(ran) = 0
  BY DEF Init
<1>6. flows \in Seq(FlowRecord)
  BY <1>5
<1>7. seenFlowIDs = [b \in Bases |-> 0]
  BY DEF Init
<1>8. Typed
  BY <1>2, <1>3, <1>4, <1>5, <1>6, <1>7, StartupAssumption DEF Init, Typed
<1>9. Progress /\ OfDocuments
  BY <1>5 DEF Init, Progress, OfDocuments, WholeStart, AtWork
<1>10. LastStore
  BY <1>5 DEF Init, LastStore
<1>11. IdsApart
  BY <1>5, <1>7 DEF IdsApart
<1>12. Runs
  <2>1. ran = [i \in 1 .. Len(ran) |-> i] /\ ran = [i \in DOMAIN ran |-> i]
    BY <1>5
  <2> QED
    BY <1>4, <1>5, <2>1 DEF Init, Runs, RunsAll
<1> QED
  BY <1>8, <1>9, <1>10, <1>11, <1>12 DEF IInv

(* What is built stays as it is while main is at something else.           *)
LEMMA BuiltStay ==
  ASSUME IInv, UNCHANGED <<input, built>>, main = "panicked" => main' = "panicked"
  PROVE  OfDocuments' /\ LastStore' /\ IdsApart'
<1>1. /\ docs' = docs /\ factory' = factory /\ open' = open
      /\ flows' = flows /\ seenFlowIDs' = seenFlowIDs
  BY DEF input, built
<1>2. OfDocuments'
  BY <1>1 DEF IInv, OfDocuments
<1>3. LastStore'
  BY <1>1 DEF IInv, LastStore
<1>4. IdsApart'
  BY <1>1 DEF IInv, IdsApart, Bases
<1> QED
  BY <1>2, <1>3, <1>4

(* And the variables keep their types, if main and its run stay in theirs. *)
LEMMA TypesStay ==
  ASSUME IInv, UNCHANGED <<input, built>>,
         main' \in {"loading", "building", "starting", "running", "scheduled",
                   "exited", "panicked"},
         next' \in 1 .. Len(docs) + 1,
         status' \in [{"main"} -> {"idle", "running", "completed", "failed"}],
         failed' \subseteq DOMAIN flows
  PROVE  Typed'
<1>1. /\ docs' = docs /\ factory' = factory /\ runOnce' = runOnce
      /\ envSound' = envSound /\ flows' = flows /\ seenFlowIDs' = seenFlowIDs
  BY DEF input, built
<1> QED
  BY <1>1 DEF IInv, Typed, FlowRecord, Bases

(* While documents are loaded and flows are built or started nothing runs. *)
LEMMA RunsStay ==
  ASSUME IInv, UNCHANGED run, Len(flows') >= Len(flows), Len(flows) \in Nat,
         Len(flows') \in Nat, main \notin {"running", "exited", "panicked"},
         main' \notin {"running", "exited"}
  PROVE  Runs'
<1>1. status' = status /\ failed' = failed /\ ran' = ran
  BY DEF run
<1>2. ran = <<>> /\ failed = {} /\ status["main"] # "running"
  BY DEF IInv, Runs
<1>3. ran' = [i \in 1 .. Len(ran') |-> i] /\ ran' = [i \in DOMAIN ran' |-> i]
  BY <1>1, <1>2
<1> QED
  BY <1>1, <1>2, <1>3 DEF IInv, Runs, RunsAll

(* Loading reads the documents; none is built yet.                         *)
LEMMA LoadKeeps == IInv /\ Load => IInv'
<1> SUFFICES ASSUME IInv, Load PROVE IInv'
  OBVIOUS
<1> USE DEF IInv
<1>1. main = "loading" /\ UNCHANGED <<input, built>> /\ UNCHANGED run /\ next' = next
  BY DEF Load, Panic
<1>2. main' = "panicked" \/ (/\ main' = "building" /\ docs # <<>>
                            /\ \A i \in DOMAIN docs : docs[i].readable)
  BY DEF Load, Panic
<1>3. docs' = docs /\ flows' = flows /\ status' = status /\ failed' = failed
  BY <1>1 DEF input, built, run
<1>4. Typed'
  BY <1>1, <1>2, <1>3, TypesStay DEF Typed
<1>5. Progress'
  BY <1>1, <1>2, <1>3 DEF Progress, WholeStart, AtWork
<1>6. Len(flows) \in Nat
  BY DEF Typed
<1>7. Runs'
  BY <1>1, <1>2, <1>3, <1>6, RunsStay
<1> QED
  BY <1>1, <1>4, <1>5, <1>7, BuiltStay

(* A document that Validate rejects ends the process.                      *)
LEMMA RejectKeeps == IInv /\ Reject => IInv'
<1> SUFFICES ASSUME IInv, Reject PROVE IInv'
  OBVIOUS
<1> USE DEF IInv
<1>1. /\ main = "building" /\ UNCHANGED <<input, built>> /\ UNCHANGED run
      /\ next' = next /\ main' = "panicked"
  BY DEF Reject, Panic
<1>2. docs' = docs /\ flows' = flows /\ status' = status /\ failed' = failed
  BY <1>1 DEF input, built, run
<1>3. Typed'
  BY <1>1, <1>2, TypesStay DEF Typed
<1>4. Progress'
  BY <1>1, <1>2 DEF Progress, WholeStart, AtWork
<1>5. Len(flows) \in Nat
  BY DEF Typed
<1>6. Runs'
  BY <1>1, <1>2, <1>5, RunsStay
<1> QED
  BY <1>1, <1>3, <1>4, <1>6, BuiltStay

(* Behind the last document the flows are complete.                        *)
LEMMA AllBuiltKeeps == IInv /\ AllBuilt => IInv'
<1> SUFFICES ASSUME IInv, AllBuilt PROVE IInv'
  OBVIOUS
<1> USE DEF IInv
<1>1. /\ main = "building" /\ next \notin DOMAIN docs
      /\ UNCHANGED <<input, built>> /\ UNCHANGED run
      /\ next' = 1 /\ main' \in {"running", "starting", "panicked"}
  BY DEF AllBuilt
<1>2. /\ docs' = docs /\ flows' = flows /\ status' = status
      /\ failed' = failed /\ ran' = ran
  BY <1>1 DEF input, built, run
<1>3. Typed'
  BY <1>1, <1>2, TypesStay DEF Typed
<1>4. Len(flows) = Len(docs) /\ DOMAIN flows = DOMAIN docs /\ Len(flows) \in Nat
  <2>1. DOMAIN docs = 1 .. Len(docs) /\ Len(docs) \in Nat /\ next \in 1 .. Len(docs) + 1
    BY DEF Typed
  <2>2. next = Len(docs) + 1
    BY <1>1, <2>1
  <2>3. DOMAIN flows = 1 .. Len(flows)
    BY DEF Typed
  <2> QED
    BY <1>1, <2>1, <2>2, <2>3 DEF Progress
<1>5. Progress'
  BY <1>1, <1>2, <1>4 DEF Progress, WholeStart, AtWork, OfDocuments
<1>6. Runs'
  <2>1. ran = <<>> /\ failed = {} /\ status["main"] # "running"
    BY <1>1 DEF Runs
  <2>2. ran' = [i \in 1 .. Len(ran') |-> i] /\ ran' = [i \in DOMAIN ran' |-> i]
        /\ Len(ran') = 0
    BY <1>2, <2>1
  <2> QED
    BY <1>1, <1>2, <1>4, <2>1, <2>2 DEF Runs, RunsAll
<1> QED
  BY <1>1, <1>3, <1>5, <1>6, BuiltStay

(* Starting goes on to the next flow, or the process ends.                 *)
LEMMA StartKeeps == IInv /\ (StartFlow \/ AllStarted) => IInv'
<1> SUFFICES ASSUME IInv, StartFlow \/ AllStarted PROVE IInv'
  OBVIOUS
<1> USE DEF IInv
<1>1. /\ main = "starting" /\ UNCHANGED <<input, built>> /\ UNCHANGED run
      /\ \/ next' = next /\ main' \in {"panicked", "scheduled"}
         \/ next \in DOMAIN flows /\ next' = next + 1 /\ main' = main
  BY DEF StartFlow, AllStarted, Panic
<1>2. docs' = docs /\ flows' = flows /\ status' = status /\ failed' = failed
  BY <1>1 DEF input, built, run
<1>3. /\ DOMAIN flows = 1 .. Len(flows) /\ Len(flows) \in Nat
      /\ Len(flows) <= Len(docs) /\ Len(docs) \in Nat /\ next \in 1 .. Len(docs) + 1
  BY DEF Typed
<1>4. next' \in 1 .. Len(docs) + 1
  BY <1>1, <1>3
<1>5. Typed'
  BY <1>1, <1>2, <1>4, TypesStay DEF Typed
<1>6. Progress'
  BY <1>1, <1>2, <1>3 DEF Progress, WholeStart, AtWork
<1>7. Runs'
  BY <1>1, <1>2, <1>3, RunsStay
<1> QED
  BY <1>1, <1>5, <1>6, <1>7, BuiltStay

(* -run-once: a run is begun when the one before has ended.                *)
LEMMA BeginKeeps == IInv /\ BeginRun => IInv'
<1> SUFFICES ASSUME IInv, BeginRun PROVE IInv'
  OBVIOUS
<1> USE DEF IInv
<1>1. /\ main = "running" /\ next \in DOMAIN flows /\ status["main"] # "running"
      /\ status' = [status EXCEPT !["main"] = "running"]
      /\ ran' = Append(ran, next) /\ main' = main /\ next' = next
      /\ UNCHANGED <<input, built>> /\ failed' = failed
  BY DEF BeginRun, Run!Begin
<1>2. docs' = docs /\ flows' = flows
  BY <1>1 DEF input, built
<1>3. status' \in [{"main"} -> {"idle", "running", "completed", "failed"}]
      /\ status'["main"] = "running"
  BY <1>1 DEF Typed
<1>4. Typed'
  BY <1>1, <1>2, <1>3, TypesStay DEF Typed
<1>5. Progress'
  BY <1>1, <1>2 DEF Progress, WholeStart, AtWork
<1>6. /\ DOMAIN flows = 1 .. Len(flows) /\ Len(flows) \in Nat /\ next \in Nat
  BY DEF Typed
<1>7. ran = [i \in 1 .. next - 1 |-> i] /\ Len(ran) = next - 1
  BY <1>1 DEF Runs
<1>8. ran \in Seq(Nat) /\ next >= 1
  BY <1>1, <1>6, <1>7
<1>9. ran' = [i \in 1 .. next |-> i] /\ Len(ran') = next
  BY <1>1, <1>6, <1>7, <1>8
<1>10. Runs'
  BY <1>1, <1>2, <1>3, <1>6, <1>8, <1>9 DEF Runs, RunsAll
<1> QED
  BY <1>1, <1>4, <1>5, <1>10, BuiltStay

(* A run goes from stage to stage without main.                            *)
LEMMA StageKeeps == IInv /\ RunStage => IInv'
<1> SUFFICES ASSUME IInv, RunStage PROVE IInv'
  OBVIOUS
<1> USE DEF IInv
<1>1. /\ status' = status /\ failed' = failed /\ ran' = ran /\ main' = main
      /\ next' = next /\ UNCHANGED <<input, built>>
  BY DEF RunStage, Run!Advance
<1>2. docs' = docs /\ flows' = flows
  BY <1>1 DEF input, built
<1>3. Typed'
  BY <1>1, <1>2, TypesStay DEF Typed
<1>4. Progress'
  BY <1>1, <1>2 DEF Progress, WholeStart, AtWork
<1>5. Runs'
  BY <1>1, <1>2 DEF Runs, RunsAll
<1> QED
  BY <1>1, <1>3, <1>4, <1>5, BuiltStay

(* When a run has ended, well or not, main goes on to the next flow.       *)
LEMMA EndKeeps == IInv /\ EndRun => IInv'
<1> SUFFICES ASSUME IInv, EndRun PROVE IInv'
  OBVIOUS
<1> USE DEF IInv
<1>1. PICK r \in {"completed", "failed"} :
        status["main"] = "running" /\ status' = [status EXCEPT !["main"] = r]
  BY DEF EndRun, Run!Complete, Run!Fail
<1>2. /\ next' = next + 1 /\ main' = main /\ ran' = ran
      /\ UNCHANGED <<input, built>>
      /\ failed' = failed \/ failed' = failed \cup {next}
  BY DEF EndRun
<1>3. docs' = docs /\ flows' = flows
  BY <1>2 DEF input, built
<1>4. main = "running" /\ next \in DOMAIN flows
  BY <1>1 DEF Runs
<1>5. /\ DOMAIN flows = 1 .. Len(flows) /\ Len(flows) \in Nat
      /\ Len(flows) <= Len(docs) /\ Len(docs) \in Nat /\ next \in Nat
  BY DEF Typed
<1>6. status' \in [{"main"} -> {"idle", "running", "completed", "failed"}]
      /\ status'["main"] # "running"
  BY <1>1 DEF Typed
<1>7. next' \in 1 .. Len(docs) + 1
  BY <1>2, <1>4, <1>5
<1>8. failed' \subseteq DOMAIN flows
  BY <1>2, <1>4 DEF Typed
<1>9. Typed'
  BY <1>2, <1>6, <1>7, <1>8, TypesStay DEF Typed
<1>10. Progress'
  BY <1>2, <1>3, <1>4, <1>5 DEF Progress, WholeStart, AtWork
<1>11. Runs'
  BY <1>1, <1>2, <1>3, <1>4, <1>5, <1>6 DEF Runs, RunsAll
<1> QED
  BY <1>2, <1>9, <1>10, <1>11, BuiltStay

(* main leaves when every flow was run, and panics if one failed.          *)
LEMMA LeaveKeeps == IInv /\ Leave => IInv'
<1> SUFFICES ASSUME IInv, Leave PROVE IInv'
  OBVIOUS
<1> USE DEF IInv
<1>1. /\ main = "running" /\ next \notin DOMAIN flows
      /\ main' = IF failed = {} THEN "exited" ELSE "panicked"
      /\ next' = next /\ UNCHANGED <<input, built>> /\ UNCHANGED run
  BY DEF Leave
<1>2. /\ docs' = docs /\ flows' = flows /\ status' = status
      /\ failed' = failed /\ ran' = ran
  BY <1>1 DEF input, built, run
<1>3. Typed'
  BY <1>1, <1>2, TypesStay DEF Typed
<1>4. Progress'
  BY <1>1, <1>2 DEF Progress, WholeStart, AtWork
<1>5. Len(ran) = Len(flows)
  <2>1. /\ DOMAIN flows = 1 .. Len(flows) /\ Len(flows) \in Nat
        /\ Len(docs) \in Nat /\ next \in 1 .. Len(docs) + 1
    BY DEF Typed
  <2>2. status["main"] # "running" /\ next <= Len(flows) + 1
    BY <1>1 DEF Runs, Progress
  <2>3. next = Len(flows) + 1
    BY <1>1, <2>1, <2>2
  <2>4. Len(ran) = next - 1
    BY <1>1, <2>2 DEF Runs
  <2> QED
    BY <2>1, <2>3, <2>4
<1>6. Runs'
  BY <1>1, <1>2, <1>5 DEF Runs, RunsAll
<1> QED
  BY <1>1, <1>3, <1>4, <1>6, BuiltStay

-----------------------------------------------------------------------------
(* The step that builds a flow *)

(* The store of the flow before is closed, and the document's own opened.  *)
LEMMA OneStoreKept ==
  ASSUME IInv, main = "building", next \in DOMAIN docs,
         ConfigureDedupeStore(docs[next])
  PROVE  /\ factory' = IF docs[next].store = "ok" THEN next ELSE Nil
         /\ open' = {factory'} \ {Nil}
<1>1. next # Nil
  <2>1. next \in 1 .. MaxDocs
    BY StartupAssumption, DocumentsTyped DEF IInv, Typed
  <2> QED
    BY <2>1, StartupAssumption
<1>2. open = {factory} \ {Nil}
  BY DEF IInv, LastStore
<1>3. /\ factory' = IF docs[next].store = "ok" THEN next ELSE Nil
      /\ open' = (open \ {factory}) \cup (IF docs[next].store = "ok" THEN {next} ELSE {})
  BY DEF ConfigureDedupeStore
<1> QED
  BY <1>1, <1>2, <1>3

(* A store that cannot be opened ends the process.                         *)
LEMMA BrokenStoreKeeps ==
  ASSUME IInv, BuildFlow, docs[next].store = "broken"
  PROVE  IInv'
<1> USE DEF IInv
<1>1. /\ main = "building" /\ next \in DOMAIN docs /\ main' = "panicked"
      /\ next' = next /\ flows' = flows /\ seenFlowIDs' = seenFlowIDs
      /\ ConfigureDedupeStore(docs[next]) /\ UNCHANGED input /\ UNCHANGED run
  BY DEF BuildFlow, Panic
<1>2. /\ docs' = docs /\ runOnce' = runOnce /\ envSound' = envSound
      /\ status' = status /\ failed' = failed
  BY <1>1 DEF input, run
<1>3. factory' = Nil /\ open' = {factory'} \ {Nil}
  BY <1>1, OneStoreKept
<1>4. Typed'
  BY <1>1, <1>2, <1>3 DEF Typed, FlowRecord, Bases
<1>5. Progress'
  BY <1>1, <1>2 DEF Progress, WholeStart, AtWork
<1>6. OfDocuments'
  BY <1>1, <1>2 DEF OfDocuments
<1>7. LastStore'
  BY <1>1, <1>3 DEF LastStore
<1>8. IdsApart'
  BY <1>1, <1>2 DEF IdsApart, Bases
<1>9. Len(flows) \in Nat
  BY DEF Typed
<1>10. Runs'
  BY <1>1, <1>9, RunsStay
<1> QED
  BY <1>4, <1>5, <1>6, <1>7, <1>8, <1>10

(* Two names with a number behind them are equal only in both.             *)
LEMMA AppendTells ==
  ASSUME NEW S, NEW b \in Seq(S \cup Nat), NEW c \in Seq(S \cup Nat),
         NEW m \in Nat, NEW n \in Nat
  PROVE  /\ Append(b, m) = Append(c, n) => b = c /\ m = n
         /\ Append(b, m) # b
<1>1. /\ Append(b, m) \in Seq(S \cup Nat) /\ Len(Append(b, m)) = Len(b) + 1
      /\ Append(c, n) \in Seq(S \cup Nat) /\ Len(Append(c, n)) = Len(c) + 1
      /\ Len(b) \in Nat /\ Len(c) \in Nat
  OBVIOUS
<1>2. ASSUME Append(b, m) = Append(c, n) PROVE b = c /\ m = n
  <2>1. Len(b) = Len(c)
    BY <1>1, <1>2
  <2>2. \A i \in 1 .. Len(b) : b[i] = Append(b, m)[i] /\ c[i] = Append(c, n)[i]
    BY <2>1
  <2>3. \A i \in 1 .. Len(b) : b[i] = c[i]
    BY <1>2, <2>2
  <2>4. b = c
    BY <2>1, <2>3
  <2>5. Append(b, m)[Len(b) + 1] = m /\ Append(c, n)[Len(c) + 1] = n
    OBVIOUS
  <2> QED
    BY <1>2, <2>1, <2>4, <2>5
<1> QED
  BY <1>1, <1>2

\* The id the next document's flow gets, and the flow.
NextId(d) == IF Len(docs) = 1 THEN <<Flow, 1>> ELSE UniqueFlowID(Base(d))
NextFlow(d) ==
  [id |-> NextId(d), triggers |-> d.triggers, stages |-> BuildStages(d),
   store |-> IF d.store = "ok" THEN next ELSE Nil]

(* What BuildFlow does with a document whose store can be opened.          *)
LEMMA BuildAppends ==
  ASSUME IInv, BuildFlow, docs[next].store # "broken"
  PROVE  /\ main = "building" /\ main' = main /\ next' = next + 1
         /\ UNCHANGED input /\ UNCHANGED run
         /\ next \in DOMAIN docs /\ Valid(docs[next])
         /\ ConfigureDedupeStore(docs[next])
         /\ flows' = Append(flows, NextFlow(docs[next]))
         /\ seenFlowIDs' = IF Len(docs) = 1 THEN seenFlowIDs
                           ELSE Counted(Base(docs[next]))
<1>1. /\ main = "building" /\ next \in DOMAIN docs /\ ConfigureDedupeStore(docs[next])
  BY DEF BuildFlow
<1>2. factory' = IF docs[next].store = "ok" THEN next ELSE Nil
  BY <1>1, OneStoreKept
<1> QED
  BY <1>1, <1>2 DEF BuildFlow, NextFlow, NextId

(* The flow is put behind the others, and is a flow.                       *)
LEMMA FlowAppended ==
  ASSUME IInv, BuildFlow, docs[next].store # "broken"
  PROVE  /\ NextFlow(docs[next]) \in FlowRecord
         /\ NextId(docs[next]) \in Seq(Word \cup Nat)
         /\ next = Len(flows) + 1 /\ Len(flows) \in Nat
         /\ Len(flows') = next /\ DOMAIN flows' = 1 .. next
         /\ DOMAIN flows = 1 .. next - 1
         /\ flows'[next] = NextFlow(docs[next])
         /\ \A i \in 1 .. next - 1 : flows'[i] = flows[i]
<1> USE DEF IInv
<1>1. /\ main = "building" /\ next \in DOMAIN docs /\ Valid(docs[next])
      /\ flows' = Append(flows, NextFlow(docs[next]))
  BY BuildAppends
<1>2. docs[next] \in Document /\ Base(docs[next]) \in Seq(Word \cup Nat)
      /\ Base(docs[next]) \in Bases
  BY <1>1, DocumentsTyped
<1>3. NextId(docs[next]) \in Seq(Word \cup Nat)
  <2>1. <<Flow, 1>> \in Seq(Word \cup Nat)
    BY StartupAssumption
  <2>2. seenFlowIDs[Base(docs[next])] \in Nat
    BY <1>2 DEF Typed
  <2>3. UniqueFlowID(Base(docs[next])) \in Seq(Word \cup Nat)
    BY <1>2, <2>2 DEF UniqueFlowID
  <2> QED
    BY <2>1, <2>3 DEF NextId
<1>4. NextFlow(docs[next]) \in FlowRecord
  <2>1. docs[next].triggers \in Seq(Fate)
    BY <1>2 DEF Document
  <2>2. BuildStages(docs[next]) \in [Stages -> Seq(Processor)]
    BY <1>1, <1>2, ValidIsBuilt DEF FlowDef
  <2> QED
    BY <1>1, <1>3, <2>1, <2>2 DEF NextFlow, FlowRecord
<1>5. flows \in Seq(FlowRecord) /\ Len(flows) = next - 1 /\ Len(flows) \in Nat
  BY <1>1 DEF Typed, Progress
<1>6. next \in Nat
  BY DEF Typed
<1> HIDE DEF IInv
<1>7. /\ Len(flows') = Len(flows) + 1 /\ DOMAIN flows' = 1 .. Len(flows) + 1
      /\ DOMAIN flows = 1 .. Len(flows)
      /\ flows'[Len(flows) + 1] = NextFlow(docs[next])
      /\ \A i \in 1 .. Len(flows) : flows'[i] = flows[i]
  BY <1>1, <1>4, <1>5
<1> QED
  BY <1>3, <1>4, <1>5, <1>6, <1>7

(* Its id is like no other of the same name.                               *)
LEMMA IdsKeptApart ==
  ASSUME IInv, BuildFlow, docs[next].store # "broken"
  PROVE  IdsApart'
<1> DEFINE n0 == next
           b0 == Base(docs[next])
           new == NextId(docs[next])
           known == seenFlowIDs[b0]
<1>1. docs' = docs
  BY BuildAppends DEF input
<1>2. /\ Len(flows') = n0 /\ DOMAIN flows' = 1 .. n0 /\ n0 \in Nat
      /\ Len(flows) = n0 - 1 /\ DOMAIN flows = 1 .. n0 - 1
      /\ flows'[n0].id = new
      /\ \A i \in 1 .. n0 - 1 : flows'[i] = flows[i]
  BY FlowAppended DEF NextFlow
<1>3. b0 \in Bases /\ b0 \in Seq(Word \cup Nat) /\ n0 \in DOMAIN docs
  BY BuildAppends, DocumentsTyped DEF IInv
<1>4. seenFlowIDs \in [Bases -> Nat] /\ known \in Nat
  BY <1>3 DEF IInv, Typed
<1>5. seenFlowIDs' = IF Len(docs) = 1 THEN seenFlowIDs ELSE [seenFlowIDs EXCEPT ![b0] = @ + 1]
  BY BuildAppends DEF Counted
<1>6. \A b \in Bases : /\ seenFlowIDs'[b] \in Nat /\ seenFlowIDs[b] \in Nat
                       /\ seenFlowIDs'[b] <= seenFlowIDs[b] + 1
                       /\ seenFlowIDs[b] <= seenFlowIDs'[b]
  BY <1>4, <1>5
<1>7. \A b \in Bases : seenFlowIDs'[b] <= n0
  BY <1>2, <1>6 DEF IInv, IdsApart
<1>8. ASSUME Len(docs) # 1, NEW i \in 1 .. n0
      PROVE  LET b == Base(docs[i]) IN
             /\ seenFlowIDs'[b] >= 1
             /\ \/ flows'[i].id = b
                \/ \E n \in 1 .. seenFlowIDs'[b] - 1 : flows'[i].id = Append(b, n)
             /\ \A j \in 1 .. n0 :
                  i # j /\ Base(docs[j]) = b => flows'[i].id # flows'[j].id
  <2> DEFINE b == Base(docs[i])
  <2>1. seenFlowIDs'[b0] = known + 1
    BY <1>3, <1>4, <1>5, <1>8
  <2>2. new = IF known = 0 THEN b0 ELSE Append(b0, known)
    BY <1>8 DEF NextId, UniqueFlowID
  <2>3. ASSUME NEW k \in 1 .. n0 - 1
        PROVE  LET c == Base(docs[k]) IN
               /\ c \in Bases /\ seenFlowIDs[c] \in Nat /\ seenFlowIDs[c] >= 1
               /\ \/ flows'[k].id = c
                  \/ \E n \in 1 .. seenFlowIDs[c] - 1 : flows'[k].id = Append(c, n)
               /\ \A j \in 1 .. n0 - 1 :
                    k # j /\ Base(docs[j]) = c => flows'[k].id # flows'[j].id
    <3>1. k \in DOMAIN docs /\ k \in DOMAIN flows
      BY <1>2, DocumentsTyped DEF IInv, Typed
    <3>2. Base(docs[k]) \in Bases
      BY <3>1, DocumentsTyped DEF IInv
    <3> QED
      BY <1>2, <1>6, <1>8, <3>1, <3>2 DEF IInv, IdsApart
  <2>4. ASSUME NEW k \in 1 .. n0 - 1, Base(docs[k]) = b0
        PROVE  flows'[k].id # new
    <3>1. known >= 1
      BY <2>3, <2>4
    <3>2. new = Append(b0, known)
      BY <2>2, <3>1
    <3>3. CASE flows'[k].id = b0
      BY <1>3, <1>4, <3>2, <3>3, AppendTells
    <3>4. CASE \E n \in 1 .. known - 1 : flows'[k].id = Append(b0, n)
      <4>1. PICK n \in 1 .. known - 1 : flows'[k].id = Append(b0, n)
        BY <3>4
      <4>2. n \in Nat /\ n # known
        BY <1>4
      <4> QED
        BY <1>3, <1>4, <3>2, <4>1, <4>2, AppendTells
    <3> QED
      BY <2>3, <2>4, <3>3, <3>4
  <2>5. CASE i = n0
    <3>1. b = b0 /\ flows'[i].id = new
      BY <1>2, <2>5
    <3>2. seenFlowIDs'[b] >= 1
      BY <1>4, <2>1, <3>1
    <3>3. \/ flows'[i].id = b
          \/ \E n \in 1 .. seenFlowIDs'[b] - 1 : flows'[i].id = Append(b, n)
      <4>1. CASE known = 0
        BY <2>2, <3>1, <4>1
      <4>2. CASE known # 0
        <5>1. known \in 1 .. seenFlowIDs'[b] - 1
          BY <1>4, <2>1, <3>1, <4>2
        <5> QED
          BY <2>2, <3>1, <4>2, <5>1
      <4> QED
        BY <4>1, <4>2
    <3>4. ASSUME NEW j \in 1 .. n0, i # j, Base(docs[j]) = b
          PROVE  flows'[i].id # flows'[j].id
      <4>1. j \in 1 .. n0 - 1
        BY <1>2, <2>5, <3>4
      <4> QED
        BY <2>4, <3>1, <3>4, <4>1
    <3> HIDE DEF b
    <3> QED
      BY <3>2, <3>3, <3>4 DEF b
  <2>6. CASE i # n0
    <3>1. i \in 1 .. n0 - 1
      BY <1>2, <2>6
    <3>2. b \in Bases
      BY <2>3, <3>1
    <3>3. seenFlowIDs'[b] >= 1
      BY <1>6, <2>3, <3>1, <3>2
    <3>4. \/ flows'[i].id = b
          \/ \E n \in 1 .. seenFlowIDs'[b] - 1 : flows'[i].id = Append(b, n)
      <4>1. CASE flows'[i].id = b
        BY <4>1
      <4>2. CASE \E n \in 1 .. seenFlowIDs[b] - 1 : flows'[i].id = Append(b, n)
        <5>1. PICK n \in 1 .. seenFlowIDs[b] - 1 : flows'[i].id = Append(b, n)
          BY <4>2
        <5>2. n \in 1 .. seenFlowIDs'[b] - 1
          BY <1>6, <3>2
        <5> QED
          BY <5>1, <5>2
      <4> QED
        BY <2>3, <3>1, <4>1, <4>2
    <3>5. ASSUME NEW j \in 1 .. n0, i # j, Base(docs[j]) = b
          PROVE  flows'[i].id # flows'[j].id
      <4>1. CASE j = n0
        BY <1>2, <2>4, <3>1, <3>5, <4>1
      <4>2. CASE j # n0
        <5>1. j \in 1 .. n0 - 1
          BY <1>2, <4>2
        <5> QED
          BY <2>3, <3>1, <3>5, <5>1
      <4> QED
        BY <4>1, <4>2
    <3> HIDE DEF b
    <3> QED
      BY <3>3, <3>4, <3>5 DEF b
  <2> QED
    BY <2>5, <2>6
<1> HIDE DEF n0
<1> QED
  BY <1>1, <1>2, <1>7, <1>8 DEF IdsApart, Bases

(* A document becomes the next flow, or ends the process.                  *)
LEMMA BuildKeeps == IInv /\ BuildFlow => IInv'
<1> SUFFICES ASSUME IInv, BuildFlow, docs[next].store # "broken" PROVE IInv'
  BY BrokenStoreKeeps
<1> DEFINE n0 == next
           d0 == docs[next]
<1>1. /\ main = "building" /\ main' = main /\ next' = n0 + 1
      /\ UNCHANGED input /\ UNCHANGED run
      /\ n0 \in DOMAIN docs /\ Valid(d0) /\ ConfigureDedupeStore(d0)
      /\ flows' = Append(flows, NextFlow(d0))
      /\ seenFlowIDs' = IF Len(docs) = 1 THEN seenFlowIDs ELSE Counted(Base(d0))
  BY BuildAppends
<1>2. /\ docs' = docs /\ runOnce' = runOnce /\ envSound' = envSound
      /\ status' = status /\ failed' = failed /\ ran' = ran
  BY <1>1 DEF input, run
<1>3. /\ Len(flows') = n0 /\ DOMAIN flows' = 1 .. n0 /\ Len(flows) = n0 - 1
      /\ DOMAIN flows = 1 .. n0 - 1 /\ n0 = Len(flows) + 1 /\ Len(flows) \in Nat
      /\ flows'[n0] = NextFlow(d0) /\ NextFlow(d0) \in FlowRecord
      /\ \A i \in 1 .. n0 - 1 : flows'[i] = flows[i]
  BY FlowAppended
<1>4. /\ factory' = IF d0.store = "ok" THEN n0 ELSE Nil
      /\ open' = {factory'} \ {Nil}
  BY <1>1, OneStoreKept
<1>5. DOMAIN docs = 1 .. Len(docs) /\ Len(docs) \in Nat /\ n0 \in 1 .. Len(docs)
  BY <1>1, DocumentsTyped DEF IInv
<1>6. Typed'
  <2>1. seenFlowIDs \in [Bases -> Nat] /\ Base(d0) \in Bases
    BY <1>1, DocumentsTyped DEF IInv, Typed
  <2>2. seenFlowIDs' \in [Bases -> Nat]
    BY <1>1, <2>1 DEF Counted
  <2>3. flows \in Seq(FlowRecord)
    BY DEF IInv, Typed
  <2>4. flows' \in Seq(FlowRecord)
    BY <1>1, <1>3, <2>3
  <2>5. next' \in 1 .. Len(docs) + 1 /\ Len(flows') <= Len(docs)
    BY <1>1, <1>3, <1>5
  <2>6. factory' \in {Nil} \cup DOMAIN docs
    BY <1>1, <1>4
  <2>7. failed' \subseteq DOMAIN flows'
    BY <1>2, <1>3 DEF IInv, Typed
  <2>8. Bases' = Bases /\ FlowRecord' = FlowRecord
    BY <1>2 DEF Bases, FlowRecord
  <2> QED
    BY <1>1, <1>2, <2>2, <2>4, <2>5, <2>6, <2>7, <2>8 DEF IInv, Typed
<1>7. Progress'
  BY <1>1, <1>2, <1>3 DEF IInv, Progress, WholeStart, AtWork
<1>8. OfDocuments'
  <2>1. ASSUME NEW i \in 1 .. n0
        PROVE  /\ Valid(docs[i])
               /\ flows'[i].triggers = docs[i].triggers
               /\ flows'[i].stages = BuildStages(docs[i])
               /\ flows'[i].store = IF docs[i].store = "ok" THEN i ELSE Nil
    <3>1. CASE i = n0
      BY <1>1, <1>3, <3>1 DEF NextFlow
    <3>2. CASE i # n0
      <4>1. i \in 1 .. n0 - 1
        BY <1>3, <3>2
      <4> QED
        BY <1>3, <4>1 DEF IInv, OfDocuments
    <3> QED
      BY <3>1, <3>2
  <2> HIDE DEF n0
  <2> QED
    BY <1>2, <1>3, <2>1 DEF OfDocuments
<1>9. LastStore'
  <2>1. Last(flows)' = flows'[n0]
    BY <1>3 DEF Last
  <2>2. factory' = flows'[n0].store
    BY <1>3, <1>4 DEF NextFlow
  <2> QED
    BY <1>4, <2>1, <2>2 DEF LastStore
<1>10. Len(flows') >= Len(flows) /\ Len(flows') \in Nat
  BY <1>3
<1>11. Runs'
  BY <1>1, <1>3, <1>10, RunsStay
<1> QED
  BY <1>6, <1>7, <1>8, <1>9, <1>11, IdsKeptApart DEF IInv

(* So every step keeps the invariant.                                      *)
LEMMA InvNext == IInv /\ [Next]_vars => IInv'
<1> SUFFICES ASSUME IInv, [Next]_vars PROVE IInv'
  OBVIOUS
<1>1. CASE UNCHANGED vars
  <2>1. /\ UNCHANGED <<input, built>> /\ main' = main /\ next' = next
        /\ docs' = docs /\ flows' = flows /\ status' = status
        /\ failed' = failed /\ ran' = ran
    BY <1>1 DEF vars, input, built
  <2>2. Typed'
    BY <2>1, TypesStay DEF IInv, Typed
  <2>3. Progress' /\ Runs'
    BY <2>1 DEF IInv, Progress, WholeStart, AtWork, Runs, RunsAll
  <2> QED
    BY <2>1, <2>2, <2>3, BuiltStay DEF IInv
<1>2. CASE Next
  BY <1>2, LoadKeeps, RejectKeeps, BuildKeeps, AllBuiltKeeps, StartKeeps,
     BeginKeeps, StageKeeps, EndKeeps, LeaveKeeps DEF Next
<1> QED
  BY <1>1, <1>2

(* The invariant holds of the whole process.                               *)
LEMMA InvHolds == Spec => []IInv
<1> QED
  BY InvInit, InvNext, PTL DEF Spec

-----------------------------------------------------------------------------
(* The properties *)

(* The variables keep their types, and of whatever documents the directory *)
(* holds, buildSources, buildQuality and the others make flows RunOnce can *)
(* run, with no entry dropped: modules Runner and Curator may assume so.   *)
THEOREM FlowsAreFaithful == Spec => []TypeOK
<1>1. IInv => TypeOK
  <2> SUFFICES ASSUME IInv PROVE TypeOK
    OBVIOUS
  <2>1. FaithfulFlows
    <3>1. ASSUME NEW i \in DOMAIN flows
          PROVE  /\ flows[i].stages \in FlowDef /\ flows[i].triggers # <<>>
                 /\ flows[i].stages[Source] # <<>> /\ flows[i].stages[Output] # <<>>
                 /\ \A s \in Stages :
                      Len(flows[i].stages[s]) >= Len(Section(docs[i], s))
                 /\ \A s \in Stages \ {Source} :
                      Len(flows[i].stages[s]) = Len(Section(docs[i], s))
      <4>1. i \in DOMAIN docs
        BY DEF IInv, Typed
      <4>2. docs[i] \in Document
        BY <4>1, DocumentsTyped DEF IInv
      <4>3. /\ Valid(docs[i]) /\ flows[i].triggers = docs[i].triggers
            /\ flows[i].stages = BuildStages(docs[i])
        BY DEF IInv, OfDocuments
      <4>4. docs[i].triggers # <<>>
        BY <4>3 DEF Valid
      <4> QED
        BY <4>2, <4>3, <4>4, ValidIsBuilt
    <3> QED
      BY <3>1 DEF FaithfulFlows
  <2>2. ran \in Seq(DOMAIN flows)
    <3>1. /\ ran = [i \in 1 .. Len(ran) |-> i] /\ Len(ran) \in Nat
          /\ Len(ran) <= Len(flows)
      BY DEF IInv, Runs
    <3>2. DOMAIN flows = 1 .. Len(flows) /\ Len(flows) \in Nat
      BY DEF IInv, Typed
    <3>3. ran \in [1 .. Len(ran) -> DOMAIN flows]
      BY <3>1, <3>2
    <3> QED
      BY <3>1, <3>3
  <2>3. open \subseteq DOMAIN docs
    BY DEF IInv, Typed, LastStore
  <2>4. seenFlowIDs \in [Bases -> 0 .. Len(docs)]
    <3>1. \A b \in Bases : seenFlowIDs[b] \in 0 .. Len(docs)
      <4>1. ASSUME NEW b \in Bases PROVE seenFlowIDs[b] \in 0 .. Len(docs)
        <5>1. seenFlowIDs[b] \in Nat /\ seenFlowIDs[b] <= Len(flows)
          BY DEF IInv, Typed, IdsApart
        <5>2. Len(flows) <= Len(docs) /\ Len(flows) \in Nat /\ Len(docs) \in Nat
          BY DEF IInv, Typed
        <5> QED
          BY <5>1, <5>2
      <4> QED
        BY <4>1
    <3>2. seenFlowIDs \in [Bases -> Nat]
      BY DEF IInv, Typed
    <3> QED
      BY <3>1, <3>2
  <2> QED
    BY <2>1, <2>2, <2>3, <2>4 DEF IInv, Typed, TypeOK
<1> QED
  BY <1>1, InvHolds, PTL

(* The sources of a flow get the store of the flow's own document, and the *)
(* last flow still has it when flows are run: that of a single document    *)
(* always does.                                                            *)
THEOREM EachItsStore == Spec => []OwnStore
<1>1. IInv => OwnStore
  <2> SUFFICES ASSUME IInv PROVE OwnStore
    OBVIOUS
  <2>1. \A i \in DOMAIN flows :
          flows[i].store = IF docs[i].store = "ok" THEN i ELSE Nil
    BY DEF IInv, OfDocuments
  <2>2. ASSUME AtWork PROVE Last(flows).store \in open \cup {Nil}
    <3>1. flows # <<>>
      BY <2>2 DEF IInv, Typed, Progress, WholeStart
    <3> QED
      BY <2>2, <3>1 DEF IInv, LastStore, AtWork
  <2> QED
    BY <2>1, <2>2 DEF OwnStore
<1> QED
  BY <1>1, InvHolds, PTL

(* uniqueFlowID: two flows of a directory have the same id only if the     *)
(* name of one is the name of the other with a number behind it; equal     *)
(* names never clash.                                                      *)
LEMMA ClashOnlyBySuffix ==
  IInv => \A i, j \in DOMAIN flows :
            i # j /\ flows[i].id = flows[j].id =>
              \E n \in 1 .. Len(docs) : \/ Base(docs[i]) = Append(Base(docs[j]), n)
                                        \/ Base(docs[j]) = Append(Base(docs[i]), n)
<1> SUFFICES ASSUME IInv, NEW i \in DOMAIN flows, NEW j \in DOMAIN flows,
                    i # j, flows[i].id = flows[j].id
             PROVE  \E n \in 1 .. Len(docs) :
                      \/ Base(docs[i]) = Append(Base(docs[j]), n)
                      \/ Base(docs[j]) = Append(Base(docs[i]), n)
  OBVIOUS
<1> DEFINE bi == Base(docs[i])
           bj == Base(docs[j])
<1>1. /\ DOMAIN flows = 1 .. Len(flows) /\ Len(flows) \in Nat
      /\ Len(flows) <= Len(docs) /\ Len(docs) \in Nat
      /\ DOMAIN docs = 1 .. Len(docs)
  BY DEF IInv, Typed
<1>2. Len(docs) # 1 /\ i \in DOMAIN docs /\ j \in DOMAIN docs
  BY <1>1
<1>3. /\ bi \in Seq(Word \cup Nat) /\ bi \in Bases
      /\ bj \in Seq(Word \cup Nat) /\ bj \in Bases
  BY <1>2, DocumentsTyped DEF IInv
<1>4. bi # bj
  BY <1>2 DEF IInv, IdsApart
<1>5. \A b \in Bases : seenFlowIDs[b] \in Nat /\ seenFlowIDs[b] <= Len(docs)
  BY <1>1 DEF IInv, Typed, IdsApart
<1>6. flows[i].id = bi \/ \E n \in 1 .. seenFlowIDs[bi] - 1 : flows[i].id = Append(bi, n)
  BY <1>2 DEF IInv, IdsApart
<1>7. flows[j].id = bj \/ \E n \in 1 .. seenFlowIDs[bj] - 1 : flows[j].id = Append(bj, n)
  BY <1>2 DEF IInv, IdsApart
<1> HIDE DEF bi, bj
<1>8. CASE flows[i].id = bi
  <2>1. PICK n \in 1 .. seenFlowIDs[bj] - 1 : flows[j].id = Append(bj, n)
    BY <1>4, <1>7, <1>8
  <2>2. n \in 1 .. Len(docs)
    BY <1>1, <1>3, <1>5
  <2>3. bi = Append(bj, n)
    BY <1>8, <2>1
  <2> QED
    BY <2>2, <2>3 DEF bi, bj
<1>9. CASE \E n \in 1 .. seenFlowIDs[bi] - 1 : flows[i].id = Append(bi, n)
  <2>1. PICK n \in 1 .. seenFlowIDs[bi] - 1 : flows[i].id = Append(bi, n)
    BY <1>9
  <2>2. n \in 1 .. Len(docs) /\ n \in Nat
    BY <1>1, <1>3, <1>5
  <2>3. CASE flows[j].id = bj
    <3>1. bj = Append(bi, n)
      BY <2>1, <2>3
    <3> QED
      BY <2>2, <3>1 DEF bi, bj
  <2>4. CASE \E m \in 1 .. seenFlowIDs[bj] - 1 : flows[j].id = Append(bj, m)
    <3>1. PICK m \in 1 .. seenFlowIDs[bj] - 1 : flows[j].id = Append(bj, m)
      BY <2>4
    <3>2. m \in Nat
      BY <1>3, <1>5
    <3>3. Append(bi, n) = Append(bj, m)
      BY <2>1, <3>1
    <3> QED
      BY <1>3, <1>4, <2>2, <3>2, <3>3, AppendTells
  <2> QED
    BY <1>7, <2>3, <2>4
<1> QED
  BY <1>6, <1>8, <1>9

\* No document of the directory has the name of another and a number behind it.
NoSuffixedNames == \A b, c \in Bases : \A n \in 1 .. Len(docs) : b # Append(c, n)

(* uniqueFlowID gives every flow an id of its own, however many documents  *)
(* share a name, in a directory where no name is another with a number     *)
(* behind it.  Without that it does not (see UniqueFlowIDs).               *)
THEOREM IdsUnique == Spec => [](NoSuffixedNames => UniqueFlowIDs)
<1>1. IInv => (NoSuffixedNames => UniqueFlowIDs)
  <2> SUFFICES ASSUME IInv, NoSuffixedNames,
                      NEW i \in DOMAIN flows, NEW j \in DOMAIN flows,
                      i # j, flows[i].id = flows[j].id
               PROVE  FALSE
    BY DEF UniqueFlowIDs
  <2>1. i \in DOMAIN docs /\ j \in DOMAIN docs
    BY DEF IInv, Typed
  <2>2. Base(docs[i]) \in Bases /\ Base(docs[j]) \in Bases
    BY <2>1, DocumentsTyped DEF IInv
  <2> QED
    BY <2>2, ClashOnlyBySuffix DEF NoSuffixedNames
<1> QED
  BY <1>1, InvHolds, PTL

(* main serves all documents of the directory or none, and -run-once runs  *)
(* each flow once, in their order, and panics exactly if one failed.       *)
THEOREM AllOrNothing == Spec => []AllServed
<1>1. IInv => AllServed
  BY DEF IInv, Progress, Runs, AllServed
<1> QED
  BY <1>1, InvHolds, PTL
=============================================================================
