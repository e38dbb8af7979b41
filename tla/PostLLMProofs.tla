---------------------------- MODULE PostLLMProofs ---------------------------
(***************************************************************************)
(* Proofs about module PostLLM, for any number of processors, images,      *)
(* chunks, retries and any threshold.                                      *)
(***************************************************************************)
EXTENDS PostLLM, FiniteSetTheorems, WellFoundedInduction, TLAPS

-----------------------------------------------------------------------------
(* Choosing positions in sequences *)

(* A set of positions that is not empty has a first one.                   *)
LEMMA FirstExists ==
  ASSUME NEW I \in SUBSET Nat, I # {}
  PROVE  Min(I) \in I /\ \A j \in I : Min(I) <= j
<1> DEFINE R == {p \in Nat \X Nat : p[1] < p[2]}
<1>1. IsWellFoundedOn(R, Nat)
  BY NatLessThanWellFounded DEF OpToRel
<1> HIDE DEF R
<1>2. PICK x \in I : \A y \in I : ~(<<y, x>> \in R)
  BY <1>1, WFMin
<1>3. ASSUME NEW y \in I PROVE x <= y
  <2>1. x \in Nat /\ y \in Nat /\ <<y, x>> \in Nat \X Nat
    OBVIOUS
  <2>2. ~(y < x)
    BY <1>2, <2>1 DEF R
  <2> QED
    BY <2>1, <2>2
<1> QED
  BY <1>3 DEF Min

(* The last of a set of positions is the one none is behind.               *)
LEMMA LastIs ==
  ASSUME NEW I \in SUBSET Nat, NEW k \in I, \A j \in I : j <= k
  PROVE  Max(I) = k
<1>1. Max(I) \in I /\ \A j \in I : Max(I) >= j
  BY DEF Max
<1>2. Max(I) \in Nat /\ k \in Nat /\ Max(I) >= k /\ Max(I) <= k
  BY <1>1
<1> QED
  BY <1>2

(* Taking one entry out of a sequence without repetitions leaves the       *)
(* others, and the entry itself is gone.                                   *)
LEMMA RemovedOne ==
  ASSUME NEW S, NEW s \in Seq(S), IsInjective(s), NEW i \in 1 .. Len(s)
  PROVE  /\ RemoveAt(s, i) \in Seq(S) /\ IsInjective(RemoveAt(s, i))
         /\ ToSet(RemoveAt(s, i)) = ToSet(s) \ {s[i]}
         /\ Len(RemoveAt(s, i)) = Len(s) - 1
<1> DEFINE n == Len(s)
           r == RemoveAt(s, i)
<1>1. n \in Nat /\ i \in Nat /\ 1 <= i /\ i <= n /\ s \in [1 .. n -> S]
  OBVIOUS
<1>2. /\ SubSeq(s, 1, i - 1) \in Seq(S) /\ Len(SubSeq(s, 1, i - 1)) = i - 1
      /\ \A j \in 1 .. i - 1 : SubSeq(s, 1, i - 1)[j] = s[j]
  BY <1>1
<1>3. /\ SubSeq(s, i + 1, n) \in Seq(S) /\ Len(SubSeq(s, i + 1, n)) = n - i
      /\ \A j \in 1 .. n - i : SubSeq(s, i + 1, n)[j] = s[j + i]
  <2>1. SubSeq(s, i + 1, n) = [j \in 1 .. (1 + n) - (i + 1) |-> s[((i + 1) + j) - 1]]
    OBVIOUS
  <2>2. (1 + n) - (i + 1) = n - i /\ n - i \in Nat
    BY <1>1
  <2>3. \A j \in 1 .. n - i : ((i + 1) + j) - 1 = j + i /\ j + i \in 1 .. n
    BY <1>1
  <2>4. SubSeq(s, i + 1, n) = [j \in 1 .. n - i |-> s[j + i]]
    BY <2>1, <2>2, <2>3
  <2> DEFINE m == n - i
             b == [j \in 1 .. m |-> s[j + i]]
  <2>5. m \in Nat /\ \A j \in 1 .. m : s[j + i] \in S
    BY <1>1, <2>2, <2>3
  <2> HIDE DEF m
  <2>6. b \in [1 .. m -> S]
    BY <2>5
  <2>7. b \in Seq(S) /\ Len(b) = m /\ \A j \in 1 .. m : b[j] = s[j + i]
    BY <2>5, <2>6
  <2> QED
    BY <2>4, <2>7 DEF m
<1>4. r = SubSeq(s, 1, i - 1) \o SubSeq(s, i + 1, n)
  BY DEF RemoveAt
<1> DEFINE front == SubSeq(s, 1, i - 1)
           back == SubSeq(s, i + 1, n)
<1> HIDE DEF r, front, back
<1>5. /\ r \in Seq(S) /\ Len(r) = n - 1 /\ DOMAIN r = 1 .. n - 1
      /\ \A j \in 1 .. n - 1 : r[j] = IF j < i THEN s[j] ELSE s[j + 1]
  <2>1. r = front \o back /\ front \in Seq(S) /\ back \in Seq(S)
        /\ Len(front) = i - 1 /\ Len(back) = n - i
    BY <1>2, <1>3, <1>4 DEF front, back
  <2>2. r \in Seq(S) /\ Len(r) = n - 1 /\ DOMAIN r = 1 .. n - 1
    <3>1. front \o back \in Seq(S) /\ Len(front \o back) = Len(front) + Len(back)
      <4>1. front \in Seq(S) /\ back \in Seq(S)
        BY <2>1
      <4> QED
        BY <4>1
    <3>2. Len(front) + Len(back) = n - 1
      BY <1>1, <2>1
    <3> QED
      BY <2>1, <3>1, <3>2
  <2>3. ASSUME NEW j \in 1 .. n - 1 PROVE r[j] = IF j < i THEN s[j] ELSE s[j + 1]
    <3>1. CASE j < i
      <4>1. r[j] = front[j]
        BY <1>1, <2>1, <3>1
      <4> QED
        BY <1>1, <1>2, <3>1, <4>1 DEF front
    <3>2. CASE ~(j < i)
      <4>1. r[j] = back[j - (i - 1)]
        <5>1. j \in 1 .. Len(front) + Len(back) /\ ~(j <= Len(front))
          BY <1>1, <2>1, <3>2
        <5>2. r[j] = back[j - Len(front)]
          BY <2>1, <5>1
        <5> QED
          BY <2>1, <5>2
      <4>2. j - (i - 1) \in 1 .. n - i /\ (j - (i - 1)) + i = j + 1
        BY <1>1, <3>2
      <4> QED
        BY <1>3, <3>2, <4>1, <4>2 DEF back
    <3> QED
      BY <3>1, <3>2
  <2> QED
    BY <2>2, <2>3
<1>6. \A j, k \in 1 .. n : s[j] = s[k] => j = k
  BY DEF IsInjective
<1>7. IsInjective(r)
  <2>1. ASSUME NEW j \in 1 .. n - 1, NEW k \in 1 .. n - 1, r[j] = r[k] PROVE j = k
    BY <1>1, <1>5, <1>6, <2>1
  <2> QED
    BY <1>5, <2>1 DEF IsInjective
<1>8. ToSet(r) = ToSet(s) \ {s[i]}
  <2>1. ASSUME NEW j \in 1 .. n - 1 PROVE r[j] \in ToSet(s) \ {s[i]}
    BY <1>1, <1>5, <1>6 DEF ToSet
  <2>2. ASSUME NEW k \in 1 .. n, k # i PROVE \E j \in 1 .. n - 1 : r[j] = s[k]
    <3>1. CASE k < i
      <4>1. k \in 1 .. n - 1 /\ r[k] = s[k]
        BY <1>1, <1>5, <3>1
      <4> QED
        BY <4>1
    <3>2. CASE k > i
      <4>1. k - 1 \in 1 .. n - 1 /\ ~(k - 1 < i) /\ (k - 1) + 1 = k
        BY <1>1, <3>2
      <4>2. r[k - 1] = s[k]
        BY <1>5, <4>1
      <4> QED
        BY <4>1, <4>2
    <3> QED
      BY <1>1, <2>2, <3>1, <3>2
  <2> QED
    BY <1>1, <1>5, <2>1, <2>2 DEF ToSet
<1> QED
  BY <1>5, <1>7, <1>8 DEF r

-----------------------------------------------------------------------------
(* The post and its processors *)

(* The processor at hand is one of the kinds there are, with its settings. *)
LEMMA CurrentFacts ==
  ASSUME setup \in Setups, step \in 1 .. Len(setup.steps)
  PROVE  /\ setup \in Setup /\ Current \in Step
         /\ Current.kind \in {"quality", "summary"}
         /\ Current.images \in {"off", "caption", "multimodal"}
         /\ Current.maxImages \in Nat
         /\ Current.kind = "quality" => Current.retries \in Int /\ Current.threshold \in Nat
         /\ Attempts \in Nat /\ Attempts >= 1
         /\ setup.images \in Seq(Url \cup {NoUrl}) /\ setup.chunks \in Nat
         /\ Image = 1 .. Len(setup.images) /\ Len(setup.images) \in Nat
         /\ setup.steps \in Seq(Step) /\ setup.plan \in {"full", "per_chunk", "map_reduce"}
<1>1. setup \in Setup
  BY PostLLMAssumption
<1>2. /\ setup.images \in Seq(Url \cup {NoUrl}) /\ setup.chunks \in Nat
      /\ setup.steps \in Seq(Step)
      /\ setup.plan \in {"full", "per_chunk", "map_reduce"}
  BY <1>1 DEF Setup
<1>3. Current \in Step
  BY <1>2 DEF Current
<1>4. /\ Current.kind \in {"quality", "summary"}
      /\ Current.images \in {"off", "caption", "multimodal"}
      /\ Current.maxImages \in Nat
      /\ Current.kind = "quality" => Current.retries \in Int /\ Current.threshold \in Nat
  BY <1>3 DEF Step
<1>5. Attempts \in Nat /\ Attempts >= 1
  <2>1. CASE Current.kind = "summary"
    BY <2>1 DEF Attempts
  <2>2. CASE Current.kind = "quality"
    <3>1. Retries \in Int
      BY <1>4, <2>2 DEF Retries
    <3> QED
      BY <2>2, <3>1 DEF Attempts
  <2> QED
    BY <1>4, <2>1, <2>2
<1>6. Image = 1 .. Len(setup.images) /\ Len(setup.images) \in Nat
  BY <1>2 DEF Image
<1> QED
  BY <1>1, <1>2, <1>3, <1>4, <1>5, <1>6

(* CollectImageBlocks takes images of the post, none twice.                *)
LEMMA CollectedFacts ==
  ASSUME setup \in Setups, step \in 1 .. Len(setup.steps)
  PROVE  /\ Collected \in Seq(Image) /\ IsInjective(Collected)
         /\ Len(Collected) <= Len(setup.images)
         /\ ToSet(Collected) \subseteq Image
         /\ IsFiniteSet(ToSet(Collected))
         /\ Cardinality(ToSet(Collected)) = Len(Collected)
<1> DEFINE n == Len(setup.images)
           c == Collected
<1>1. Image = 1 .. n /\ n \in Nat /\ Current.maxImages \in Nat
  BY CurrentFacts
<1>2. PICK m \in 0 .. n : Collected = [i \in 1 .. m |-> i]
  <2> DEFINE all == [i \in Image |-> i]
  <2>1. all \in Seq(Image) /\ Len(all) = n
    BY <1>1
  <2>2. CASE Current.maxImages > 0 /\ n > Current.maxImages
    <3>1. Collected = SubSeq(all, 1, Current.maxImages)
      BY <2>1, <2>2 DEF Collected
    <3>2. SubSeq(all, 1, Current.maxImages) = [i \in 1 .. Current.maxImages |-> i]
      BY <1>1, <2>1, <2>2
    <3>3. Current.maxImages \in 0 .. n
      BY <1>1, <2>2
    <3> QED
      BY <3>1, <3>2, <3>3
  <2>3. CASE ~(Current.maxImages > 0 /\ n > Current.maxImages)
    <3>1. Collected = all
      BY <2>1, <2>3 DEF Collected
    <3> QED
      BY <1>1, <3>1
  <2> QED
    BY <2>2, <2>3
<1>3. m \in Nat /\ m <= n
  BY <1>1
<1>4. Collected \in Seq(Image) /\ Len(Collected) = m /\ DOMAIN Collected = 1 .. m
  BY <1>1, <1>2, <1>3
<1>5. IsInjective(Collected)
  BY <1>2, <1>3 DEF IsInjective
<1>6. ToSet(Collected) = 1 .. m
  BY <1>2, <1>3 DEF ToSet
<1>7. IsFiniteSet(1 .. m) /\ Cardinality(1 .. m) = m
  <2>1. IsFiniteSet(1 .. m)
    BY <1>3, FS_Interval
  <2>2. Cardinality(1 .. m) = IF 1 > m THEN 0 ELSE m - 1 + 1
    BY <1>3, FS_Interval
  <2> QED
    BY <1>3, <2>1, <2>2
<1> QED
  BY <1>1, <1>3, <1>4, <1>5, <1>6, <1>7

(* DropImageByURL takes one image with that URL out of the request.        *)
LEMMA DropsOne ==
  ASSUME NEW s \in Seq(Image), IsInjective(s), NEW u \in UrlsOf(s)
  PROVE  \E r \in ToSet(s) :
           /\ setup.images[r] = u
           /\ DropImageByURL(s, u) \in Seq(Image) /\ IsInjective(DropImageByURL(s, u))
           /\ ToSet(DropImageByURL(s, u)) = ToSet(s) \ {r}
           /\ Len(DropImageByURL(s, u)) = Len(s) - 1
<1> DEFINE I == {i \in 1 .. Len(s) : setup.images[s[i]] = u}
<1>1. PICK r \in ToSet(s) : setup.images[r] = u
  BY DEF UrlsOf
<1>2. PICK k \in 1 .. Len(s) : s[k] = r
  BY DEF ToSet
<1>3. I \in SUBSET Nat /\ I # {}
  BY <1>1, <1>2
<1>4. DropImageByURL(s, u) = RemoveAt(s, Min(I))
  BY <1>3 DEF DropImageByURL, SelectInSeq
<1>5. Min(I) \in I
  BY <1>3, FirstExists
<1> DEFINE i == Min(I)
<1>6. i \in 1 .. Len(s) /\ setup.images[s[i]] = u
  BY <1>5
<1> HIDE DEF i, I
<1>7. DropImageByURL(s, u) = RemoveAt(s, i)
  BY <1>4 DEF i
<1>8. s[i] \in ToSet(s)
  BY <1>6 DEF ToSet
<1>9. /\ RemoveAt(s, i) \in Seq(Image) /\ IsInjective(RemoveAt(s, i))
      /\ ToSet(RemoveAt(s, i)) = ToSet(s) \ {s[i]}
      /\ Len(RemoveAt(s, i)) = Len(s) - 1
  BY <1>6, RemovedOne
<1> QED
  BY <1>6, <1>7, <1>8, <1>9

-----------------------------------------------------------------------------
(* The inductive invariant *)

\* What the variables hold.
Typed ==
  /\ setup \in Setups /\ step \in 1 .. Len(setup.steps)
  /\ pc \in {"begin", "caption", "chunk", "call", "through", "below", "error"}
  /\ left \in Seq(Image) /\ IsInjective(left)
  /\ attempt \in Nat /\ score \in 0 .. 2
  /\ captioned \subseteq Image
  /\ chunk \in 0 .. setup.chunks
  /\ summarised \in [Chunk -> 0 .. Len(setup.steps)]
  /\ quality \in [by : 0 .. Len(setup.steps), score : 0 .. 2]
  /\ summary \in 0 .. Len(setup.steps)
  /\ calls \in Nat /\ captions \in [Image -> Nat]
  /\ answers \in Seq(Answer) /\ reported \in Seq(Url \cup {Unnamed})

\* What a step begins with, and has until its requests.
Prepared ==
  /\ pc \in {"caption", "chunk"} =>
       /\ attempt = 0 /\ score = 0 /\ reported = <<>> /\ answers = <<>>
       /\ left = IF Current.images = "multimodal" /\ ~InChunks THEN Collected ELSE <<>>
  /\ pc = "caption" => chunk = 0
  /\ pc = "chunk" => InChunks /\ chunk < setup.chunks
  /\ pc = "call" => attempt < Attempts

\* The requests that captions and chunks may take.
CaptionCalls == IF Current.images = "caption" THEN Len(Collected) ELSE 0
ChunkCalls == IF InChunks THEN setup.chunks ELSE 0

\* Every request counts against the images, the chunks or the attempts.
Counted ==
  /\ pc = "caption" => calls + Cardinality(ToCaption) <= CaptionCalls
  /\ pc = "chunk" => calls <= CaptionCalls + chunk
  /\ pc = "call" =>
       calls <= CaptionCalls + ChunkCalls + Attempts * Len(reported) + attempt
  /\ pc # "begin" =>
       calls <= CaptionCalls + ChunkCalls + Attempts * (1 + Len(reported))

\* An image is reported for each one that a request has lost.
Reported ==
  /\ pc \in {"caption", "chunk", "call"} =>
       Len(left) + Len(reported) <= Len(setup.images)
  /\ Len(reported) <= Len(setup.images) + 1

\* An image that has no caption was not asked one for, unless that failed.
CaptionedOnce ==
  \A i \in Image : /\ captions[i] <= 1
                   /\ pc # "error" /\ i \notin captioned => captions[i] = 0

\* A request holds images that were collected, but for those reported.
Salvaged ==
  /\ pc \in {"caption", "chunk", "call"} => ToSet(left) \subseteq ToSet(Collected)
  /\ LeavesOutOnlyMissing

\* The score is the one given last in the step's answers.
Given(s) == {k \in DOMAIN s : s[k].score # -1}
SaidLast(v, s) ==
  \/ Given(s) = {} /\ v = 0
  \/ \E k \in Given(s) : (\A j \in Given(s) : j <= k) /\ v = s[k].score
Spoken == pc = "call" => SaidLast(score, answers)

\* The chunks that this step has summarised.
ChunksDone ==
  /\ pc = "chunk" => \A i \in 1 .. chunk : summarised[i] = step
  /\ pc = "call" /\ InChunks => \A i \in Chunk : summarised[i] = step

IInv == /\ Typed /\ Prepared /\ Counted /\ Reported /\ CaptionedOnce
        /\ Salvaged /\ Spoken /\ ChunksDone

-----------------------------------------------------------------------------
(* What depends on the step alone *)

(* Within a step its settings, and what is collected for it, stay.         *)
LEMMA StepStays ==
  ASSUME setup' = setup, step' = step
  PROVE  /\ Current' = Current /\ InChunks' = InChunks /\ Collected' = Collected
         /\ Attempts' = Attempts /\ CaptionCalls' = CaptionCalls
         /\ ChunkCalls' = ChunkCalls /\ Image' = Image /\ Chunk' = Chunk
<1>1. Current' = Current /\ Image' = Image /\ Chunk' = Chunk
  BY DEF Current, Image, Chunk
<1>2. InChunks' = InChunks /\ Collected' = Collected
  BY <1>1 DEF InChunks, Collected
<1>3. Attempts' = Attempts
  BY <1>1 DEF Attempts, Retries
<1>4. CaptionCalls' = CaptionCalls /\ ChunkCalls' = ChunkCalls
  BY <1>1, <1>2 DEF CaptionCalls, ChunkCalls
<1> QED
  BY <1>1, <1>2, <1>3, <1>4

(* Which images and chunks there are depends on the post alone.            *)
LEMMA TypesFollowPost ==
  ASSUME setup' = setup
  PROVE  Image' = Image /\ Chunk' = Chunk
<1> QED
  BY DEF Image, Chunk

(* The numbers of requests are numbers.                                    *)
LEMMA CountsTyped ==
  ASSUME Typed
  PROVE  /\ CaptionCalls \in Nat /\ ChunkCalls \in Nat /\ Attempts \in Nat
         /\ Attempts >= 1 /\ Len(reported) \in Nat /\ calls \in Nat /\ attempt \in Nat
         /\ Attempts * Len(reported) \in Nat
         /\ Attempts * (1 + Len(reported)) = Attempts * Len(reported) + Attempts
         /\ Attempts * (1 + (Len(reported) + 1)) =
              Attempts * (Len(reported) + 1) + Attempts
         /\ Attempts * (Len(reported) + 1) = Attempts * Len(reported) + Attempts
<1>1. /\ Collected \in Seq(Image) /\ setup.chunks \in Nat /\ Attempts \in Nat
      /\ Attempts >= 1
  BY CurrentFacts, CollectedFacts DEF Typed
<1>2. CaptionCalls \in Nat /\ ChunkCalls \in Nat
  BY <1>1 DEF CaptionCalls, ChunkCalls
<1>3. Len(reported) \in Nat /\ calls \in Nat /\ attempt \in Nat
  BY DEF Typed
<1>4. \A m, n \in Nat : /\ m * n \in Nat
                        /\ m * (1 + n) = m * n + m /\ m * (n + 1) = m * n + m
                        /\ m * (1 + (n + 1)) = m * (n + 1) + m
  OBVIOUS
<1> QED
  BY <1>1, <1>2, <1>3, <1>4

(* A request has room for one more call, and for one more behind it if an  *)
(* image is reported.                                                      *)
LEMMA RoomForOne ==
  ASSUME IInv, pc = "call"
  PROVE  /\ calls + 1 <= CaptionCalls + ChunkCalls + Attempts * (1 + Len(reported))
         /\ calls + 1 <= CaptionCalls + ChunkCalls + Attempts * (1 + (Len(reported) + 1))
         /\ calls + 1 <= CaptionCalls + ChunkCalls + Attempts * (Len(reported) + 1)
<1>1. attempt < Attempts
  BY DEF IInv, Prepared
<1>2. calls <= CaptionCalls + ChunkCalls + Attempts * Len(reported) + attempt
  BY DEF IInv, Counted
<1> DEFINE cc == CaptionCalls  kc == ChunkCalls  a == Attempts  n == Len(reported)
           p == a * n  q == a * (1 + n)  r == a * (1 + (n + 1))  t == a * (n + 1)
<1>3. /\ cc \in Nat /\ kc \in Nat /\ a \in Nat /\ calls \in Nat /\ attempt \in Nat
      /\ p \in Nat /\ q = p + a /\ t = p + a /\ r = t + a
  BY CountsTyped DEF IInv
<1>4. calls <= cc + kc + p + attempt /\ attempt < a
  BY <1>1, <1>2
<1> HIDE DEF cc, kc, a, n, p, q, r, t
<1>5. calls + 1 <= cc + kc + q /\ calls + 1 <= cc + kc + r /\ calls + 1 <= cc + kc + t
  BY <1>3, <1>4
<1> QED
  BY <1>5 DEF cc, kc, a, n, p, q, r, t

(* Behind a step little is left to show.                                   *)
LEMMA DoneKeeps ==
  ASSUME IInv, setup' = setup, Typed', CaptionedOnce',
         pc' \in {"begin", "through", "below", "error"},
         Len(reported') <= Len(setup.images) + 1,
         pc' # "begin" =>
           /\ step' = step
           /\ calls' <= CaptionCalls + ChunkCalls + Attempts * (1 + Len(reported'))
  PROVE  IInv'
<1>1. Prepared' /\ Reported' /\ Spoken' /\ ChunksDone'
  BY DEF Prepared, Reported, Spoken, ChunksDone
<1>2. Salvaged'
  BY DEF Salvaged, LeavesOutOnlyMissing
<1>3. Counted'
  <2>1. CASE pc' = "begin"
    BY <2>1 DEF Counted
  <2>2. CASE pc' # "begin"
    BY <2>2, StepStays DEF Counted
  <2> QED
    BY <2>1, <2>2
<1> QED
  BY <1>1, <1>2, <1>3 DEF IInv

(* Proceed goes on to the next processor, or the post is through.          *)
LEMMA ProceedFacts ==
  ASSUME Typed, Proceed
  PROVE  /\ pc' \in {"begin", "through"} /\ step' \in 1 .. Len(setup.steps)
         /\ pc' # "begin" => step' = step
<1>1. Len(setup.steps) \in Nat /\ step \in 1 .. Len(setup.steps)
  BY CurrentFacts DEF Typed
<1> QED
  BY <1>1 DEF Proceed

-----------------------------------------------------------------------------
(* The steps up to the request *)

(* The first processor may be any, with or without captions.               *)
LEMMA InvInit == Init => IInv
<1> SUFFICES ASSUME Init PROVE IInv
  OBVIOUS
<1>1. setup \in Setups /\ setup \in Setup
  BY PostLLMAssumption DEF Init
<1>2. Len(setup.steps) \in Nat /\ Len(setup.steps) >= 1
  BY <1>1 DEF Setup
<1>3. step \in 1 .. Len(setup.steps) /\ pc = "begin"
  BY <1>2 DEF Init
<1>4. setup.chunks \in Nat /\ Len(setup.images) \in Nat
  BY <1>1 DEF Setup
<1>5. Typed
  <2>1. left \in Seq(Image) /\ IsInjective(left)
    BY DEF Init, IsInjective
  <2>2. summarised \in [Chunk -> 0 .. Len(setup.steps)] /\ captions \in [Image -> Nat]
    BY <1>2 DEF Init
  <2>3. answers \in Seq(Answer) /\ reported \in Seq(Url \cup {Unnamed})
    BY DEF Init
  <2>4. quality \in [by : 0 .. Len(setup.steps), score : 0 .. 2]
        /\ summary \in 0 .. Len(setup.steps)
    BY <1>2 DEF Init
  <2> QED
    BY <1>1, <1>3, <1>4, <2>1, <2>2, <2>3, <2>4 DEF Init, Typed
<1>6. Reported
  BY <1>3, <1>4 DEF Init, Reported
<1>7. CaptionedOnce
  BY DEF Init, CaptionedOnce
<1>8. Prepared /\ Counted /\ Salvaged /\ Spoken /\ ChunksDone
  BY <1>3 DEF Prepared, Counted, Salvaged, LeavesOutOnlyMissing, Spoken, ChunksDone
<1> QED
  BY <1>5, <1>6, <1>7, <1>8 DEF IInv

(* A step begins with nothing of the step before.                          *)
LEMMA BeginKeeps == IInv /\ Begin => IInv'
<1> SUFFICES ASSUME IInv, Begin PROVE IInv'
  OBVIOUS
<1>1. /\ setup' = setup /\ step' = step /\ pc' = "caption" /\ chunk' = 0
      /\ left' = IF Current.images = "multimodal" /\ ~InChunks THEN Collected ELSE <<>>
      /\ attempt' = 0 /\ score' = 0 /\ calls' = 0 /\ answers' = <<>> /\ reported' = <<>>
      /\ captioned' = captioned /\ summarised' = summarised /\ quality' = quality
      /\ summary' = summary /\ captions' = captions /\ pc = "begin"
  BY DEF Begin, post
<1>2. /\ Current' = Current /\ InChunks' = InChunks /\ Collected' = Collected
      /\ Attempts' = Attempts /\ CaptionCalls' = CaptionCalls
      /\ ChunkCalls' = ChunkCalls /\ Image' = Image /\ Chunk' = Chunk
  BY <1>1, StepStays
<1>3. /\ Collected \in Seq(Image) /\ IsInjective(Collected)
      /\ Len(Collected) <= Len(setup.images)
      /\ IsFiniteSet(ToSet(Collected)) /\ Cardinality(ToSet(Collected)) = Len(Collected)
      /\ Len(Collected) \in Nat
  BY CollectedFacts DEF IInv, Typed
<1>4. setup.chunks \in Nat /\ Len(setup.images) \in Nat
  BY CurrentFacts DEF IInv, Typed
<1>5. left' \in Seq(Image) /\ IsInjective(left') /\ Len(left') <= Len(setup.images)
      /\ ToSet(left') \subseteq ToSet(Collected)
  <2>1. <<>> \in Seq(Image) /\ IsInjective(<<>>) /\ Len(<<>>) = 0 /\ ToSet(<<>>) = {}
    BY DEF IsInjective, ToSet
  <2> QED
    BY <1>1, <1>3, <1>4, <2>1
<1>6. Typed'
  BY <1>1, <1>2, <1>4, <1>5 DEF IInv, Typed
<1>7. Prepared'
  BY <1>1, <1>2 DEF Prepared
<1>8. Counted'
  <2>1. ToCaption' = IF Current.images = "caption" THEN ToSet(Collected) \ captioned ELSE {}
    BY <1>1, <1>2 DEF ToCaption
  <2>2. Cardinality(ToCaption') <= CaptionCalls /\ Cardinality(ToCaption') \in Nat
    <3>1. CASE Current.images = "caption"
      <4>1. ToSet(Collected) \ captioned \in SUBSET ToSet(Collected)
        OBVIOUS
      <4>2. /\ Cardinality(ToSet(Collected) \ captioned) <= Cardinality(ToSet(Collected))
            /\ IsFiniteSet(ToSet(Collected) \ captioned)
        BY <1>3, <4>1, FS_Subset
      <4>3. Cardinality(ToSet(Collected) \ captioned) \in Nat
        BY <4>2, FS_CardinalityType
      <4> QED
        BY <1>3, <2>1, <3>1, <4>2, <4>3 DEF CaptionCalls
    <3>2. CASE Current.images # "caption"
      BY <2>1, <3>2, FS_EmptySet DEF CaptionCalls
    <3> QED
      BY <3>1, <3>2
  <2>3. CaptionCalls \in Nat /\ ChunkCalls \in Nat /\ Attempts \in Nat
    BY CountsTyped DEF IInv
  <2>4. Len(reported') = 0
    BY <1>1
  <2>5. 0 <= CaptionCalls + ChunkCalls + Attempts * (1 + 0)
    BY <2>3
  <2> QED
    BY <1>1, <1>2, <2>2, <2>3, <2>4, <2>5 DEF Counted
<1>9. Reported'
  <2>1. Len(reported') = 0 /\ Len(left') \in Nat
    BY <1>1, <1>5
  <2> QED
    BY <1>1, <1>4, <1>5, <2>1 DEF Reported
<1>10. CaptionedOnce'
  BY <1>1, <1>2 DEF IInv, CaptionedOnce
<1>11. Salvaged'
  BY <1>1, <1>2, <1>5 DEF Salvaged, LeavesOutOnlyMissing
<1>12. Spoken' /\ ChunksDone'
  BY <1>1 DEF Spoken, ChunksDone
<1> QED
  BY <1>6, <1>7, <1>8, <1>9, <1>10, <1>11, <1>12 DEF IInv

(* An image gets a caption, or the step ends.                              *)
LEMMA CaptionKeeps == IInv /\ Caption => IInv'
<1> SUFFICES ASSUME IInv, Caption PROVE IInv'
  OBVIOUS
<1>1. PICK i \in ToCaption :
        /\ pc = "caption" /\ calls' = calls + 1 /\ captions' = [captions EXCEPT ![i] = @ + 1]
        /\ \/ captioned' = captioned \cup {i} /\ pc' = pc
           \/ pc' = "error" /\ captioned' = captioned
        /\ step' = step
  BY DEF Caption, Fail
<1>2. /\ setup' = setup /\ left' = left /\ attempt' = attempt /\ score' = score
      /\ chunk' = chunk /\ summarised' = summarised /\ quality' = quality
      /\ summary' = summary /\ answers' = answers /\ reported' = reported
  BY DEF Caption, request
<1>3. /\ Current' = Current /\ InChunks' = InChunks /\ Collected' = Collected
      /\ Attempts' = Attempts /\ CaptionCalls' = CaptionCalls
      /\ ChunkCalls' = ChunkCalls /\ Image' = Image /\ Chunk' = Chunk
  BY <1>1, <1>2, StepStays
<1>4. Current.images = "caption" /\ i \in ToSet(Collected) /\ i \notin captioned
      /\ ToCaption = ToSet(Collected) \ captioned
  BY DEF ToCaption
<1>5. i \in Image /\ IsFiniteSet(ToSet(Collected))
  BY <1>4, CollectedFacts DEF IInv, Typed
<1>6. IsFiniteSet(ToCaption) /\ Cardinality(ToCaption) \in Nat /\ Cardinality(ToCaption) >= 1
  <2>1. IsFiniteSet(ToCaption)
    BY <1>4, <1>5, FS_Subset
  <2>2. Cardinality(ToCaption) \in Nat
    BY <2>1, FS_CardinalityType
  <2>3. Cardinality(ToCaption) # 0
    BY <2>1, FS_EmptySet
  <2> QED
    BY <2>1, <2>2, <2>3
<1>7. /\ CaptionCalls \in Nat /\ ChunkCalls \in Nat /\ calls \in Nat
      /\ calls + Cardinality(ToCaption) <= CaptionCalls
      /\ Attempts * (1 + Len(reported)) \in Nat
  <2>1. /\ Attempts * Len(reported) \in Nat /\ Attempts \in Nat
        /\ Attempts * (1 + Len(reported)) = Attempts * Len(reported) + Attempts
        /\ CaptionCalls \in Nat /\ ChunkCalls \in Nat /\ calls \in Nat
    BY CountsTyped DEF IInv
  <2>2. Attempts * (1 + Len(reported)) \in Nat
    <3> DEFINE a == Attempts  p == a * Len(reported)  q == a * (1 + Len(reported))
    <3>1. a \in Nat /\ p \in Nat /\ q = p + a
      BY <2>1
    <3> HIDE DEF a, p, q
    <3>2. q \in Nat
      BY <3>1
    <3> QED
      BY <3>2 DEF q, a
  <2> QED
    BY <1>1, <2>1, <2>2 DEF IInv, Counted
<1>8. Typed'
  <2>1. captions' \in [Image -> Nat] /\ captioned' \subseteq Image
    BY <1>1, <1>5 DEF IInv, Typed
  <2> QED
    BY <1>1, <1>2, <1>3, <1>7, <2>1 DEF IInv, Typed
<1>9. CaptionedOnce'
  <2>1. ASSUME NEW j \in Image
        PROVE  /\ captions'[j] <= 1
               /\ pc' # "error" /\ j \notin captioned' => captions'[j] = 0
    <3>1. captions \in [Image -> Nat] /\ captions[i] = 0
      BY <1>1, <1>4, <1>5 DEF IInv, Typed, CaptionedOnce
    <3>2. CASE j = i
      BY <1>1, <1>5, <3>1, <3>2
    <3>3. CASE j # i
      BY <1>1, <1>5, <3>1, <3>3 DEF IInv, CaptionedOnce
    <3> QED
      BY <3>2, <3>3
  <2> QED
    BY <1>3, <2>1 DEF CaptionedOnce
<1>10. calls' <= CaptionCalls + ChunkCalls + Attempts * (1 + Len(reported'))
  <2> DEFINE q == Attempts * (1 + Len(reported))
             n == Cardinality(ToCaption)
  <2>1. /\ q \in Nat /\ n \in Nat /\ n >= 1 /\ calls + n <= CaptionCalls
        /\ CaptionCalls \in Nat /\ ChunkCalls \in Nat /\ calls \in Nat
    BY <1>6, <1>7
  <2> HIDE DEF q, n
  <2>2. calls + 1 <= CaptionCalls + ChunkCalls + q
    BY <2>1
  <2> QED
    BY <1>1, <1>2, <2>2 DEF q
<1>11. CASE pc' = "error"
  <2>1. Len(reported') <= Len(setup.images) + 1
    BY <1>2 DEF IInv, Reported
  <2> QED
    BY <1>1, <1>2, <1>8, <1>9, <1>10, <1>11, <2>1, DoneKeeps
<1>12. CASE pc' # "error"
  <2>1. pc' = "caption" /\ captioned' = captioned \cup {i}
    BY <1>1, <1>12
  <2>2. Prepared' /\ Reported' /\ Spoken' /\ ChunksDone'
    BY <1>1, <1>2, <1>3, <2>1 DEF IInv, Prepared, Reported, Spoken, ChunksDone
  <2>3. Salvaged'
    BY <1>1, <1>2, <1>3, <2>1 DEF IInv, Salvaged, LeavesOutOnlyMissing
  <2>4. ToCaption' = ToCaption \ {i}
    BY <1>3, <1>4, <2>1 DEF ToCaption
  <2>5. Cardinality(ToCaption') = Cardinality(ToCaption) - 1
    BY <1>6, <2>4, FS_RemoveElement
  <2>6. calls' + Cardinality(ToCaption') <= CaptionCalls
    BY <1>1, <1>6, <1>7, <2>5
  <2>7. Counted'
    BY <1>3, <1>10, <2>1, <2>6 DEF Counted
  <2> QED
    BY <1>8, <1>9, <2>2, <2>3, <2>7 DEF IInv
<1> QED
  BY <1>11, <1>12

(* With the captions there, the step turns to its request or its chunks.   *)
LEMMA CaptionedKeeps == IInv /\ Captioned => IInv'
<1> SUFFICES ASSUME IInv, Captioned PROVE IInv'
  OBVIOUS
<1>1. /\ pc = "caption" /\ ToCaption = {} /\ step' = step
      /\ \/ pc' = "call" /\ ~InChunks
         \/ pc' = "chunk" /\ InChunks /\ setup.chunks # 0
         \/ pc' = "error"
  BY DEF Captioned, Fail
<1>2. /\ setup' = setup /\ left' = left /\ attempt' = attempt /\ score' = score
      /\ chunk' = chunk /\ summarised' = summarised /\ quality' = quality
      /\ summary' = summary /\ answers' = answers /\ reported' = reported
      /\ captioned' = captioned /\ captions' = captions /\ calls' = calls
  BY DEF Captioned, post, request, history
<1>3. /\ Current' = Current /\ InChunks' = InChunks /\ Collected' = Collected
      /\ Attempts' = Attempts /\ CaptionCalls' = CaptionCalls
      /\ ChunkCalls' = ChunkCalls /\ Image' = Image /\ Chunk' = Chunk
  BY <1>1, <1>2, StepStays
<1>4. /\ attempt = 0 /\ score = 0 /\ reported = <<>> /\ answers = <<>> /\ chunk = 0
      /\ left = IF Current.images = "multimodal" /\ ~InChunks THEN Collected ELSE <<>>
  BY <1>1 DEF IInv, Prepared
<1>5. Typed'
  BY <1>1, <1>2, <1>3 DEF IInv, Typed
<1>6. CaptionedOnce'
  BY <1>1, <1>2, <1>3 DEF IInv, CaptionedOnce
<1>7. /\ CaptionCalls \in Nat /\ ChunkCalls \in Nat /\ calls \in Nat /\ Attempts \in Nat
      /\ Attempts >= 1 /\ Attempts * Len(reported) \in Nat
      /\ calls <= CaptionCalls + ChunkCalls + Attempts * (1 + Len(reported))
  BY <1>1, CountsTyped DEF IInv, Counted
<1>8. calls <= CaptionCalls
  BY <1>1, <1>7, FS_EmptySet DEF IInv, Counted
<1>9. CASE pc' = "error"
  <2>1. Len(reported') <= Len(setup.images) + 1
    BY <1>2 DEF IInv, Reported
  <2> QED
    BY <1>1, <1>2, <1>5, <1>6, <1>7, <1>9, <2>1, DoneKeeps
<1>10. CASE pc' \in {"call", "chunk"}
  <2>1. Prepared'
    <3>1. setup.chunks \in Nat
      BY CurrentFacts DEF IInv, Typed
    <3> QED
      BY <1>1, <1>2, <1>3, <1>4, <1>7, <1>10, <3>1 DEF Prepared
  <2>2. Counted'
    <3>1. calls <= CaptionCalls + ChunkCalls + Attempts * Len(reported) + 0
      <4> DEFINE q == Attempts * Len(reported)
      <4>1. q \in Nat
        BY <1>7
      <4> HIDE DEF q
      <4>2. calls <= CaptionCalls + ChunkCalls + q + 0
        BY <1>7, <1>8, <4>1
      <4> QED
        BY <4>2 DEF q
    <3> QED
      BY <1>2, <1>3, <1>4, <1>7, <1>8, <1>10, <3>1 DEF Counted
  <2>3. Reported'
    BY <1>1, <1>2, <1>10 DEF IInv, Reported
  <2>4. Salvaged'
    <3>1. ToSet(left) \subseteq ToSet(Collected)
      BY <1>1 DEF IInv, Salvaged
    <3>2. ASSUME Current.images = "multimodal", ~InChunks, NEW u
          PROVE  Among(ToSet(Collected) \ ToSet(left), u) = Reports(u)
      <4>1. Among(ToSet(Collected) \ ToSet(left), u) = Cardinality({})
        BY <1>4, <3>2 DEF Among
      <4>2. {k \in DOMAIN reported : reported[k] = u} = {}
        BY <1>4
      <4> QED
        BY <4>1, <4>2 DEF Reports
    <3>3. LeavesOutOnlyMissing'
      <4> SUFFICES ASSUME Current.images = "multimodal", ~InChunks,
                          NEW u \in Url \cup {NoUrl}
                   PROVE  Among(ToSet(Collected) \ ToSet(left), u)' = Reports(u)'
        BY <1>2, <1>3 DEF LeavesOutOnlyMissing
      <4>1. Among(ToSet(Collected) \ ToSet(left), u)' = Among(ToSet(Collected) \ ToSet(left), u)
        BY <1>2, <1>3 DEF Among
      <4>2. Reports(u)' = Reports(u)
        BY <1>2 DEF Reports
      <4> QED
        BY <3>2, <4>1, <4>2
    <3> QED
      BY <1>2, <1>3, <3>1, <3>3 DEF Salvaged
  <2>5. Spoken'
    <3>1. Given(answers) = {}
      BY <1>4 DEF Given
    <3> QED
      BY <1>2, <1>4, <3>1 DEF Spoken, SaidLast
  <2>6. ChunksDone'
    BY <1>1, <1>2, <1>3, <1>4, <1>10 DEF ChunksDone
  <2> QED
    BY <1>5, <1>6, <2>1, <2>2, <2>3, <2>4, <2>5, <2>6 DEF IInv
<1> QED
  BY <1>1, <1>9, <1>10

(* A chunk is summarised by the step, or the step fails.                   *)
LEMMA ChunkKeeps == IInv /\ SummarizeChunk => IInv'
<1> SUFFICES ASSUME IInv, SummarizeChunk PROVE IInv'
  OBVIOUS
<1>1. pc = "chunk" /\ calls' = calls + 1
  BY DEF SummarizeChunk
<1>2. /\ setup' = setup /\ left' = left /\ attempt' = attempt /\ score' = score
      /\ quality' = quality /\ summary' = summary /\ answers' = answers
      /\ reported' = reported /\ captioned' = captioned /\ captions' = captions
  BY DEF SummarizeChunk, request
<1>3. /\ attempt = 0 /\ score = 0 /\ reported = <<>> /\ answers = <<>> /\ InChunks
      /\ left = <<>> /\ chunk < setup.chunks
  BY <1>1 DEF IInv, Prepared
<1>4. setup.chunks \in Nat /\ chunk \in Nat /\ ChunkCalls = setup.chunks
  BY <1>3, CurrentFacts DEF IInv, Typed, ChunkCalls
<1>5. /\ CaptionCalls \in Nat /\ calls \in Nat /\ Attempts \in Nat /\ Attempts >= 1
      /\ Attempts * Len(reported) \in Nat
      /\ Attempts * (1 + Len(reported)) = Attempts * Len(reported) + Attempts
      /\ calls <= CaptionCalls + chunk
  BY <1>1, CountsTyped DEF IInv, Counted
<1>6. /\ calls' <= CaptionCalls + ChunkCalls + Attempts * Len(reported')
      /\ calls' <= CaptionCalls + ChunkCalls + Attempts * (1 + Len(reported'))
      /\ calls' <= CaptionCalls + (chunk + 1)
  <2> DEFINE p == Attempts * Len(reported)  q == Attempts * (1 + Len(reported))  a == Attempts
  <2>1. p \in Nat /\ q = p + a /\ a \in Nat
    BY <1>5
  <2> HIDE DEF p, q, a
  <2>2. calls' <= CaptionCalls + ChunkCalls + p /\ calls' <= CaptionCalls + ChunkCalls + q
        /\ calls' <= CaptionCalls + (chunk + 1)
    BY <1>1, <1>3, <1>4, <1>5, <2>1
  <2> QED
    BY <1>2, <2>2 DEF p, q
<1>7. Len(reported') <= Len(setup.images) + 1
  BY <1>2 DEF IInv, Reported
<1>8. Image' = Image /\ Chunk' = Chunk
  BY <1>2, TypesFollowPost
<1>9. CaptionedOnce'
  BY <1>1, <1>2, <1>8 DEF IInv, CaptionedOnce
<1>10. CASE Fail /\ UNCHANGED <<chunk, summarised>>
  <2>1. pc' = "error" /\ step' = step /\ chunk' = chunk /\ summarised' = summarised
    BY <1>10 DEF Fail
  <2>2. Typed'
    BY <1>1, <1>2, <1>5, <1>8, <2>1 DEF IInv, Typed
  <2> QED
    BY <1>2, <1>6, <1>7, <1>9, <2>1, <2>2, DoneKeeps
<1>11. CASE /\ chunk' = chunk + 1
            /\ summarised' = [summarised EXCEPT ![chunk + 1] = step]
            /\ IF chunk + 1 < setup.chunks THEN UNCHANGED <<pc, step>>
               ELSE IF setup.plan = "per_chunk" THEN Proceed
               ELSE pc' = "call" /\ UNCHANGED step
  <2>1. /\ chunk + 1 \in Chunk /\ chunk' \in 0 .. setup.chunks
        /\ summarised' \in [Chunk -> 0 .. Len(setup.steps)]
        /\ \A j \in 1 .. chunk + 1 : j \in Chunk /\ summarised'[j] = step
    <3>1. chunk + 1 \in 1 .. setup.chunks
      BY <1>3, <1>4
    <3>2. step \in 0 .. Len(setup.steps) /\ summarised \in [Chunk -> 0 .. Len(setup.steps)]
      BY CurrentFacts DEF IInv, Typed
    <3>3. \A j \in 1 .. chunk : summarised[j] = step
      BY <1>1 DEF IInv, ChunksDone
    <3>4. ASSUME NEW j \in 1 .. chunk + 1 PROVE j \in Chunk /\ summarised'[j] = step
      <4>1. j \in Chunk
        BY <1>3, <1>4 DEF Chunk
      <4> QED
        BY <1>4, <1>11, <3>2, <3>3, <4>1
    <3> QED
      BY <1>11, <1>4, <3>1, <3>2, <3>4 DEF Chunk
  <2>2. step' \in 1 .. Len(setup.steps)
        /\ pc' \in {"chunk", "call", "begin", "through"}
    BY <1>1, <1>11, ProceedFacts DEF IInv, Typed
  <2>3. Typed'
    BY <1>1, <1>2, <1>5, <1>8, <2>1, <2>2 DEF IInv, Typed
  <2>4. CASE pc' \in {"begin", "through"}
    <3>1. pc' # "begin" => step' = step
      BY <1>1, <1>11, <2>4, ProceedFacts DEF IInv
    <3> QED
      BY <1>2, <1>6, <1>7, <1>9, <2>3, <2>4, <3>1, DoneKeeps
  <2>5. CASE pc' \in {"chunk", "call"}
    <3>1. step' = step /\ (pc' = "chunk" => chunk' < setup.chunks)
          /\ (pc' = "call" => chunk' = setup.chunks)
      <4>1. CASE chunk + 1 < setup.chunks
        BY <1>1, <1>11, <4>1
      <4>2. CASE ~(chunk + 1 < setup.chunks)
        <5>1. chunk' = setup.chunks
          BY <1>3, <1>4, <1>11, <4>2
        <5>2. CASE Proceed
          BY <2>5, <5>2, ProceedFacts DEF IInv
        <5>3. CASE pc' = "call" /\ UNCHANGED step
          BY <5>1, <5>3
        <5> QED
          BY <1>11, <4>2, <5>2, <5>3
      <4> QED
        BY <4>1, <4>2
    <3>2. /\ Current' = Current /\ InChunks' = InChunks /\ Collected' = Collected
          /\ Attempts' = Attempts /\ CaptionCalls' = CaptionCalls
          /\ ChunkCalls' = ChunkCalls
      BY <1>2, <3>1, StepStays
    <3>3. Prepared'
      BY <1>2, <1>3, <1>5, <2>5, <3>1, <3>2 DEF Prepared
    <3>4. Counted'
      <4>1. CaptionCalls + ChunkCalls + Attempts * Len(reported') + attempt' =
              CaptionCalls + ChunkCalls + Attempts * Len(reported')
        <5> DEFINE p == Attempts * Len(reported)
        <5>1. p \in Nat /\ CaptionCalls \in Nat /\ ChunkCalls \in Nat
          BY <1>4, <1>5
        <5> HIDE DEF p
        <5>2. CaptionCalls + ChunkCalls + p + 0 = CaptionCalls + ChunkCalls + p
          BY <5>1
        <5> QED
          BY <1>2, <1>3, <5>2 DEF p
      <4> QED
        BY <1>6, <1>11, <2>5, <3>2, <4>1 DEF Counted
    <3>5. Reported'
      BY <1>1, <1>2, <2>5 DEF IInv, Reported
    <3>6. Salvaged'
      BY <1>1, <1>2, <1>3, <2>5, <3>2 DEF IInv, Salvaged, LeavesOutOnlyMissing
    <3>7. Spoken'
      <4>1. Given(answers) = {}
        BY <1>3 DEF Given
      <4> QED
        BY <1>2, <1>3, <4>1 DEF Spoken, SaidLast
    <3>8. ChunksDone'
      BY <1>4, <1>8, <1>11, <2>1, <2>5, <3>1, <3>2 DEF ChunksDone, Chunk
    <3> QED
      BY <1>9, <2>3, <3>3, <3>4, <3>5, <3>6, <3>7, <3>8 DEF IInv
  <2> QED
    BY <2>2, <2>4, <2>5
<1> QED
  BY <1>10, <1>11 DEF SummarizeChunk

-----------------------------------------------------------------------------
(* The requests and their answers *)

(* An answer says what the score is, or leaves it as it was.               *)
LEMMA AnswerSays ==
  ASSUME IInv, pc = "call", NEW a \in Answer
  PROVE  /\ Filled(a) \in 0 .. 2 /\ Append(answers, a) \in Seq(Answer)
         /\ SaidLast(Filled(a), Append(answers, a))
<1> DEFINE s == answers
           t == Append(answers, a)
           n == Len(answers)
<1>1. /\ s \in Seq(Answer) /\ n \in Nat /\ score \in 0 .. 2
      /\ SaidLast(score, s)
  BY DEF IInv, Typed, Spoken
<1>2. /\ t \in Seq(Answer) /\ DOMAIN t = 1 .. n + 1 /\ DOMAIN s = 1 .. n
      /\ t[n + 1] = a /\ \A k \in 1 .. n : t[k] = s[k]
  BY <1>1
<1> HIDE DEF s, t
<1>3. Filled(a) \in 0 .. 2
  BY <1>1 DEF Filled, Answer
<1>4. CASE a.score = -1
  <2>1. Filled(a) = score
    BY <1>4 DEF Filled
  <2>2. Given(t) = Given(s)
    BY <1>1, <1>2, <1>4 DEF Given
  <2>3. \A k \in Given(s) : t[k] = s[k]
    BY <1>2 DEF Given
  <2> QED
    BY <1>1, <1>2, <1>3, <2>1, <2>2, <2>3 DEF SaidLast, t
<1>5. CASE a.score # -1
  <2>1. Filled(a) = t[n + 1].score
    BY <1>2, <1>5 DEF Filled
  <2>2. n + 1 \in Given(t)
    BY <1>1, <1>2, <1>5 DEF Given
  <2>3. \A j \in Given(t) : j <= n + 1
    BY <1>1, <1>2 DEF Given
  <2>4. SaidLast(Filled(a), t)
    BY <2>1, <2>2, <2>3 DEF SaidLast
  <2> QED
    BY <1>2, <1>3, <2>4 DEF t
<1> QED
  BY <1>4, <1>5

(* One image less in the request, one more among the reported.             *)
LEMMA SalvageKept ==
  ASSUME IInv, pc = "call", NEW u \in UrlsOf(left), setup' = setup, step' = step,
         left' = DropImageByURL(left, u), reported' = Append(reported, u)
  PROVE  /\ Salvaged'
         /\ left' \in Seq(Image) /\ IsInjective(left') /\ Len(left') = Len(left) - 1
         /\ u \in Url
         /\ reported' \in Seq(Url \cup {Unnamed}) /\ Len(reported') = Len(reported) + 1
<1> DEFINE C == ToSet(Collected)
           n == Len(reported)
<1>1. /\ Current' = Current /\ InChunks' = InChunks /\ Collected' = Collected
  BY StepStays
<1>2. left \in Seq(Image) /\ IsInjective(left)
  BY DEF IInv, Typed
<1>3. PICK r \in ToSet(left) :
        /\ setup.images[r] = u
        /\ left' \in Seq(Image) /\ IsInjective(left')
        /\ ToSet(left') = ToSet(left) \ {r} /\ Len(left') = Len(left) - 1
  BY <1>2, DropsOne
<1>4. ToSet(left) \subseteq C
  BY DEF IInv, Salvaged
<1>5. IsFiniteSet(C)
  BY CollectedFacts DEF IInv, Typed
<1>6. u \in Url
  <2>1. setup.images \in Seq(Url \cup {NoUrl}) /\ Image = DOMAIN setup.images
    BY CurrentFacts DEF IInv, Typed, Image
  <2>2. r \in Image
    BY <1>2, <1>3 DEF ToSet
  <2>3. u # NoUrl
    BY DEF UrlsOf
  <2>4. setup.images[r] \in Url \cup {NoUrl}
    BY <2>1, <2>2
  <2> QED
    BY <1>3, <2>3, <2>4
<1>7. reported \in Seq(Url \cup {Unnamed}) /\ n \in Nat
  BY DEF IInv, Typed
<1>8. /\ reported' \in Seq(Url \cup {Unnamed}) /\ Len(reported') = n + 1
      /\ DOMAIN reported' = 1 .. n + 1 /\ DOMAIN reported = 1 .. n
      /\ reported'[n + 1] = u /\ \A k \in 1 .. n : reported'[k] = reported[k]
  BY <1>6, <1>7
<1>9. ASSUME Current.images = "multimodal", ~InChunks, NEW v \in Url \cup {NoUrl}
      PROVE  Cardinality({i \in C \ ToSet(left') : setup.images[i] = v}) =
               Cardinality({k \in DOMAIN reported' : reported'[k] = v})
  <2> DEFINE A == {i \in C \ ToSet(left) : setup.images[i] = v}
             B == {k \in DOMAIN reported : reported[k] = v}
             A1 == {i \in C \ ToSet(left') : setup.images[i] = v}
             B1 == {k \in DOMAIN reported' : reported'[k] = v}
  <2>1. Cardinality(A) = Cardinality(B)
    BY <1>9 DEF IInv, Salvaged, LeavesOutOnlyMissing, Among, Reports
  <2>2. IsFiniteSet(A)
    <3>1. A \in SUBSET C
      OBVIOUS
    <3> QED
      BY <1>5, <3>1, FS_Subset
  <2>3. IsFiniteSet(B)
    <3>1. B \in SUBSET (1 .. n)
      BY <1>8
    <3>2. IsFiniteSet(1 .. n)
      BY <1>7, FS_Interval
    <3> QED
      BY <3>1, <3>2, FS_Subset
  <2>4. r \notin A /\ n + 1 \notin B
    BY <1>3, <1>7, <1>8
  <2>5. CASE u = v
    <3>1. A1 = A \cup {r}
      BY <1>3, <1>4, <2>5
    <3>2. B1 = B \cup {n + 1}
      BY <1>7, <1>8, <2>5
    <3>3. Cardinality(A1) = Cardinality(A) + 1
      BY <2>2, <2>4, <3>1, FS_AddElement
    <3>4. Cardinality(B1) = Cardinality(B) + 1
      BY <2>3, <2>4, <3>2, FS_AddElement
    <3> QED
      BY <2>1, <3>3, <3>4
  <2>6. CASE u # v
    <3>1. A1 = A
      BY <1>3, <1>4, <2>6
    <3>2. B1 = B
      BY <1>7, <1>8, <2>6
    <3> QED
      BY <2>1, <3>1, <3>2
  <2> QED
    BY <2>5, <2>6
<1>10. LeavesOutOnlyMissing'
  <2> SUFFICES ASSUME Current.images = "multimodal", ~InChunks,
                      NEW v \in Url \cup {NoUrl}
               PROVE  Among(ToSet(Collected) \ ToSet(left), v)' = Reports(v)'
    BY <1>1 DEF LeavesOutOnlyMissing
  <2>1. Among(ToSet(Collected) \ ToSet(left), v)' =
          Cardinality({i \in C \ ToSet(left') : setup.images[i] = v})
    BY <1>1 DEF Among
  <2>2. Reports(v)' = Cardinality({k \in DOMAIN reported' : reported'[k] = v})
    BY DEF Reports
  <2> QED
    BY <1>9, <2>1, <2>2
<1>11. Salvaged'
  BY <1>1, <1>3, <1>4, <1>10 DEF Salvaged
<1> QED
  BY <1>3, <1>6, <1>8, <1>11

(* A request without the image reported missing has all its attempts.      *)
LEMMA DropKeeps ==
  ASSUME IInv, pc = "call", NEW u \in UrlsOf(left), setup' = setup, step' = step,
         pc' = pc, left' = DropImageByURL(left, u), reported' = Append(reported, u),
         attempt' = 0, calls' = calls + 1, UNCHANGED <<post, chunk, captions>>,
         score' \in 0 .. 2, answers' \in Seq(Answer), SaidLast(score', answers')
  PROVE  IInv'
<1>1. /\ Current' = Current /\ InChunks' = InChunks /\ Collected' = Collected
      /\ Attempts' = Attempts /\ CaptionCalls' = CaptionCalls
      /\ ChunkCalls' = ChunkCalls /\ Image' = Image /\ Chunk' = Chunk
  BY StepStays
<1>2. /\ captioned' = captioned /\ summarised' = summarised /\ quality' = quality
      /\ summary' = summary /\ chunk' = chunk /\ captions' = captions
  BY DEF post
<1>3. /\ Salvaged'
      /\ left' \in Seq(Image) /\ IsInjective(left') /\ Len(left') = Len(left) - 1
      /\ reported' \in Seq(Url \cup {Unnamed}) /\ Len(reported') = Len(reported) + 1
  BY SalvageKept
<1>4. calls \in Nat /\ Len(left) \in Nat /\ Len(reported) \in Nat
      /\ Attempts \in Nat /\ Attempts >= 1
  BY CountsTyped DEF IInv, Typed
<1>5. Typed'
  BY <1>1, <1>2, <1>3, <1>4 DEF IInv, Typed
<1>6. Prepared' /\ Spoken' /\ ChunksDone'
  BY <1>1, <1>2, <1>4 DEF IInv, Prepared, Spoken, ChunksDone
<1>7. Counted'
  <2> DEFINE t == Attempts * (Len(reported) + 1)
             q == Attempts * (1 + (Len(reported) + 1))
  <2>1. /\ calls + 1 <= CaptionCalls + ChunkCalls + t
        /\ calls + 1 <= CaptionCalls + ChunkCalls + q
    BY RoomForOne
  <2>2. /\ t \in Nat /\ CaptionCalls \in Nat /\ ChunkCalls \in Nat
    <3>1. /\ t = Attempts * Len(reported) + Attempts /\ Attempts * Len(reported) \in Nat
          /\ CaptionCalls \in Nat /\ ChunkCalls \in Nat /\ Attempts \in Nat
      BY CountsTyped DEF IInv
    <3> DEFINE p == Attempts * Len(reported)  a == Attempts
    <3>2. t = p + a /\ p \in Nat /\ a \in Nat
      BY <3>1
    <3> HIDE DEF t, p, a
    <3>3. t \in Nat
      BY <3>2
    <3> QED
      BY <3>1, <3>3
  <2> HIDE DEF t, q
  <2>3. calls + 1 <= CaptionCalls + ChunkCalls + t + 0
    BY <2>1, <2>2
  <2> QED
    BY <1>1, <1>3, <2>1, <2>3 DEF Counted, t, q
<1>8. Reported'
  <2>1. Len(left) + Len(reported) <= Len(setup.images)
    BY DEF IInv, Reported
  <2>2. Len(setup.images) \in Nat
    BY CurrentFacts DEF IInv, Typed
  <2> QED
    BY <1>3, <1>4, <2>1, <2>2 DEF Reported
<1>9. CaptionedOnce'
  BY <1>1, <1>2 DEF IInv, CaptionedOnce
<1> QED
  BY <1>3, <1>5, <1>6, <1>7, <1>8, <1>9 DEF IInv

(* The provider could not fetch an image.                                  *)
LEMMA MissingKeeps == IInv /\ (\E u \in Url : ImageMissing(u)) => IInv'
<1> SUFFICES ASSUME IInv, NEW u \in Url, ImageMissing(u) PROVE IInv'
  OBVIOUS
<1>1. /\ pc = "call" /\ u \in UrlsOf(left) /\ setup' = setup /\ step' = step /\ pc' = pc
      /\ left' = DropImageByURL(left, u) /\ reported' = Append(reported, u)
      /\ attempt' = 0 /\ calls' = calls + 1 /\ UNCHANGED <<post, chunk, captions>>
      /\ score' = score /\ answers' = answers
  BY DEF ImageMissing
<1>2. score' \in 0 .. 2 /\ answers' \in Seq(Answer) /\ SaidLast(score', answers')
  BY <1>1 DEF IInv, Typed, Spoken
<1> QED
  BY <1>1, <1>2, DropKeeps

(* The request fails, whatever the error names.                            *)
LEMMA FailsKeeps == IInv /\ CallFails => IInv'
<1> SUFFICES ASSUME IInv, CallFails PROVE IInv'
  OBVIOUS
<1>1. /\ pc = "call" /\ pc' = "error" /\ step' = step /\ calls' = calls + 1
      /\ \/ reported' = reported
         \/ \E u \in Url \cup {Unnamed} : reported' = Append(reported, u)
  BY DEF CallFails, Fail
<1>2. /\ setup' = setup /\ chunk' = chunk /\ left' = left /\ attempt' = attempt
      /\ score' = score /\ captioned' = captioned /\ summarised' = summarised
      /\ quality' = quality /\ summary' = summary /\ captions' = captions
      /\ answers' = answers
  BY DEF CallFails, request, post
<1>3. Image' = Image /\ Chunk' = Chunk
  BY <1>2, TypesFollowPost
<1>4. reported' \in Seq(Url \cup {Unnamed})
      /\ Len(reported') \in {Len(reported), Len(reported) + 1}
  <2>1. reported \in Seq(Url \cup {Unnamed})
    BY DEF IInv, Typed
  <2> QED
    BY <1>1, <2>1
<1>5. calls \in Nat /\ Len(left) \in Nat /\ Len(reported) \in Nat
      /\ Len(setup.images) \in Nat
  BY CurrentFacts DEF IInv, Typed
<1>6. Typed'
  BY <1>1, <1>2, <1>3, <1>4, <1>5 DEF IInv, Typed
<1>7. CaptionedOnce'
  BY <1>1, <1>2, <1>3 DEF IInv, CaptionedOnce
<1>8. Len(reported') <= Len(setup.images) + 1
  <2>1. Len(left) + Len(reported) <= Len(setup.images)
    BY <1>1 DEF IInv, Reported
  <2> QED
    BY <1>4, <1>5, <2>1
<1>9. calls' <= CaptionCalls + ChunkCalls + Attempts * (1 + Len(reported'))
  BY <1>1, <1>4, RoomForOne
<1> QED
  BY <1>1, <1>2, <1>6, <1>7, <1>8, <1>9, DoneKeeps

(* A summary is written, of the post or of its chunks' summaries.          *)
LEMMA SummaryKeeps == IInv /\ (SummarizeFull \/ SummarizeMapReduce) => IInv'
<1> SUFFICES ASSUME IInv, pc = "call", Summarized PROVE IInv'
  BY DEF SummarizeFull, SummarizeMapReduce
<1>1. summary' = step /\ Proceed /\ calls' = calls + 1
  BY DEF Summarized
<1>2. /\ setup' = setup /\ left' = left /\ attempt' = attempt /\ score' = score
      /\ captioned' = captioned /\ chunk' = chunk /\ summarised' = summarised
      /\ quality' = quality /\ captions' = captions /\ answers' = answers
      /\ reported' = reported
  BY DEF Summarized, request
<1>3. Image' = Image /\ Chunk' = Chunk
  BY <1>2, TypesFollowPost
<1>4. /\ pc' \in {"begin", "through"} /\ step' \in 1 .. Len(setup.steps)
      /\ pc' # "begin" => step' = step
  BY <1>1, ProceedFacts DEF IInv
<1>5. Typed'
  <2>1. step \in 0 .. Len(setup.steps) /\ calls \in Nat
    BY CurrentFacts DEF IInv, Typed
  <2> QED
    BY <1>1, <1>2, <1>3, <1>4, <2>1 DEF IInv, Typed
<1>6. CaptionedOnce'
  BY <1>2, <1>3 DEF IInv, CaptionedOnce
<1>7. Len(reported') <= Len(setup.images) + 1
  BY <1>2 DEF IInv, Reported
<1>8. calls' <= CaptionCalls + ChunkCalls + Attempts * (1 + Len(reported'))
  BY <1>1, <1>2, RoomForOne
<1> QED
  BY <1>2, <1>4, <1>5, <1>6, <1>7, <1>8, DoneKeeps

(* An answer that is no verdict is asked for again while attempts last;    *)
(* then the step ends, or an image is left out.                            *)
LEMMA UnsoundKeeps == IInv /\ (\E a \in Answer : AnswerUnsound(a)) => IInv'
<1> SUFFICES ASSUME IInv, NEW a \in Answer, AnswerUnsound(a) PROVE IInv'
  OBVIOUS
<1>1. /\ pc = "call" /\ score' = Filled(a) /\ answers' = Append(answers, a)
      /\ calls' = calls + 1 /\ setup' = setup /\ UNCHANGED <<post, chunk, captions>>
  BY DEF AnswerUnsound
<1>2. score' \in 0 .. 2 /\ answers' \in Seq(Answer) /\ SaidLast(score', answers')
  BY <1>1, AnswerSays
<1>3. /\ captioned' = captioned /\ summarised' = summarised /\ quality' = quality
      /\ summary' = summary /\ chunk' = chunk /\ captions' = captions
  BY <1>1 DEF post
<1>4. Image' = Image /\ Chunk' = Chunk
  BY <1>1, TypesFollowPost
<1>5. CaptionedOnce'
  BY <1>1, <1>3, <1>4 DEF IInv, CaptionedOnce
<1>6. calls \in Nat /\ attempt \in Nat /\ Attempts \in Nat
  BY CountsTyped DEF IInv
<1>7. CASE /\ attempt + 1 < Attempts /\ attempt' = attempt + 1
           /\ UNCHANGED <<pc, step, left, reported>>
  <2>1. /\ Current' = Current /\ InChunks' = InChunks /\ Collected' = Collected
        /\ Attempts' = Attempts /\ CaptionCalls' = CaptionCalls
        /\ ChunkCalls' = ChunkCalls
    BY <1>1, <1>7, StepStays
  <2>2. Typed'
    BY <1>1, <1>2, <1>3, <1>4, <1>6, <1>7 DEF IInv, Typed
  <2>3. Prepared' /\ Reported' /\ Spoken' /\ ChunksDone'
    BY <1>1, <1>2, <1>3, <1>4, <1>7, <2>1
    DEF IInv, Prepared, Reported, Spoken, ChunksDone
  <2>4. Salvaged'
    BY <1>1, <1>7, <2>1 DEF IInv, Salvaged, LeavesOutOnlyMissing, Among, Reports
  <2>5. Counted'
    <3> DEFINE p == Attempts * Len(reported)
    <3>1. /\ p \in Nat /\ CaptionCalls \in Nat /\ ChunkCalls \in Nat
          /\ calls <= CaptionCalls + ChunkCalls + p + attempt
      BY <1>1, CountsTyped DEF IInv, Counted
    <3> HIDE DEF p
    <3>2. calls + 1 <= CaptionCalls + ChunkCalls + p + (attempt + 1)
      BY <1>6, <3>1
    <3>3. calls + 1 <= CaptionCalls + ChunkCalls + Attempts * (1 + Len(reported))
      BY <1>1, RoomForOne
    <3> QED
      BY <1>1, <1>7, <2>1, <3>2, <3>3 DEF Counted, p
  <2> QED
    BY <1>5, <2>2, <2>3, <2>4, <2>5 DEF IInv
<1>8. CASE Fail /\ UNCHANGED <<attempt, left, reported>>
  <2>1. pc' = "error" /\ step' = step
    BY <1>8 DEF Fail
  <2>2. Typed'
    BY <1>1, <1>2, <1>3, <1>4, <1>6, <1>8, <2>1 DEF IInv, Typed
  <2>3. calls' <= CaptionCalls + ChunkCalls + Attempts * (1 + Len(reported'))
    BY <1>1, <1>8, RoomForOne
  <2>4. Len(reported') <= Len(setup.images) + 1
    BY <1>8 DEF IInv, Reported
  <2> QED
    BY <1>1, <1>5, <2>1, <2>2, <2>3, <2>4, DoneKeeps
<1>9. CASE \E u \in Url : LastUnsound(u)
  <2>1. PICK u \in Url : LastUnsound(u)
    BY <1>9
  <2>2. /\ u \in UrlsOf(left) /\ left' = DropImageByURL(left, u) /\ attempt' = 0
        /\ reported' = Append(reported, u) /\ pc' = pc /\ step' = step
    BY <2>1 DEF LastUnsound
  <2> QED
    BY <1>1, <1>2, <2>2, DropKeeps
<1> QED
  BY <1>7, <1>8, <1>9 DEF AnswerUnsound

(* A verdict ends the step.                                                *)
LEMMA SoundKeeps == IInv /\ (\E a \in Answer : AnswerSound(a)) => IInv'
<1> SUFFICES ASSUME IInv, NEW a \in Answer, AnswerSound(a) PROVE IInv'
  OBVIOUS
<1>1. /\ pc = "call" /\ score' = Filled(a) /\ answers' = Append(answers, a)
      /\ quality' = [by |-> step, score |-> Filled(a)]
      /\ calls' = calls + 1
      /\ Proceed \/ (pc' = "below" /\ step' = step)
  BY DEF AnswerSound
<1>2. /\ setup' = setup /\ left' = left /\ attempt' = attempt /\ captioned' = captioned
      /\ chunk' = chunk /\ summarised' = summarised /\ summary' = summary
      /\ captions' = captions /\ reported' = reported
  BY DEF AnswerSound
<1>3. score' \in 0 .. 2 /\ answers' \in Seq(Answer)
  BY <1>1, AnswerSays
<1>4. Image' = Image /\ Chunk' = Chunk
  BY <1>2, TypesFollowPost
<1>5. /\ pc' \in {"begin", "through", "below"} /\ step' \in 1 .. Len(setup.steps)
      /\ pc' # "begin" => step' = step
  BY <1>1, ProceedFacts DEF IInv, Typed
<1>6. Typed'
  <2>1. step \in 0 .. Len(setup.steps) /\ calls \in Nat
    BY CurrentFacts DEF IInv, Typed
  <2>2. quality' \in [by : 0 .. Len(setup.steps), score : 0 .. 2]
    BY <1>1, <1>3, <2>1
  <2> QED
    BY <1>1, <1>2, <1>3, <1>4, <1>5, <2>1, <2>2 DEF IInv, Typed
<1>7. CaptionedOnce'
  BY <1>1, <1>2, <1>4 DEF IInv, CaptionedOnce
<1>8. Len(reported') <= Len(setup.images) + 1
  BY <1>2 DEF IInv, Reported
<1>9. calls' <= CaptionCalls + ChunkCalls + Attempts * (1 + Len(reported'))
  BY <1>1, <1>2, RoomForOne
<1> QED
  BY <1>2, <1>5, <1>6, <1>7, <1>8, <1>9, DoneKeeps

(* So every step keeps the invariant.                                      *)
LEMMA InvNext == IInv /\ [Next]_vars => IInv'
<1> SUFFICES ASSUME IInv, [Next]_vars PROVE IInv'
  OBVIOUS
<1>1. CASE UNCHANGED vars
  <2>1. /\ setup' = setup /\ step' = step /\ pc' = pc /\ left' = left
        /\ attempt' = attempt /\ score' = score /\ captioned' = captioned
        /\ chunk' = chunk /\ summarised' = summarised /\ quality' = quality
        /\ summary' = summary /\ calls' = calls /\ captions' = captions
        /\ answers' = answers /\ reported' = reported
    BY <1>1 DEF vars
  <2>2. /\ Current' = Current /\ InChunks' = InChunks /\ Collected' = Collected
        /\ Attempts' = Attempts /\ CaptionCalls' = CaptionCalls
        /\ ChunkCalls' = ChunkCalls /\ Image' = Image /\ Chunk' = Chunk
    BY <2>1, StepStays
  <2>3. Typed' /\ Prepared' /\ Reported' /\ CaptionedOnce'
    BY <2>1, <2>2 DEF IInv, Typed, Prepared, Reported, CaptionedOnce
  <2>4. Counted'
    BY <2>1, <2>2 DEF IInv, Counted, ToCaption
  <2>5. Salvaged' /\ Spoken' /\ ChunksDone'
    BY <2>1, <2>2
    DEF IInv, Salvaged, LeavesOutOnlyMissing, Among, Reports, Spoken, ChunksDone
  <2> QED
    BY <2>3, <2>4, <2>5 DEF IInv
<1>2. CASE Next
  BY <1>2, BeginKeeps, CaptionKeeps, CaptionedKeeps, ChunkKeeps, MissingKeeps,
     FailsKeeps, SummaryKeeps, UnsoundKeeps, SoundKeeps DEF Next
<1> QED
  BY <1>1, <1>2

(* The invariant holds on the whole way of the post.                       *)
LEMMA InvHolds == Spec => []IInv
<1> QED
  BY InvInit, InvNext, PTL DEF Spec

-----------------------------------------------------------------------------
(* The properties *)

(* The variables keep their types; a step asks at most Attempts times for  *)
(* each set of images (ChatCompletionWithRetries, DropImageByURL), and no  *)
(* image is captioned twice (EnsureImageCaptions), whatever the answers.   *)
THEOREM RequestsAreBounded == Spec => []TypeOK
<1>1. IInv => TypeOK
  <2> SUFFICES ASSUME IInv PROVE TypeOK
    OBVIOUS
  <2>1. CallsBounded
    BY DEF IInv, Counted, CaptionCalls, ChunkCalls, CaptionedOnce, Reported, CallsBounded
  <2>2. pc = "call" => attempt < Attempts
    BY DEF IInv, Prepared
  <2> QED
    BY <2>1, <2>2 DEF IInv, Typed, TypeOK
<1> QED
  BY <1>1, InvHolds, PTL

(* MissingImageURL and DropImageByURL: of a request's images exactly those *)
(* reported are left out, one for each report, and none sent as data.      *)
THEOREM OnlyMissingLeftOut == Spec => []LeavesOutOnlyMissing
<1>1. IInv => LeavesOutOnlyMissing
  BY DEF IInv, Salvaged
<1> QED
  BY <1>1, InvHolds, PTL

(* The position of the answer that gave the score.                         *)
LEMMA LastGivenIs ==
  ASSUME NEW s \in Seq(Answer), NEW v, SaidLast(v, s)
  PROVE  LET given == SelectLastInSeq(s, LAMBDA a : a.score # -1) IN
         v = IF given = 0 THEN 0 ELSE s[given].score
<1> DEFINE I == {k \in 1 .. Len(s) : s[k].score # -1}
           given == SelectLastInSeq(s, LAMBDA a : a.score # -1)
<1>1. given = IF I # {} THEN Max(I) ELSE 0
  BY DEF SelectLastInSeq
<1>2. I = Given(s) /\ I \in SUBSET Nat /\ 0 \notin I
  BY DEF Given
<1> HIDE DEF I, given
<1>3. CASE I = {}
  <2>1. v = 0
    BY <1>2, <1>3 DEF SaidLast
  <2> QED
    BY <1>1, <1>3, <2>1 DEF given
<1>4. CASE I # {}
  <2>1. PICK k \in I : (\A j \in I : j <= k) /\ v = s[k].score
    BY <1>2, <1>4 DEF SaidLast
  <2>2. Max(I) = k
    BY <1>2, <2>1, LastIs
  <2>3. given = k /\ k # 0
    BY <1>1, <1>2, <1>4, <2>2
  <2> QED
    BY <2>1, <2>3 DEF given
<1> QED
  BY <1>3, <1>4

(* evaluateOne writes a verdict only on a sound answer, and with the score *)
(* its own step was given last, or 0; nothing of another step gets in.     *)
THEOREM VerdictsAreAnswered == Spec => VerdictIsAnswered
<1> DEFINE Answered ==
      quality' # quality =>
        LET given == SelectLastInSeq(answers', LAMBDA a : a.score # -1) IN
        /\ Last(answers').sound
        /\ quality'.score = IF given = 0 THEN 0 ELSE answers'[given].score
<1>1. IInv /\ [Next]_vars => Answered
  <2> SUFFICES ASSUME IInv, [Next]_vars, quality' # quality PROVE Answered
    OBVIOUS
  <2>1. PICK a \in Answer : AnswerSound(a)
    BY DEF Next, vars, Begin, Caption, Captioned, SummarizeChunk, ImageMissing,
           CallFails, SummarizeFull, SummarizeMapReduce, Summarized, AnswerUnsound, post
  <2>2. /\ pc = "call" /\ answers' = Append(answers, a) /\ a.sound
        /\ quality' = [by |-> step, score |-> Filled(a)]
    BY <2>1 DEF AnswerSound
  <2>3. answers' \in Seq(Answer) /\ SaidLast(quality'.score, answers')
    BY <2>2, AnswerSays
  <2>4. Last(answers') = a
    <3>1. answers \in Seq(Answer)
      BY DEF IInv, Typed
    <3>2. Len(Append(answers, a)) = Len(answers) + 1
          /\ Append(answers, a)[Len(answers) + 1] = a
      BY <3>1
    <3> QED
      BY <2>2, <3>2 DEF Last
  <2>5. LET given == SelectLastInSeq(answers', LAMBDA b : b.score # -1) IN
        quality'.score = IF given = 0 THEN 0 ELSE answers'[given].score
    BY <2>3, LastGivenIs
  <2> QED
    BY <2>2, <2>4, <2>5
<1> HIDE DEF Answered
<1>2. VerdictIsAnswered <=> [][Answered]_vars
  BY PTL DEF VerdictIsAnswered, Answered
<1> QED
  BY <1>1, <1>2, InvHolds, PTL DEF Spec

(* A post goes on from a quality step only with this step's verdict at or  *)
(* above the threshold, from a summary step only with this step's summary  *)
(* and the summaries of all its chunks, as the plan says.                  *)
THEOREM StepsAreComplete == Spec => StepComplete
<1> DEFINE Complete ==
      step' # step \/ (pc' = "through" /\ pc # "through") =>
        IF Current.kind = "quality"
        THEN quality'.by = step /\ quality'.score >= Threshold
        ELSE /\ setup.plan # "per_chunk" => summary' = step
             /\ InChunks => \A i \in Chunk : summarised'[i] = step
<1>1. IInv /\ [Next]_vars => Complete
  <2> SUFFICES ASSUME IInv, [Next]_vars,
                      step' # step \/ (pc' = "through" /\ pc # "through")
               PROVE  Complete
    OBVIOUS
  <2>1. Current.kind \in {"quality", "summary"}
    BY CurrentFacts DEF IInv, Typed
  <2>2. \/ SummarizeChunk \/ SummarizeFull \/ SummarizeMapReduce
        \/ \E a \in Answer : AnswerSound(a)
    BY DEF Next, vars, Begin, Caption, Captioned, Fail, ImageMissing, CallFails,
           AnswerUnsound, LastUnsound
  <2>3. CASE \E a \in Answer : AnswerSound(a)
    <3>1. PICK a \in Answer : AnswerSound(a)
      BY <2>3
    <3>2. /\ Current.kind = "quality" /\ quality' = [by |-> step, score |-> Filled(a)]
          /\ IF Filled(a) >= Threshold THEN Proceed ELSE pc' = "below" /\ UNCHANGED step
      BY <3>1 DEF AnswerSound
    <3> QED
      BY <3>2
  <2>4. CASE SummarizeFull
    <3>1. Current.kind = "summary" /\ ~InChunks /\ summary' = step
      BY <2>4 DEF SummarizeFull, Summarized
    <3> QED
      BY <3>1
  <2>5. CASE SummarizeMapReduce
    <3>1. /\ pc = "call" /\ Current.kind = "summary" /\ InChunks /\ summary' = step
          /\ summarised' = summarised
      BY <2>5 DEF SummarizeMapReduce, Summarized
    <3> QED
      BY <3>1 DEF IInv, ChunksDone
  <2>6. CASE SummarizeChunk
    <3>1. pc = "chunk" /\ chunk < setup.chunks /\ InChunks
          /\ \A i \in 1 .. chunk : summarised[i] = step
      BY <2>6 DEF SummarizeChunk, IInv, Prepared, ChunksDone
    <3>2. /\ setup.plan = "per_chunk" /\ ~(chunk + 1 < setup.chunks)
          /\ summarised' = [summarised EXCEPT ![chunk + 1] = step]
      BY <2>6, <3>1 DEF SummarizeChunk, Fail
    <3>3. chunk \in Nat /\ setup.chunks \in Nat
          /\ summarised \in [Chunk -> 0 .. Len(setup.steps)]
      BY CurrentFacts DEF IInv, Typed
    <3>4. ASSUME NEW i \in Chunk PROVE summarised'[i] = step
      <4>1. i \in 1 .. chunk \/ i = chunk + 1
        BY <3>1, <3>2, <3>3 DEF Chunk
      <4> QED
        BY <3>1, <3>2, <3>3, <4>1
    <3>5. Current.kind = "summary"
      BY <3>1 DEF InChunks
    <3> QED
      BY <3>2, <3>4, <3>5
  <2> QED
    BY <2>2, <2>3, <2>4, <2>5, <2>6
<1> HIDE DEF Complete
<1>2. StepComplete <=> [][Complete]_vars
  BY PTL DEF StepComplete, Complete
<1> QED
  BY <1>1, <1>2, InvHolds, PTL DEF Spec
=============================================================================
