--------------------------- MODULE BlockPoolProofs --------------------------
(***************************************************************************)
(* Proofs about module BlockPool, for batches of any size and any limit.   *)
(***************************************************************************)
EXTENDS BlockPool, FiniteSetTheorems, TLAPS

(* The inductive invariant: the places, the loop, the errors, the result. *)
Quiet == pc = "returned" => \A i \in Block : worker[i] \in {"none", "done"}

OneByOne ==
  ~Parallel =>
    /\ pc # "wait" /\ sem = 0 /\ errCh = 0 /\ (ctxDone => callerDone)
    /\ \A i \in Block : worker[i] = "none"
    /\ pc = "loop" => \A i \in Block :
         /\ i >= next <=> outcome[i] = "none"
         /\ conf.policy = "fail" => outcome[i] \notin Failing

Together ==
  Parallel => \A i \in Block :
    /\ i >= next <=> worker[i] = "none"
    /\ worker[i] \in {"none", "call"} <=> outcome[i] = "none"
    /\ worker[i] = "report" => conf.policy = "fail" /\ outcome[i] \in Failing
    /\ worker[i] = "cancel" => errCh # 0
    /\ conf.policy = "fail" /\ outcome[i] \in Failing => worker[i] = "report" \/ errCh # 0
    /\ pc # "loop" => next \notin Block \/ ctxDone

Judged == \A i \in Block :
  /\ outcome[i] = "drop" => conf.kind = "quality"
  /\ outcome[i] = "cancelled" => ctxDone

Causes ==
  /\ ctxDone => callerDone \/ errCh # 0
  /\ errCh # 0 => /\ conf.policy = "fail" /\ outcome[errCh] \in Failing
                  /\ outcome[errCh] = "error" \/ callerDone

Answer ==
  /\ result.returned <=> pc = "returned"
  /\ ~result.returned => result = Pending
  /\ result.err # 0 /\ ~callerDone => outcome[result.err] = "error"

IInv == TypeOK /\ Quiet /\ OneByOne /\ Together /\ Judged /\ Causes /\ Answer

-----------------------------------------------------------------------------
(* Posts in their order *)

Lesser(posts, i) == {j \in posts : j < i}

(* Of a finite set of numbers, each has as many lesser ones as no other. *)
LEMMA LesserFacts ==
  ASSUME NEW S \in SUBSET Nat, IsFiniteSet(S), NEW i \in S
  PROVE  /\ Cardinality(Lesser(S, i)) \in 0 .. Cardinality(S) - 1
         /\ \A j \in S : Cardinality(Lesser(S, j)) = Cardinality(Lesser(S, i)) => j = i
<1>0. Cardinality(S) \in Nat
  BY FS_CardinalityType
<1>1. ASSUME NEW j \in S
      PROVE  IsFiniteSet(Lesser(S, j)) /\ Cardinality(Lesser(S, j)) \in Nat
  <2>1. Lesser(S, j) \in SUBSET S
    BY DEF Lesser
  <2>2. IsFiniteSet(Lesser(S, j))
    BY <2>1, FS_Subset
  <2> QED
    BY <2>2, FS_CardinalityType
<1>2. Cardinality(Lesser(S, i)) \in 0 .. Cardinality(S) - 1
  <2>1. Lesser(S, i) \in SUBSET S /\ Lesser(S, i) # S
    BY DEF Lesser
  <2>2. Cardinality(Lesser(S, i)) <= Cardinality(S) /\ Cardinality(S) # Cardinality(Lesser(S, i))
    BY <2>1, FS_Subset
  <2> QED
    BY <1>0, <1>1, <2>2
<1>3. ASSUME NEW j \in S, NEW k \in S, j < k
      PROVE  Cardinality(Lesser(S, j)) # Cardinality(Lesser(S, k))
  <2>0. \A x \in S : x \in Nat
    OBVIOUS
  <2>1. \A x \in Lesser(S, j) : x \in Lesser(S, k)
    BY <1>3, <2>0 DEF Lesser
  <2>2. j \in Lesser(S, k) /\ j \notin Lesser(S, j)
    BY <1>3 DEF Lesser
  <2>3. Lesser(S, j) \in SUBSET Lesser(S, k) /\ Lesser(S, j) # Lesser(S, k)
    BY <2>1, <2>2
  <2> QED
    BY <1>1, <2>3, FS_Subset
<1>4. ASSUME NEW j \in S, Cardinality(Lesser(S, j)) = Cardinality(Lesser(S, i))
      PROVE  j = i
  <2>1. ~(j < i) /\ ~(i < j)
    BY <1>3, <1>4
  <2> QED
    BY <2>1
<1> QED
  BY <1>2, <1>4

(* So there is one for each number of lesser ones: the order has no gaps. *)
LEMMA RankTaken ==
  ASSUME NEW S \in SUBSET Nat, IsFiniteSet(S), NEW k \in 1 .. Cardinality(S)
  PROVE  \E i \in S : Cardinality(Lesser(S, i)) = k - 1
<1> DEFINE T == 0 .. Cardinality(S) - 1
           f == [i \in S |-> Cardinality(Lesser(S, i))]
<1>0. Cardinality(S) \in Nat
  BY FS_CardinalityType
<1>1. IsFiniteSet(T) /\ Cardinality(T) = Cardinality(S)
  <2>1. ASSUME NEW n \in Nat PROVE IsFiniteSet(0 .. n - 1) /\ Cardinality(0 .. n - 1) = n
    <3>1. 0 \in Int /\ n - 1 \in Int
      OBVIOUS
    <3>2. /\ IsFiniteSet(0 .. (n - 1))
          /\ Cardinality(0 .. (n - 1)) = IF 0 > n - 1 THEN 0 ELSE (n - 1) - 0 + 1
      BY <3>1, FS_Interval
    <3> QED
      BY <3>2
  <2> QED
    BY <1>0, <2>1
<1>2. f \in [S -> T]
  BY LesserFacts
<1>3. \A i, j \in S : f[i] = f[j] => i = j
  BY LesserFacts
<1> HIDE DEF f, T
<1>4. f \in Injection(S, T)
  BY <1>2, <1>3 DEF Injection, IsInjective
<1>5. f \in Surjection(S, T)
  BY <1>1, <1>4, FS_Injection
<1> USE DEF f, T
<1>6. k - 1 \in T
  BY <1>0
<1> QED
  BY <1>5, <1>6 DEF Surjection

(* Batch counts as this module does. *)
LEMMA SameCount == \A S : Promise!Cardinality(S) = Cardinality(S)
  BY DEF Promise!Cardinality, Cardinality

(* Its order of posts, in the terms of this module. *)
LEMMA InOrderIs ==
  ASSUME NEW S
  PROVE  Promise!InOrder(S) =
           [k \in 1 .. Cardinality(S) |->
              CHOOSE i \in S : Cardinality({j \in S : j < i}) = k - 1]
<1>1. Promise!InOrder(S) =
        [k \in 1 .. Promise!Cardinality(S) |->
           CHOOSE i \in S : Promise!Cardinality({j \in S : j < i}) = k - 1]
  BY DEF Promise!InOrder
<1> QED
  BY <1>1, SameCount

(* The posts of a set in their order are a sequence of its elements. *)
LEMMA InOrderType ==
  ASSUME NEW n \in Nat, NEW S \in SUBSET (1 .. n)
  PROVE  Promise!InOrder(S) \in Seq(1 .. n)
<1>1. IsFiniteSet(S) /\ Cardinality(S) \in Nat
  <2>1. IsFiniteSet(1 .. n)
    BY FS_Interval
  <2> QED
    BY <2>1, FS_Subset, FS_CardinalityType
<1> DEFINE e(k) == CHOOSE i \in S : Cardinality({j \in S : j < i}) = k - 1
<1>2. ASSUME NEW k \in 1 .. Cardinality(S) PROVE e(k) \in 1 .. n
  <2>1. \E i \in S : Cardinality({j \in S : j < i}) = k - 1
    <3>1. S \in SUBSET Nat
      OBVIOUS
    <3> QED
      BY <1>1, <3>1, RankTaken DEF Lesser
  <2>2. e(k) \in S
    BY <2>1
  <2> QED
    BY <2>2
<1>3. Promise!InOrder(S) = [k \in 1 .. Cardinality(S) |-> e(k)]
  BY InOrderIs
<1> HIDE DEF e
<1>4. [k \in 1 .. Cardinality(S) |-> e(k)] \in [1 .. Cardinality(S) -> 1 .. n]
  BY <1>2
<1>5. \A m \in Nat : \A g \in [1 .. m -> 1 .. n] : g \in Seq(1 .. n)
  OBVIOUS
<1> QED
  BY <1>1, <1>3, <1>4, <1>5

(* All posts in their order: those of the batch as they came. *)
LEMMA InOrderAll ==
  ASSUME NEW n \in Nat
  PROVE  Promise!InOrder(1 .. n) = [i \in 1 .. n |-> i]
<1> DEFINE S == 1 .. n
<1>1. IsFiniteSet(S) /\ Cardinality(S) = n
  BY FS_Interval
<1>2. ASSUME NEW i \in S PROVE Cardinality(Lesser(S, i)) = i - 1
  <2>1. Lesser(S, i) = 1 .. (i - 1)
    BY DEF Lesser
  <2> QED
    BY <2>1, FS_Interval
<1>3. ASSUME NEW k \in S
      PROVE  (CHOOSE i \in S : Cardinality({j \in S : j < i}) = k - 1) = k
  <2>1. \A i \in S : Cardinality({j \in S : j < i}) = k - 1 <=> i = k
    BY <1>2 DEF Lesser
  <2> QED
    BY <2>1
<1>4. Promise!InOrder(S) =
        [k \in 1 .. n |-> CHOOSE i \in S : Cardinality({j \in S : j < i}) = k - 1]
  BY <1>1, InOrderIs
<1> QED
  BY <1>3, <1>4

-----------------------------------------------------------------------------
(* The semaphore *)

Places == {"call", "report", "cancel", "release"}
Held(n, w) == {j \in 1 .. n : w[j] \in Places}

(* The goroutines with a place are counted: one more or one less with each *)
(* that takes or gives back its place, else as many as before.             *)
LEMMA HeldStep ==
  ASSUME NEW n \in Nat, NEW w, NEW v,
         NEW i \in 1 .. n,
         \A j \in 1 .. n : j # i => v[j] = w[j]
  PROVE  /\ Cardinality(Held(n, w)) \in Nat /\ Cardinality(Held(n, v)) \in Nat
         /\ (v[i] \in Places <=> w[i] \in Places) =>
              Cardinality(Held(n, v)) = Cardinality(Held(n, w))
         /\ v[i] \in Places /\ w[i] \notin Places =>
              Cardinality(Held(n, v)) = Cardinality(Held(n, w)) + 1
         /\ v[i] \notin Places /\ w[i] \in Places =>
              Cardinality(Held(n, v)) = Cardinality(Held(n, w)) - 1
<1>0. IsFiniteSet(1 .. n)
  BY FS_Interval
<1>1. \A u : Held(n, u) \in SUBSET (1 .. n)
  BY DEF Held
<1>2. /\ IsFiniteSet(Held(n, w)) /\ Cardinality(Held(n, w)) \in Nat
      /\ IsFiniteSet(Held(n, v)) /\ Cardinality(Held(n, v)) \in Nat
  BY <1>0, <1>1, FS_Subset, FS_CardinalityType
<1>3. ASSUME v[i] \in Places <=> w[i] \in Places
      PROVE  Held(n, v) = Held(n, w)
  <2>1. \A j \in 1 .. n : v[j] \in Places <=> w[j] \in Places
    BY <1>3 DEF Held
  <2> QED
    BY <2>1 DEF Held
<1>4. ASSUME v[i] \in Places, w[i] \notin Places
      PROVE  Cardinality(Held(n, v)) = Cardinality(Held(n, w)) + 1
  <2>1. Held(n, v) = Held(n, w) \cup {i} /\ i \notin Held(n, w)
    BY <1>4 DEF Held
  <2> QED
    BY <1>2, <2>1, FS_AddElement
<1>5. ASSUME v[i] \notin Places, w[i] \in Places
      PROVE  Cardinality(Held(n, v)) = Cardinality(Held(n, w)) - 1
  <2>1. Held(n, v) = Held(n, w) \ {i} /\ i \in Held(n, w)
    BY <1>5 DEF Held
  <2> QED
    BY <1>2, <2>1, FS_RemoveElement
<1> QED
  BY <1>2, <1>3, <1>4, <1>5

(* A goroutine moves on and the semaphore with it: the count stays right. *)
LEMMA CountStep ==
  ASSUME TypeOK, conf' = conf, NEW i \in Block, NEW p,
         worker' = [worker EXCEPT ![i] = p],
         \/ sem' = sem /\ (p \in Places <=> worker[i] \in Places)
         \/ sem' = sem + 1 /\ sem < conf.max /\ p \in Places /\ worker[i] \notin Places
         \/ sem' = sem - 1 /\ p \notin Places /\ worker[i] \in Places
  PROVE  sem' \in 0 .. conf.max /\ InFlightBound'
<1>0. conf.n \in Nat /\ conf.max \in Nat /\ sem \in 0 .. conf.max
  BY BlockPoolAssumption DEF TypeOK, Config
<1>1. Holding = Held(conf.n, worker) /\ Holding' = Held(conf'.n, worker')
  BY DEF Held, Holding, Block, Places
<1>2. sem = Cardinality(Held(conf.n, worker))
  BY <1>1 DEF TypeOK, InFlightBound
<1>3. worker'[i] = p /\ \A j \in 1 .. conf.n : j # i => worker'[j] = worker[j]
  BY DEF TypeOK, Block
<1>4. /\ Cardinality(Held(conf.n, worker)) \in Nat /\ Cardinality(Held(conf.n, worker')) \in Nat
      /\ (p \in Places <=> worker[i] \in Places) =>
           Cardinality(Held(conf.n, worker')) = Cardinality(Held(conf.n, worker))
      /\ p \in Places /\ worker[i] \notin Places =>
           Cardinality(Held(conf.n, worker')) = Cardinality(Held(conf.n, worker)) + 1
      /\ p \notin Places /\ worker[i] \in Places =>
           Cardinality(Held(conf.n, worker')) = Cardinality(Held(conf.n, worker)) - 1
  <2> DEFINE w == worker
             v == worker'
  <2>1. i \in 1 .. conf.n /\ v[i] = p /\ \A j \in 1 .. conf.n : j # i => v[j] = w[j]
    BY <1>3 DEF Block
  <2> HIDE DEF w, v
  <2>2. /\ Cardinality(Held(conf.n, w)) \in Nat /\ Cardinality(Held(conf.n, v)) \in Nat
        /\ (v[i] \in Places <=> w[i] \in Places) =>
             Cardinality(Held(conf.n, v)) = Cardinality(Held(conf.n, w))
        /\ v[i] \in Places /\ w[i] \notin Places =>
             Cardinality(Held(conf.n, v)) = Cardinality(Held(conf.n, w)) + 1
        /\ v[i] \notin Places /\ w[i] \in Places =>
             Cardinality(Held(conf.n, v)) = Cardinality(Held(conf.n, w)) - 1
    BY <1>0, <2>1, HeldStep
  <2> QED
    BY <2>1, <2>2 DEF w, v
<1>5. sem' = Cardinality(Held(conf.n, worker'))
  BY <1>2, <1>4
<1>6. sem' \in 0 .. conf.max
  BY <1>0, <1>2, <1>4
<1>7. sem' = Cardinality(Holding')
  BY <1>1, <1>5
<1>8. /\ Cardinality(Calling)' \in Nat
      /\ Cardinality(Calling)' <= Cardinality(Holding)'
  <2>1. IsFiniteSet(1 .. conf'.n)
    <3>1. conf'.n \in Int
      BY <1>0
    <3> QED
      BY <3>1, FS_Interval
  <2>2. Holding' \in SUBSET (1 .. conf'.n) /\ Calling' \in SUBSET Holding'
    BY DEF Holding, Calling, Block
  <2> QED
    BY <2>1, <2>2, FS_Subset, FS_CardinalityType
<1>9. Cardinality(Calling)' <= conf'.max
  BY <1>0, <1>6, <1>7, <1>8
<1> QED
  BY <1>6, <1>7, <1>9 DEF InFlightBound

(* Nobody moves and the semaphore stays. *)
LEMMA CountStays ==
  ASSUME TypeOK, conf' = conf, worker' = worker, sem' = sem
  PROVE  sem' \in 0 .. conf'.max /\ InFlightBound'
<1>1. Holding' = Holding /\ Calling' = Calling
  BY DEF Holding, Calling, Block
<1> QED
  BY <1>1 DEF TypeOK, InFlightBound

(* What a call hands back is a sequence of the posts of the batch. *)
LEMMA SurvivorsType ==
  ASSUME TypeOK
  PROVE  Kept(Survivors(outcome)) \in [err : {0} \cup Block, kept : Seq(Block),
                                       returned : BOOLEAN]
<1>1. conf.n \in Nat
  BY BlockPoolAssumption DEF TypeOK, Config
<1>2. [i \in Block |-> i] \in Seq(Block)
  <2>1. \A n \in Nat : [i \in 1 .. n |-> i] \in Seq(1 .. n)
    OBVIOUS
  <2> QED
    BY <1>1, <2>1 DEF Block
<1>3. {i \in Block : outcome[i] = "pass"} \in SUBSET (1 .. conf.n)
  BY DEF Block
<1>4. Promise!InOrder({i \in Block : outcome[i] = "pass"}) \in Seq(Block)
  BY <1>1, <1>3, InOrderType DEF Block
<1>5. Survivors(outcome) \in Seq(Block)
  BY <1>2, <1>4 DEF Survivors
<1> QED
  BY <1>5 DEF Kept

-----------------------------------------------------------------------------
(* Types *)

(* The variables have their types when the call begins. *)
LEMMA TypeInit == Init => TypeOK
<1> SUFFICES ASSUME Init PROVE TypeOK
  OBVIOUS
<1>1. conf \in Config
  BY BlockPoolAssumption DEF Init
<1>2. Holding = {} /\ Calling = {}
  BY DEF Init, Holding, Calling
<1>3. InFlightBound
  BY <1>1, <1>2, FS_EmptySet DEF Init, InFlightBound, Config
<1>4. result \in [err : {0} \cup Block, kept : Seq(Block), returned : BOOLEAN]
  BY DEF Init, Pending
<1>5. /\ worker \in [Block -> {"none", "call", "report", "cancel", "release",
                               "finish", "done"}]
      /\ outcome \in [Block -> {"none", "pass", "drop"} \cup Failing]
  BY DEF Init
<1>6. next \in 1 .. conf.n + 1 /\ sem \in 0 .. conf.max
  BY <1>1 DEF Init, Config
<1> QED
  BY <1>3, <1>4, <1>5, <1>6 DEF Init, TypeOK

(* Every step keeps the types, and the bound on the calls in flight. *)
LEMMA TypeStep ==
  ASSUME TypeOK, Together, [Next]_vars
  PROVE  TypeOK'
<1>0. conf \in Configs /\ conf \in Config /\ conf.n \in Nat /\ conf.max \in Nat
  BY BlockPoolAssumption DEF TypeOK, Config
<1>1. ASSUME vars' = vars PROVE TypeOK'
  BY <1>1, CountStays DEF vars, TypeOK, Block, Failing
<1>2. ASSUME Sequential PROVE TypeOK'
  <2>1. PICK o \in Outcomes :
          /\ outcome' = [outcome EXCEPT ![next] = o]
          /\ IF o \in Failing /\ conf.policy = "fail"
             THEN pc' = "returned" /\ result' = Failed(next) /\ UNCHANGED next
             ELSE next' = next + 1 /\ UNCHANGED <<pc, result>>
    BY <1>2 DEF Sequential
  <2>2. outcome' \in [Block -> {"none", "pass", "drop"} \cup Failing]
    BY <2>1 DEF TypeOK, Outcomes, Failing
  <2>3. next' \in 1 .. conf.n + 1
    BY <1>0, <1>2, <2>1 DEF Sequential, TypeOK, Block
  <2>4. result' \in [err : {0} \cup Block, kept : Seq(Block), returned : BOOLEAN]
    <3>1. Failed(next) \in [err : {0} \cup Block, kept : Seq(Block), returned : BOOLEAN]
      BY <1>2 DEF Sequential, Failed
    <3> QED
      BY <2>1, <3>1 DEF TypeOK
  <2>5. sem' \in 0 .. conf'.max /\ InFlightBound'
    BY <1>2, CountStays DEF Sequential
  <2> QED
    BY <1>2, <2>1, <2>2, <2>3, <2>4, <2>5 DEF Sequential, TypeOK, Block, Failing
<1>3. ASSUME SequentialEnd PROVE TypeOK'
  BY <1>3, CountStays, SurvivorsType DEF SequentialEnd, TypeOK, Block, Failing
<1>4. ASSUME Dispatch PROVE TypeOK'
  <2>1. worker[next] = "none" /\ next \in Block
    BY <1>0, <1>4 DEF Dispatch, Together, Block
  <2>2. sem' \in 0 .. conf'.max /\ InFlightBound'
    BY <1>4, <2>1, CountStep DEF Dispatch, Places
  <2>3. next' \in 1 .. conf'.n + 1
    BY <1>0, <1>4 DEF Dispatch, TypeOK, Block
  <2> QED
    BY <1>4, <2>2, <2>3 DEF Dispatch, TypeOK, Block, Failing
<1>5. ASSUME LeaveLoop PROVE TypeOK'
  BY <1>5, CountStays DEF LeaveLoop, TypeOK, Block, Failing
<1>6. ASSUME Collect PROVE TypeOK'
  <2>1. errCh # 0 => Failed(errCh) \in [err : {0} \cup Block, kept : Seq(Block),
                                        returned : BOOLEAN]
    BY DEF TypeOK, Failed
  <2>2. result' \in [err : {0} \cup Block, kept : Seq(Block), returned : BOOLEAN]
    BY <1>6, <2>1, SurvivorsType DEF Collect
  <2> QED
    BY <1>6, <2>2, CountStays DEF Collect, TypeOK, Block, Failing
<1>7. ASSUME CallerCancels PROVE TypeOK'
  BY <1>7, CountStays DEF CallerCancels, TypeOK, Block, Failing
<1>8. ASSUME NEW i \in Block, Call(i) PROVE TypeOK'
  <2>1. PICK o \in Outcomes :
          /\ outcome' = [outcome EXCEPT ![i] = o]
          /\ worker' = [worker EXCEPT ![i] =
               IF o \in Failing /\ conf.policy = "fail" THEN "report" ELSE "release"]
    BY <1>8 DEF Call
  <2>2. outcome' \in [Block -> {"none", "pass", "drop"} \cup Failing]
    BY <2>1 DEF TypeOK, Outcomes, Failing
  <2>3. PICK p \in {"report", "release"} : worker' = [worker EXCEPT ![i] = p]
    BY <2>1
  <2>4. sem' \in 0 .. conf'.max /\ InFlightBound'
    BY <1>8, <2>3, CountStep DEF Call, Places
  <2> QED
    BY <1>8, <2>2, <2>3, <2>4 DEF Call, TypeOK, Block, Failing
<1>9. ASSUME NEW i \in Block, Report(i) \/ Cancel(i) \/ Release(i) \/ Finish(i)
      PROVE  TypeOK'
  <2>1. sem' \in 0 .. conf'.max /\ InFlightBound'
    <3>1. CASE Report(i)
      BY <3>1, CountStep DEF Report, Places
    <3>2. CASE Cancel(i)
      BY <3>2, CountStep DEF Cancel, Places
    <3>3. CASE Release(i)
      BY <3>3, CountStep DEF Release, Places
    <3>4. CASE Finish(i)
      BY <3>4, CountStep DEF Finish, Places
    <3> QED
      BY <1>9, <3>1, <3>2, <3>3, <3>4
  <2>2. PICK p \in {"cancel", "release", "finish", "done"} :
          worker' = [worker EXCEPT ![i] = p]
    BY <1>9 DEF Report, Cancel, Release, Finish
  <2>3. errCh' \in {0} \cup Block /\ ctxDone' \in BOOLEAN
    BY <1>9 DEF Report, Cancel, Release, Finish, TypeOK
  <2>4. UNCHANGED <<conf, pc, next, outcome, callerDone, result>>
    BY <1>9 DEF Report, Cancel, Release, Finish
  <2> QED
    BY <2>1, <2>2, <2>3, <2>4 DEF TypeOK, Block, Failing
<1> QED
  BY <1>1, <1>2, <1>3, <1>4, <1>5, <1>6, <1>7, <1>8, <1>9 DEF Next, Loop, Work

-----------------------------------------------------------------------------
(* The invariant *)

(* It holds when the call begins. *)
LEMMA InvInit == Init => IInv
<1> SUFFICES ASSUME Init PROVE IInv
  OBVIOUS
<1>1. TypeOK
  BY TypeInit
<1>2. \A i \in Block : i >= next
  BY <1>1, BlockPoolAssumption DEF Init, Block, Config
<1> QED
  BY <1>1, <1>2 DEF Init, IInv, Quiet, OneByOne, Together, Judged, Causes, Answer,
     Pending, Failing

(* The loop that makes one call after the other keeps it. *)
LEMMA SequentialKeeps ==
  ASSUME IInv, TypeOK', Sequential \/ SequentialEnd
  PROVE  IInv'
<1> USE DEF IInv, TypeOK, Block, Parallel, Failing
<1>0. conf \in Config /\ conf.n \in Nat /\ conf.max \in Nat
  BY BlockPoolAssumption DEF Config
<1>1. /\ ~Parallel /\ ~Parallel' /\ pc = "loop" /\ ~result.returned
      /\ UNCHANGED <<conf, sem, worker, errCh, ctxDone, callerDone>>
  BY DEF Sequential, SequentialEnd, Answer
<1>2. CASE SequentialEnd
  BY <1>0, <1>1, <1>2 DEF SequentialEnd, Quiet, OneByOne, Together, Judged, Causes,
     Answer, Kept, Pending
<1>3. CASE Sequential
  <2>1. PICK o \in Outcomes :
          /\ outcome' = [outcome EXCEPT ![next] = o]
          /\ IF o \in Failing /\ conf.policy = "fail"
             THEN pc' = "returned" /\ result' = Failed(next) /\ UNCHANGED next
             ELSE next' = next + 1 /\ UNCHANGED <<pc, result>>
    BY <1>3 DEF Sequential
  <2>2. outcome'[next] = o /\ \A i \in Block : i # next => outcome'[i] = outcome[i]
    BY <1>3, <2>1 DEF Sequential
  <2>3. Quiet' /\ Together'
    BY <1>1 DEF Quiet, OneByOne, Together
  <2>4. OneByOne'
    BY <1>0, <1>1, <1>3, <2>1, <2>2 DEF Sequential, OneByOne, Outcomes
  <2>5. Judged'
    BY <1>1, <2>2 DEF Judged, Outcomes
  <2>6. Causes'
    BY <1>1 DEF Causes, OneByOne
  <2>7. Answer'
    BY <1>1, <1>3, <2>1, <2>2 DEF Sequential, Answer, Failed, Pending, Outcomes, OneByOne
  <2> QED
    BY <2>3, <2>4, <2>5, <2>6, <2>7
<1> QED
  BY <1>2, <1>3

(* So do the loop over the blocks, the caller, and the return. *)
LEMMA LoopKeeps ==
  ASSUME IInv, TypeOK', Dispatch \/ LeaveLoop \/ Collect \/ CallerCancels \/ vars' = vars
  PROVE  IInv'
<1> USE DEF IInv, TypeOK, Block, Parallel, Failing
<1>0. conf \in Config /\ conf.n \in Nat /\ conf.max \in Nat
  BY BlockPoolAssumption DEF Config
<1>1. CASE vars' = vars
  BY <1>1 DEF vars, Quiet, OneByOne, Together, Judged, Causes, Answer
<1>2. CASE Dispatch
  <2>1. /\ worker'[next] = "call" /\ \A i \in Block : i # next => worker'[i] = worker[i]
        /\ next \in Block /\ next' = next + 1
    BY <1>2 DEF Dispatch
  <2>2. Together'
    BY <1>0, <1>2, <2>1 DEF Dispatch, Together
  <2> QED
    BY <1>2, <2>2 DEF Dispatch, Quiet, OneByOne, Judged, Causes, Answer
<1>3. CASE LeaveLoop
  BY <1>3 DEF LeaveLoop, Quiet, OneByOne, Together, Judged, Causes, Answer
<1>4. CASE Collect
  BY <1>4 DEF Collect, Quiet, OneByOne, Together, Judged, Causes, Answer, Failed, Kept,
     Pending
<1>5. CASE CallerCancels
  BY <1>5 DEF CallerCancels, Quiet, OneByOne, Together, Judged, Causes, Answer
<1> QED
  BY <1>1, <1>2, <1>3, <1>4, <1>5

(* And so do the goroutines. *)
LEMMA WorkKeeps ==
  ASSUME IInv, TypeOK', NEW i \in Block, Work(i)
  PROVE  IInv'
<1> USE DEF IInv, TypeOK, Failing
<1>0. conf \in Config /\ conf.n \in Nat /\ conf.max \in Nat
  BY BlockPoolAssumption DEF Config
<1>1. /\ Parallel /\ Parallel' /\ pc # "returned" /\ Block' = Block
      /\ UNCHANGED <<conf, pc, next, callerDone, result>>
  BY DEF Work, Call, Report, Cancel, Release, Finish, OneByOne, Quiet, Parallel, Block
<1>2. Quiet' /\ OneByOne'
  BY <1>1 DEF Quiet, OneByOne
<1>3. CASE Call(i)
  <2>1. PICK o \in Outcomes :
          /\ outcome' = [outcome EXCEPT ![i] = o]
          /\ worker' = [worker EXCEPT ![i] =
               IF o \in Failing /\ conf.policy = "fail" THEN "report" ELSE "release"]
    BY <1>3 DEF Call
  <2>2. /\ outcome'[i] = o /\ \A j \in Block : j # i => outcome'[j] = outcome[j]
        /\ worker'[i] = (IF o \in Failing /\ conf.policy = "fail" THEN "report" ELSE "release")
        /\ \A j \in Block : j # i => worker'[j] = worker[j]
    BY <2>1
  <2>3. outcome[i] = "none" /\ worker[i] = "call" /\ UNCHANGED <<errCh, ctxDone>>
    BY <1>1, <1>3 DEF Call, Together
  <2>4. Together'
    BY <1>0, <1>1, <2>2, <2>3 DEF Together, Outcomes
  <2>5. Judged'
    BY <1>1, <2>2, <2>3 DEF Judged, Outcomes
  <2>6. Causes'
    BY <1>1, <2>2, <2>3 DEF Causes
  <2>7. Answer'
    BY <1>1, <2>2, <2>3 DEF Answer, Pending
  <2> QED
    BY <1>2, <2>4, <2>5, <2>6, <2>7
<1>4. CASE Report(i)
  <2>1. worker'[i] = "cancel" /\ \A j \in Block : j # i => worker'[j] = worker[j]
    BY <1>4 DEF Report
  <2>2. /\ worker[i] = "report" /\ errCh' = (IF errCh = 0 THEN i ELSE errCh) /\ errCh' # 0
        /\ UNCHANGED <<outcome, ctxDone>>
    BY <1>0, <1>4 DEF Report, Block
  <2>3. Together'
    BY <1>0, <1>1, <2>1, <2>2 DEF Together
  <2>4. conf.policy = "fail" /\ outcome[i] \in Failing
    BY <1>1, <2>2 DEF Together
  <2>5. Causes'
    BY <1>1, <2>2, <2>4 DEF Causes, Judged
  <2> QED
    BY <1>1, <1>2, <2>2, <2>3, <2>5 DEF Judged, Answer, Pending
<1>5. CASE Cancel(i)
  <2>1. worker'[i] = "release" /\ \A j \in Block : j # i => worker'[j] = worker[j]
    BY <1>5 DEF Cancel
  <2>2. /\ worker[i] = "cancel" /\ errCh # 0 /\ ctxDone'
        /\ UNCHANGED <<outcome, errCh>>
    BY <1>1, <1>5 DEF Cancel, Together
  <2>3. Together'
    BY <1>0, <1>1, <2>1, <2>2 DEF Together
  <2> QED
    BY <1>1, <1>2, <2>2, <2>3 DEF Judged, Answer, Causes, Pending
<1>6. ASSUME NEW p \in {"finish", "done"},
             worker[i] \in {"release", "finish"},
             worker' = [worker EXCEPT ![i] = p],
             UNCHANGED <<outcome, errCh, ctxDone>>
      PROVE  IInv'
  <2>1. worker'[i] = p /\ \A j \in Block : j # i => worker'[j] = worker[j]
    BY <1>6
  <2>2. Together'
    BY <1>0, <1>1, <1>6, <2>1 DEF Together
  <2> QED
    BY <1>1, <1>2, <1>6, <2>2 DEF Judged, Answer, Causes, Pending
<1>7. CASE Release(i)
  BY <1>6, <1>7 DEF Release
<1>8. CASE Finish(i)
  BY <1>6, <1>8 DEF Finish
<1> QED
  BY <1>3, <1>4, <1>5, <1>7, <1>8 DEF Work

(* The invariant holds in every state. *)
LEMMA InvHolds == Spec => []IInv
<1>1. ASSUME IInv, [Next]_vars PROVE IInv'
  <2>1. TypeOK'
    BY <1>1, TypeStep DEF IInv
  <2>2. CASE Sequential \/ SequentialEnd
    BY <1>1, <2>1, <2>2, SequentialKeeps
  <2>3. CASE Dispatch \/ LeaveLoop \/ Collect \/ CallerCancels \/ vars' = vars
    BY <1>1, <2>1, <2>3, LoopKeeps
  <2>4. ASSUME NEW i \in Block, Work(i) PROVE IInv'
    BY <1>1, <2>1, <2>4, WorkKeeps
  <2> QED
    BY <1>1, <2>2, <2>3, <2>4 DEF Next, Loop
<1> QED
  BY InvInit, <1>1, PTL DEF Spec

-----------------------------------------------------------------------------
(* The results *)

(* The variables of the pool keep their types, and no more calls than      *)
(* max_concurrency are in flight, each with its place in the semaphore.    *)
THEOREM PoolTyped == Spec => []TypeOK
<1>1. IInv => TypeOK
  BY DEF IInv
<1> QED
  BY <1>1, InvHolds, PTL

(* When a batch has returned, none of its goroutines is left.              *)
THEOREM NoneLeftBehind == Spec => []NoWorkerOutlives
<1>1. IInv => NoWorkerOutlives
  BY DEF IInv, Quiet, NoWorkerOutlives
<1> QED
  BY <1>1, InvHolds, PTL

(* Unless its caller cancels, a batch fails with the error of a post.      *)
THEOREM TrueError == Spec => []ErrorIsGenuine
<1>1. IInv => ErrorIsGenuine
  BY DEF IInv, Answer, ErrorIsGenuine
<1> QED
  BY <1>1, InvHolds, PTL

-----------------------------------------------------------------------------
(* The promise of Batch *)

(* A batch begins as Batch does. *)
LEMMA PromiseInit == Init => Promise!Init
<1> SUFFICES ASSUME Init PROVE Promise!Init
  OBVIOUS
<1>1. [i \in Block |-> IF outcome[i] = "cancelled" THEN "none" ELSE outcome[i]] =
        [i \in 1 .. conf.n |-> "none"]
  BY DEF Init, Block
<1> QED
  BY <1>1 DEF Init, Promise!Init, Promise!Pending, Pending

(* A call that has ended gives the post its verdict, or none if cancelled. *)
LEMMA CallJudges ==
  ASSUME IInv, NEW i \in Block, NEW o \in Outcomes, outcome[i] = "none",
         outcome' = [outcome EXCEPT ![i] = o], pc # "returned",
         UNCHANGED <<conf, callerDone, result>>
  PROVE  Promise!Next \/ UNCHANGED Promise!vars
<1> DEFINE v == [j \in Block |-> IF outcome[j] = "cancelled" THEN "none" ELSE outcome[j]]
<1>1. outcome \in [Block -> {"none", "pass", "drop", "error", "cancelled"}] /\ Block' = Block
  BY DEF IInv, TypeOK, Failing, Block
<1>2. v' = [v EXCEPT ![i] = IF o = "cancelled" THEN "none" ELSE o] /\ v[i] = "none"
  <2>1. outcome'[i] = o /\ \A j \in Block : j # i => outcome'[j] = outcome[j]
    BY <1>1
  <2>2. v' = [j \in Block |-> IF j = i THEN (IF o = "cancelled" THEN "none" ELSE o) ELSE v[j]]
    BY <1>1, <2>1
  <2> QED
    BY <2>2
<1>3. CASE o = "cancelled"
  <2>1. v' = v
    BY <1>2, <1>3
  <2> QED
    BY <2>1 DEF Promise!vars
<1>4. CASE o # "cancelled"
  <2>1. o \in {"pass", "drop", "error"} /\ v' = [v EXCEPT ![i] = o]
    BY <1>2, <1>4 DEF Outcomes
  <2>2. ~result.returned /\ i \in 1 .. conf.n
    BY DEF IInv, Answer, Block
  <2>3. Promise!Judge(i)
    BY <1>2, <2>1, <2>2 DEF Promise!Judge
  <2> QED
    BY <2>2, <2>3 DEF Promise!Next
<1> QED
  BY <1>3, <1>4

(* An error is returned under "fail" only, that of a post, or one that     *)
(* tells of the cancellation.                                              *)
LEMMA ErrorPromised ==
  ASSUME IInv, NEW i \in Block, pc # "returned", conf.policy = "fail",
         result' = Failed(i), UNCHANGED <<conf, callerDone>>,
         \/ outcome' = [outcome EXCEPT ![i] = "error"] /\ outcome[i] \in {"none", "error"}
         \/ /\ outcome[i] = "none" /\ callerDone
            /\ outcome' = [outcome EXCEPT ![i] = "cancelled"]
         \/ outcome[i] = "cancelled" /\ callerDone /\ UNCHANGED outcome
  PROVE  Promise!Next
<1> DEFINE v == [j \in Block |-> IF outcome[j] = "cancelled" THEN "none" ELSE outcome[j]]
<1>1. outcome \in [Block -> {"none", "pass", "drop", "error", "cancelled"}] /\ Block' = Block
  BY DEF IInv, TypeOK, Failing, Block
<1>2. /\ v[i] \in {"none", "error"}
      /\ v' = [v EXCEPT ![i] = "error"] \/ (callerDone /\ v' = v)
  <2>0. v' = [j \in Block |-> IF outcome'[j] = "cancelled" THEN "none" ELSE outcome'[j]]
    BY <1>1
  <2>1. CASE outcome' = [outcome EXCEPT ![i] = "error"] /\ outcome[i] \in {"none", "error"}
    <3>1. v' = [j \in Block |-> IF j = i THEN "error" ELSE v[j]]
      BY <1>1, <2>0, <2>1
    <3> QED
      BY <2>1, <3>1
  <2>2. CASE /\ outcome[i] = "none" /\ callerDone
             /\ outcome' = [outcome EXCEPT ![i] = "cancelled"]
    BY <1>1, <2>0, <2>2
  <2>3. CASE outcome[i] = "cancelled" /\ callerDone /\ UNCHANGED outcome
    BY <2>0, <2>3
  <2> QED
    BY <2>1, <2>2, <2>3
<1>3. ~result.returned /\ i \in 1 .. conf.n
  BY DEF IInv, Answer, Block
<1>4. Promise!ReturnError
  BY <1>2, <1>3 DEF Promise!ReturnError, Promise!Failed, Failed
<1> QED
  BY <1>4 DEF Promise!Next

(* The posts that are handed back are those Batch hands back.              *)
LEMMA KeptPromised ==
  ASSUME IInv, pc # "returned", UNCHANGED <<conf, outcome, callerDone>>,
         result' = Kept(Survivors(outcome)),
         \A i \in Block : /\ outcome[i] \in {"none", "cancelled"} => callerDone
                          /\ outcome[i] = "error" => conf.policy = "drop"
  PROVE  Promise!Next
<1> DEFINE v == [j \in Block |-> IF outcome[j] = "cancelled" THEN "none" ELSE outcome[j]]
<1>0. conf \in Config /\ conf.n \in Nat
  BY BlockPoolAssumption DEF IInv, TypeOK, Config
<1>1. outcome \in [Block -> {"none", "pass", "drop", "error", "cancelled"}] /\ Block' = Block
  BY DEF IInv, TypeOK, Failing, Block
<1>2. \A i \in 1 .. conf.n : \/ v[i] \in {"pass", "drop"}
                             \/ v[i] = "error" /\ conf.policy = "drop"
                             \/ v[i] = "none" /\ callerDone
  BY <1>1 DEF Block
<1>3. ~result.returned /\ v' = v
  BY <1>1 DEF IInv, Answer
<1>4. {i \in 1 .. conf.n : v[i] = "pass"} = {i \in Block : outcome[i] = "pass"}
  BY <1>1 DEF Block
<1>5. Promise!Passing(v) = Promise!InOrder({i \in Block : outcome[i] = "pass"})
  BY <1>4 DEF Promise!Passing
<1>6. \/ result' = Promise!Kept(Promise!Passing(v))
      \/ callerDone /\ conf.policy = "fail" /\ conf.kind # "quality"
         /\ result' = Promise!Kept(Promise!All)
  <2>1. CASE ~(conf.policy = "fail" /\ conf.kind # "quality")
    BY <1>5, <2>1 DEF Survivors, Kept, Promise!Kept
  <2>2. CASE conf.policy = "fail" /\ conf.kind # "quality"
    <3>1. Survivors(outcome) = Promise!All
      BY <2>2 DEF Survivors, Block, Promise!All
    <3>2. CASE callerDone
      BY <2>2, <3>1, <3>2 DEF Kept, Promise!Kept
    <3>3. CASE ~callerDone
      <4>1. \A i \in Block : outcome[i] = "pass"
        BY <1>1, <2>2, <3>3 DEF IInv, Judged
      <4>2. {i \in Block : outcome[i] = "pass"} = 1 .. conf.n
        BY <4>1 DEF Block
      <4>3. Promise!Passing(v) = Promise!All
        BY <1>0, <1>5, <4>2, InOrderAll DEF Promise!All
      <4> QED
        BY <3>1, <4>3 DEF Kept, Promise!Kept
    <3> QED
      BY <3>2, <3>3
  <2> QED
    BY <2>1, <2>2
<1>7. Promise!ReturnKept
  BY <1>2, <1>3, <1>6 DEF Promise!ReturnKept
<1> QED
  BY <1>7 DEF Promise!Next

(* Every step of the pool is a step of Batch, or none.                     *)
LEMMA PromiseStep ==
  ASSUME IInv, [Next]_vars
  PROVE  Promise!Next \/ UNCHANGED Promise!vars
<1>0. conf \in Config /\ conf.n \in Nat /\ conf.max \in Nat
  BY BlockPoolAssumption DEF IInv, TypeOK, Config
<1>1. ASSUME UNCHANGED <<conf, outcome, callerDone, result>>
      PROVE  UNCHANGED Promise!vars
  BY <1>1 DEF Promise!vars, Block
<1>2. CASE Sequential
  <2>1. PICK o \in Outcomes :
          /\ outcome' = [outcome EXCEPT ![next] = o]
          /\ IF o \in Failing /\ conf.policy = "fail"
             THEN pc' = "returned" /\ result' = Failed(next) /\ UNCHANGED next
             ELSE next' = next + 1 /\ UNCHANGED <<pc, result>>
    BY <1>2 DEF Sequential
  <2>2. /\ next \in Block /\ outcome[next] = "none" /\ pc = "loop"
        /\ UNCHANGED <<conf, callerDone>> /\ (ctxDone => callerDone)
    BY <1>0, <1>2 DEF Sequential, IInv, OneByOne, Block
  <2>3. CASE o \in Failing /\ conf.policy = "fail"
    <3>1. \/ o = "error"
          \/ o = "cancelled" /\ callerDone
      BY <2>2, <2>3 DEF Failing, Outcomes
    <3>2. pc # "returned" /\ result' = Failed(next)
      BY <2>1, <2>2, <2>3
    <3> QED
      BY <2>1, <2>2, <2>3, <3>1, <3>2, ErrorPromised
  <2>4. CASE ~(o \in Failing /\ conf.policy = "fail")
    <3>1. pc # "returned" /\ UNCHANGED <<conf, callerDone, result>>
      BY <2>1, <2>2, <2>4
    <3> QED
      BY <2>1, <2>2, <3>1, CallJudges
  <2> QED
    BY <2>3, <2>4
<1>3. CASE SequentialEnd
  <2>1. /\ pc # "returned" /\ UNCHANGED <<conf, outcome, callerDone>>
        /\ result' = Kept(Survivors(outcome))
    BY <1>3 DEF SequentialEnd
  <2>2. ASSUME NEW i \in Block
        PROVE  /\ outcome[i] \in {"none", "cancelled"} => callerDone
               /\ outcome[i] = "error" => conf.policy = "drop"
    BY <1>0, <1>3 DEF SequentialEnd, IInv, TypeOK, OneByOne, Judged, Block, Config, Failing
  <2> QED
    BY <2>1, <2>2, KeptPromised
<1>4. CASE Collect
  <2>1. pc = "wait" /\ UNCHANGED <<conf, outcome, callerDone>>
    BY <1>4 DEF Collect
  <2>2. CASE errCh # 0
    <3>1. /\ errCh \in Block /\ conf.policy = "fail"
          /\ \/ outcome[errCh] = "error"
             \/ outcome[errCh] = "cancelled" /\ callerDone
      BY <2>2 DEF IInv, TypeOK, Causes, Failing
    <3>2. result' = Failed(errCh)
      BY <1>4, <2>2 DEF Collect
    <3>3. outcome[errCh] = "error" => outcome' = [outcome EXCEPT ![errCh] = "error"]
      BY <2>1, <3>1 DEF IInv, TypeOK
    <3> QED
      BY <2>1, <3>1, <3>2, <3>3, ErrorPromised
  <2>3. CASE errCh = 0
    <3>1. result' = Kept(Survivors(outcome))
      BY <1>4, <2>3 DEF Collect
    <3>2. ASSUME NEW i \in Block
          PROVE  /\ outcome[i] \in {"none", "cancelled"} => callerDone
                 /\ outcome[i] = "error" => conf.policy = "drop"
      BY <1>0, <1>4, <2>1, <2>3
         DEF Collect, IInv, TypeOK, OneByOne, Together, Causes, Judged, Block, Config, Failing
    <3> QED
      BY <2>1, <3>1, <3>2, KeptPromised
  <2> QED
    BY <2>2, <2>3
<1>5. ASSUME NEW i \in Block, Call(i) PROVE Promise!Next \/ UNCHANGED Promise!vars
  <2>1. PICK o \in Outcomes : outcome' = [outcome EXCEPT ![i] = o]
    BY <1>5 DEF Call
  <2>2. /\ outcome[i] = "none" /\ pc # "returned"
        /\ UNCHANGED <<conf, callerDone, result>>
    BY <1>5 DEF Call, IInv, OneByOne, Together, Quiet
  <2> QED
    BY <2>1, <2>2, CallJudges
<1>6. CASE CallerCancels
  <2>1. /\ ~result.returned /\ callerDone' = TRUE
        /\ UNCHANGED <<conf, outcome, result>>
    BY <1>6 DEF CallerCancels, IInv, Answer
  <2>2. Promise!Cancel
    BY <2>1 DEF Promise!Cancel, Block
  <2> QED
    BY <2>2 DEF Promise!Next
<1>7. CASE Dispatch \/ LeaveLoop \/ vars' = vars
  BY <1>1, <1>7 DEF Dispatch, LeaveLoop, vars
<1>8. ASSUME NEW i \in Block, Report(i) \/ Cancel(i) \/ Release(i) \/ Finish(i)
      PROVE  UNCHANGED Promise!vars
  BY <1>1, <1>8 DEF Report, Cancel, Release, Finish
<1> QED
  BY <1>2, <1>3, <1>4, <1>5, <1>6, <1>7, <1>8 DEF Next, Loop, Work

(* With calls in flight or one after the other, whatever fails and whoever *)
(* cancels, a batch of any size keeps the promise of Batch.                *)
THEOREM PromiseKept == Spec => KeepsPromise
<1> QED
  BY PromiseInit, InvHolds, PromiseStep, PTL DEF Spec, KeepsPromise, Promise!Spec
=============================================================================
