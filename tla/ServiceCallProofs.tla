-------------------------- MODULE ServiceCallProofs -------------------------
(***************************************************************************)
(* Proofs about module ServiceCall, for any retry configuration, any       *)
(* number of attempts and any waits a service may ask for.                 *)
(***************************************************************************)
EXTENDS ServiceCall, WellFoundedInduction, TLAPS

-----------------------------------------------------------------------------
(* The powers of two, on which the waits are built *)

(* Induction, for a set: what holds at 0 and goes on holds for all.        *)
LEMMA SetInduction ==
  ASSUME NEW T, 0 \in T, \A n \in Nat : n \in T => n + 1 \in T
  PROVE  Nat \subseteq T
<1> DEFINE U == {n \in Nat : n \notin T}
           R == {p \in Nat \X Nat : p[1] < p[2]}
<1>1. IsWellFoundedOn(R, Nat)
  BY NatLessThanWellFounded DEF OpToRel
<1>2. SUFFICES ASSUME U # {} PROVE FALSE
  OBVIOUS
<1>3. U \subseteq Nat
  OBVIOUS
<1> HIDE DEF R, U
<1>4. PICK x \in U : \A y \in U : ~(<<y, x>> \in R)
  BY <1>1, <1>2, <1>3, WFMin
<1> USE DEF U
<1>5. x # 0 /\ x - 1 \in Nat
  BY <1>4
<1>6. x - 1 \in U
  BY <1>5
<1>7. <<x - 1, x>> \in R
  BY <1>5 DEF R
<1> QED
  BY <1>4, <1>6, <1>7

\* The first powers, in a function of its own.
Beginning(n) ==
  {g \in [0 .. n -> Nat] : g[0] = 1 /\ \A m \in 1 .. n : g[m] = 2 * g[m - 1]}

(* Any number of them can be computed. *)
LEMMA SomeBeginning == \A n \in Nat : Beginning(n) # {}
<1> DEFINE T == {n \in Nat : Beginning(n) # {}}
<1>1. 0 \in T
  <2>1. [m \in 0 .. 0 |-> 1] \in Beginning(0)
    BY DEF Beginning
  <2> QED
    BY <2>1
<1>2. ASSUME NEW n \in Nat, n \in T PROVE n + 1 \in T
  <2>1. PICK g \in Beginning(n) : TRUE
    BY <1>2
  <2> DEFINE h == [m \in 0 .. n + 1 |-> IF m = n + 1 THEN 2 * g[n] ELSE g[m]]
  <2>2. g \in [0 .. n -> Nat] /\ g[0] = 1 /\ \A m \in 1 .. n : g[m] = 2 * g[m - 1]
    BY DEF Beginning
  <2>3. h \in [0 .. n + 1 -> Nat]
    BY <2>2
  <2>4. h[0] = 1
    BY <2>2
  <2>5. ASSUME NEW m \in 1 .. n + 1 PROVE h[m] = 2 * h[m - 1]
    <3>1. CASE m = n + 1
      BY <3>1
    <3>2. CASE m \in 1 .. n
      BY <2>2, <3>2
    <3> QED
      BY <3>1, <3>2
  <2> HIDE DEF h
  <2>6. h \in Beginning(n + 1)
    BY <2>3, <2>4, <2>5 DEF Beginning
  <2> QED
    BY <2>6
<1> HIDE DEF T
<1>3. Nat \subseteq T
  BY <1>1, <1>2, SetInduction
<1> QED
  BY <1>3 DEF T

(* Two such beginnings agree as far as both go. *)
LEMMA BeginningsAgree ==
  \A k \in Nat : \A m, n \in Nat : k <= m /\ k <= n =>
    \A g \in Beginning(m), h \in Beginning(n) : g[k] = h[k]
<1> DEFINE Agree(k) == \A m, n \in Nat : k <= m /\ k <= n =>
                         \A g \in Beginning(m), h \in Beginning(n) : g[k] = h[k]
           T == {k \in Nat : Agree(k)}
<1>1. 0 \in T
  BY DEF Beginning
<1>2. ASSUME NEW k \in Nat, k \in T PROVE k + 1 \in T
  <2>1. ASSUME NEW m \in Nat, NEW n \in Nat, k + 1 <= m, k + 1 <= n,
               NEW g \in Beginning(m), NEW h \in Beginning(n)
        PROVE  g[k + 1] = h[k + 1]
    <3>1. g[k] = h[k]
      BY <1>2, <2>1
    <3>2. k + 1 \in 1 .. m /\ k + 1 \in 1 .. n /\ (k + 1) - 1 = k
      BY <2>1
    <3>3. g[k + 1] = 2 * g[k] /\ h[k + 1] = 2 * h[k]
      BY <3>2 DEF Beginning
    <3> QED
      BY <3>1, <3>3
  <2> QED
    BY <2>1
<1> HIDE DEF T
<1>3. Nat \subseteq T
  BY <1>1, <1>2, SetInduction
<1> QED
  BY <1>3 DEF T

(* So the function of the model is what its definition says it is. *)
LEMMA PowersOfTwo ==
  /\ PowerOfTwo \in [Nat -> Nat] /\ PowerOfTwo[0] = 1
  /\ \A n \in Nat : PowerOfTwo[n + 1] = 2 * PowerOfTwo[n]
<1> DEFINE b(n) == CHOOSE g : g \in Beginning(n)
           f == [n \in Nat |-> b(n)[n]]
<1>1. ASSUME NEW n \in Nat PROVE b(n) \in Beginning(n)
  BY SomeBeginning
<1> HIDE DEF b
<1>2. ASSUME NEW n \in Nat PROVE f[n] \in Nat
  BY <1>1 DEF Beginning
<1>3. f[0] = 1
  BY <1>1 DEF Beginning
<1>4. ASSUME NEW n \in Nat, n # 0 PROVE f[n] = 2 * f[n - 1]
  <2>1. n - 1 \in Nat /\ n - 1 <= n /\ n \in 1 .. n
    BY <1>4
  <2>2. b(n) \in Beginning(n) /\ b(n - 1) \in Beginning(n - 1)
    BY <1>1, <2>1
  <2>3. b(n)[n] = 2 * b(n)[n - 1]
    BY <2>1, <2>2 DEF Beginning
  <2>4. b(n)[n - 1] = b(n - 1)[n - 1]
    BY <2>1, <2>2, BeginningsAgree
  <2> QED
    BY <2>1, <2>3, <2>4
<1> HIDE DEF f
<1>5. f = [n \in Nat |-> IF n = 0 THEN 1 ELSE 2 * f[n - 1]]
  <2>1. DOMAIN f = Nat /\ f = [n \in Nat |-> f[n]]
    BY DEF f
  <2> QED
    BY <1>3, <1>4, <2>1
<1>6. PowerOfTwo = CHOOSE g : g = [n \in Nat |-> IF n = 0 THEN 1 ELSE 2 * g[n - 1]]
  BY DEF PowerOfTwo
<1>7. PowerOfTwo = [n \in Nat |-> IF n = 0 THEN 1 ELSE 2 * PowerOfTwo[n - 1]]
  BY <1>5, <1>6
<1>8. /\ PowerOfTwo[0] = 1
      /\ \A n \in Nat : PowerOfTwo[n + 1] = 2 * PowerOfTwo[n]
  BY <1>7
<1> DEFINE T == {n \in Nat : PowerOfTwo[n] \in Nat}
<1>9. 0 \in T /\ \A n \in Nat : n \in T => n + 1 \in T
  BY <1>8
<1> HIDE DEF T
<1>10. Nat \subseteq T
  BY <1>9, SetInduction
<1>11. \A n \in Nat : PowerOfTwo[n] \in Nat
  BY <1>10 DEF T
<1> QED
  BY <1>7, <1>8, <1>11

-----------------------------------------------------------------------------
(* The inductive invariant *)

Classes == {"good", "odd", "busy", "down", "refused", "large", "broken", "permanent",
            "limited", "token"}
Answered == [class : Classes, hint : Nat]

Typed ==
  /\ call \in Calls /\ cancelled \in BOOLEAN
  /\ pc \in {"begin", "send", "wait", "done"}
  /\ result \in {"none", "answer", "error", "cancelled"}
  /\ delay \in Nat /\ body \in Nat
  /\ replies \in Seq(Answered) /\ waits \in Seq(Nat)

\* Where the call is, and what it has seen so far.
Place ==
  /\ pc = "done" <=> result # "none"
  /\ pc = "begin" => replies = <<>> /\ waits = <<>>
  /\ pc \in {"send", "wait"} => /\ Len(waits) = Len(replies) /\ Len(replies) < Attempts
                                /\ \A k \in 1 .. Len(replies) : ToRetry(k)
  /\ Len(waits) <= Len(replies)

\* The delay Do has reached: doubled after each wait, and then capped.
Doubled(k) == BaseDelay * PowerOfTwo[k - 1]
Delayed(k) == IF k = 1 THEN BaseDelay ELSE Lesser(Doubled(k), MaxDelay)
Paced ==
  /\ pc = "send" => delay = Delayed(Len(waits) + 1)
  /\ pc = "wait" => delay = Delayed(Len(waits)) /\ Len(waits) > 0

IInv == Typed /\ Place /\ Paced /\ ResultEarned /\ WaitsAsAsked

(* The numbers a client is configured with, defaults included. *)
LEMMA Numbers ==
  ASSUME call \in Calls
  PROVE  /\ Attempts \in Nat \ {0} /\ BaseDelay \in Nat \ {0} /\ MaxDelay \in Nat \ {0}
         /\ Jitter \in Nat \ {0} /\ call.client \in Client
         /\ call.target \in {"fit", "unfit", "unbuildable"}
<1>1. call \in Call /\ call.config \in Config
  BY ServiceCallAssumption DEF Call
<1>2. /\ call.config.attempts \in Int /\ call.config.base \in Int
      /\ call.config.max \in Int /\ call.config.jitter \in Int
  BY <1>1 DEF Config
<1>3. ASSUME NEW n \in Int
      PROVE  /\ Or(n, 1) \in Nat \ {0} /\ Or(n, 4) \in Nat \ {0}
             /\ Or(n, 40) \in Nat \ {0} /\ Or(n, 2) \in Nat \ {0}
  BY DEF Or
<1>4. Attempts \in Nat \ {0} /\ BaseDelay \in Nat \ {0}
  BY <1>2, <1>3 DEF Attempts, BaseDelay
<1>5. MaxDelay \in Nat \ {0} /\ Jitter \in Nat \ {0}
  BY <1>2, <1>3 DEF MaxDelay, Jitter
<1> QED
  BY <1>1, <1>4, <1>5 DEF Call

(* The delay of a wait is a number, and doubles up to the cap. *)
LEMMA Doubling ==
  ASSUME call \in Calls
  PROVE  /\ \A k \in Nat \ {0} : Doubled(k) \in Nat /\ Delayed(k) \in Nat
         /\ Delayed(1) = BaseDelay
         /\ \A k \in Nat \ {0} : Delayed(k + 1) = Lesser(2 * Delayed(k), MaxDelay)
         /\ \A k \in Nat \ {0} : \A j \in Nat :
              /\ Lesser(Delayed(k) + j, MaxDelay) \in Nat
              /\ Lesser(Delayed(k) + j, MaxDelay) >= Lesser(Doubled(k), MaxDelay)
              /\ Lesser(Delayed(k) + j, MaxDelay) <= Lesser(Doubled(k) + j, MaxDelay)
<1>1. BaseDelay \in Nat \ {0} /\ MaxDelay \in Nat \ {0}
  BY Numbers
<1>2. ASSUME NEW k \in Nat \ {0}
      PROVE  Doubled(k) \in Nat /\ Doubled(k + 1) = 2 * Doubled(k)
  <2>1. k - 1 \in Nat /\ k = (k - 1) + 1 /\ (k + 1) - 1 = k
    OBVIOUS
  <2>2. PICK p \in Nat : PowerOfTwo[k - 1] = p /\ PowerOfTwo[k] = 2 * p
    BY <2>1, PowersOfTwo
  <2>3. \A b \in Nat : b * p \in Nat /\ b * (2 * p) = 2 * (b * p)
    OBVIOUS
  <2> QED
    BY <1>1, <2>1, <2>2, <2>3 DEF Doubled
<1>3. Doubled(1) = BaseDelay
  BY <1>1, PowersOfTwo DEF Doubled
<1>4. ASSUME NEW k \in Nat \ {0}, NEW x \in Nat, x = Doubled(k)
      PROVE  /\ Delayed(k) \in Nat
             /\ Delayed(k + 1) = Lesser(2 * Delayed(k), MaxDelay)
             /\ \A j \in Nat :
                  /\ Lesser(Delayed(k) + j, MaxDelay) \in Nat
                  /\ Lesser(Delayed(k) + j, MaxDelay) >= Lesser(x, MaxDelay)
                  /\ Lesser(Delayed(k) + j, MaxDelay) <= Lesser(x + j, MaxDelay)
  <2>1. Delayed(k) = x \/ Delayed(k) = Lesser(x, MaxDelay)
    BY <1>3, <1>4 DEF Delayed
  <2>2. Delayed(k + 1) = Lesser(2 * x, MaxDelay)
    BY <1>2, <1>4 DEF Delayed
  <2> QED
    BY <1>1, <2>1, <2>2 DEF Lesser
<1> QED
  BY <1>2, <1>4 DEF Delayed

(* The invariant holds before the call. *)
LEMMA InvInit == Init => IInv
<1> SUFFICES ASSUME Init PROVE IInv
  OBVIOUS
<1>1. /\ <<>> \in Seq(Answered) /\ <<>> \in Seq(Nat) /\ Len(replies) = 0
      /\ DOMAIN waits = {}
  BY DEF Init
<1>2. Attempts \in Nat \ {0}
  BY Numbers DEF Init
<1> QED
  BY <1>1, <1>2 DEF Init, IInv, Typed, Place, Paced, ResultEarned, AnswerIsLast,
     GivesUpLate, WaitsAsAsked

(* A value added to a sequence is its last one; the others stay. *)
LEMMA AppendFacts ==
  ASSUME NEW S, NEW s \in Seq(S), NEW e \in S
  PROVE  /\ Append(s, e) \in Seq(S) /\ Len(Append(s, e)) = Len(s) + 1 /\ Len(s) \in Nat
         /\ \A k \in 1 .. Len(s) : Append(s, e)[k] = s[k]
         /\ Append(s, e)[Len(s) + 1] = e
  OBVIOUS

(* What a request may come to is a class of replies. *)
LEMMA OutcomeClasses ==
  ASSUME call.client \in Client
  PROVE  /\ Outcomes \subseteq Classes
         /\ Outcomes \cap {"good", "odd"} # {} => ~(cancelled /\ call.client # "do")
<1>1. Possible[call.client] \subseteq Classes
  BY DEF Possible, Client, Statuses, Classes
<1> QED
  BY <1>1 DEF Outcomes, Classes

(* No reply is both accepted and worth another attempt. *)
LEMMA AcceptedOrRetried ==
  ASSUME call.client \in Client, NEW c, Accepted(c)
  PROVE  c \notin Retried[call.client]
  BY DEF Accepted, Retried, Client, Statuses

(* The waits so far stay as they were asked for. *)
LEMMA WaitsStay ==
  ASSUME WaitsAsAsked, UNCHANGED <<call, waits>>, waits \in Seq(Nat),
         \A k \in 1 .. Len(waits) : replies'[k] = replies[k]
  PROVE  WaitsAsAsked'
<1>1. DOMAIN waits = 1 .. Len(waits)
  OBVIOUS
<1>2. \A k \in 1 .. Len(waits) : Class(k)' = Class(k) /\ replies'[k].hint = replies[k].hint
  BY DEF Class
<1>3. /\ BaseDelay' = BaseDelay /\ MaxDelay' = MaxDelay /\ Jitter' = Jitter
      /\ Reddit' = Reddit
  BY DEF BaseDelay, MaxDelay, Jitter, Reddit
<1> QED
  BY <1>1, <1>2, <1>3 DEF WaitsAsAsked

(* A wait that is taken is one that was asked for. *)
LEMMA WaitIsAsked ==
  ASSUME call \in Calls, NEW r \in Answered, NEW w \in WaitsAfter(r),
         r.hint # 0 => Reddit, replies \in Seq(Answered),
         NEW k \in Nat \ {0}, k = Len(replies) + 1, delay = Delayed(k)
  PROVE  /\ w \in Nat
         /\ IF ~Reddit
            THEN /\ w >= Lesser(Doubled(k), MaxDelay)
                 /\ w <= Lesser(Doubled(k) + Jitter - 1, MaxDelay)
            ELSE /\ w >= r.hint
                 /\ r.hint = 0 => w >= Lesser(Doubled(k), 2400)
                 /\ r.hint = 0 /\ r.class # "token" => w <= 2400
<1>1. /\ Doubled(k) \in Nat /\ MaxDelay \in Nat /\ Jitter \in Nat \ {0} /\ r.hint \in Nat
  BY Doubling, Numbers DEF Answered
<1>2. CASE ~Reddit
  <2>1. PICK j \in 0 .. Jitter - 1 : w = Lesser(Delayed(k) + j, MaxDelay)
    BY <1>2 DEF WaitsAfter
  <2>2. j \in Nat /\ j <= Jitter - 1
    BY <1>1, <2>1
  <2>3. w \in Nat /\ w >= Lesser(Doubled(k), MaxDelay) /\ w <= Lesser(Doubled(k) + j, MaxDelay)
    BY <2>1, <2>2, Doubling
  <2>4. Lesser(Doubled(k) + j, MaxDelay) <= Lesser(Doubled(k) + Jitter - 1, MaxDelay)
    BY <1>1, <2>2 DEF Lesser
  <2>5. /\ Lesser(Doubled(k) + j, MaxDelay) \in Nat
        /\ Lesser(Doubled(k) + Jitter - 1, MaxDelay) \in Nat
    BY <1>1, <2>2 DEF Lesser
  <2> QED
    BY <1>2, <2>3, <2>4, <2>5
<1>3. CASE Reddit
  <2>1. Backoff(k) = Lesser(Doubled(k), 2400)
    BY DEF Backoff, Doubled
  <2>2. Backoff(k) \in Nat /\ Backoff(k) <= 2400
    BY <1>1, <2>1 DEF Lesser
  <2>3. \/ r.hint > 0 /\ w = r.hint
        \/ /\ ~(r.hint > 0) /\ r.class = "token"
           /\ w = (IF Backoff(k) > 300 THEN Backoff(k) ELSE 300)
        \/ ~(r.hint > 0) /\ r.class # "token" /\ w = Backoff(k)
    BY <1>3 DEF WaitsAfter
  <2> QED
    BY <1>1, <1>3, <2>1, <2>2, <2>3
<1> QED
  BY <1>2, <1>3

-----------------------------------------------------------------------------
(* The steps *)

(* An attempt, and what is done about its reply. *)
LEMMA SendKeeps ==
  ASSUME IInv, Send
  PROVE  IInv'
<1> DEFINE n == Len(replies)
<1>1. PICK r \in Reply :
        /\ replies' = Append(replies, r)
        /\ body' = IF Kept(r.class) THEN Len(replies') ELSE body
        /\ \/ /\ Accepted(r.class)
              /\ End(IF r.class = "good" THEN "answer" ELSE "error")
              /\ UNCHANGED waits
           \/ /\ ~Accepted(r.class)
              /\ r.class \notin Retried[call.client] \/ Len(replies') = Attempts
              /\ End("error")
              /\ UNCHANGED waits
           \/ /\ r.class \in Retried[call.client] /\ Len(replies') < Attempts
              /\ \E w \in WaitsAfter(r) : waits' = Append(waits, w)
              /\ pc' = "wait" /\ UNCHANGED result
  BY DEF Send
<1>2. /\ pc = "send" /\ result = "none" /\ UNCHANGED <<call, cancelled, delay>>
      /\ Len(waits) = n /\ n < Attempts /\ n \in Nat /\ replies \in Seq(Answered)
      /\ waits \in Seq(Nat) /\ body \in Nat /\ delay \in Nat /\ cancelled \in BOOLEAN
      /\ \A k \in 1 .. n : ToRetry(k)
  BY DEF Send, IInv, Typed, Place
<1>3. /\ call \in Calls /\ Attempts \in Nat \ {0} /\ call.client \in Client
      /\ call.target \in {"fit", "unfit", "unbuildable"}
  BY Numbers DEF IInv, Typed
<1>4. /\ r \in Answered /\ (r.hint # 0 => Reddit) /\ r.class \in Outcomes
  <2>1. r \in [class : Outcomes, hint : Hints \cup {0}] /\ (r.hint # 0 => Reddit)
    BY DEF Reply
  <2>2. Outcomes \subseteq Classes /\ Hints \cup {0} \subseteq Nat
    BY <1>3, OutcomeClasses, ServiceCallAssumption
  <2> QED
    BY <2>1, <2>2 DEF Answered
<1>5. /\ replies' \in Seq(Answered) /\ Len(replies') = n + 1
      /\ \A k \in 1 .. n : replies'[k] = replies[k]
      /\ replies'[n + 1] = r
  BY <1>1, <1>2, <1>4, AppendFacts
<1>6. /\ Attempts' = Attempts
      /\ \A k \in 1 .. n : /\ replies'[k].class = replies[k].class
                          /\ replies'[k].class \in Retried[call.client]
      /\ replies'[n + 1].class = r.class
  <2>1. Attempts' = Attempts
    BY <1>2 DEF Attempts
  <2>2. \A k \in 1 .. n : replies[k].class \in Retried[call.client]
    BY <1>2 DEF Class, ToRetry
  <2> QED
    BY <1>5, <2>1, <2>2
<1>7. body' \in Nat
  BY <1>1, <1>2, <1>5
<1>8. CASE Accepted(r.class)
  <2>1. /\ pc' = "done" /\ result' = (IF r.class = "good" THEN "answer" ELSE "error")
        /\ waits' = waits /\ body' = n + 1
        /\ r.class \notin Retried[call.client]
    BY <1>1, <1>3, <1>5, <1>8, AcceptedOrRetried DEF End, Kept
  <2>2. Typed' /\ Place' /\ Paced'
    BY <1>2, <1>3, <1>5, <1>7, <2>1 DEF Typed, Place, Paced
  <2>3. replies'[n + 1].class \notin Retried[call.client]
    BY <1>6, <2>1
  <2>4. AnswerIsLast'
    BY <1>2, <1>3, <1>5, <1>6, <2>1 DEF AnswerIsLast, Accepted, Class, ToRetry
  <2>5. GivesUpLate'
    BY <1>2, <1>5, <2>1, <2>3 DEF GivesUpLate, Class, ToRetry
  <2>6. WaitsAsAsked'
    BY <1>2, <1>5, <2>1, WaitsStay DEF IInv
  <2> QED
    BY <2>2, <2>4, <2>5, <2>6 DEF IInv, ResultEarned
<1>9. CASE /\ ~Accepted(r.class)
           /\ r.class \notin Retried[call.client] \/ Len(replies') = Attempts
           /\ End("error")
           /\ UNCHANGED waits
  <2>1. pc' = "done" /\ result' = "error" /\ waits' = waits
    BY <1>9 DEF End
  <2>2. Typed' /\ Place' /\ Paced'
    BY <1>2, <1>3, <1>5, <1>7, <2>1 DEF Typed, Place, Paced
  <2>3. replies'[n + 1].class \notin Retried[call.client] \/ n + 1 = Attempts
    BY <1>5, <1>6, <1>9
  <2>4. AnswerIsLast'
    BY <1>2, <1>3, <1>5, <1>6, <2>1 DEF AnswerIsLast, Accepted, Class, ToRetry
  <2>5. GivesUpLate'
    BY <1>2, <1>5, <1>6, <2>1, <2>3 DEF GivesUpLate, Class, ToRetry
  <2>6. WaitsAsAsked'
    BY <1>2, <1>5, <2>1, WaitsStay DEF IInv
  <2> QED
    BY <2>2, <2>4, <2>5, <2>6 DEF IInv, ResultEarned
<1>10. CASE /\ r.class \in Retried[call.client] /\ Len(replies') < Attempts
            /\ \E w \in WaitsAfter(r) : waits' = Append(waits, w)
            /\ pc' = "wait" /\ UNCHANGED result
  <2>1. PICK w \in WaitsAfter(r) : waits' = Append(waits, w)
    BY <1>10
  <2>2. n + 1 \in Nat \ {0} /\ delay = Delayed(n + 1)
    BY <1>2 DEF IInv, Paced
  <2>3. /\ w \in Nat
        /\ IF ~Reddit
           THEN /\ w >= Lesser(Doubled(n + 1), MaxDelay)
                /\ w <= Lesser(Doubled(n + 1) + Jitter - 1, MaxDelay)
           ELSE /\ w >= r.hint
                /\ r.hint = 0 => w >= Lesser(Doubled(n + 1), 2400)
                /\ r.hint = 0 /\ r.class # "token" => w <= 2400
    BY <1>2, <1>3, <1>4, <2>2, WaitIsAsked
  <2>4. /\ waits' \in Seq(Nat) /\ Len(waits') = n + 1
        /\ \A k \in 1 .. n : waits'[k] = waits[k]
        /\ waits'[n + 1] = w
    BY <1>2, <2>1, <2>3, AppendFacts
  <2>5. replies'[n + 1].class \in Retried[call.client]
    BY <1>6, <1>10
  <2>6. \A k \in 1 .. n + 1 : ToRetry(k)'
    <3>1. \A k \in 1 .. n + 1 : k \in 1 .. n \/ k = n + 1
      BY <1>2
    <3>2. \A k \in 1 .. n + 1 : replies'[k].class \in Retried[call'.client]
      BY <1>2, <1>6, <2>5, <3>1
    <3> QED
      BY <3>2 DEF ToRetry, Class
  <2>7. Typed'
    BY <1>2, <1>3, <1>5, <1>7, <1>10, <2>4 DEF Typed
  <2>8. Place'
    <3>1. result' = "none" /\ pc' = "wait" /\ Len(waits') = Len(replies')
          /\ Len(replies') < Attempts'
      BY <1>2, <1>5, <1>6, <1>10, <2>4
    <3>2. \A k \in 1 .. Len(replies') : ToRetry(k)'
      BY <1>5, <2>6
    <3> QED
      BY <1>5, <2>4, <3>1, <3>2 DEF Place
  <2>9. Paced'
    <3>1. BaseDelay' = BaseDelay /\ MaxDelay' = MaxDelay
      BY <1>2 DEF BaseDelay, MaxDelay
    <3>2. Delayed(Len(waits))' = Delayed(n + 1)
      BY <2>4, <3>1 DEF Delayed, Doubled
    <3> QED
      BY <1>2, <1>10, <2>2, <2>4, <3>2 DEF Paced
  <2>10. ResultEarned'
    <3>1. /\ result' = "none" /\ Len(replies') <= Attempts'
          /\ \A k \in 1 .. Len(replies') - 1 : ToRetry(k)'
      BY <1>2, <1>3, <1>5, <1>6, <1>10, <2>6
    <3> QED
      BY <3>1 DEF ResultEarned, AnswerIsLast, GivesUpLate
  <2>11. WaitsAsAsked'
    <3>1. /\ BaseDelay' = BaseDelay /\ MaxDelay' = MaxDelay /\ Jitter' = Jitter
          /\ Reddit' = Reddit
      BY <1>2 DEF BaseDelay, MaxDelay, Jitter, Reddit
    <3>2. DOMAIN waits = 1 .. n /\ DOMAIN waits' = 1 .. n + 1
      BY <1>2, <2>4
    <3>3. ASSUME NEW k \in 1 .. n
          PROVE  IF ~Reddit
                 THEN /\ waits'[k] >= Lesser(BaseDelay * PowerOfTwo[k - 1], MaxDelay)
                      /\ waits'[k] <= Lesser(BaseDelay * PowerOfTwo[k - 1] + Jitter - 1, MaxDelay)
                 ELSE /\ waits'[k] >= replies'[k].hint
                      /\ replies'[k].hint = 0 =>
                           waits'[k] >= Lesser(BaseDelay * PowerOfTwo[k - 1], 2400)
                      /\ replies'[k].hint = 0 /\ replies'[k].class # "token" => waits'[k] <= 2400
      <4>1. waits'[k] = waits[k] /\ replies'[k] = replies[k]
        BY <1>5, <2>4
      <4> QED
        BY <3>2, <4>1 DEF IInv, WaitsAsAsked, Class
    <3>4. n + 1 \in Nat /\ (\A k \in 1 .. n + 1 : k \in 1 .. n \/ k = n + 1)
      BY <1>2
    <3>5. IF ~Reddit
          THEN /\ waits'[n + 1] >= Lesser(BaseDelay * PowerOfTwo[(n + 1) - 1], MaxDelay)
               /\ waits'[n + 1] <=
                    Lesser(BaseDelay * PowerOfTwo[(n + 1) - 1] + Jitter - 1, MaxDelay)
          ELSE /\ waits'[n + 1] >= replies'[n + 1].hint
               /\ replies'[n + 1].hint = 0 =>
                    waits'[n + 1] >= Lesser(BaseDelay * PowerOfTwo[(n + 1) - 1], 2400)
               /\ replies'[n + 1].hint = 0 /\ replies'[n + 1].class # "token" => waits'[n + 1] <= 2400
      BY <1>5, <1>6, <2>3, <2>4 DEF Doubled
    <3>6. ASSUME NEW k \in DOMAIN waits'
          PROVE  IF ~Reddit
                 THEN /\ waits'[k] >= Lesser(BaseDelay * PowerOfTwo[k - 1], MaxDelay)
                      /\ waits'[k] <= Lesser(BaseDelay * PowerOfTwo[k - 1] + Jitter - 1, MaxDelay)
                 ELSE /\ waits'[k] >= replies'[k].hint
                      /\ replies'[k].hint = 0 =>
                           waits'[k] >= Lesser(BaseDelay * PowerOfTwo[k - 1], 2400)
                      /\ replies'[k].hint = 0 /\ replies'[k].class # "token" =>
                           waits'[k] <= 2400
      <4>1. CASE k \in 1 .. n
        BY <3>3, <4>1
      <4>2. CASE k = n + 1
        BY <3>5, <4>2
      <4> QED
        BY <3>2, <3>4, <4>1, <4>2
    <3> QED
      BY <3>1, <3>6 DEF WaitsAsAsked, Class
  <2> QED
    BY <2>7, <2>8, <2>9, <2>10, <2>11 DEF IInv
<1> QED
  BY <1>1, <1>8, <1>9, <1>10

(* The others: the start, the timer, and the end of the context. *)
LEMMA OthersKeep ==
  ASSUME IInv, Begin \/ Wake \/ Abort \/ Cancel \/ vars' = vars
  PROVE  IInv'
<1>1. /\ call \in Calls /\ Attempts \in Nat \ {0} /\ BaseDelay \in Nat \ {0}
      /\ MaxDelay \in Nat \ {0} /\ call.target \in {"fit", "unfit", "unbuildable"}
  BY Numbers DEF IInv, Typed
<1>2. /\ call' = call /\ replies' = replies /\ waits' = waits /\ body' = body
      /\ replies \in Seq(Answered) /\ waits \in Seq(Nat) /\ Len(replies) \in Nat
  BY DEF Begin, Wake, Abort, Cancel, vars, IInv, Typed
<1>3. WaitsAsAsked'
  BY <1>2, WaitsStay DEF IInv
<1>4. /\ Attempts' = Attempts /\ Retried' = Retried
      /\ \A k : Class(k)' = Class(k) /\ (ToRetry(k)' <=> ToRetry(k))
      /\ \A k : Delayed(k)' = Delayed(k)
      /\ BaseDelay' = BaseDelay /\ MaxDelay' = MaxDelay
  BY <1>2 DEF Attempts, Retried, Class, ToRetry, Delayed, Doubled, BaseDelay, MaxDelay
<1>5. CASE Begin
  <2>1. /\ pc = "begin" /\ replies = <<>> /\ waits = <<>> /\ result = "none"
        /\ delay' = BaseDelay /\ UNCHANGED cancelled
        /\ \/ pc' = "send" /\ result' = "none"
           \/ pc' = "done" /\ result' = "error" /\ call.target # "fit"
    BY <1>5 DEF Begin, IInv, Place, Rejected, End
  <2>2. Len(replies) = 0 /\ Len(waits) = 0
    BY <2>1
  <2>3. Delayed(1) = BaseDelay
    BY DEF Delayed
  <2>4. Typed' /\ Place'
    BY <1>1, <1>2, <1>4, <2>1, <2>2 DEF IInv, Typed, Place
  <2>5. Paced'
    BY <1>2, <1>4, <2>1, <2>2, <2>3 DEF Paced
  <2>6. ResultEarned'
    BY <1>1, <1>2, <1>4, <2>1, <2>2 DEF ResultEarned, AnswerIsLast, GivesUpLate
  <2> QED
    BY <1>3, <2>4, <2>5, <2>6 DEF IInv
<1>6. CASE Wake
  <2>1. /\ pc = "wait" /\ pc' = "send" /\ delay' = Lesser(2 * delay, MaxDelay)
        /\ UNCHANGED <<cancelled, result>> /\ result = "none"
    BY <1>6 DEF Wake, IInv, Place
  <2>2. PICK m \in Nat \ {0} : m = Len(waits) /\ delay = Delayed(m)
    BY <1>2, <2>1 DEF IInv, Paced
  <2>3. delay' = Delayed(m + 1) /\ delay' \in Nat
    BY <1>1, <2>1, <2>2, Doubling
  <2>4. Typed' /\ Place'
    BY <1>1, <1>2, <1>4, <2>1, <2>3 DEF IInv, Typed, Place
  <2>5. Paced'
    BY <1>2, <1>4, <2>1, <2>2, <2>3 DEF Paced
  <2>6. ResultEarned'
    BY <1>2, <1>4, <2>1 DEF IInv, ResultEarned, AnswerIsLast, GivesUpLate
  <2> QED
    BY <1>3, <2>4, <2>5, <2>6 DEF IInv
<1>7. CASE Abort
  <2>1. /\ pc = "wait" /\ cancelled /\ pc' = "done" /\ result' = "cancelled"
        /\ UNCHANGED <<cancelled, delay>> /\ result = "none"
    BY <1>7 DEF Abort, End, IInv, Place
  <2>2. Typed' /\ Place' /\ Paced'
    BY <1>1, <1>2, <1>4, <2>1 DEF IInv, Typed, Place, Paced
  <2>3. ResultEarned'
    BY <1>2, <1>4, <2>1 DEF IInv, Place, ResultEarned, AnswerIsLast, GivesUpLate
  <2> QED
    BY <1>3, <2>2, <2>3 DEF IInv
<1>8. CASE Cancel \/ vars' = vars
  <2>1. /\ cancelled => cancelled'
        /\ cancelled' \in BOOLEAN /\ UNCHANGED <<pc, delay, result>>
    BY <1>8 DEF Cancel, vars, IInv, Typed
  <2>2. Typed' /\ Place'
    BY <1>1, <1>2, <1>4, <2>1 DEF IInv, Typed, Place
  <2>3. Paced'
    BY <1>2, <1>4, <2>1 DEF IInv, Paced
  <2>4. ResultEarned'
    BY <1>2, <1>4, <2>1 DEF IInv, ResultEarned, AnswerIsLast, GivesUpLate
  <2> QED
    BY <1>3, <2>2, <2>3, <2>4 DEF IInv
<1> QED
  BY <1>5, <1>6, <1>7, <1>8

(* The invariant holds in every state. *)
LEMMA InvHolds == Spec => []IInv
<1>1. IInv /\ [Next]_vars => IInv'
  BY SendKeeps, OthersKeep DEF Next, Step
<1> QED
  BY InvInit, <1>1, PTL DEF Spec

-----------------------------------------------------------------------------
(* The results *)

(* For any number of attempts: an answer is that of the last reply, the    *)
(* only good one; an error comes when no attempt is left, or none is worth *)
(* it; a cancellation is reported when there was one.                      *)
THEOREM Earned == Spec => []ResultEarned
<1>1. IInv => ResultEarned
  BY DEF IInv
<1> QED
  BY <1>1, InvHolds, PTL

(* For any number of attempts and any base, cap and jitter: the waits      *)
(* double up to the cap, and a service that asks for more gets it.         *)
THEOREM WaitsGrow == Spec => []WaitsAsAsked
<1>1. IInv => WaitsAsAsked
  BY DEF IInv
<1> QED
  BY <1>1, InvHolds, PTL

(* Whatever its requests come to, a call does what Reading allows, step by *)
(* step; that it ends is left to the model checker.                        *)
THEOREM CallIsReading == Spec => Promise!Safety
<1>1. Init => Promise!Init
  BY DEF Init, Promise!Init
<1>2. ASSUME IInv, [Next]_vars
      PROVE  Promise!Next \/ UNCHANGED Promise!vars
  <2> DEFINE rd == [c \in {"call"} |-> IF result = "cancelled" THEN "error" ELSE result]
             cn == cancelled /\ call.client # "do"
  <2>0. result \in {"none", "answer", "error", "cancelled"} /\ cancelled \in BOOLEAN
    BY <1>2 DEF IInv, Typed
  <2>1. ASSUME UNCHANGED <<call, cancelled, result>>
        PROVE  UNCHANGED Promise!vars
    BY <2>1 DEF Promise!vars
  <2>2. ASSUME result = "none", result' \in {"error", "cancelled"},
               UNCHANGED <<call, cancelled>>
        PROVE  Promise!Next
    <3>1. rd["call"] = "none" /\ rd' = [rd EXCEPT !["call"] = "error"]
      BY <2>2
    <3>2. Promise!Refuse("call")
      BY <3>1 DEF Promise!Refuse, Promise!To
    <3>3. Promise!End("call")
      BY <2>2, <3>2 DEF Promise!End
    <3> QED
      BY <3>3 DEF Promise!Next
  <2>3. ASSUME result = "none", result' = "answer", ~cn, UNCHANGED <<call, cancelled>>
        PROVE  Promise!Next
    <3>1. rd["call"] = "none" /\ rd' = [rd EXCEPT !["call"] = "answer"]
      BY <2>3
    <3>2. Promise!Answer("call")
      BY <2>3, <3>1 DEF Promise!Answer, Promise!To
    <3>3. Promise!End("call")
      BY <2>3, <3>2 DEF Promise!End
    <3> QED
      BY <3>3 DEF Promise!Next
  <2>4. CASE Begin
    <3>1. result = "none" /\ result' \in {"none", "error"} /\ UNCHANGED <<call, cancelled>>
      BY <1>2, <2>4 DEF Begin, End, IInv, Place
    <3> QED
      BY <2>1, <2>2, <3>1
  <2>5. CASE Send
    <3>1. result = "none" /\ UNCHANGED <<call, cancelled>>
      BY <1>2, <2>5 DEF Send, IInv, Place
    <3>2. PICK r \in Reply :
            \/ Accepted(r.class) /\ End(IF r.class = "good" THEN "answer" ELSE "error")
            \/ End("error")
            \/ UNCHANGED result
      BY <2>5 DEF Send
    <3>3. ASSUME Accepted(r.class) PROVE ~cn
      <4>1. r.class \in Outcomes /\ r.class \in {"good", "odd"} /\ call.client \in Client
        BY <1>2, <3>3, Numbers DEF Reply, Accepted, IInv, Typed
      <4> QED
        BY <4>1, OutcomeClasses
    <3> QED
      BY <2>1, <2>2, <2>3, <3>1, <3>2, <3>3 DEF End
  <2>6. CASE Abort
    BY <1>2, <2>2, <2>6 DEF Abort, End, IInv, Place
  <2>7. CASE Cancel
    <3>1. UNCHANGED <<call, result>> /\ ~cancelled /\ cancelled' = TRUE
      BY <2>7 DEF Cancel
    <3>2. CASE call.client = "do"
      BY <3>1, <3>2 DEF Promise!vars
    <3>3. CASE call.client # "do"
      <4>1. Promise!Cancel
        BY <3>1, <3>3 DEF Promise!Cancel
      <4> QED
        BY <4>1 DEF Promise!Next
    <3> QED
      BY <3>2, <3>3
  <2>8. CASE Wake \/ vars' = vars
    BY <2>1, <2>8 DEF Wake, vars
  <2> QED
    BY <1>2, <2>4, <2>5, <2>6, <2>7, <2>8 DEF Next, Step
<1> QED
  BY <1>1, <1>2, InvHolds, PTL DEF Spec, Promise!Safety
=============================================================================
