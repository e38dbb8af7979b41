----------------------------- MODULE ServiceCall ----------------------------
(***************************************************************************)
(* One call of a fetcher or reader to its service, down to the requests:   *)
(* the feeds of rss, the pages of scrape, the search of arxiv, the readers *)
(* crawl4ai and docling, all of them on retry.Do (internal/retry), and the *)
(* posts and comments of reddit, which has a loop of its own (doWithRetry  *)
(* of internal/sources/reddit/fetcher.go).  A request is a step that ends  *)
(* in one of the classes of replies the code tells apart.  Time counts     *)
(* units of 50 ms.                                                         *)
(***************************************************************************)
EXTENDS Integers, Sequences, SequencesExt

CONSTANTS
  Calls,  \* the calls explored, a subset of Call
  Hints   \* the waits reddit may ask for; 0 for none

\* "do" is retry.Do with any function, the others are its callers and reddit.
Client == {"do", "rss", "scrape", "arxiv", "crawl4ai", "docling", "reddit"}

\* retry.Config; the clients leave max and jitter at 0, for the default.
Config == [attempts : Int, base : Int, max : Int, jitter : Int]

\* target: what is asked for is fit for a request; or it is not (a blank,
\* malformed or blocked URL, a search without a clause, no subreddit); or the
\* URL of the service is malformed, so that no request can be built.
Call == [client : Client, config : Config,
         target : {"fit", "unfit", "unbuildable"}]

ASSUME ServiceCallAssumption == Calls \subseteq Call /\ Hints \subseteq Nat

VARIABLES
  call,
  cancelled, \* the context is done
  pc,        \* "begin", "send", "wait", "done"
  delay,     \* Do's local
  body,      \* the request whose reply is in respBody, payload or feed; 0 for none
  result,    \* "none", "answer", "error" or "cancelled", the context's error
  replies,   \* history: what became of each request, in order
  waits      \* history: the waits between them

vars == <<call, cancelled, pc, delay, body, result, replies, waits>>

Lesser(m, n) == IF m < n THEN m ELSE n
PowerOfTwo[n \in Nat] == IF n = 0 THEN 1 ELSE 2 * PowerOfTwo[n - 1]
Or(n, default) == IF n <= 0 THEN default ELSE n

Attempts == Or(call.config.attempts, 1)
BaseDelay == Or(call.config.base, 4)
MaxDelay == Or(call.config.max, 40)
Jitter == Or(call.config.jitter, 2)

Reddit == call.client = "reddit"

-----------------------------------------------------------------------------
(* Replies.  "good": accepted, and of use; "odd": accepted, but not of use *)
(* (no feed, no markdown, no content); "busy": 429; "down": a server error *)
(* (502 to 504 for reddit); "refused": any other status; "large": over 10  *)
(* MiB; "broken": no reply, or not all of it; "permanent": marked so;      *)
(* "limited" and "token": reddit's rate limit, and a 429 for its token.    *)

Statuses == {"busy", "down", "refused"}

\* What may become of a request.
Possible ==
  [do |-> {"good", "broken", "permanent"},
   rss |-> {"good", "odd", "broken"} \cup Statuses,
   scrape |-> {"good", "broken"} \cup Statuses,
   arxiv |-> {"good", "odd", "broken"} \cup Statuses,
   crawl4ai |-> {"good", "odd", "broken", "large"} \cup Statuses,
   docling |-> {"good", "odd", "broken", "large"} \cup Statuses,
   reddit |-> {"good", "odd", "broken", "limited", "token"} \cup Statuses]

\* After which the client tries again.
Retried ==
  [do |-> {"broken"},
   rss |-> {"odd", "broken"} \cup Statuses,
   scrape |-> {"broken"} \cup Statuses,
   arxiv |-> {"broken", "busy", "down"},
   crawl4ai |-> {"broken", "large"} \cup Statuses,
   docling |-> {"broken", "large"} \cup Statuses,
   reddit |-> {"busy", "down", "limited", "token"}]

\* The function of the attempt returns no error.
Accepted(c) == c = "good" \/ (c = "odd" /\ call.client \in {"arxiv", "crawl4ai", "docling"})

\* Only the first body is kept.
WrongKept(c) ==
  /\ body = 0
  /\ Accepted(c) \/ (call.client \in {"crawl4ai", "docling"} /\ c \in Statuses)

\* The readers keep every body they have read, for the message of the error.
Kept(c) ==
  \/ Accepted(c)
  \/ call.client \in {"crawl4ai", "docling"} /\ c \in Statuses

\* Requests go on although the context is done.
WrongOutcomes ==
  IF call.target = "unbuildable"
  THEN {IF call.client = "crawl4ai" THEN "permanent" ELSE "broken"}
  ELSE Possible[call.client]

\* A context that is done stops every client but a function that ignores it;
\* reddit's limit is known to its client, which may refuse without a request.
\* A URL that cannot be built fails in the attempt, for crawl4ai permanently.
Outcomes ==
  IF call.target = "unbuildable"
  THEN {IF call.client = "crawl4ai" THEN "permanent" ELSE "broken"}
  ELSE IF cancelled /\ call.client # "do"
  THEN {"broken"} \cup (Possible[call.client] \cap {"limited"})
  ELSE Possible[call.client]

Init ==
  /\ call \in Calls /\ cancelled \in BOOLEAN
  /\ pc = "begin" /\ delay = 0 /\ body = 0 /\ result = "none"
  /\ replies = <<>> /\ waits = <<>>

-----------------------------------------------------------------------------
End(r) == result' = r /\ pc' = "done"

\* The run is cut off, by a signal.
Cancel ==
  /\ ~cancelled /\ cancelled' = TRUE
  /\ UNCHANGED <<call, pc, delay, body, result, replies, waits>>

\* What is checked in front of the loop.
Rejected ==
  \/ call.target = "unfit"
  \/ call.target = "unbuildable" /\ call.client \in {"arxiv", "docling"}

Begin ==
  /\ pc = "begin"
  /\ IF Rejected THEN End("error") ELSE pc' = "send" /\ UNCHANGED result
  /\ delay' = BaseDelay
  /\ UNCHANGED <<call, cancelled, body, replies, waits>>

\* exponentialBackoff, from 200 ms to 2 minutes.
Backoff(n) == Lesser(BaseDelay * PowerOfTwo[n - 1], 2400)

\* The jitter is added after the cap.
WrongWaitsAfter(r) ==
  LET n == Len(replies) + 1 IN
  IF ~Reddit THEN {delay + j : j \in 0 .. Jitter - 1}
  ELSE IF r.hint > 0 THEN {r.hint}
  ELSE {Backoff(n)}

\* How long to wait after a reply.  Reddit's hint (Retry-After, or the reset
\* of its limit) is taken as it is; Do adds the jitter and then caps.
WaitsAfter(r) ==
  LET n == Len(replies) + 1 IN
  IF ~Reddit THEN {Lesser(delay + j, MaxDelay) : j \in 0 .. Jitter - 1}
  ELSE IF r.hint > 0 THEN {r.hint}
  ELSE IF r.class = "token" THEN {IF Backoff(n) > 300 THEN Backoff(n) ELSE 300}
  ELSE {Backoff(n)}

Reply ==
  {r \in [class : Outcomes, hint : Hints \cup {0}] :
     r.hint # 0 => Reddit /\ r.class \in {"limited", "busy"}}

\* One attempt, and what is done about its reply.  The answer is taken apart
\* behind the loop (parseFeed, extractMarkdown, extractContent).
Send ==
  /\ pc = "send"
  /\ \E r \in Reply :
       /\ replies' = Append(replies, r)
       /\ body' = IF Kept(r.class) THEN Len(replies') ELSE body
       /\ \/ /\ Accepted(r.class)
             /\ End(IF r.class = "good" THEN "answer" ELSE "error")
             /\ UNCHANGED waits
          \/ /\ ~Accepted(r.class)
             /\ r.class \notin Retried[call.client] \/ Len(replies') = Attempts
             /\ End("error")
             /\ UNCHANGED waits
          \/ /\ r.class \in Retried[call.client] /\ Len(replies') < Attempts
             /\ \E w \in WaitsAfter(r) : waits' = Append(waits, w)
             /\ pc' = "wait" /\ UNCHANGED result
  /\ UNCHANGED <<call, cancelled, delay>>

\* The timer fires.  It may win although the context is done: select picks
\* among what is ready.
Wake ==
  /\ pc = "wait" /\ pc' = "send"
  /\ delay' = Lesser(2 * delay, MaxDelay)
  /\ UNCHANGED <<call, cancelled, body, result, replies, waits>>

\* The context is done during the wait.
Abort ==
  /\ pc = "wait" /\ cancelled
  /\ End("cancelled")
  /\ UNCHANGED <<call, cancelled, delay, body, replies, waits>>

Step == Begin \/ Send \/ Wake \/ Abort
Next == Step \/ Cancel

Spec == Init /\ [][Next]_vars

\* Goroutines are scheduled, timers fire, and requests end: the clients have
\* time-outs (10 s, and 60 s for the readers).
FairSpec == Spec /\ WF_vars(Step)
-----------------------------------------------------------------------------
(* Properties *)

Class(k) == replies[k].class
ToRetry(k) == Class(k) \in Retried[call.client]

(***************************************************************************)
(* An answer is the content of the last reply, and of no reply before it   *)
(* that was rejected, although the readers keep those too; the requests    *)
(* before it all failed in a way that is worth another attempt.  There are *)
(* no more requests than attempts (three for every source), and a refusal  *)
(* that is final is not asked for again.                                   *)
(***************************************************************************)
AnswerIsLast ==
  /\ Len(replies) <= Attempts
  /\ \A k \in 1 .. Len(replies) - 1 : ToRetry(k)
  /\ result = "answer" => body = Len(replies) /\ Class(body) = "good"

(***************************************************************************)
(* A call gives up late: an error means that no request could be made,     *)
(* that the last reply was not worth another attempt, or that all attempts *)
(* were used up; a cancellation during a wait is reported as such, and     *)
(* only then.  One failed request alone never costs a post its content.    *)
(***************************************************************************)
GivesUpLate ==
  LET n == Len(replies) IN
  /\ result = "error" =>
       IF n = 0 THEN call.target # "fit" ELSE ~ToRetry(n) \/ n = Attempts
  /\ result = "cancelled" => cancelled /\ n < Attempts /\ Len(waits) = n

\* An answer, an error and a cancellation come only as they should.
ResultEarned == AnswerIsLast /\ GivesUpLate

(***************************************************************************)
(* docs/mvp.md has "exponential backoff": the n-th wait is the n-th power  *)
(* of the base up to the cap, with the jitter on top if there is room for  *)
(* it.  If reddit says how long to wait, the next request does not come    *)
(* before that, whatever the cap.                                          *)
(***************************************************************************)
WaitsAsAsked ==
  \A k \in DOMAIN waits :
    LET doubled == BaseDelay * PowerOfTwo[k - 1]  asked == replies[k].hint IN
    IF ~Reddit
    THEN /\ waits[k] >= Lesser(doubled, MaxDelay)
         /\ waits[k] <= Lesser(doubled + Jitter - 1, MaxDelay)
    ELSE /\ waits[k] >= asked
         /\ asked = 0 => waits[k] >= Lesser(doubled, 2400)
         /\ asked = 0 /\ Class(k) # "token" => waits[k] <= 2400

(***************************************************************************)
(* To a source a call is that of module Reading: it ends, and brings no    *)
(* answer once the context is done.  (A function that ignores the context  *)
(* may.)                                                                   *)
(***************************************************************************)
Promise ==
  INSTANCE Reading WITH
    Caller <- {"call"},
    cancelled <- cancelled /\ call.client # "do",
    reading <- [c \in {"call"} |-> IF result = "cancelled" THEN "error" ELSE result]
KeepsReading == Promise!Spec
=============================================================================
