------------------------------- MODULE PostLLM ------------------------------
(***************************************************************************)
(* One post on its way through the LLM processors of a flow: evaluateOne   *)
(* of internal/processors/quality/llm.go and summarizeOne of               *)
(* internal/processors/summary/llm.go with the captions, the repetition of *)
(* answers that are no JSON, the images that turn out to be missing and    *)
(* the chunks of long posts (internal/processors/llmutil).  This is what   *)
(* BlockPool takes as one step; posts do not share any of it.              *)
(***************************************************************************)
EXTENDS Integers, Sequences, SequencesExt, FiniteSets

CONSTANTS
  Url,      \* URLs of images
  NoUrl,    \* the URL of an image that is sent as data
  Unnamed,  \* a URL in an error that is no image's, or none at all
  Setups    \* the posts and processors explored, a subset of Setup

(***************************************************************************)
(* Scores and thresholds count halves: a threshold of 0 means 1/2.         *)
(***************************************************************************)
Step ==
  [kind : {"quality"}, images : {"off", "caption", "multimodal"}, maxImages : Nat,
   retries : Int, threshold : Nat]
  \cup
  [kind : {"summary"}, images : {"off", "caption", "multimodal"}, maxImages : Nat,
   chunkTemplates : BOOLEAN]
Setup == [steps : Seq(Step) \ {<<>>}, images : Seq(Url \cup {NoUrl}), chunks : Nat,
          plan : {"full", "per_chunk", "map_reduce"}]

ASSUME PostLLMAssumption ==
  /\ Setups \subseteq Setup
  /\ NoUrl \notin Url /\ Unnamed \notin Url \cup {NoUrl}

VARIABLES
  setup,
  step,      \* the processor the post is at
  pc,        \* "begin", "caption", "chunk" or "call" in a step; "through",
             \* "below" (its score), "error" when the post is done with
  left,      \* the images of the request, as indices
  attempt,   \* ChatCompletionWithRetries' attempt
  score,     \* the score in evaluateOne's local parsed
  captioned, \* images with WasSummarised
  chunk,     \* how many chunks this step has summarised
  summarised,   \* the step that wrote the summary of each chunk; 0 for none
  quality, summary,  \* block.Quality and the step it is by; the step that
                     \* wrote block.Summary; 0 for none
  calls,     \* history: chat requests of this step
  captions,  \* history: how often each image was captioned
  answers,   \* history: the answers of this step, in order
  reported   \* history: URLs reported missing in this step, in order

vars == <<setup, step, pc, left, attempt, score, captioned, chunk, summarised,
          quality, summary, calls, captions, answers, reported>>
post == <<captioned, summarised, quality, summary>>
request == <<left, attempt, score>>
history == <<calls, answers, reported>>

Image == DOMAIN setup.images
Chunk == 1 .. setup.chunks
Current == setup.steps[step]
UrlsOf(s) == {setup.images[i] : i \in ToSet(s)} \ {NoUrl}

\* CollectImageBlocks with max_images, 0 for no limit.
Collected ==
  LET all == [i \in Image |-> i] IN
  IF Current.maxImages > 0 /\ Len(all) > Current.maxImages
  THEN SubSeq(all, 1, Current.maxImages) ELSE all

\* The step summarises the chunks of the post; it then sends no images.
InChunks == Current.kind = "summary" /\ setup.plan \in {"per_chunk", "map_reduce"}

\* A post may have been captioned in the run whose snapshot was restored.
Init ==
  /\ setup \in Setups
  /\ step = 1 /\ pc = "begin"
  /\ left = <<>> /\ attempt = 0 /\ score = 0
  /\ captioned \in {{}, Image}
  /\ chunk = 0 /\ summarised = [i \in Chunk |-> 0]
  /\ quality = [by |-> 0, score |-> 0] /\ summary = 0
  /\ calls = 0 /\ answers = <<>> /\ reported = <<>>
  /\ captions = [i \in Image |-> 0]

-----------------------------------------------------------------------------
\* The error goes to the batch, which drops the post or fails the run.
Fail == pc' = "error" /\ UNCHANGED step

\* The state carries over to the next processor.
Proceed ==
  IF step < Len(setup.steps) THEN pc' = "begin" /\ step' = step + 1
                             ELSE pc' = "through" /\ UNCHANGED step

\* The score of the step before is still there.
WrongBegin ==
  /\ pc = "begin"
  /\ pc' = "caption" /\ chunk' = 0
  /\ left' = IF Current.images = "multimodal" /\ ~InChunks THEN Collected ELSE <<>>
  /\ attempt' = 0 /\ UNCHANGED score
  /\ calls' = 0 /\ answers' = <<>> /\ reported' = <<>>
  /\ UNCHANGED <<setup, step, post, captions>>

\* The locals of the step.
Begin ==
  /\ pc = "begin"
  /\ pc' = "caption" /\ chunk' = 0
  /\ left' = IF Current.images = "multimodal" /\ ~InChunks THEN Collected ELSE <<>>
  /\ attempt' = 0 /\ score' = 0
  /\ calls' = 0 /\ answers' = <<>> /\ reported' = <<>>
  /\ UNCHANGED <<setup, step, post, captions>>

ToCaption ==
  IF Current.images = "caption" THEN ToSet(Collected) \ captioned ELSE {}

\* EnsureImageCaptions; with max_concurrency the order is open, see BlockPool.
Caption ==
  /\ pc = "caption"
  /\ \E i \in ToCaption :
       /\ captions' = [captions EXCEPT ![i] = @ + 1]
       /\ calls' = calls + 1
       /\ \/ captioned' = captioned \cup {i} /\ UNCHANGED <<pc, step>>
          \/ Fail /\ UNCHANGED captioned
  /\ UNCHANGED <<setup, request, chunk, summarised, quality, summary, answers,
                 reported>>

Captioned ==
  /\ pc = "caption" /\ ToCaption = {}
  /\ IF ~InChunks THEN pc' = "call" /\ UNCHANGED step
     ELSE IF setup.chunks = 0 \/ ~Current.chunkTemplates THEN Fail
     ELSE pc' = "chunk" /\ UNCHANGED step
  /\ UNCHANGED <<setup, post, request, chunk, captions, history>>

\* The last chunk is left out.
WrongSummarizeChunk ==
  /\ pc = "chunk"
  /\ chunk' = chunk + 1 /\ calls' = calls + 1
  /\ summarised' = [summarised EXCEPT ![chunk + 1] = step]
  /\ IF chunk + 2 < setup.chunks THEN UNCHANGED <<pc, step>>
     ELSE IF setup.plan = "per_chunk" THEN Proceed
     ELSE pc' = "call" /\ UNCHANGED step
  /\ UNCHANGED <<setup, request, captioned, quality, summary, captions, answers,
                 reported>>

\* One chunk after the other; what the first ones got stays if a later fails.
SummarizeChunk ==
  /\ pc = "chunk" /\ calls' = calls + 1
  /\ \/ /\ chunk' = chunk + 1
        /\ summarised' = [summarised EXCEPT ![chunk + 1] = step]
        /\ IF chunk + 1 < setup.chunks THEN UNCHANGED <<pc, step>>
           ELSE IF setup.plan = "per_chunk" THEN Proceed
           ELSE pc' = "call" /\ UNCHANGED step
     \/ Fail /\ UNCHANGED <<chunk, summarised>>
  /\ UNCHANGED <<setup, request, captioned, quality, summary, captions, answers,
                 reported>>

-----------------------------------------------------------------------------
(* The request of the step and its answers *)

\* No retries means three of them, and less than none means none.
Retries == IF Current.retries = 0 THEN 3 ELSE Current.retries

\* A summary is never asked for again: it has nothing to decode.
Attempts == IF Current.kind = "summary" \/ Retries < 0 THEN 1 ELSE Retries + 1

Threshold == IF Current.threshold = 0 THEN 1 ELSE Current.threshold

\* Any image will do.
WrongDropImageByURL(s, u) == Tail(s)

\* The first image with that URL.
DropImageByURL(s, u) ==
  LET i == SelectInSeq(s, LAMBDA k : setup.images[k] = u) IN RemoveAt(s, i)

\* The request failed since the provider could not fetch u; it is sent again
\* without it, with all its attempts.
ImageMissing(u) ==
  /\ pc = "call" /\ u \in UrlsOf(left)
  /\ left' = DropImageByURL(left, u)
  /\ attempt' = 0 /\ calls' = calls + 1
  /\ reported' = Append(reported, u)
  /\ UNCHANGED <<setup, step, pc, score, chunk, post, captions, answers>>

\* Any other error; it may name an image, but none of the request's.  A
\* template that fails is counted as a request.
CallFails ==
  /\ pc = "call" /\ Fail
  /\ calls' = calls + 1
  /\ \/ UNCHANGED reported
     \/ \E u \in (Url \cup {Unnamed}) \ UrlsOf(left) : reported' = Append(reported, u)
  /\ UNCHANGED <<setup, chunk, request, post, captions, answers>>

\* A summary takes any answer.
Summarized ==
  /\ summary' = step /\ Proceed
  /\ calls' = calls + 1
  /\ UNCHANGED <<setup, request, captioned, chunk, summarised, quality, captions,
                 answers, reported>>

SummarizeFull ==
  pc = "call" /\ Current.kind = "summary" /\ ~InChunks /\ Summarized

\* Behind the chunks, with their summaries in the prompt.
SummarizeMapReduce ==
  pc = "call" /\ Current.kind = "summary" /\ InChunks /\ Summarized

\* A quality answer gives a score or none (-1).  json.Unmarshal fills in what
\* fits even if the answer as a whole is not sound, and leaves the rest alone;
\* what is not JSON at all gives nothing.
Answer == [score : -1 .. 2, sound : BOOLEAN]
Filled(a) == IF a.score = -1 THEN score ELSE a.score

\* The last attempt's answer is part of the error, and if it reads like a
\* report of u the request is sent again without u.
LastUnsound(u) ==
  /\ u \in UrlsOf(left)
  /\ left' = DropImageByURL(left, u)
  /\ attempt' = 0 /\ reported' = Append(reported, u)
  /\ UNCHANGED <<pc, step>>

\* Attempts are not counted.
WrongAnswerUnsound(a) ==
  /\ pc = "call" /\ Current.kind = "quality" /\ ~a.sound
  /\ UNCHANGED <<pc, step, attempt>>
  /\ score' = Filled(a)
  /\ answers' = Append(answers, a) /\ calls' = calls + 1
  /\ UNCHANGED <<setup, left, post, chunk, captions, reported>>

AnswerUnsound(a) ==
  /\ pc = "call" /\ Current.kind = "quality" /\ ~a.sound
  /\ \/ /\ attempt + 1 < Attempts /\ attempt' = attempt + 1
        /\ UNCHANGED <<pc, step, left, reported>>
     \/ /\ attempt + 1 >= Attempts
        /\ \/ Fail /\ UNCHANGED <<attempt, left, reported>>
           \/ \E u \in Url : LastUnsound(u)
  /\ score' = Filled(a)
  /\ answers' = Append(answers, a) /\ calls' = calls + 1
  /\ UNCHANGED <<setup, post, chunk, captions>>

\* A post below the threshold goes no further.
AnswerSound(a) ==
  /\ pc = "call" /\ Current.kind = "quality" /\ a.sound
  /\ score' = Filled(a)
  /\ quality' = [by |-> step, score |-> Filled(a)]
  /\ IF Filled(a) >= Threshold THEN Proceed ELSE pc' = "below" /\ UNCHANGED step
  /\ answers' = Append(answers, a) /\ calls' = calls + 1
  /\ UNCHANGED <<setup, left, attempt, captioned, chunk, summarised, summary,
                 captions, reported>>

Next ==
  \/ Begin \/ Caption \/ Captioned \/ SummarizeChunk
  \/ \E u \in Url : ImageMissing(u)
  \/ CallFails \/ SummarizeFull \/ SummarizeMapReduce
  \/ \E a \in Answer : AnswerUnsound(a) \/ AnswerSound(a)

Spec == Init /\ [][Next]_vars

-----------------------------------------------------------------------------
(* Properties *)

\* How many members of a set, and entries of a sequence, are u.
Among(S, u) == Cardinality({i \in S : setup.images[i] = u})
Reports(u) == Cardinality({k \in DOMAIN reported : reported[k] = u})

(* A post is salvaged from missing images: a request goes without exactly  *)
(* the images reported, one for each report, and an image sent as data is  *)
(* never left out.                                                         *)
LeavesOutOnlyMissing ==
  pc = "call" /\ Current.images = "multimodal" /\ ~InChunks =>
    \A u \in Url \cup {NoUrl} :
      Among(ToSet(Collected) \ ToSet(left), u) = Reports(u)

(* A step makes a bounded number of chat requests: Attempts for each set   *)
(* of images, and no image is captioned twice, not even by another step.   *)
CallsBounded ==
  /\ pc # "begin" =>
       calls <= (IF Current.images = "caption" THEN Len(Collected) ELSE 0)
                + (IF InChunks THEN setup.chunks ELSE 0)
                + Attempts * (1 + Len(reported))
  /\ \A i \in Image : captions[i] <= 1
  /\ Len(reported) <= Len(setup.images) + 1

(* The variables have their types; requests name images of the post, each *)
(* once, and there are no more of them than there should be.               *)
TypeOK ==
  /\ setup \in Setups /\ step \in 1 .. Len(setup.steps)
  /\ pc \in {"begin", "caption", "chunk", "call", "through", "below", "error"}
  /\ left \in Seq(Image) /\ IsInjective(left)
  /\ attempt \in Nat
  /\ pc = "call" => attempt < Attempts
  /\ score \in 0 .. 2
  /\ captioned \subseteq Image
  /\ chunk \in 0 .. setup.chunks
  /\ summarised \in [Chunk -> 0 .. Len(setup.steps)]
  /\ quality \in [by : 0 .. Len(setup.steps), score : 0 .. 2]
  /\ summary \in 0 .. Len(setup.steps)
  /\ calls \in Nat /\ captions \in [Image -> Nat]
  /\ answers \in Seq(Answer) /\ reported \in Seq(Url \cup {Unnamed})
  /\ CallsBounded

(* A verdict rests on an answer of its own step: the score is the one that *)
(* was given last in this step, and 0 if none was given, whatever other    *)
(* steps got.                                                              *)
VerdictIsAnswered ==
  [][quality' # quality =>
       LET given == SelectLastInSeq(answers', LAMBDA a : a.score # -1) IN
       /\ Last(answers').sound
       /\ quality'.score = IF given = 0 THEN 0 ELSE answers'[given].score]_vars

(* A post leaves a step for the next one only with what the step is for:   *)
(* a verdict that is not below the threshold; a summary and the summaries  *)
(* of all its chunks, as its plan says, made by this step.                 *)
StepComplete ==
  [][step' # step \/ (pc' = "through" /\ pc # "through") =>
       IF Current.kind = "quality"
       THEN quality'.by = step /\ quality'.score >= Threshold
       ELSE /\ setup.plan # "per_chunk" => summary' = step
            /\ InChunks => \A i \in Chunk : summarised'[i] = step]_vars
=============================================================================
