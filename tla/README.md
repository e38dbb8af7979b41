# Curator in TLA+

TLA+ models of *Curator*, the Go program under `src/`: it reads posts from
sources (RSS, Reddit, arXiv, scraped pages), has an LLM judge and summarise
them, and mails the digest, on a cron schedule. The models are about what is
hard to test there: restores in the middle of a pipeline, several runs at work
on the same snapshot files and the same table of seen posts, worker pools with
their error channel, posts that are marked as seen long before they are mailed,
the shutdown. TLC checks them on small instances; TLAPS
proves every safety property of the passing runs for every instance.

1. [The system](#1-the-system)
2. [Modules and code](#2-modules-and-code)
3. [Runs](#3-runs)
4. [Fairness](#4-fairness)
5. [Proofs](#5-proofs)
6. [Where code and docs disagree](#6-where-code-and-docs-disagree)
7. [Not modelled](#7-not-modelled)
8. [Plan](#8-plan)

`tlc -config MCRunner_restore.cfg MCRunner` runs a model, `tlapm
RunnerProofs.tla` checks proofs. `PROJECT.json` lists, for every definition, the
lines of `src/` it models; for every property a mutant, a plausible mistake in
a definition that makes the property fail; and the hazards of the code.

## 1. The system

| part | state it keeps | operations | what is hard | what makes it correct |
|---|---|---|---|---|
| **Flow runner** `runner/runner.go` | locals of `RunOnce`: blocks, run summary, place in the flow | `RunOnce`: five stages of processors; `Start`, `listen` | a restore may stand at any place of any stage; three places to end early; two listeners run one flow | every processor that takes part runs once, in order; what a restore replaces; no empty or incoherent digest; a run ends |
| **Snapshots** `runner/snapshot` | JSON files | `Save`, `Load`, wrappers | files survive the process, are shared by runs, and are truncated before they are written | a file nobody is writing holds the last snapshot, whole |
| **LLM batches** `processors/quality/llm.go`, `summary/llm.go`, `llmutil/images.go` | results by index, semaphore, `errCh`, derived context | one batch, sequential or concurrent | first error wins and cancels the others; loop may be left early; the caller cancels | max_concurrency; no goroutine outlives the call; the error is genuine; the same result as one call after the other |
| **Posts in LLM processors** `processors/quality/llm.go`, `summary/llm.go`, `llmutil` | the post's verdict, summary, captions, chunk summaries; locals of a request | captions, attempts at invalid JSON, requests without missing images, chunks | rejected answers leave their mark in the decoded variable; errors are told apart by their text; several processors share the post | verdicts rest on answers of their own step; only missing images left out; bounded requests; no post goes on half done |
| **Scheduling** `processors/trigger/cron.go`, `runner.listen`, `cmd/curator/main.go` | channel of capacity 1 per trigger, cron scheduler, contexts | tick, send, stop, receive, signal | ticks during a run; a send while the channel is closed; a failed run; a trigger that cannot be started | no tick lost, no panic, a failed run does not end the flow |
| **Sources** `sources/*/processor.go` | local maps of a fetch | `Fetch` over feeds, pages, posts | several fetches share a store; a feed fails when others were read | no post twice, no post lost, limits, termination |
| **Seen store** `dedupe/sqlite.go` | table id -> time | `HasSeen` (with expiry), `MarkSeen` | separate statements; expiry; failures; restarts | what was marked is skipped until it expires |
| **Documents to flows** `config`, `runner/factory`, `main.go` | the factory and its store, flow ids, flows | load, validate, build, `-run-once` | one factory for all documents; constructor errors nobody looks at; a document that fails behind others that do not | all documents or none; nothing of a document dropped; its own store; ids; every flow run |
| **Calls to services** `retry`, fetchers of rss, scrape, arxiv, reddit, readers crawl4ai and docling | locals of a call: attempt, delay, the last body | `Do`, `doWithRetry`, `Search`, `Read` | attempts, final refusals, hints how long to wait and a cancellation meet in one loop; bodies of rejected attempts are kept | an answer is the last reply; no early giving up; waits as asked for; an end |
| **Email output** `processors/output/email.go`, `outputs/email/smtp` | none | `Deliver`, `Send` with a second try | a failed dialogue is told apart by its text and repeated without credentials | at most one message taken; credentials and TLS as configured |
| **Chunking** `sources/arxiv/chunking.go`, `sources/testfile` | none | split, merge, cut | boundaries | nothing lost or doubled; sizes |
| **From page to mail** (the parts above together) | the table of seen posts, what the servers took | a run, the next run, a signal, the end of the process | a post is marked before it is judged, summarised and mailed; marks and lookups fail once the context is done | a post is lost for a reason; mailed once; cut-off posts come back |
| LLM client, parsing of answers, rendering, telemetry | - | I/O and formatting | - | not modelled, see 7 |

How they interact: `main` parses documents into flows and starts each flow's
triggers. A trigger's scheduler sends ticks on a channel; a listener goroutine
per trigger receives them and *calls* `RunOnce`. `RunOnce` calls the flow's
processors one after the other in its own goroutine: sources (which call the
seen store), LLM processors (which start goroutines of their own for the length
of the call), outputs. Two runs meet in three places: the snapshot files, the
table of seen posts, and the context that a signal cancels.

```
          Startup   documents to flows, -run-once    (FlowDefs: what a flow is)
             |  started flows go on in
          Curator   main, cron triggers, listeners, signal
             |  runs (of both) are those of
          RunLife   the life of a run: stages in order, early ends, failure
             ^  implemented by (FollowsLife)
          Runner    RunOnce, restores, snapshot files
         /      \
   Sources      BlockPool  --implements (KeepsPromise)-->  Batch
   Fetch and    one batch of an LLM processor              what a batch promises
   seen store     |  one of its calls in detail
                PostLLM
                one post through the LLM processors of a flow

          Digest    a post from its page to the mail servers, over runs,
          /  |  \   signals and the end of the process; made of
    RunLife  |   Mail       one delivery and its dialogues
          Reading           what a call to a service promises
             ^  implemented by (KeepsReading)
        ServiceCall         its requests, replies and waits

          Chunking  texts to chunks, as two sources and a tool do it
```

`Runner` treats a processor as a step with any result its contract allows. That
contract is what `Sources` (any set of posts, or an error) and `BlockPool`
(some of the posts, or an error) establish from the processors' own code.
`BlockPool` in turn takes what is done with one post as a step that ends with
the post kept, dropped or in error, as `PostLLM` does with `through`, `below`
and `error`; posts share nothing there.

`Digest` composes the coarse modules: it moves runs with the actions of
`RunLife`, calls with those of `Reading` and deliveries with those of `Mail`,
and adds the table of seen posts, which is where one run acts on the next. The
table is simple there (no expiry, no failing statements but for a context that
is done); `Sources` has these.

## 2. Modules and code

### Runner, RunnerProperties (and MCRunner, RunnerProofs)

`Runner` is `RunOnce` with snapshots. A `Caller` is a goroutine that calls it:
a listener, or the `-run-once` loop. Per caller there are the stage, the index
of the loop (`pos`), the step inside (`pc`: entering the stage, at a processor,
creating or writing a snapshot), the locals `blocks` and `summary`, and the
status of the `core.Run`. `disk` holds the snapshot files, which survive
`Restart`.

* `EnterStage` is the code in front of a stage's loop: `findRestore...` and, if
  it finds something, the load and the start behind it. `SkipAbsent` is the
  `continue` on a nil processor, `RestoreLater` the restore inside the loop.
  The rules by which a load takes over blocks and summary differ per stage in
  the code, and so in `LoadedBlocks` and `LoadedSummary`.
* `FetchSource`, `EvaluateQuality`, `SummarizePosts`, `SummarizeRun`, `Deliver`
  are the bodies of the five loops with their error paths; `LeaveStage` is
  what follows a loop, with `RunOver` for the three checks that end a run early.
* `SaveCreate` and `SaveWrite` are the two halves of `snapshot.Save`, that is of
  `os.WriteFile`: it truncates, then writes. A concurrent writer of a shorter
  content leaves the tail of the longer one (`Garbled`).

Posts are model values, a run summary is identified with the set of posts it
was written about, a snapshot is a pair of both. The order of posts within the
slice and the contents are left out; no property of the runner depends on them.

`trail`, a history variable, records which processors ran and which snapshots
were loaded; `expected` what the last undisturbed save of a file wrote.

A flow is what `FlowDefs` says: five sequences of processors, of which the
runner sees whether they are nil, and their snapshot settings.

### RunLife

The abstract life of a run (begin, next stage, complete, fail, process gone)
with nothing but status and stage. `Runner` implements it; `Curator` is built
on its actions, so that what `Curator` assumes about runs is what `Runner` does.

### Batch, BlockPool (and MCBlockPool, BlockPoolProofs)

`BlockPool` is the loop over a batch that `Evaluate`, `Summarize` and
`EnsureImageCaptions` share in structure: sequential when `max_concurrency` or
the batch is at most 1 (`Sequential`), else a goroutine per post, with the
semaphore channel (`Dispatch`, `Release`), the first error in `errCh`
(`Report`), the cancellation of the rest (`Cancel`), and `wg.Wait` (`Collect`).
`select` between a free place and the cancelled context is a free choice
(`Dispatch` against `LeaveLoop`). `Survivors` is the collection at the end,
which differs between processors: only `Evaluate` filters under `fail`.
`CallerCancels` is the signal. An LLM call is one step with any outcome.

`Batch` states the promise without goroutines; `BlockPool` implements it under
the refinement mapping `Promise`, where a post whose call was cancelled counts
as not judged.

### PostLLM (and MCPostLLM, PostLLMProofs)

One post, and the LLM processors (`setup.steps`) it meets. `Begin` sets up the
locals of `evaluateOne` or `summarizeOne`, `Caption` is `captionOne` for one
image, `SummarizeChunk` one turn of `summarizeChunks`; then comes the request
(`pc = "call"`) and one of the things that may happen to it:

* an error that names an image of the request (`ImageMissing`): without this
  image it is sent again, with all its attempts. `CallFails` is any other error.
* for a quality processor an answer, of which `score` and `sound` matter:
  `AnswerUnsound` cannot be decoded, so it is the next attempt's turn, or the
  end. As in `json.Unmarshal`, a score in it stays in `parsed` (`Filled`), and
  counts if the sound answer has none. The error of the last attempt quotes the
  answer, and so may itself pass for a missing image (`LastUnsound`).
* for a summary any answer (`SummarizeFull`, `SummarizeMapReduce`).

Images are indices with a URL, which several may share. `calls`, `captions`,
`answers` and `reported` are history. Prompts are left out.

### Curator (and MCCurator, CuratorProofs)

`main` (starting the triggers in order, the wait, the 200 ms of grace), the
signal, and for each trigger: its scheduler (`Tick`, `StopCron`, `CloseEvents`),
the jobs that send (`Send`, non-blocking on a channel of capacity 1), and its
listener (`Receive`, `StopListening`, and the run). `due`, a history variable,
says that the schedule came due and no run has begun since.

### Sources (and MCSources, SourcesProofs)

`Fetch` of the four sources, which differ in what the parameters `kind`,
`pages`, `limit` and `store` say: rss and scrape go through several feeds or
pages, keep a local map of posts met, and may fail after having marked posts;
reddit and arxiv take one search; only scrape has a limit and may leave a post
out. The table is `seenAt`. `LookUp` is the SELECT of `HasSeen`, `Expire` its
separate DELETE of an entry that is too old, `Mark` the upsert of `MarkSeen`;
the store has one connection, so statements are atomic and interleave. When
`world.fails`, any statement may fail (a busy or closed database, a cancelled
context); the code then takes the post as unseen. `Restart` kills all fetches;
the table is in a file.

### Startup (and MCStartup, StartupProofs)

`main` from its flags to the runs. `Load` reads the documents, `Reject` and
`BuildFlow` are `ParseToFlowWithFactory` for one document: `Valid`, then
`ConfigureDedupeStore`, which closes the store of the document before (under the sources that have
it, see 6), then the builders (`BuildStages`), then the id. `StartFlow` stands for `Runner.Start`, of
which `Curator` has the detail; `BeginRun`, `RunStage`, `EndRun` and `Leave` are
the run-once loop, on the actions of `RunLife`.

An entry of a document maps every variant its section knows to a part or `Nil`,
as the YAML structs do with their pointers. Of a part only its fate matters:
`Validate` rejects it, its constructor fails on it, or it is good; and its
snapshot settings, which the runner will obey. `open` holds the stores that are
open, each named by the document it was opened for. Names are sequences of
words as `slugify` separates them, so that a suffix is one more word.

### Reading, ServiceCall (and MCServiceCall, ServiceCallProofs)

`Reading` is what a source relies on when it calls a service: the call ends,
with an answer or an error, and never with an answer once the context is done.
`ServiceCall` is one call of one client (`call.client`) down to the requests:
`Begin` has the checks in front of the loop, `Send` is one attempt with all
that is done about its reply, `Wake` and `Abort` are the two cases of the
`select` on the timer and the context. Six clients use `retry.Do`, reddit has
`doWithRetry`; the client `do` is `retry.Do` with any configuration and a
function that ignores the context. Replies are classes: `Possible` says which
a client can meet, `Retried` after which it tries again, `Accepted` which end
its loop. The readers store every body they read in a variable outside the
attempt; `body` is the number of the request it is from, so that an answer
made of an old body would show. Time counts units of 50 ms.

### Mail

One delivery: `Compose` is `Deliver` up to `Send` and the checks of the
addresses, `Dial` one dialogue (`sendWithAuth`), `ToleratesNoAuth` the condition
for the second one. A dialogue ends in one of four ways: the message was taken;
it was taken but the end of the dialogue failed (`late`); it was refused; or
the server knows no AUTH. `wire` has the dialogues of the delivery.

### Digest (and MCDigest, DigestProofs)

`at[c]` is where the run of a caller is: at a page, at the comments of its
posts, at an item, at the read of its content, at its mark, at a stage or at
an output. `TakePage` to `FetchEnds` are `Fetch` (which steps there are, and
what a failed read means, depends on `setup.source`), `FetchFails` is the error
with and without `allow_partial_source_errors`, `LeaveSources`, `Process` and
`ProcessFails` are the stages, `Delivered` and `NotDelivered` follow a delivery.
`Begin` is possible after `Signal`, as in `listen`; then every lookup and mark
fails, every call is an error and every dialogue is refused. `Restart` may come
at any point. `log` is history: what each run marked, lost to the signal and
dropped, and what each output's server took.

### Chunking (and MCChunking, SourcesProofs)

A text is a sequence of lines. A line has a kind, some white space before and
behind it (`lead`, `trail`), characters between, some of which may be white space
too (`gaps`), and if it is a heading, the characters `normalizeHeading` takes from
it (`marks`) and whether it says "Abstract". The two loops are recursive functions:
`SplitUpTo` is what `splitSections` has after each line (the lines in its buffer,
the sections so far), `MergedUpTo` what `mergeSmallSections` has after each
section. `CutBySize` gives ranges of characters, `Chunks` is `chunkArxivContent`;
the four actions are its users.

`buildChunkText` has a say in what is lost. It writes no title above a section
whose title is "Abstract" (`SectionChunk`), and trims what it writes: a range loses
the white space at its borders, and all of itself if it is nothing else
(`TrimRange`, with `Ink` the characters that are no white space). The testfile
source cuts without trimming. So `NothingLostInChunks` asks for every line but the
headings `LeftOut`, and for the characters `ToKeep`; the ranges of `SizesKept` are
measured as they are, trimmed.

A chunk names the lines or characters it stands for, so what is lost, doubled or
moved shows. Names begin with `Paper`, or differ from those of `Sources`, since
the proofs about the two are in one module.

## 3. Runs

| run | asks | bounds | result |
|---|---|---|---|
| `restore` | is every run orderly, complete and coherent, wherever restores stand and whatever the file holds? are files intact, and runs those of `RunLife`, when two runs share a file and the process may die? | 2 callers, 1 run each, 1 post, 14 flows beside an idle one, 5 pairs of flows on one file, 5 file contents | holds |
| `promise` | does a batch keep `Batch`'s promise, sequential or concurrent, cancelled or not, and return? | 0-3 posts, limits 0-3, 5 processor and policy pairs | holds |
| `ticks` | is every tick answered, without a panic, with failing runs and a signal at any moment? | 2 triggers, 2 ticks each, 3 plans | holds |
| `seen` | does a fetch take each new post once and none that was marked, within its limit, and end? | 2 fetchers, 1 fetch each, 2 posts, 2 listings, 3 instants, ttl 1, 6 pairs of sources | holds |
| `answers` | what may be said of a post's verdict, summary and images, and of the number of requests, whatever the model answers? | 1 or 2 processors (5 flows), 0-3 images (4 lists), 0, 1 or 3 chunks, 3 plans, 3 scores | holds |
| `documents` | what becomes of a directory: a whole start or none, faithful flows, own stores, every flow run once? | 0-3 documents of 16 kinds | holds |
| `requests` | does a call answer with its last reply only, give up late, and wait as long as it is asked to? is it a call of `Reading`? | 7 clients, 3 targets, 4 configurations of `retry.Do`, hints of 1 s and 150 s | holds |
| `digest` | which posts reach which server, which are marked and which are lost, when runs fail, are signalled or die? | 2 callers, 2 runs, 2 posts, 4 flows | holds |
| `chunks` | is everything of a text in its chunks, once and in order, and of the right size, but for what the code leaves out? | texts of up to 6 lines (4 kinds) or 3 lines (11 kinds), 2 abstracts, 10 settings | holds |
| `lost` | does a batch that returns no error under `fail` have judged every post? | as `promise` | violated, see 6 |
| `race` | do fetches side by side skip what was marked? | 3 fetchers, 1 post | violated, see 6 |
| `stores` | are the stores of all flows open when flows are run? | as `documents`, up to 2 | violated, see 6 |

Why these bounds show the interesting cases:

* `restore`: the flows have a restore first, last, alone, twice, in front of
  and behind other processors, in every stage; the files hold a digest, posts
  only, no posts, a summary about none, or are missing. One post suffices: a
  replaced set of posts, or a summary about another set, differs from the right
  one by a post that is in one of them. The pairs on one file make a second save
  over a first one, two writers of one file, a loader between truncation and
  write, a crash in each of these places, and a life of the process after it in
  which the other caller still has its run. With `AllowPartial` the one exception
  of `RunsExactly` would hide a source left out, so it is off; the theorems are
  about both.
* `promise`: three posts and two places have a waiting post, a running one and
  a failing one at the same time; limits of 0 and 1 and batches of 0 and 1 take
  the sequential path.
* `ticks`: two ticks fill the channel while a run is under way; the second
  trigger can be rejected after the first is running.
* `seen`: with a ttl of 1, entries of age 0, 1 (still valid) and 2 (expired)
  occur. A page may list a post twice, two pages the same post. One fetch each
  is enough for a second fetch after a first one, or side by side with it, with
  restarts in between.
* `answers`: retries are switched off, 1, and 3 (the default), a threshold is
  left at its default; an image may be listed twice or sent as data, and cut off
  by `max_images`; two processors of one kind meet the same post.
* `documents`: five sound documents (with and without a store, named like
  another, like its suffixed id, or not at all, and one that fills every
  section) and eleven faulty ones, each with one fault. Three documents are
  needed for a suffixed id to meet a name, and have one before and one behind
  a fault. Two suffice for the store of the first to be closed (`stores`).
* `requests`: a call has at most five attempts, so every sequence of replies is
  explored; the configurations have a cap met in the middle of the jitter, a
  base above the cap, and nothing but defaults; reddit's hints lie below and
  above its cap. The context may be done from the start or at any step.
* `digest`: two runs are one after the other (also over a signal or a restart)
  or side by side; with two posts one can be taken while the other is cut off,
  or seen while the other is new. The flows have every kind of source, with
  and without `allow_partial_source_errors`, two feeds or pages, and outputs of
  which the second may fail: always (a TLS mode that cannot be parsed) or as
  its server likes.
* `chunks`: with lines of 2 and 7 characters and a least size of 7 a section is
  below, at and above the bound; six lines make up to three sections with text,
  so that a merged one may be followed by another. The line of 7 has a gap as wide
  as a range, so ranges begin, end and vanish in white space. That this is so for texts of
  any length is proved (section 5).

`MaxRuns`, `MaxTicks`, `MaxTime`, `MaxFetches` and `MaxDocs` are the only bounds on
counters; deadlock is not checked in runs whose system stops when they are
reached.

## 4. Fairness

Each specification with liveness has weak fairness per goroutine, and none for
what the environment decides.

* `Runner`: `WF(Step(c))`. Goroutines are scheduled by Go. That a processor
  returns is an assumption on services: fetchers set timeouts, the LLM client
  and the mail sender do not. `Begin` and `Restart` are not fair. `RunEnds`
  rests on the loops' own progress.
* `BlockPool`: `WF` of the loop and of the workers together. The assumption is
  again that LLM calls return.
* `Curator`: `WF` of `main`, and per trigger of its cron goroutines and of its
  listener; ticks and the signal are not fair, so `TickServed` is about ticks
  that came.
* `Sources`: `WF(Step(f))`; `Begin`, `Tick` and `Restart` are not fair.
* `ServiceCall`: `WF(Step)`; the clients have time-outs (10 s in the factory's
  fetchers, 60 s in the readers by default), timers fire. The cancellation is
  not fair.
* `Digest`: none. A delivery or a request to the model may wait for ever, so
  nothing is claimed to happen, only what may not.

## 5. Proofs

Each `...Proofs` module has the theorems about one component, for every value of
its constants: any number of callers, posts, documents, attempts, any flow. The
runs of section 3 check the same formulas on small instances; every inductive
invariant below was first checked by TLC on the instances of its component's run.

| theorem | states |
|---|---|
| `RunnerProofs!RunnerTypeCorrect` | `TypeOK` |
| `RunnerProofs!TrailInOrder` | `OnceInOrder`: no processor twice, none before one that ran |
| `RunnerProofs!RunsAreExact` | `RunsExactly`: none that takes part left out, none run that a restore stands in for |
| `RunnerProofs!RestoresReplace` | `RestoreReplaces`: what a restore brings replaces what the run had |
| `RunnerProofs!OutputsGetWholeDigests` | `DigestsWhole`: coherent, the same for all outputs, not empty |
| `RunnerProofs!SnapshotsStayIntact` | `SnapshotIntact`: a file nobody writes holds the last save |
| `RunnerProofs!RunnerFollowsLife` | `FollowsLife`: `Runner` implements `RunLife` |
| `CuratorProofs!CuratorTypeCorrect` | `TypeOK` |
| `CuratorProofs!NeverSendsOnClosed` | `NoSendOnClosed` |
| `CuratorProofs!TicksAreKept` | `NoTickForgotten` |
| `CuratorProofs!StartIsWhole` | `AllScheduled`: every trigger that was built is scheduled |
| `BlockPoolProofs!PoolTyped` | `TypeOK`, and with it `max_concurrency` |
| `BlockPoolProofs!NoneLeftBehind` | `NoWorkerOutlives` |
| `BlockPoolProofs!TrueError` | `ErrorIsGenuine` |
| `BlockPoolProofs!PromiseKept` | `KeepsPromise`: `BlockPool` implements `Batch` |
| `PostLLMProofs!RequestsAreBounded` | `TypeOK`, and with it the bound on requests |
| `PostLLMProofs!OnlyMissingLeftOut` | `LeavesOutOnlyMissing` |
| `PostLLMProofs!VerdictsAreAnswered` | `VerdictIsAnswered` |
| `PostLLMProofs!StepsAreComplete` | `StepComplete` |
| `SourcesProofs!SourcesTyped` | `TypeOK`, and with it the limit |
| `SourcesProofs!TakenOnce` | `NoDuplicates` |
| `SourcesProofs!NonePassedUnmarked` | `NothingLost` |
| `SourcesProofs!SeenAreSkipped` | `SkipsSeen` |
| `SourcesProofs!ChunksAreFaithful` | `NothingLostInChunks`: all but headings "Abstract" and white space at the borders of ranges |
| `SourcesProofs!ChunksKeepSizes` | `SizesKept` |
| `StartupProofs!FlowsAreFaithful` | `TypeOK`, and with it that no entry is dropped |
| `StartupProofs!EachItsStore` | `OwnStore`: no store of another document, and the last one open |
| `StartupProofs!IdsUnique` | no two flows have one id, in a directory where no name is another with a number behind it (`NoSuffixedNames`) |
| `StartupProofs!AllOrNothing` | `AllServed` |
| `ServiceCallProofs!Earned` | `ResultEarned` |
| `ServiceCallProofs!WaitsGrow` | `WaitsAsAsked` |
| `ServiceCallProofs!CallIsReading` | the safety part of `KeepsReading`: each step is one of `Reading` |
| `DigestProofs!NothingLostUnseen` | `LostForAReason` |
| `DigestProofs!NoSecondDelivery` | `DeliveredOnce` |
| `DigestProofs!SignalCostsNothing` | `CutOffComesBack` |
| `DigestProofs!MailIsCareful` | `CarefulMail` |
| `DigestProofs!DigestFollowsLife` | the runs of `Digest` are those of `RunLife` |

**Assumptions** are those named in the modules. They say that constants are of
their sets (flows are sequences of processors, documents are documents), that
model values such as `Nil` differ from data, and three things about the code:
a flow of `Digest` has an output (`DigestAssumption`; `Validate` demands it),
rss has no limit on a whole fetch (`SourcesAssumption`; its fetcher cuts each
feed, which is in what a page lists), and
the first process finds each snapshot file missing or sound
(`RunnerAssumption`; later ones may find it in any state the process left it
in). TLC evaluates them in every run of the module.

**Layout.** A proofs module begins with lemmas about operators (what a helper
returns), then has one lemma per action or helper that says what it does to the
state, then the inductive invariant as a conjunction of named parts, a lemma
per action (or kind of step) that it is preserved, and the results at the end.
Action properties are proved as `IInv /\ [Next]_vars => A` from the same
invariant.

### Runner

*Type correctness* is inductive as it stands; the one delicate place is
`LeaveStage`: `stage + 1` is a stage because a run at the output stage is over.

The history properties relate entries of `trail` to each other, and no such
statement is inductive by itself: it does not say where the run is. So each has
a second half about entries and *the run as it is*. A step is first reduced to
one of seven forms (`Fails`, `Starts`, `LoadsAt`, `PassesBy`, `Runs`, `Saves`,
`Leaves`), and these to two: it adds an entry, or it does not.

* `Place`: the run is behind all it has done (`Behind`), is behind the first
  restore of a stage it has entered (`Resumed`), and is at a snapshot
  processor while it saves.
* `History`: entries in order and rightly run; `Coherent`/`CoherentNow` (since a
  summary was written with no load since, it is that of the blocks at hand),
  `Same`/`SameNow`, `Replacing`/`ReplacingNow`, `Filled` (no delivery without
  posts but behind a load at the output stage, for `RunOver` was asked before).
* `Complete`: what the run was to do before its place is in the trail.
* `Files`: a file without writers is as expected (`Intact`), and one whose content
  is known although it is being written is empty, with one writer, who is about
  to write just that (`Undisturbed`).

*Refinement*: each step but `LeaveStage`, `Begin`, the failures and `Restart`
leaves status and stage alone.

### Curator

The three theorems behind type correctness share `IInv`. None is inductive: that
a closed channel has no jobs needs that a stopped scheduler starts none; that a
listener is there for a tick needs that only the context ends listeners, so
that a channel is closed only after the context is done; that an owed tick
belongs to a trigger that was started at all needs what `main` has done.

* `NotYetStarted`: triggers behind `next` are off.
* `Stopping`: a scheduler stops, and a listener goes, only after the context;
  a closed channel has a stopped scheduler and no jobs; a scheduler has a listener.
* `Owed`: a tick that is due has a job or an event left.
* `Started`: triggers before `next` that were built are on, unless main panicked.

### BlockPool

* `TypeOK` has the semaphore equal to the number of goroutines that hold a place;
  `HeldStep` and `CountStep` are the lemmas on cardinalities: one step takes or
  gives back one place, or none.
* `OneByOne`, `Together`: in the sequential and in the concurrent loop, which
  posts have a goroutine, and that a failing one has reported or is about to.
* `Causes`: the context is done because the caller is or an error was reported;
  what is in `errCh` is a failure, and a genuine one unless the caller is done.
* `Answer`: the error returned is that of `errCh` or of the post at hand.

*Refinement*: outcomes map to verdicts, where "cancelled" is not yet judged.
A worker that ends is `Judge`, `Collect` is one of `Batch`'s returns. `Batch`
and `Survivors` order their posts by counting lesser ones (`InOrder`), since what
a `SelectSeq` returns is beyond the provers; `RankTaken` shows, from the
library's facts on injections between finite sets, that this order has no gaps.

### PostLLM

* `Prepared`: what a step begins with; `Counted`: each request so far counts
  against a caption, a chunk, or an attempt for one of the image sets, of which
  there is one more than reports; `Reported`: each report has cost an image.
* `Salvaged`: images in a request are collected ones, and the others those
  reported; with `RemoveAt` a report takes exactly one index away.
* `Spoken`: `parsed`'s score is the one given last in the answers of the step,
  the heart of `VerdictIsAnswered`: answers of other steps are gone by then.
* `CaptionedOnce`, `ChunksDone`: `captions` and `summarised` follow the loops.

### Sources

* `Mapped`: the local map holds all posts taken, and not the one at hand.
* `Accounted`: what was come to is taken, missed, marked, or at hand.
* `Times`: nothing is from the future, and an entry is the last mark or gone.
* `Orderly`, with a working store and one fetch at a time: an entry that is gone
  had expired (`Kept`), and what the fetch knew at its beginning is in the table
  still, or had expired then (`Informed`). `SkipsSeen` follows, since expiry is
  monotonic in the clock.

### Chunking

The proofs are in `SourcesProofs`, since papers are what sources fetch. A call
is one step, so `PaperInv` is no more than the types and the two properties;
what has to be strengthened are the invariants of the loops:

* `ReadSoFar`, after each line: the buffer holds the lines behind the last
  heading; the sections so far are what they should be, in order, and hold every
  line with text before it. At the end `FlushFacts` adds the last section.
* `MergedSoFar`, after each section: the merged ones tell what the sections so
  far tell, in order; each grew only while it was too small (`SmallJoints`), and
  none but the last still is.
* `RangeFacts`: ranges as they are cut follow each other without gaps up to the
  end, and none is longer than the greatest size, by the arithmetic of
  `RangesNeeded`. `TrimFacts`: trimmed, each has all of its characters that are no
  white space, and still lies where it was cut.
* `CharsFacts`, `TrimmedFacts`: what counting characters and trimming blank
  lines do to a sequence of lines; `EndsFacts`, `SizeFacts`: where in a text the
  characters of a line are. `TellingSections`: sections have every line of text,
  and of the headings just those with text.
* `ShownFacts`: a heading a chunk does not show says "Abstract" and stands over
  the first line of the chunk. This needs that a merged section begins like the
  first of those it is made of, the last part of `MergedSoFar`.

### Startup

* `Progress`: how far `main` has come; `OfDocuments`: each flow is that of its
  document, of which `ValidIsBuilt` shows that nothing is dropped.
* `LastStore`: the factory has the store of the last flow, and no other is open.
* `IdsApart`: a name was given out plain and with numbers below its counter, so
  an id may only meet one of another name, which then has a number behind it
  (`ClashOnlyBySuffix`).
* `Runs`: `ran` counts up with `next`.

### ServiceCall

* `Place`: as many waits as replies, all of them worth another attempt.
* `Paced`: `delay` is the base doubled after each wait and capped, which is the
  same as capping the power itself once (`Delayed`).

*Refinement*: `End` maps to `Reading`'s; everything else stutters.

### Digest

An invariant per run, over or not (`Settled`, `Apart`), and one per caller whose
run is not over (`Open`, `Listed`, `Carried`, `Handed`, `Posting`). Steps are
reduced to a few forms (`Reads`, `Takes`, `Marks`, `Moves`, ...).

* `Carried`: what a run marked it has, or has dropped; without a signal it has
  nothing else, and nothing that a run over before it began has marked.
  `DeliveredOnce` needs this and `Settled`: what was given was marked.
* `Handed`: outputs before the one at hand have its posts, those behind nothing.
* `Listed`: what is marked was listed before, so it is never met a second time.

### Data

Three components need induction over data. The library's induction theorems take an
operator as parameter and cannot be used; induction over a *set* of numbers can,
from the well-foundedness of `Nat` (`SetInduction`). With it, `SomeBeginning`,
`BeginningsAgree` and `PowersOfTwo` show that `PowerOfTwo` is a function on `Nat`
that doubles (`ServiceCallProofs`), and `SomePrefixes`, `FlattenIsPrefix` and
`FlattenFacts` what `FlattenSeq` makes of a sequence of sequences
(`StartupProofs`). In `SourcesProofs`, `RecursionExists` shows that a function on
`0 .. n` that is given by a first value and a step exists, for any step that is
a function, and `CountingUp` that what holds at first and is preserved holds at
the end; each loop of `Chunking` is a case of these.

### Only model-checked

* Liveness under fairness (`RunEnds`, `Returns`, `TickServed`, `FetchEnds`, the
  fairness in `KeepsReading`): out of the provers' reach.
* The three properties of section 6, which do not hold.

## 6. Where code and docs disagree

* `lost`: when the process is asked to stop during a batch, the batch returns
  success with posts that were never judged, even under `block_error_policy:
  fail` (`config/schema.go:196`).
* `race`: `HasSeen` may delete an entry that another fetch has renewed since it
  was read (`docs/curator_document_spec.md:67`).
* `stores`: building a document closes the store of the document before, whose
  sources go on with it: they fail to look posts up, and take them again in every
  run (same line of the docs). `OwnStore` says which store a flow has, and that the
  last one stays open.

More were met and have no run of their own:

* Restores are looked at stage by stage, so earlier stages run, and may fail the
  run, before a later stage restores (`docs/curator_document_spec.md:51`: "skip
  upstream work").
* rss and scrape mark post by post, and return no post when a later feed or page
  fails, so these posts are skipped by the next run without ever having been
  emitted (`docs/curator_document_spec.md:67`). `LostForAReason` allows for it
  (`failed`), as for the posts of runs that fail later.
* Names "a", "a" and "a 1" get the ids `a`, `a-1` and `a-1`
  (`cmd/curator/main.go:132`: "ensures flow IDs are unique within a single Curator
  process"; `README.md:61`). `IdsUnique` says in which directories `UniqueFlowIDs`
  holds, and is proved.
* An error with the marker of a missing image but without a usable URL fails the
  post, where `llmutil/images.go:219` has callers "drop *some* image to make
  progress".
* An output with `restore` loads its input and never delivers
  (`docs/curator_document_spec.md:47`; `RunsExactly` says what the code does).
* `RunOnce` never looks at its context between stages
  (`docs/runner_logic.md:342`); `CutOffComesBack` says why that is harmless.
* A rule that does not compile leaves a nil processor, not an error
  (`docs/td.md:207`).

## 7. Not modelled

* What fetchers and readers parse out of an accepted reply (feeds, papers,
  comments, ids): conversions without state. In `ServiceCall` a reply is of use
  or not.
* The LLM client: a wrapper around a service. In `BlockPool` and `PostLLM` a
  request has any answer or error.
* Rendering, templates, environment variables, telemetry: text without state.
* The content of posts, comments, images and web pages; prompts.
* `MarkSeenBatch`, which nothing calls.
* The expression language of quality rules, a library; a rule is a filter.
* The markdown processors beyond what they do to a run's blocks and summary.
* In `Digest`: several sources, snapshots, the expiry of marks; they are in
  `Runner` and `Sources`. In `Mail`: how the library speaks SMTP.

## 8. Plan

Done: `Runner`, `RunLife`, `Batch`, `BlockPool`, `PostLLM`, `Curator`,
`Sources`, `Startup`, `Reading`, `ServiceCall`, `Mail`, `Digest`, `Chunking`; the
theorems of section 5, which state every safety property that a passing run
checks.

To come:

1. *About Mail and Reading*: their properties on their own, so that their
   users can cite them.
2. Shorter proofs where a lemma serves several modules.
