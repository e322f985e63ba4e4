# A verification project for the robot dialogue system

The repository holds two programs: a multi-threaded server in C (`src/Server`), which
takes one request per TCP connection, asks Google Gemini and sends one reply, and a
skill for the Furhat robot in Kotlin (`src/Client`), which greets people, gives them a
personality test and then talks to them with the server's answers. This directory
models both in TLA+, checks the models with TLC, and proves every safety property that
the passing runs check, and that the thread pool implements an abstract work queue, with
TLAPS: for any number of threads, connections, users and turns.

The modules are translated from the code. Paths below are relative to the repository
(`src/`); `file:line` names the code a statement is about.

## The system: inventory

### Server

| Component | State | Operations | What makes it correct |
|---|---|---|---|
| Event loop (`main.c`, `network.c`) | `running`, the listening socket, epoll | `run_server`, `accept_new_connection`, `signal_handler`, `cleanup_server` | every accepted connection gets a worker; a stop signal ends the process |
| Thread pool (`thread_pool.c`) | the slots `threads`, `thread_count`, task list, `queue_size`, `active_threads`, `shutdown`, metrics | `thread_pool_worker`, `thread_pool_add_task`, `thread_pool_auto_scale`, `thread_pool_destroy` | no lost wake-up, no task lost or run twice, slots agree with the living threads, size within limits |
| Sizing rule (in `thread_pool_auto_scale`) | size and load | grow by 50%, shrink by 25% | stays within 4..32, does not flap, reaches its limits |
| Request handler (`network.c`, `protocol.c`) | line buffer, parsed fields, the static position of `strtok` | `receive_line`, `receive_message`, `parse_client_dialog_message`, `send_message` | one reply of an allowed kind, one close, no leak, an end |
| Gemini client (`gemini_ai.c`) | curl handle, headers, body buffer, response | `generate_ai_response`, `call_gemini_api` | everything acquired is released once; only AI text is passed for AI text |
| Start-up (`main.c`, `thread_pool.c`) | resources acquired so far | `init_server`, `thread_pool_create_with_limits` | a failing step gives back everything before it and nothing else |
| Canned responses, helpers (`utils.c`) | a static counter per language | `test_response_*`, `safe_strncpy` | an index within the table |

### Client

| Component | State | Operations | What makes it correct |
|---|---|---|---|
| `SocketClient` (one object, `BackendService`) | `socket`, `writer`, `reader`, `_isConnected`, `message` | `connect`, `startListening`, `sendMessage`, `handleServerMessage`, `disconnect` | a request uses its own connection; every connection is closed |
| Conversation state | `channel`, the turn | `onEntry`, `onResponse` with a 3 s and a 2 s timeout | an answer belongs to its utterance; what the AI is asked contains it; the robot always listens again |
| Skill flow and personality test | Furhat's current state and called state, attended user, `lastLanguage`, responses | `Init`, `Idle`, `Greeting`, `TestStart`, `TestCore`, `TestSkip`, `TestEnd` and the partial states | every question is answered once; the robot looks at someone who is there; a dialogue goes on |
| Personality computation | none | scoring, mirrored vector, displacement | the published score; the mirror on the other side by the same class |

### How they interact

The main thread of the server hands each accepted socket to the pool as a task; pool
and main thread share the task list under `queue_mutex`, and workers sleep on
`queue_cond`. Workers share nothing else, except by accident: `strtok` keeps its place
in a static variable, and the canned responses count in one. The client opens one
connection per utterance; a *sender* and a *listener* coroutine per request share the
fields of the one `SocketClient` with those of the next request, and the answer comes
back to the flow thread through a channel. The skill's states hand the personality from
the test to the conversation; a canned answer of the server turns the client's requests
into test requests for good.

### What is hard here

* signals, spurious wake-ups, cancellation and shutdown meeting on one condition
  variable; threads cancelled while they serve, whose slots are reused;
* a pool that is freed while a cancelled thread may still run;
* two workers inside `strtok` at the same time;
* a start-up that fails half way, with threads already running;
* late answers, and listeners of old requests that clean up a newer connection;
* a history that grows, is cut twice and read while the robot speaks; an AI failure
  whose consequence outlives it;
* users who leave, enter, fall silent or change the language in the middle of the test.

`PROJECT.json` lists each of these under `hazards`, with the properties that cover it.

## Modules

| Module | Models | Kind |
|---|---|---|
| `AutoScale` | thresholds and size formulas | operators, shared by the next two |
| `AutoScaleLoad` | the rule under changing and steady load, checked at submissions only, real limits | specification |
| `ThreadPool` | main thread, workers, scaling, shutdown | specification |
| `ThreadPoolProperties` | what the pool has to guarantee | properties |
| `WorkQueue` | what the pool promises, without threads | abstract specification |
| `ThreadPoolRefinement` | `ThreadPool` implements `WorkQueue` (checked and proved) | refinement mapping |
| `MCThreadPool` | symmetry for TLC | model |
| `RequestHandler` | a worker's handling of a connection | specification and properties |
| `GeminiCall` | one AI call | specification and properties |
| `ServerStartup` | `init_server` with its failures | specification and properties |
| `DialogClient` | Conversation and SocketClient | specification and properties |
| `CannedResponses` | the static counter of `test_response_*` | specification and property |
| `Dialogue` | skill, client, server, `GeminiCall` and `CannedResponses` composed | specification and properties |
| `Personality` | scoring, mirror, displacement, and the published test | operators |
| `SkillFlow` | the skill's states from `Init` to `Conversation` | specification and properties |
| `AutoScaleProofs`, `AutoScaleLoadProofs`, `ThreadPoolProofs`, `ServerStartupProofs`, `RequestHandlerProofs`, `DialogClientProofs`, `DialogueProofs`, `SkillFlowProofs` | | proofs |

Operators whose comment begins with "Slip" are plausible programming errors. They are
used by no specification: each replaces the definition after it when the properties are
tested for their power to notice it (`mutants` in `PROJECT.json`).

### ThreadPool

`main` is the control state of the main thread, `pc` that of each worker. All pool state
is guarded by `queue_mutex`, so each critical section is one action:
`AddTask` (`thread_pool_add_task`), `ScaleNotDue`, `ScaleKeep`, `GrowPool`, `ShrinkPool`
(`thread_pool_auto_scale`), `BeginDestroy`, `JoinThread`, `FreePool`
(`thread_pool_destroy`), and for a worker `BlockForTask`, `TakeTask`, `LeaveOnShutdown`,
`Serve`, `Account`. `queue_cond` is the set of workers in "wait"; a signal moves any one
of them to "woken", a cancelled one included. `pthread_cancel` is deferred and enabled
around `pthread_cond_wait` only: `CancelWaiting` is a thread that dies in the wait,
`CancelWoken` one that was woken and dies while it reacquires the mutex; a cancelled
thread that never blocks keeps serving. `UseFreedPool` is what such a thread does when
the pool is gone: undefined behaviour, so the process may crash or not.

The load is compared as in the compiled program: `load_ratio` is a float and 0.6 a
double, so exactly 60% counts as above (`LoadAbove`).

`AutoScaleLoad` takes the rule out of the pool to look at it with the real limits. A check
is the end of a submission (`check_due`), as `thread_pool_add_task` is the only caller of
`thread_pool_auto_scale`: a steady load is one whose clients come back (`Replace`), and a
load of nothing brings no checks.

Left out: the branch of `thread_pool_add_task` for a pool in shutdown (the main thread,
its only caller, has left the loop before it sets `shutdown`), failures of
`pthread_setcancelstate` and `pthread_cancel` on a live thread, the statistics printed by
`print_stats` (read only), the output compiled out by the `SHOW_*` switches of
`config.h`, and a clock that goes backwards.

### RequestHandler

One action per `recv`, per decision of `receive_message`, per call of `strtok` and per
outcome of the AI call. `strtok(NULL, ..)` reads its static pointer and later stores it:
two actions (`KeepToken`, `NextToken`), which is where two workers interfere. A field is
the pair of the buffer it lies in and its index, so that a worker that gets another's
field can be told from one that gets its own. `strtok` also writes a NUL over the delimiter
it finds; `cut` remembers where, and a later look at the same copy ends there. Each of the
five places of `process_single_request_and_close` that close the socket is an action of
its own with its own way on, so that a path that closes twice or not at all can be
written down (and is, as a slip). Texts are abstract; lengths matter only as far as the
line buffer can be full.

### GeminiCall, ServerStartup

Both are chains of acquisitions with a failure branch each. `GeminiCall` counts what is
allocated per resource and carries the text class (nothing, AI text, an error text) of
the response to what the client is sent. `ServerStartup` counts per resource too
(`held`), so that giving back twice, or what was never acquired, shows as a negative
count. It has the mutex as a variable of its own, because the clean-up of
`thread_pool_create_with_limits` changes `shutdown` and broadcasts *without* it.

### DialogClient

Turn `n` has a sender `snd[n]`, a listener `lst[n]` and a connection `n`. The fields
`socket`, `writer` and `reader` hold connection numbers. Senders and listeners run on
different threads, so each read of a field, each assignment and each use of the channel
is an action: a sender builds its payload from the history of that moment
(`BuildPayload`), fills the shared message later (`FillMessage`), takes the writer and
only then prints the message (`TakeWriter`, `PrintMessage`); a listener tests
`_isConnected`, then takes the reader (`CheckListening`, `Listen`), and handles a reply in
four steps (`CheckMessage`, `ReplaceMessage`, `Deliver`, or `HandleError`). Two kinds of
statement remain one action: opening a stream of the socket and closing what a field
holds (`OpenWriter`, `OpenReader`, `CloseStream`, `CloseSocket`) read the field and use it
at once. This coarseness keeps the liveness run within reach; an assignment of another
coroutine that falls between such a read and its use is not explored. Whether `receive()`
finds an answer or suspends is decided in the step that calls it (`Utterance`,
`Timeout`). The server is external
here: it sends one reply of a kind that `RequestHandler` allows, or none. A timeout of
`withTimeoutOrNull { channel.receive() }` may lose an answer that has been handed to the
suspended `receive` already; this is how kotlinx.coroutines documents the cancellation of
`receive`. Memory is taken to be sequentially consistent although the fields are not
volatile.

Left out: what the history sent with a request holds besides the utterance, and silence
(`onNoResponse`), which are in `Dialogue`, gestures, and the debug output (`DEBUG_MODE`
is false). Users leave while the robot listens, not while `runBlocking` holds the flow
thread.

### CannedResponses and Dialogue

`test_string[i++ % 10]` is a load (`Load`) and a store (`Store`) of the static `i`, with
other workers in between; an `int` wraps and the remainder of C is negative for a
negative dividend (`Remainder`). One instance stands for one of the six languages.

`Dialogue` follows one robot over any number of turns. Its own variables are the state of
the client: the last lines of `Furhat.dialogHistory` (`Remember` keeps as many as a
request takes), and the class of `SocketClient.message` (`mode`). Lines have a size, and
the one utterance that is being answered is marked `now`; `AsReceived` is what Gemini gets
after `retrieveHistory`, `toRequestPayload` and the server's `safe_strncpy` into
`client_message_t.conversation`: readable JSON or not, whole or not, with the utterance
or without. The variables of the AI call are those of `GeminiCall`, whose steps `AskAi`
takes and which `NewCall` starts anew for the next request; the canned answers are
`CannedResponses`, with `OtherWorkers` serving other robots. `causes` is a history
variable: why requests for the AI ended in canned text so far.

The flow thread and the exchange (sender, server and listener) go on independently. The
exchange may end without a word to the flow: no connection (`NoConnection`), an error
reply, which the client only prints (`Refuse`, `HandleError`), a reply that is lost
(`ReplyLost`), or not at all. The flow waits by its own timers, three seconds to the
waiting sentence (`WaitingSentence`) and two more to the request to repeat (`GiveUp`);
they may expire whenever the channel is empty. A reply handed over after that stays in
the channel and is taken in a later turn as "late". What the robot says goes into the
history: answers, waiting sentences, requests to repeat, and what it says when the user
is silent or hesitates (`Pause`: `onNoResponse`, `onInterimResponse`).

Left to other modules: exchanges that overlap on the shared socket (`DialogClient`), so
an utterance begins when the exchange before it is over; requests parsed at the same time
(`RequestHandler`). `UserLeaves` happens while the robot listens.

### Personality and SkillFlow

`Personality` computes in hundredths, which is exact: averages of two answers are
multiples of one half, and no distance from a median meets one or two standard
deviations exactly, so that the rounding of `Double` cannot change a class.
`TipiScore` is the reference, written from the published test rather than from the code:
a direct and a reversed question per trait.

In `SkillFlow` `state` is the Furhat state and `asking` the called one (a `YN` question
or `AskTestQuestion`). The actions are events: `UserEnters`, `UserLeaves`
(`BaseWOCatchAll`, and `Idle`'s own handler), `AnswerYes`, `AnswerNo` (`YN`),
`AnswerQuestion`, and `AskAgain` for all that leads back to the same question: silence,
an answer not understood, a change of language with `reentry()`, "maybe". `Converse` is
`TestEnd` and the entry of `Conversation`. `TestSkip` is a state users can leave from,
since it speaks. An answer is one of anyone present, for `AskQuestion` does not look at
who speaks. `refused` is a history variable: who of those present was there when the
dialogue was refused. `responses` keeps an abandoned test until the
next one starts, although the local it stands for is gone by then; nothing reads it in
between.

Assumed of the Furhat runtime, which is not in the repository: handlers run one at a
time, events a called state does not handle go to its caller, `goto` in a handler leaves
both states.

## Runs

| Run | Bounds | Shows |
|---|---|---|
| `pool` | 5 threads, pool of 1 to 3, 4 connections, symmetric | types, limits, slots, wake-ups, counters, ownership of connections |
| `pool_work` | 3 threads, pool of 1 to 2, 3 connections | accepted connections are served, a stop ends the server, `WorkQueue` is implemented |
| `pool_finish` | 3 threads, 2 connections, symmetric | **violated**: threads left when the pool is freed |
| `autoscale` | limits of `config.h`, up to 44 queued | limits, no flapping, rest under a steady load that submits, both limits reached |
| `request` | 2 workers, line of 2 characters, 0, 3 or 4 fields | one close, no leak, an allowed reply, an end |
| `request_parse` | 2 workers | **violated**: fields of another request |
| `startup` | 3 threads | failures leave nothing, nothing destroyed under a worker, `init_server` returns unless a worker misses the broadcast |
| `client` | 2 utterances | see below |
| `client_answer` | 2 utterances | **violated**: a late answer is taken for the next one |
| `dialogue` | history of 3 lines of size 1 or 2, room for 4, 2 workers, 2 canned answers, `int` up to 1, 1 piece of body | clean-up of every call, only answers pass for answers, the AI is asked about the utterance, test mode has a cause, entries in the table until the counter overflows, the robot comes back to the user whatever becomes of the exchange |
| `dialogue_fallback` | as `dialogue`, 1 worker, `int` up to 2 | **violated**: test mode without any fault of the AI |
| `skill` | 3 traits (6 questions), answers 2 and 7, 2 users, Italian and Spanish, real or virtual robot | one answer per question, published score and mirror, a present user is attended, idle only in front of those who were there at a refusal, every dialogue goes on |

Why the bounds are enough. *Pool*: a lost wake-up needs a task, a waiter that takes the
signal and dies, and a worker that does not look again; the reuse of a slot needs growth
after a shrink with the cancelled thread still alive; five threads and four connections
allow two rounds of it. Thresholds at the real sizes are the business of `autoscale`,
whose queue of 44 is longer than a full pool and the high-water mark together.
*Request*: the shared position involves two workers; three fields are the right number,
fewer and more take the two other branches. *Client*: the hazards are between one
request and the next. *Start-up*: three threads are enough for one that waits, one that
is about to and one that ends. *Dialogue*: three lines hold the utterance, the line
before it and a waiting sentence after it; sizes 1 and 2 against a room of 4 give cuts
that miss everything, cut inside a line and cut between two; the number of turns is not
bounded, and a body in more pieces is covered by the proofs. *Canned answers*: two
workers are what it takes to lose an increment; an `int` up to 1 counts through a table
of two and overflows after two answers. *Skill*: question `k` and `k + Traits` measure
the same trait and one of them is even, which needs an odd number of traits; three
include conscientiousness, the one the mirror treats differently. Answers 2 and 7 give
scores below, near and above the medians. Two users are `MAX_NUMBER_OF_USERS`. Symmetry
is used in `pool` and `pool_finish`, which check invariants of interchangeable threads
and connections; where a liveness property is checked it is not.

`CHECK_DEADLOCK FALSE` is used for `AutoScaleLoad` only: a pool at rest under a steady
load is the aim. The other systems end in a state with an explicit stuttering step.

### Fairness

* `ThreadPool`: the main loop always continues (`epoll_wait` has a timeout of one
  second), a worker that wants the mutex gets it, a task ends (`request` shows that it
  does, unless a client feeds carriage returns for ever), time passes. Nothing is assumed
  of clients, signals or spurious wake-ups.
* `AutoScaleLoad`: workers run, the clients of a steady load come back, the main thread
  makes the check that a submission has made due, the clock lets a check through again and
  again (`MakeCheck`), and `pthread_create` does not fail at every growth (`GrowFully`).
  Nothing makes a check happen without a submission: at a load of nothing the two liveness
  properties ask for no resizing, and there is none.
* `RequestHandler`: the worker runs; `recv`, the AI call and `send` return within their
  timeouts. Nothing is assumed of the client.
* `ServerStartup`: threads run; strong fairness for a worker's mutex, which others take
  and release in between. Spurious wake-ups are not assumed.
* `DialogClient`: timers fire, coroutines get a thread, the server ends every connection.
* `Dialogue`: the flow thread runs and its timers expire (`Flow`), nothing else. Nothing
  is assumed of the exchange, users or other workers.
* `SkillFlow`: the robot's own transitions happen, and a question that stays open is
  answered in the end. This is an assumption about users, without which the robot asks
  for ever; it says nothing of who answers, in which language, or how often they are
  silent before.

### What the violated runs show

1. `pool_finish`: `thread_pool_destroy` joins the slots below `thread_count`
   (`thread_pool.c:494`); threads cancelled by a scale-down are neither joined nor
   detached, and one that was busy then uses the freed pool. The comments at
   `main.c:171` and `thread_pool.c:491` say all threads are waited for.
2. `request_parse`: `strtok` is not thread-safe; a request may be answered from the
   fields of another one, or from freed memory.
3. `client_answer`: the AI may take 15 seconds, the robot waits five; the late answer is
   spoken in the next turn and every following answer is one turn late.
4. `dialogue_fallback`: five long lines do not fit into 2048 characters
   (`protocol.c:283`); what is left is broken JSON, Gemini refuses it, the server answers
   with canned text, and `SocketClient.kt:168` takes the code of that answer for the mode
   of all requests to come. The same happens for good after one transient failure, while
   the documentation (line 169) speaks of temporary unavailability; `TestModeHasACause`
   shows that nothing else does it.

Further divergences, not given a run of their own: a cancelled thread goes on serving
uncounted while new ones fill its slot, so that more than `THREAD_POOL_MAX_SIZE` serve
at once (`thread_pool.c:348`, against line 137 of the documentation); an idle pool is
never checked and so never shrinks, although line 135 speaks of continuous monitoring
(`thread_pool.c:420`); connections queued at shutdown are freed without closing their
sockets (`thread_pool.c:503`), while `main.c:12` speaks of a clean shutdown; a worker
between its test of `shutdown` and its wait misses the unlocked broadcast of a failed
start, and `init_server` never returns (`thread_pool.c:231`: the excuse in
`InitReturnsUnlessBroadcastMissed`, which is reachable); the minimum task time treats 0
as unset (`thread_pool.c:106`); exactly 60% load counts as above 60%; the receive
timeout restarts with every byte (`EndsUnlessFedCarriageReturns` names the one client
that never ends); the specific error texts of `gemini_ai.c:292` are thrown away by the
caller; a stop signal handled before `running = 1` (`main.c:144`) is forgotten; a
connection of the client that is overwritten in `socket` is left to whichever listener
holds it in `reader`, and may stay open; a request takes the last five lines where the
documentation (line 235) speaks of the whole history (`Conversation.kt:147`); AI text
with a line break or a `|` reaches the robot only up to it (`Parser.kt:37`); after 2^31
answers in a language the static counter is negative (`utils.c:113`).

In the skill: the mirrored conscientiousness is 10.8 whatever the user's
(`PersonalityVector.kt:62`), so it is always very high and always the dominant trait that
selects the waiting sentences; a Spanish "sí" is taken for Italian
(`FurhatUtils.kt:29`); after a refusal the robot says it is there should the user change
their mind (`string_en.properties:66`), but `Idle` handles no speech and greets only when
another user enters (`Greeting.kt:24`); when the user leaves in the middle of the test and
another is there, the test goes on with the other (`BaseWOCatchAll.kt:36`), and the
personality of the conversation is scored from the answers of both, while line 211 of the
documentation speaks of the user's own.

### What the passing client run shows

With all interleavings of two requests, the client never speaks a reply twice, never
mixes answers up *unless a turn went without an answer*, closes its last connection
whichever listener gets to it, and no coroutine or turn hangs. An old listener's
`disconnect()` can close the new connection: then the answer is lost and the robot asks
to repeat, which the properties allow.

## Proofs

Each invariant that a passing run checks is a theorem here, and so are the action property
`NoFlapping` and the refinement `ImplementsWorkQueue`. TLC checked them, and the inductive
invariants they rest on, on the instances of the runs before they were proved. The
assumptions are the `ASSUME`s of the modules and no other. In the table, the strengthening
is what has to be added before the property is inductive.

| Property | Theorem | Strengthening |
|---|---|---|
| `AutoScaleLoad`: `WithinLimits`, `NoFlapping` | `PoolWithinLimits`, `ChecksDoNotFlap` | lemmas on the size formulas (`AutoScaleProofs`) |
| `ThreadPool`: `TypeOK`, `ThreadCountWithinLimits`, `WorkersAccountedFor`, `NoLostWakeup` | `TypesHold`, `PoolStaysWithinLimits`, `SlotsHoldTheWorkers`, `QueuedTaskIsSeen` | `CancelledWereCreated`, `ShutdownKnown` |
| `ThreadPool`: `EachOpenConnectionHasOneOwner` | `OneOwnerPerConnection` | inductive with the above |
| `ThreadPool`: `MetricsExact` | `CountersAreExact` | finitely many busy workers and served connections |
| `ThreadPool`: `ImplementsWorkQueue` | `PoolImplementsWorkQueue` | `RefinementInv` |
| `RequestHandler`: `ClosedOnceAndNothingKept`, `ReplyFitsRequest`, `TypeOK` | `EveryConnectionIsClosedOnce`, `EveryReplyFits`, `HandlerStateIsTyped` | `WorkerInv`, `LineInv`, `PlaceInv`, `TokenTypes` |
| `ServerStartup`: `TypeOK`, `FailureLeavesNothing`, `SynchronisationOutlivesWorkers` | `StartupTypes`, `FailingLeavesNothing`, `ThreadsKeepTheirMutex` | `HeldByStep`, `WorkersByIndex`, `Holding` |
| `DialogClient`: `TypeOK`, `ReplySpokenOnce`, `AnswersFitUnlessOneWasMissed`, `LastConnectionIsClosed` | `ClientTypes`, `RepliesAreSpokenOnce`, `AnswersFit`, `LastConnectionGetsClosed` | `ClientInv` |
| `Dialogue`: `EverythingReleasedOnce`, `OnlyTextPassesForAnswer`, `TypeOK` | `CallsReleaseEverything`, `ClientsGetOnlyAnswers`, `DialogueTypes` | `CallInv` |
| `Dialogue`: `TestModeHasACause` | `TestModeIsCaused` | `CannedHasACause` |
| `Dialogue`: `EntriesInTable` | `EntriesStayInTable` | `NeverAhead` |
| `Dialogue`: `AiAnswersTheUtterance` | `UtteranceIsAnswered` | `HistoryInv`, `RequestInv` |
| `SkillFlow`: `EachQuestionOnce`, `AttendsSomeonePresent`, `NobodyIsOverlooked` | `EachQuestionIsAskedOnce`, `RobotLooksAtSomeone`, `IdleOnlyAfterRefusal` | `QuestionFitsState` |
| `SkillFlow`: `TypeOK`, `PersonalityFollowsTheTest` | `FlowIsTyped`, `ConversationFollowsTheTest` | `FlowInv`, and `CompleteTestScore` on the fold |

### The pool

`AutoScaleProofs` states three facts about the size formulas, for every value of the
limits. `AutoScaleLoadProofs` derives `PoolWithinLimits` and `ChecksDoNotFlap` from them,
for every load. Assumptions: `LimitsAssumption` (`0 < MinThreads <= MaxThreads`) and
`LoadAssumption`.

The inductive invariant `IInv` of `ThreadPoolProofs` is the conjunction of `TypeOK`,
`ThreadCountWithinLimits`, `WorkersAccountedFor` and `NoLostWakeup` with

* `CancelledWereCreated`: only created threads are cancelled, so that a thread the system
  hands out is not in `cancelled`, and growth can fill a slot with it;
* `ShutdownKnown`: `shutdown` is set exactly in the control states after `BeginDestroy`,
  so that scaling and submission never happen in a pool that is being destroyed, and no
  worker ends before that.

`NoLostWakeup` is not inductive alone. When the queue is not empty and a worker dies or
blocks, another has to be there: `AddTask` wakes a waiter *if there is one*, so one needs
that some worker lives (`SomeWorkerLives`, from `WorkersAccountedFor`: slot 0 holds a
worker that is not cancelled and not terminated before shutdown) and that a living worker
that is not about to look waits and is therefore the one a signal finds. `CancelWoken`
passes the signal on, as the C library does for a waiter that is cancelled.
The proof has one lemma per conjunct (`TypesKept`, `SlotsKept`, `ShutdownKept`,
`WakeupKept`), each with one step per action; `SlotRanges` and `SlotsUntouched` are the
facts about slots that growth and shrinking need.

Most steps of the pool move no task; `BusyWorkersUntouched` says so once for all of them
(`QuietStep`), and ownership, counters and refinement are then about the six or seven
steps that do. `CountersInv` adds to `MetricsExact` that the sets it counts are finite,
without which a cardinality says nothing; it needs the ownership of connections, since
`completed` counts connections and `active_threads` workers.
`StepsOfTheQueue` maps `AddTask` to `Accept`, `RefuseConnection` to `Refuse`, `TakeTask`
to `StartOldest`, `Serve` to `Finish`, `BeginDestroy` to `Stop`, `FreePool` to `Abandon`
if connections are left, and everything else to a stutter. The abstract queue accepts and
stops only while it is not stopped:
`ShutdownEndsTheLoop` is that fact about the main thread.

### The server's side of a request

`RequestHandlerProofs`, per worker (`WorkerInv`): a copy exists only inside the loop of
`strtok` and is the one of the current attempt, and a second attempt is that of an AI
request. Whatever the shared position does to the tokens, it reaches none of these. The
types are the one place where the static position matters: a worker in the loop resumes
from *some* place, because `position` is overwritten by other workers but never becomes
NULL again (`PlaceInv`), and a line still being received has room for the next character
(`LineInv`).

`ServerStartupProofs`: what a failure branch releases is what is held at that step, each
once (`HeldByStep`), because every step acquires just what the next failure branch
releases in addition (`ReleaseFollowsSteps`); exactly the created workers exist, and the
joined ones have ended (`WorkersByIndex`). `StepOrder` evaluates the sequence of steps
once.

### The client and the dialogue

`DialogClientProofs` has one invariant for all its theorems, `ClientInv`:

* `Types`, `FieldsAreSet` (a field that is about to be used was assigned),
  `ConnectionsInTurn` (a turn that has not begun has no sender and no connection);
* `ReplyPlaces`: a reply is in one place only, in the hands of a listener, in the channel
  or spoken, once there, and its connection is over, so no other listener will read it;
* `AnswersSoFar` and `TurnInOrder`: while no turn has gone without an answer
  (`Unbroken`), older senders are done, the shared fields and the shared message belong to
  the present sender (`SenderAlone`), and so do the payload it built and the writer it
  took; its connection carries its utterance (`AskedInTurn`)
  and the replies read from it answer it (`RepliesInTurn`). One missed answer breaks the
  chain, which is the point of `client_answer`;
* `SocketIsLookedAfter`: an open socket has a sender on its way to a listener, or a
  listener on its way to `disconnect()`.

`DialogueProofs`: `CallInv` says per stage of a call what is owned and where the response
comes from (`CallTypes`, `OwnedByStage`, `ResultByStage`). Every step of the dialogue is a
step of the call, a new call, or leaves it alone (`DialogueStepsTheCall`), so the
theorems hold over any number of turns and for bodies of any number of pieces.
`TestModeHasACause` needs that a canned answer on its way already has its cause.
For the canned answers, `NeverAhead` bounds every value in the counter and in a worker's
hand by the number of calls so far, and stores can only bring old values back; so a value
is negative only after more calls than an `int` counts.
`AiAnswersTheUtterance` takes three invariants: while the robot waits, the utterance is
the last line of the history, or the last but one when a waiting sentence came after it
(`HistoryInv`); the channel holds replies only (`Channel`); and a request sent in its own
turn that keeps the whole history contains the utterance, one the AI answered was
readable, and an answer is taken as one in time only in the turn of its request
(`RequestInv`). This holds for every `HistoryLength`
of at least two lines, every `Room` and every set of sizes.

### The skill

`QuestionFitsState` (no question is open in `Init`, `Idle`, `TestSkip` and
`Conversation`, one of the test in `TestCore`) is what each of the properties needs.
`FlowInv` adds the types, `LoopInv` (`EachQuestionOnce`, and only questions of the test
are left to ask) and `VectorInv`: a conversation begins with no answers or with a
complete test, and with the vector computed from it. `CompleteTestScore` then says what
that vector is: for every complete test, grouping by remainder, fold, average and
reversal by parity give the published score `TipiScore`, between 1 and 7. Its lemmas
unfold the fold for the two questions of a trait. `Traits` is 1, 3 or 5, the odd numbers
up to that of the code, for which the trait definitions exist.

### Induction, and what only TLC shows

The library's induction theorems take an operator, which the provers cannot instantiate.
Where induction over numbers was needed, `LeastNatural` replaces it (a non-empty set of
naturals has a least element, from `WFMin`): apply it to the set of counterexamples.
`FiniteSetHasMax` is obtained so.

Only model-checked: the liveness properties (`AcceptedIsServed`, `StopEndsServer`,
`Settles`, `ReachesItsLimits`, `EndsUnlessFedCarriageReturns`,
`InitReturnsUnlessBroadcastMissed`, `RequestsEnd`, `EveryUtteranceIsAnswered`,
`DialogueGoesOn`), because TLAPS handles neither fairness nor `ENABLED` here; and the
counterexamples of the violated runs, which are what they are for.

## Not modelled, and why

* Gestures, waiting sentences, localised strings, NLU examples, the text of the JSON
  request: tables and texts. `random { }` with no gestures (`Conversation.kt:54`, a median
  personality) is decided in the Furhat library.
* The load testers (`Server/load_tests`) and the web template: not part of the program.
* `epoll` and TCP beyond what the actions above say; `send` of a short reply is taken not
  to block. `generate_gemini_request_json` fails for want of space in `GeminiCall`; with
  the sizes of `config.h` it cannot.
* A stop signal during start-up, which `running = 1` forgets (`main.c:144`).

## Plan

Done: every part of the inventory that carries state is modelled, and every safety
property checked is proved. Left:

1. *Refine.* An abstract dialogue (one answer per utterance) with its refinement by
   `DialogClient` under the assumption that answers are in time.
2. *Prove.* Lemmas on operators that are only evaluated so far: the sizing rule reaches a
   limit within so many checks, `Displacement` of the mirrored vector.
