# RYPER AI OS: verification project

TLA+ modules of the parts of RYPER AI OS whose behaviour depends on order:
queues, retries, timers, cancellation, plans, permissions, sessions. Each module
is translated from the TypeScript under `src/`; TLC checks it on small instances
and TLAPS proves the main invariants for every instance. `PROJECT.json` maps
each definition to the lines it stands for.

Contents: [1 The system](#1-the-system), [2 Modules and plan](#2-modules-and-plan),
[3 How the code is modelled](#3-how-the-code-is-modelled),
[4 Runs](#4-runs), [5 Proofs](#5-proofs), [6 Findings](#6-findings),
[7 What is not covered](#7-what-is-not-covered), [8 Running it](#8-running-it).

## 1 The system

A desktop assistant (Electron) on top of a set of packages. Everything of
interest in the main process runs on one JavaScript thread: concurrency means
that something else may run at every `await`, callback and timer. The renderer
window, PowerShell, the speech programs and the language-model server are
processes of their own.

What runs in the desktop app: a **spoken turn** (`voice-pipeline.ts`, over the
**audio bridge** to the renderer that owns the devices) or a **typed turn**
(`text-chat.ts`, from the **chat window** over the **conversation store**) is
either a command the app understands itself, a "yes" or "no" to a pending **power
confirmation**, or goes to the **orchestrator** (`core/ai-engine`), which
alternates rounds of a provider with rounds of tools. A tool runs a **desktop
action** (`desktop-actions.ts`), which calls the **capability layer**
(`core/platform-capability`), which asks the **broker** (`core/security`) for
consent and its adapter, the **Windows agent** (`core/windows-agent`), for the
effect, which may first ask the person. Models are local (**local-runtime**,
whose files and server the **start** of the app provisions) or in the cloud.

Beside it stand packages the app does not load: **tool-framework** (a queueing,
retrying ToolManager; the app's orchestrator uses the simpler registry of
`ai-engine`), **planner**, which executes plans through that ToolManager,
**memory-system**, **sync**, **plugin-platform** and **automation**. Their state
machines are as much part of the repository, and are modelled from their own code
and tests.

| Component | State | Operations | What is hard | What makes it correct |
|---|---|---|---|---|
| tool-framework: invocation | queue, free slots, controllers, attempts, linked signals, streams | `invoke`, `cancel`, attempt timer, backoff, stream chunks | timer, cancellation, value and exception race; slots survive all of them; abandoned handlers go on | slots are exact and no slot idles; most urgent first; cancelled calls are not retried and do not succeed; an abandoned handler is told; every call is answered |
| security: broker; platform-capability; tool-framework: permissions | policies under three keys, grants, expiries | `setPolicy`, `requestCapability`, `grant`, `revoke` | consent is awaited while policies change | nobody acts without consent; no grant outlives its reason; the policy in force is the one that was saved, for every actor and after every restart |
| planner: execution | task states, cancellation flag, drivers, invocations in flight | `dequeueReady`, `mark*`, `cancel`, `runToCompletion` | two drivers, late results, rejecting tools | dependencies first, final outcomes, nothing stranded without a reason, drivers stop |
| local-runtime: inference | queue, running count, failure streaks | `runWithFallback`, `streamChat`, `enqueue`, abort, expiry | cancelled entries stay in the array; fallback re-enters the queue; streams fail half-way | an idle slot is filled; aborted requests reach no provider; one source per chat; no provider is blacklisted for ever |
| local-runtime: model store | records, active version, files, size of the cache | `install`, `importModel`, `update`, `rollback`, `uninstall`, `cleanup` | two operations on one model between the same files | bytes that failed their checksum are not installed |
| local-runtime: providers; desktop: model provisioning and bootstrap | files and `.part` files, the server process and its handle, speech processes, the step of the start | linking and copying, `start`, `/health`, `stop`, `transcribe`, `synthesizeSpeech` | a death at any step, sources that change under a copy, a process that outlives the app, a cancellation between two runs | nothing torn is published; a failed start leaves no server; a cancelled call says nothing; the start and every call come to an end |
| windows-agent: managers and system APIs; desktop: actions and tools | files, windows, processes, services, tasks, registry, network, sound, the reference "this" points to | tools and voice commands for each of these | a window, service or adapter that is looked up, judged, asked about and changed at different times; cmdlets that take more along than they were named; commands killed after their effect | protected folders stand; documents are kept; only what was found and asked about is changed |
| windows-agent: confirmation gate; desktop: confirmations | pending dialogs, the one on screen, the power action voice and text share | `require`, `request`, `resolve`, `tryResolve…` | one dialog replaces another; answers come late, twice, or to the wrong one; two surfaces answer one question | an action runs only after its own positive confirmation, at most once; every call settles |
| desktop: turns; voice-engine: sessions; audio bridge | session state, controllers, captures and playbacks of two processes, the orchestrator's stream | `runTurn`, `interrupt`, barge-in, capture, playback, device requests, timeouts | a stop, an unplugged device or a lost window at any await; answers that come late | the microphone is never open for nobody; a session settles; a turn ends; a failed turn admits what it did |
| desktop: conversation store, renderer | entries in memory, file, backups; the window's lists and its composer | the store's calls, opening, sending, regenerating, deleting | the first load raced by several calls, unserialised writes, unreadable files, callbacks made for another conversation | history is kept; the composer comes back |
| desktop: settings store | cache, file | `load`, `update` | overlapping writes | the last choice is the one on disk |
| memory-system | records in memory and on disk, index, versions, bundle, permissions | create, update, merge, split, summarise, delete, purge, export, import, maintenance | sequences of writes any of which fails, with other calls between them | what replaces a memory is on disk |
| sync | replicas | `set`, `merge`, `snapshot` | clocks that disagree; late, repeated and lost snapshots | replicas come to agree |
| plugin-platform; automation; planner: scheduler and construction | lifecycle states and hooks; rules; timers; the task graph | | | not modelled: section 7 |

`PROJECT.json` lists every part with the reason for what is left out.

## 2 Modules and plan

| Module | Models | Depends on |
|---|---|---|
| `BoundedPool` | the promise both promise-queues make (abstract specification) | – |
| `ToolInvocation` | tool-framework: manager, queue, executor, cancellation, streaming | refines `BoundedPool` |
| `PlanExecution` | planner execution and `PlannerToolBridge` | assumes `EveryInvocationIsAnswered` of `ToolInvocation` |
| `InferenceRuntime` | local-runtime's manager, queue and health monitor | refines `BoundedPool` |
| `CapabilityConsent` | broker, `CapabilityManager.invoke()`, confirmation gate, dialog bridge, permission settings and their file | – |
| `PowerConfirmation` | the shared "are you sure?" of voice and text | – |
| `PowerActions` | the composition: a confirmed question calls the capability | extends `CapabilityConsent`, instantiates `PowerConfirmation` |
| `DesktopTurns` | how a desktop action reaches the machine: its stages, for any operation | – |
| `FileActions`, `WindowActions`, `ServiceActions`, `DeviceActions` | what the stages of each operation do, each to its slice of the machine | extend `DesktopTurns` |
| `AssistantTurn` | one call of the orchestrator: rounds, tools, retries | – |
| `AudioBridge` | capture, playback and device requests between main process and renderer | – |
| `VoiceTurn` | the spoken turn, its session and the barge-in monitor | extends `AssistantTurn`, `AudioBridge` |
| `TextTurn` | the typed turn | extends `AssistantTurn` |
| `Provisioning`, `LlamaServer` | copying the local models into place; the language model's process | – |
| `Startup` | the steps of the app's start | extends `Provisioning`, `LlamaServer` |
| `LocalSpeech` | the processes that recognise and speak | extends `Startup` |
| `ModelStore` | local-runtime's own store of models | – |
| `ConversationStore` | the conversations in memory and on disk | – |
| `ChatWindow` | the window over it | extends `ConversationStore` |
| `MemoryStore` | memory-system: manager, store, index, versions, permissions | – |
| `SyncStore` | sync's replicas and the memory service over them | – |
| `…Proofs` | the theorems about the module of that name, or about several: `CapabilityConsentProofs` is about `PowerActions` too, `AssistantProofs` about `TextTurn`, `VoiceTurn` and `AudioBridge`, `DesktopProofs` about the four action modules, `LocalRuntimeProofs` about `LocalSpeech` and what it extends, `ModelStore` and `InferenceRuntime`, `ChatWindowProofs` about `ConversationStore` under the window, `SyncStoreProofs` about `SyncStore` and `MemoryStore` | TLAPS |
| `MC…` | TLC instances; `MCDesktop`, `MCAssistant`, `MCLocalModels`, `MCMemory` check several modules in one instance | |

Still planned, most important first:

1. Proofs: every safety property that a run checks is proved by now. Left are
   the types of the modules whose invariants do not need all of them, and
   convergence as far as it is safety: that every exchange decreases what
   replicas have to tell each other.
2. `PluginLifecycle`: the transition table with awaited hooks, concurrent
   transitions, install, update and uninstall with rollback, sandbox slots.
3. `PlanGraph`: deduplication and transitive reduction as functions, composed
   in front of `PlanExecution` so that the *requested* order is what is checked;
   `PlannerScheduler` with automation; the tool framework's temporary grants.

The runs are kept to a dozen and the properties to those worth their run: a
component that joins takes the place of what another one answers.

## 3 How the code is modelled

**Atomicity.** One action is the code between two awaits, everything it calls
included. Where the order of microtasks cannot matter (a promise chain with no
other reader in between) the chain is one action.

**ToolInvocation.** `phase[i]` is the await invocation *i* stands at.
`Invoke` is `ToolManager.invoke()` with `ToolQueue.enqueue()` and `drain()`:
the newcomer is sorted in, the free slots are filled, and what got a slot runs
`attemptOnce()` up to its first await, permission check included. `Timeout`,
`Cancel`, `HandlerReturns` and `HandlerThrows` are the contenders of the race
in `attemptOnce()`; `AfterReturn`, `SuccessAnnounced` and `FailureAnnounced`
are its continuations after the awaited event subscribers; `Conclude` is the
retry decision; `Release` is the queue's `finally` and drains again. A handler
whose race is over stays in `live[i]` until it settles: a retry may overlap it.
`StreamYields`/`StreamEnds` are `consumeToolStream()`'s loop. `SetGrant` lets the
broker's record change between any two steps. `cancelledAt` is the only history
variable. Validation of inputs is a property of the invocation (`Malformed`), of
outputs a free choice.

**PlanExecution.** `Turn` is the loop of `runToCompletion()` from its condition
to the next await: `dequeueReady()` (whose skips and conditions are one pass over
the pending tasks), then `runOne()` on each task up to `invoke()`. `Settles` and
`Rejects` are the three ways an invocation ends; a rejection reaches
`Promise.all()` and so the driver, while the batch's other tasks run on.

**InferenceRuntime.** `phase[r]` is where the current call stands. `Drain` is
the queue's loop, which rejects entries that were aborted while they waited;
`Finish` is the `finally` of `runOne()`; `FallBack` records the failure — of
whatever kind — and tries the next candidate, re-entering the queue in the same
step. Chats bypass the queue (`streamChat()`), and end in the cloud's stream.
Failure counts are capped at the threshold, which is all the code compares.

**CapabilityConsent.** `phase[i]` is the question call *i* waits in: `"consent"`
in `CapabilityBroker.requestCapability()`, `"gate"` in
`DestructiveActionGate.require()`. `Invoke` runs `invoke()` up to the first of
these; `Answer` is what the bridge does with an answer and everything the waiting
call then does, up to its next question, its effect (`"done"`) or its refusal.
Answers come from the person (`Respond`), from the bridge's timer (`TimesOut`)
and from the end of the update an "Always Allow" waits for (`SaveEnds`); all
three are `Answer`, and an answer to a dialog the bridge no longer holds changes
nothing but the screen. The person sees one dialog, `shown`, which a newer one
replaces and which stays when the bridge has given up on it. IPC messages in
transit are not part of the state: between sending and arrival the receiver only
does what the model lets it do before or after. `broker` holds policies (per
actor and for everyone) and grants; `Booted` is what the bootstrap makes of the
settings file. `Save` changes the cache at once and leaves the file to
`SaveEnds`, in any order, possibly failing. The adapter's handler is external:
after permission it may refuse (bad parameters), ask the gate, or take effect;
an effect that fails is an effect. The platform is Windows, whose adapter is the
one with a gate. History variables: the dialogs asked for, those answered yes.

**PowerConfirmation, PowerActions.** A turn (one of the voice session or of a
conversation) is heard, looks at the record, and then works on its own, carries
the confirmed action out, or is over. Recognition, or storing the message, lies
between hearing and looking. The look and what follows it up to the capability's
first question are one step (`Confirm`), as no await separates them.
`executeConfirmedPowerAction()` passes no abort signal on: a turn cancelled after
its "yes" goes on. The word lists are four classes of utterance; `ttlMs` is the
action `Expire`. History variables: the ids of questions that are settled, and
the turns whose words are older than the record.

**BoundedPool.** Jobs wait, run, are over. The refinement mappings send the
phases of an invocation (or of one queue entry of a request) to these sets.

**DesktopTurns and the four action modules.** A turn runs one operation at a
time: `Begins` is the desktop action up to the capability layer (its argument
checks included), stage `"call"` the manager and its checks, `"gate"` the question,
`"allowed"` the operation once it may act, `"again"` and `"last"` the further calls of
an action that makes several, `"after"` what the action does with the outcome.
Two turns interleave between any two stages. `backend` is the
`WindowsSystemApi`: the in-memory reference or PowerShell, whose commands take
folders along with all that is in them, may fail without an effect
(`ShellFails`), and may be killed after their effect and reported as failed
(`Reports`). A path is a sequence of names; a window knows its process; a
service, a task or a key is critical or not by the constants that stand for the
code's tables. Which of many alike a search finds is left open.

**AssistantTurn, VoiceTurn, TextTurn.** The orchestrator's generator runs only
when its consumer pulls: `StreamSteps` offers what it can do next, and the
action of the consumer that pulls takes one, with the event it yields. `voice.at`
is the await the spoken turn stands at; `session` is a variable of its own, since
a stop, the listening ceiling and the barge-in monitor change it under the turn.
`Captures` is the arrival of a frame, with what `captureAndRecognize()` does with
it; `Outside` is a window that goes, a device that is pulled. An event is its
type; a frame is speech or silence.

**AudioBridge.** Two processes and two ordered channels, `toRenderer` and
`toMain`. `opening` and `open` are the captures the renderer has asked the
browser for and holds; `mic` and the speaker are what the main process believes.
A request that is answered late, or never, has timed out on one side only.

**Provisioning, LlamaServer, Startup, LocalSpeech.** A file is how much of it is
there; `job` is where the loop of `provisionLocalModels()` is, with the size of the
source it remembers, and `CopyReturns` gives a copy of what the source was, what
it has become, or a part. A hard link shares the content of its source, a
download that goes on included. The server is polled in the order of the loop:
deadline, exit, health. A process of an earlier run keeps the port and answers
for the new one. A speech call is one record: an abort is heard only by a process
started before it fired, and the result is asked about the signal and the timer
after the first run only.

**ModelStore.** A caller's `doing` is the operation and the await it stands at;
a file has the bytes of a version or of none; the records and the version list
are those of `ModelRegistry` and `VersionManager`. Which model is the least
recently used is left open.

**ConversationStore, ChatWindow.** A call is a task with the steps left to it
(`todo`): a callback of the window is a task of several calls of the store, each
up to its awaited write. `ensureLoaded()` is raced by every call that finds the
store unloaded. The file is replaced in one step (`rename`), which fails or not,
in any order among the writes under way; what a task writes is what it saw.

**MemoryStore.** A call is a sequence of steps, each up to its await: the write
lands on disk when the call resumes (`Resumes`), and `Fails` rejects it, with the
cache already changed. Contents are left out: which records are alike, old, or
beyond the cap is chosen anew each time the code would look. The index is the
version of each record it was last rebuilt from.

**SyncStore.** The transport is not in the repository: a snapshot may arrive at
once, late, twice or never. Device ids are numbers in the order of the code's
string comparison. `set()` compares nothing: what a device sets replaces what it
has, even if its clock went back.

## 4 Runs

| Run | Instance | Shows |
|---|---|---|
| `tool_invocation` | scene "queue": a plain invocation, one that needs a capability that comes and goes and has two attempts, one more urgent, one cancellation; scene "streams": a streaming invocation with two attempts and a malformed one; one slot | `SlotAccounting`, `StragglersAreAborted`, `CancelledRunsAtMostOnceMore`, `MostUrgentFirst`, `CancelledNeverSucceeds`, `EveryInvocationIsAnswered`, refinement of `BoundedPool` |
| `plan_execution` | every plan of three tasks with one condition (any expression, any inspected task), with or without a route for one of them; two drivers, three iterations | `DependenciesFirst`, `LeftBehindWithReason`, `OutcomeIsFinal`, `DriversStop` |
| `inference_runtime` | three single-shot requests, one more urgent, one with a fallback, all with a timeout; an endless chat beside them; one slot, threshold two | `AbortedIsHeeded`, refinement of `BoundedPool` |
| `capability_consent` | a call of the orchestrator and a destructive one of the voice session, the same capability, beside one that reset keeps; empty or saved settings, two updates, failing disk, one restart | `EffectsWereApproved`, `GrantsHaveAReason`, `PolicyInForceIsTheSavedOne`, `CallsSettle` |
| `power_actions` | a voice turn and a text turn with a power call each, a tool's call whose dialog competes; three requests, one restart | `PowerTakesTwoYeses`, `AnsweredQuestionsAreClosed`, `ConfirmedTurnsEnd` |
| `desktop` | a voice command and two tool calls, in each of ten parts of the machine, over both backends | `ProtectedFoldersStand`, `DocumentsAreKept`, `OnlyNamedPathsGo`, `OnlyFoundWindowsChange`, `DestructionIsAsked`, `ConnectionIsProtected` |
| `assistant` | one or two spoken turns with everything the model and its tools, the audio, the devices can do, or two typed turns | `MicrophoneIsWatched`, `SessionSettles`, `FailureAdmitsTheAction`, `EveryTurnEnds` |
| `local_models` | scenes "files" (a binary with its DLLs and a voice with its .json, sources that are whole, partial, empty or absent, one edit), "server", "speech" (a recognition and a synthesis), each with one restart, and "store" (two callers, two models, two versions) | `TargetsAreNeverTorn`, `FailedStartsLeaveNoServer`, `CancelledCallsSayNothing`, `UnverifiedBytesDoNotStay`, `StartupSettles`, `SpeechCallsSettle` |
| `chat` | a conversation of an earlier run and four new ids, three tasks at once; scenes "loading" (with a crash) and "using" | `HistoryIsKept`, `SendingEnds` |
| `memory` | scenes "crowd" (two callers, a change of permissions or a restart), "alone" (one caller, three calls), "replicas" (three devices, one of which filters a key, three changes, one stale snapshot) | `ReplacedMemoriesAreKept`, `ReplicasConverge` |
| `inference_midstream` | one chat, two providers, two events | finding: two sources in one chat |
| `voice_stop` | one spoken turn with one tool, one press of stop | finding: the tool runs after the stop |

**Scenes and parts.** Where an instance is made of parts, a behaviour looks at one
of them: the parts share no state that the properties of the others speak of
(`MCDesktop`'s four modules have disjoint variables), or the constraint keeps the
rest of the environment quiet, which only removes behaviours that the other
parts have. `MCDesktop` has a VIEW that forgets what a turn reported before its
next call overwrites it.

**Bounds.** One slot and three jobs make two wait while one holds the slot:
every order of arrival, release and withdrawal the sort and the drain can see
among two waiting entries. (More than one slot is covered by the theorem, which
holds for every `MaxConcurrent`.) Two attempts are enough for a handler of the
first to overlap the second; `MaxCancels`, `MaxChunks` and `MaxCalls` only cap
what a caller or a stream repeats. In "queue" the grants change only where an
attempt that reads them may come next. Three tasks give chains, forks and joins,
and a condition on a dependency, on a bystander and on a dependent; two drivers
are what it takes for one to find the other's tasks running. `MaxIterations`
equals the number of tasks, the least for which a driver is not stopped by its
counter. Two calls with up to two questions each are what it takes for a dialog
to replace another one, and for an answer to reach the wrong one of two; two
updates overlap in both orders; after one restart every state is one a second
would start from. Three requests let a question be replaced and the replacement
confirmed while the other surface still holds an older "yes".

Two turns are what it takes for a window, a service or an adapter to change
between one turn's look and its act; the third brings the operations the
first two have no room for. Folders are nested two deep, so that an operation on
one takes a protected one, or a document, along. `MaxRounds`, `MaxTries` and
`MaxCalls` = 2 give a round after a tool, a retry after a failure and two tools in
one round; `MaxSpeech` = 2, `Silence` = 1 and `Patience` = 2 frames are a start, an
end and a wait in vain; a second press starts a turn while the first unwinds; one
change of the devices (`MaxChanges`) meets every await. One edit and one restart
meet every step of a copy; `MaxManaged` = 3 operations let an import, its second and
an eviction or a rollback interleave. Three tasks are two callbacks and a call that
overtakes both; two acts of the person (`MaxActs`) are one during the other's turn.
Four memories, two of an earlier run, allow a merge and a summary beside another
call; three devices let a record come by two ways.

**Fairness.** Weak fairness of what the runtimes do by themselves: due
continuations run and armed timers fire. In `ToolInvocation` that includes the
event subscribers and the memory store answering, since `emit()` and
`recordInvocation()` are awaited without a limit; handlers may hang for ever; the
run assumes only that *something* that is due happens. In `PlanExecution` every
invocation settles, which is `EveryInvocationIsAnswered`. In `CapabilityConsent`
only the bridge's timer is fair, which is what the code relies on when the window
is gone or the dialog replaced; in `PowerActions`, also a settled promise reaching
the turn that waits for it. `VoiceFairness`: the renderer handles its messages, the
main process its own and its timers, the pipeline's awaits that nothing outside
holds up are passed, and an open microphone goes on delivering silence (strong,
as a capture may open and close). A provider is awaited under a limit per event; a tool that hangs is
not, and that it settles is assumed. `LocalFairness`: the steps of the start and of the
calls are taken, deadlines pass and timers fire, and a process that was sent
SIGTERM ends; neither a server nor a speech process need ever answer. In the
chat, the steps of the tasks are taken and a turn settles, which is `EveryTurnEnds`.
In `memory`, a fresh snapshot that tells somebody something keeps arriving; calls
of the manager need no fairness.

Deadlock is not checked: every instance ends when its calls have been answered
and its bounds are used up.

## 5 Proofs

All theorems are proved for every value of the constants that satisfies the
module's assumption (in ToolInvocation and PlanExecution finite sets, positive
limits, between one and three attempts, as `COST_TO_RETRIES` has it; elsewhere the
types of the constants, that each power turn has a call of its own that is
destructive, that device ids, times and the slots for tasks are natural numbers, and
what is said below of files). Every safety property that a passing run checks is a
theorem.

**ToolInvocationProofs.** `Inductive` proves the strengthening of the safety
invariants: types; slot accounting; the queue sorted by urgency; no attempt
begun while an invocation is queued, and one left while it sleeps; every live
handler belongs to an attempt that has begun, and is told to stop unless that
attempt still waits for it; a cancelled invocation that has begun one more
attempt has an aborted signal there until it is settled; and its signal is
aborted while its value might still be accepted. Sortedness is what makes "first
of the queue" mean "most urgent"; the last two are what makes the retry bound
inductive: without them a cancelled call in its extra attempt could be in a
state from which it retries. From it follow `TypeCorrect`, `SlotsAreAccounted`,
`StragglersAreTold`, `CancelledIsNotRetried`, the action properties
`OnlyGrantedAreCalled` (of `GrantedWhenCalled`, which no run checks),
`CancelledDoNotSucceed`, `UrgentGoFirst`, and `QueueImplementsPool`: each step maps
to a step of `BoundedPool` or a stutter, `Release` to `Finish` with the head of the
queue as the next job.

**PlanExecutionProofs.** `PlanInductive` adds to the properties that the start
counter is 1 exactly for tasks that are running, succeeded or failed
(`StartedOnce`, which no run checks, follows); that a
running task is awaited by some driver unless a driver was rejected; that tasks
are cancelled only by `Cancel`, which leaves none pending; that every iteration
of a driver that goes on is paid for by a started task, so that a driver is never
stopped by `MaxIterations >= Cardinality(Tasks)` while it could go on; and that
when all drivers that were called have returned there is no candidate left. The
last two carry `NothingLeftBehind`: a driver returns on an empty batch, and the
others may still be waiting for tasks that release more work, which they then
dequeue themselves. It also yields `DependenciesComeFirst`, `TasksStartOnce` and
`OutcomesAreFinal`.

**CapabilityConsentProofs.** `ConsentInv` adds to types and `PendingIsAwaited`
that a call asks its questions in order and passes each with a yes
(`AskedInOrder`), that what is on screen has been asked, that consent is asked for
capabilities only, and that whoever waits for an update has said yes
(`WaitersApproved`: without it the end of an "Always Allow" could approve
anything). Every step that moves a call answers one of its dialogs, so the
argument is made once for an answer from anywhere (`AnswerShape`, over
`AskShape` and `SettleShape`). `EffectsAreApproved` follows. `PolicyInv` speaks of
the grants a policy hides as well: `GrantsHaveAReason` alone is not inductive,
since a policy that is dropped uncovers the grant below it. Its steps are
those that give a grant with a reason (`GrantStep`) and the three that rewrite
policies; `SetPolicyAll` says what the handler's three calls add up to.

The same module treats the composition. `PartsStep` maps each step of the composition to a step
of `CapabilityConsent` or a stutter, which gives `PowerImplementsConsent`. The
invariant adds that a call that has begun has its turn's confirmation
(`BegunIsConfirmed`) and that the pending question's id is not among those
settled and is not exceeded by any (`RecordIsOpen`), from which `TwoYeses` and the
action property `OneYesPerQuestion` follow.

**LocalRuntimeProofs.** *The start and the speech calls.* `LocalInv` has three
parts. A published file has the size that the job remembers, so the job must be
known never to remember a torn one, and to be at an item, a source and a companion
that exist (`InRange`), or a step could publish under no name. A server that is off
has no process and has seen no exit, and an exit that was seen is one: otherwise a
start that "exited early" could leave one running. A second run of a speech process
was started while its call was not cancelled, so it listens to the signal and a
cancellation kills it (`Silent`): this is why its exit code alone may be asked about.

*The model store* (`BadBytesGo`). `UnverifiedBytesDoNotStay` looks only at moments
at which no call about the model is under way, so it cannot be inductive.
`StoreInv` says where bad bytes are at any other moment (`BadIsChecked`): in a file
that an import has written and not yet judged; whoever writes or deletes that file
in the meantime decides anew what is in it. The types are needed for the names: the
records a call carries through its awaits name files of their own model
(`RecordsOf`), which is what keeps a rollback or an eviction of one model from the
files of another.

*The queue.* `RuntimeInv` adds to `SlotsExact` that no running request has been
aborted, that chats never are in the queue's phases (a chat that "ran" would hold a
slot nobody gives back), and that a call always stands at a candidate of its
ranking: `findCandidates()` keeps no more than it is given, which is an induction
over the loop (`KeptOnce`, by the least round that goes wrong). `Drain` is argued
once for any queue, number of slots and set of aborted requests: `DrainCount` is
the least prefix that fills the slots (`DrainCountFacts`), its entries that are not
aborted start, the others are rejected, the rest keeps its order. From this
`InferenceSlotsAreExact` and `AbortsAreHeeded` follow. `InferenceQueueImplementsPool`
needs `AnswersInv` as well: a call that falls back enqueues again, and it must be
known that the entry it then is was not answered before. An entry is a request,
the number of its call and of its candidates left, so the theorem is about callers
whose calls are counted (`Endless \subseteq Chats`, as in the run); the others may
be repeated for ever without a count.

**SyncStoreProofs.** `MergesRepeatNothing` and `MergesCommute` are about the merge
itself. `RecordsWereSet`: every record of a replica or of a snapshot still under
way was stamped by the device it names; so two records of one key with one time
and one device are the same unless a device is `Tied`, and of different records
one wins on both sides: `ExchangesAlwaysAgree` (of `ExchangesAgree`, which no run
checks).

`MergedMemoriesAreKept` is about the manager of memory-system. What a merge, a
summary or a split creates is written by one step and what it replaces is let go by
a later one, with other calls, purges and failing writes in between; so `MemoryInv`
speaks of the steps every caller still has to take (`Plan`): they replace nothing,
or they create what replaces it first, or it has been created and is on disk, in the
write the call awaits, or purged by somebody else (`Saves`). Only a purge takes a
record off the disk, whatever a call that was overtaken writes back.

**AssistantProofs.** A typed turn remembers a completed tool from the moment one
takes effect (`TextInv`), and only a tool's result has an effect, so a rejection
can be honest. `SessionInv` adds the turn that is being recorded, which has left
its session for good; the transition table is what makes every other end settle:
whatever cannot become "error" is already where a turn can start (`Transitions`).

`MicrophoneIsWatched` speaks of the renderer's captures and of
one channel; what keeps it is spread over both processes and both channels
(`CaptureInv`): a start is sent once and is for the capture main reads; while it is
on its way, or the device is being opened, no frame and no error of that capture
exists, so main cannot have dropped it; only an open capture is told to stop, hence
`stopCapture` never meets a device that is still being opened, where the code would
ignore it; and an error on its way means that the capture is closed. Ids are not
given twice (`GivenInv`): a turn has one capture of its own and one for its
monitor, which opens only in the phases after `Early`. That the two never overlap
is `OwnerInv`: the turn's is open only while it listens, the monitor's only while it
watches or hears, and a reply plays only while the turn speaks. The monitor's
capture may outlive its turn; a new turn then finds the microphone taken and fails.

**DesktopProofs.** A turn moves alone (`MovesOneTurn`), so each invariant has one
part for the turns, which only the turn that moves can disturb, and one for the
slice of the machine. In `DeviceActions` and `ServiceActions` the turns' part is
enough: a disruptive call that stands at its effect has asked, or was found to need
no question when it looked (`Protects`, `Answered`); what a property then says of
the effect is read off the operation. `WindowsInv` adds that no two windows share a
handle and that handles are given in order: a window that closes between a turn's
look and its act is not mistaken for one that opens meanwhile, which in the
reference implementation takes the next handle (`Means`). The searches over the
list of windows are inductions over its rounds. `FilesInv` says that whatever exists
lies in folders that exist (`Rooted`): a folder that is moved or deleted takes what
is below it along, and only because of this is what the turn was asked about,
or checked not to be protected, all that goes. Every operation is shown to keep the
tree and to touch only paths inside those it was given, for both backends;
`ProtectedFoldersAreSafe`, `DocumentsAreNotLost` and `NamedPathsGo` follow. What is
assumed of the constants: the paths are closed under their prefixes, what is there
at first is there with its folders, and a protected folder lies in protected ones
and is there, as the code's list of roots has it.

**ChatWindowProofs.** `HistoryIsKept` is about the file; what puts it at risk is
what will be written to it. `HistoryInv` says the same (`Kept`) of the entries in
memory once they are loaded and of every snapshot between its writing and the
rename, and the tasks are known to come to these in order: a write follows a change
made after the load, a rename follows a write (`Follows`). That a task's words are
never those that stand for a conversation itself is needed because erasing a message
and losing a conversation are the same operation on entries (`ErasesWords`), and
that is why what is shown must have been fetched as messages. The scripts of the
window's calls are joined from parts of which each is known to be in order
(`PartsJoin`), so a call that is added needs one line. A file that is given up is in
a backup, or `unsaved` says that this failed.

**What proving changed.** Some statements were not what they had been taken for. The
last copy of a document may go under a copy or a move onto it, in the reference
implementation at the path that was named and in PowerShell inside the folder of that
name (`Overwritten`). A folder that a copy or a move makes on the way must be one of
the paths there are, and a deletion that does only a part of its work must find the
path it is given (`DeletesPart`). The lists of windows are changed with functions over
the positions (`With`, `Among`), which the prover can look into.
`findCandidates()` and `resolveDuplicates()` were written with operators the prover
cannot look into and are now the loops of the code (`Usable`, `DeletesEach`). What the
proofs need of the constants has become named assumptions, which every run evaluates.

**Only model-checked.** All liveness: `EveryInvocationIsAnswered`, `DriversStop`,
`CallsSettle`, `ConfirmedTurnsEnd`, `EveryTurnEnds`, `StartupSettles`,
`SpeechCallsSettle`, `SendingEnds` and `ReplicasConverge`; liveness under fairness
and `ENABLED` are out of this prover's reach. Its library's induction schemes are as
well, since they take an operator; where a loop needs an induction, the proofs take
the least number in the set of the rounds that go wrong (`LeastNumber`), which
works for a property that can be written as a set, and not for what a recursive
definition computes in general. The two findings are violations that TLC shows.

## 6 Findings

| Run | Code | What it contradicts |
|---|---|---|
| `inference_midstream` | the catch of `streamChat()` covers the whole stream | "must not silently retry against a second provider", `runtime-manager.ts:241` |
| `voice_stop` | `executeVoiceTurn()` gives the pipeline no signal, so a tool the model asks for after the stop still runs | "the user cancelled, and the action happened anyway", the bug that `tool-calling/registry.ts:75-86` says its check removes |

**Statements the code does not keep.** The modules state these as well; each
can be put in the place of the properties of the configuration named, and TLC
refutes it.

| Statement | Where it is said | Refuted with | How |
|---|---|---|---|
| `NeverBlacklisted` | `health-monitor.ts:21` "never permanently blacklisted by this monitor alone" | `MCInferenceRuntime`, `PersistentSpec`, `Requests = {embed, chat}`, `Timed = {embed}`, `Endless = {embed, chat}`, `MaxCalls = 0` | an unavailable provider is not tried, and only being tried ends its streak |
| `LastChoiceIsOnDisk` | `v0.1.2-release-candidate-report.md:53` "Persisted user policies … survive application restarts" | `MCCapabilityConsent`, `DiskMayFail = FALSE`, `MaxRestarts = 0` | overlapping `update()`s rename their files in any order |
| `YesFollowsTheQuestion` | `power-confirmation.ts:12` "actually said yes to this specific pending request" | `MCPowerActions`, `MaxRequests = 2`, `MaxRestarts = 0` | words confirm whatever question is pending when they are looked at |
| `CriticalKillsAreAsked` | `process-manager.ts:11` "never kills a `critical` process without going through" the gate | `MCDesktop`, `Backends = {"powershell"}`, `Parts = {"apps"}` | PowerShell's processes are never marked critical, so the manager has nothing to ask about |
| `NoLingeringReference` | `desktop-actions.ts:1463` "must not linger" | `MCDesktop`, `Parts = {"opens"}` | the reference to a document stays when its folder is deleted |
| `RetriesRepeatNothing` | `orchestrator.ts:278`, of the orchestrator's own retries | `MCAssistant`, `Parts = {"model"}` | the pipeline retries the whole turn, whose tools have acted |
| `DoneChunkIsLast` | `tool-framework/src/types.ts:157` "the last one has `done: true`" | `MCToolInvocation` | a retry streams again into the same `onChunk` |
| `ConditionInspectsResult` | `planner/src/types.ts:39` "upstream task whose result this condition inspects" | `MCPlanExecution` | a condition is evaluated when the *dependencies* are done |
| `WordsStayWhereTheyWereTyped` | `v0.1.1-p1-ux-improvement-report.md:21-23` | `MCChatWindow`, `MaxActs = 3` | `retry()` sends the words that failed to the conversation that is active by then |
| `PurgedStaysGone` | `memory-store.ts:129` "Irreversibly removes a record" | `MCMemory`, `MaxRestarts = 0` | an embedding that is awaited while its record is purged puts it back |
| `IndexIsCurrent` | `memory-index.ts:14` "never drift out of sync with the store" | `MCMemory` | `hydrate()` does not index what it loads; a save that fails keeps the index from being rebuilt |
| `DisabledDoesNothing` | `memory-system/README.md:78` "every read/write is refused" | `MCMemory` | `exportMemories()` and `runMaintenance()` do not look |
| `AlwaysConverge` | `sync/src/index.ts:15` "deterministic, commutative merges" | `MCMemory` | one device sets a key twice in a millisecond, and no merge tells the two apart |

## 7 What is not covered

*Parts without a module.* plugin-platform with its runtime and SDK (lifecycle
transitions with awaited hooks: planned), automation, the planner's construction
of plans, its scheduler and its understanding of intents, the tool framework's
registry and records, hardware detection and the choice of a model, the model
router and the first-generation memory: none of them runs in the desktop app.
Recognisers, synthesisers and filters of the voice engine, prompts and token
budgets, HTTP adapters: numeric code, text and I/O without state whose order
matters. Presentation, settings pages, telemetry and the web shell only show or
forward.

*Left out of the modules there are.* Metrics, logs, audit trails and diagnostics
(append-only, never read back by the code that writes them) and the wording of
everything. The tool registry may change while a call is queued. The person
answers the dialog that is on screen: reading and clicking are one step. The tool
framework's temporary grants. A second instance of the app (the single-instance
lock is taken for granted). The in-memory file system of the model store, the
comparison of versions and resumable downloads; the app itself does not use
`ModelManager`. In the chat, the cancel button, titles and the order of the list.
In the memory manager, search, ranking, categories, encryption and conflicts;
`resolveDuplicates()` keeps the more recent record by `updatedAt`, which is not
modelled. The contents of tool results are reduced to their status, files to what
is there of them, frames to speech or silence.

## 8 Running it

    tlc -workers 2 -config MCToolInvocation.cfg MCToolInvocation
    tlc -workers 2 -config MCDesktop.cfg MCDesktop
    tlapm ToolInvocationProofs.tla
    tlapm LocalRuntimeProofs.tla

`PROJECT.json` lists the runs, the mutant of the code that breaks each property
(the operators marked `Defect` in the modules), the hazards each property is for,
and the theorems. Each passing run takes between ten seconds and two minutes.
