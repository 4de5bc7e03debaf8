# Unity Ads iOS SDK: TLA+ models and proofs

This directory holds TLA+ models of the control logic of the SDK in
`src/SourceCode`, TLC configurations that check them on small instances, and
TLAPS proofs that every safety property these configurations check holds for
all values of the constants. Paths below are relative to the
repository (`src/...`) or, for files of the SDK, to `src/SourceCode/Private`.

The models are translated from the code, with its tests and headers at hand.
Where the code and a test or a header disagree, a separate configuration shows
it ("Findings").

## 1. The system

The SDK is a native shell around a web application. The application calls
`UnityServices.initialize`, `UnityAds.load`, `UnityAds.show`, banners and
tokens; the SDK fetches a configuration, loads a web view, hands the calls to
it as JavaScript invocations and turns the web view's native calls back into
delegate calls.

The threads that matter:

| thread | what runs there |
| --- | --- |
| main | `dispatch_on_main` blocks (with `dispatch_on_main_sync` from other threads), NSTimers, application notifications, the web view's calls (`WebViewExposed_...`), delegate calls |
| invoke queue, one per module | `UADSAbstractModule.invokeOperation` |
| asynchronous operations | an `NSOperationQueue` of width 1 with `USRVWebViewAsyncOperation` |
| initialization | an `NSOperationQueue` with the states of `USRVInitialize`, or the queues of the Swift tasks |
| guards | serial dispatch queues that make single reads and writes of a dictionary or an array atomic |

Single accesses are atomic nearly everywhere; what is hard is what several of
them do together.

### Components

For each: the state it keeps, what changes it, whom it talks to, what is hard,
and what makes it correct.

**Ad operation modules** (`Ads/Load`: `UADSAbstractModule`, `UADSLoadModule`,
`UADSShowModule`, `UADSBannerLoadModule`). State: the storage of operations by
identifier, the TTL timer of each, the invoke queue. Operations: the
application's call, the invocation, the invoker's success or error, the TTL,
the web view's events. Called by the application, the web-view API classes, the
timer and the invoker; calls the invoker, the delegates and the metrics. Hard:
three threads end the same operation; an end is read, told and removed in
separate steps; objects are held weakly, so that who holds whom decides what
still runs. Correct: each call is ended, once, with the right reason, counted,
and forgotten. *Module `AdOperations` with `ErrorCodes`.*

**Asynchronous web-view operations** (`Core/WebView/Bridge`:
`USRVWebViewAsyncOperation`, its storage, `USRVNativeCallback`). State: one
status and one lock for all operations. Hard: a hand-made condition protocol
with a timeout and late answers. Correct: an answer ends its own operation, no
operation blocks the queue or the main thread. *Module `AsyncOperation`.*

**Web-view invoker** (`UADSWebViewInvokerImp`,
`WebViewInvokerQueueDecorator`). State: the buffer of operations that wait for
the initialization. Hard: the decision by a state that another thread changes,
drains posted before the state is set, repeated and failed initializations.
Correct: each operation is sent or refused, once. *Module `InvokerQueue`, which
implements `OnceInvoker`.*

**Initialization: front** (`src/SourceCode/Public/UnityServices.m`, Swift
`SDKInitializerBase`, `USRVInitializationNotificationCenter`,
`USRVCoreModuleConfiguration`, `USRVSdkProperties`). State: the state of the
SDK, the delegates of the application (held strongly), the delegates of the
center (held weakly), the saved completions. Hard: two flows, a Swift one and a
legacy one, keep two different states; repeated calls while one is running;
calls with other parameters; the end comes on the main thread between two reads
of the state. Correct: each delegate of an accepted call is told
the outcome, once. *Module `SdkInitialization`; the center's delegates in
`InvokerQueue`.*

**Initialization: legacy flow** (`Core/InitializationFlow`). A chain of states
(load configuration, reset, configure, load web, create, complete, error,
network error, retry), each run as an `NSOperation`, with cached files. Hard:
retries with back-off, a reset that waits for the web view to be torn down,
cached web view and configuration of different versions, a crash between two
writes. Correct: it ends in complete or error, which is told, and what is
created is what was verified. *Module `LegacyInit`.*

**Web application** (`Core/WebView/USRVWebViewApp.m`). State: the current
application, whether it is loaded and initialized, the native callbacks by
identifier. Hard: creation waits on a condition that the web view's
`initComplete` signals from the main thread; the condition is static.
*Module `WebViewApp`, composed in `LegacyInit`.*

**Header-bidding tokens** (`Ads/Token`,
`Core/Device/HeaderBiddingTokenReader`, `Tools/GenericMediator`). State: the
queue of tokens given by the web view, the peek mode, the observers with their
timeouts, the native generations that wait for the privacy response, the
signals of the Google SDK. Hard: tokens arrive, are deleted and are taken on
different threads while observers time out; a native token and the wait for the
privacy response race the first token of the web. Correct: each observer is
told once, in its turn, no token is given to two, signals and token bear one
identifier. *Module `HeaderBiddingTokens` with `Mediator` and `ScarSignals`,
which implements `TokenPromise`.*

**Timers** (`Tools/Timer`). State: the NSTimer, the intervals, the remaining
time. Hard: pause and resume with the application, and scheduling off the main
thread. Correct: one NSTimer, no interval lost. *Module `Timer`.*

**Configuration and privacy loading** (`Core/Configuration`), **metrics**
(`Core/Request/Metrics`), **SCAR signals** (`GMAScar`). Decorated loaders, a
batch that waits for the initialization, signals collected by reflection. The
storage of the privacy response and what a token has of the signals are in
`HeaderBiddingTokens`. *Planned `ConfigLoading`, `MetricsBatch`.*

**Everything else** (requests and cache, storage, ad unit, video, web player,
banner views, store, AR, device information, web-exposed API classes) passes
platform calls on to the web view and back, or stores data. It has little
control of its own and is not modelled; `PROJECT.json` lists each with its
reason.

## 2. Plan

In the order of what fails worst for an application that uses the SDK:

1. `ErrorCodes`, `AdOperations` and its proofs: the promise of load and show. *Done.*
2. `AsyncOperation`: what the invoker waits for. *Done.*
3. `OnceInvoker`, `InvokerQueue`: what happens to calls made too early. *Done.*
4. `Timer`: what the TTL rests on. *Done.*
5. `LegacyInit` with `WebViewApp`: the chain of states, the creation handshake,
   the cached files over crashes. *Done.* An abstract specification, of an
   initialization that ends once and only creates a web view whose hash was
   verified, may follow.
6. `SdkInitialization`: the delegates of repeated `initialize` calls in both
   flows. *Done.*
7. `TokenPromise`, `HeaderBiddingTokens` with `Mediator` and `ScarSignals`:
   storage, bridge and mediator, against observers that are told once, in their
   turn. *Done.*
8. `ConfigLoading` and `MetricsBatch`.

Theorems: the type invariants, the safety invariants and the two refinements
that the runs check are all proved (section 5). What may follow are theorems
about `ConfigLoading` and `MetricsBatch` once they are written, and an abstract
specification of the legacy initialization that `LegacyInit` is proved to
implement. All modules are written for it: recursion is not used, constants have
named assumptions, and each operation is one action.

## 3. The modules

| module | models | state and actions |
| --- | --- | --- |
| `ErrorCodes` | `UADSInternalError`, the public error enumerations, the wrappers' `convertIntoPublicError` | an internal error is its domain and reason; the conversions are functions on the integers, because two of them agree only by their integers |
| `AdOperations` | the modules, their storage, TTL, delegates, metrics; the invoker as it meets them | below |
| `AsyncOperation` | `main` on the queue, `callback:` on the main thread, the shared storage | one action per access to the storage, the condition or the status |
| `OnceInvoker` | what `UADSWebViewInvoker` promises to a module | `ended`, `fate`; `Settle` |
| `InvokerQueue` | the decorator, the blocks of the center, the states of the SDK in both flows | one action per call, posted block or buffered operation |
| `Timer` | `UADSTimer`, `UADSTimerWithAppLifeCycle` | NSTimers with the ticks left to them; schedule in three steps, fire, pause, resume, stop |
| `WebViewApp` | `USRVWebViewApp` and the page's calls to `USRVApiSdk` | the current application, its creation; used by `LegacyInit` |
| `LegacyInit` | `USRVInitialize` and the states of `Core/InitializationFlow` | below |
| `TokenPromise` | what `UnityAds.getToken:` promises | who waits, what each has been told |
| `Mediator` | `UADSGenericMediator` and its closure wrapper | the observers, their timeout blocks and the one the main thread has taken; one instance for the bridge, one for the privacy storage |
| `ScarSignals` | the eager strategy of the SCAR signals | for each request the signals, the identifier and what went out with either |
| `HeaderBiddingTokens` | the readers of tokens, `UADSTokenStorage`, `UADSApiToken`, the privacy storage | below |
| `SdkInitialization` | `UnityServices`, `SDKInitializerBase`, the delegates of `USRVSdkProperties` | below |
| `MC...` | | instances for TLC |
| `SequenceFacts` | | lemmas about Append, Tail and concatenation that several proofs use |
| `AdOperationsProofs`, `AsyncOperationProofs`, `InvokerQueueProofs`, `TimerProofs`, `SdkInitializationProofs`, `HeaderBiddingTokensProofs`, `LegacyInitProofs` | | the inductive invariant of each component, its lemmas and theorems |

**AdOperations.** `stored` is `stateStorage`, `invokeQ` the dispatched blocks
of each `invokeQueue`. `processError` has three steps on whatever thread runs
it: `GetOperation` reads the storage, `NotifyDelegate` sends the metric and
tells the delegate, `RemoveOperation` removes; `handler` says which thread
stands where. A web view's event takes the operation out of the storage in one
guarded access, so that event handlers are one action, guarded by `MainIsFree`.
`IsAlive` is the retain graph: the TTL block holds its operation weakly, so a
late TTL runs only while the storage, the invoker's completion blocks or a
handler hold it. The invoker is left as free as its two implementations allow:
it may send, keep, refuse, answer, fail or never answer. A delegate call is
counted where the wrapper dispatches it. `SubscribeToExpiration` is where the
invoke queue waits for the main thread. Identifiers are model values, metrics
and delegate calls are counters, and the error texts are left out.

**AsyncOperation.** `lock`, `status` are the storage; `owner` the mutex of each
condition. The main thread reads the published lock three times (lock, signal,
unlock), as `signalLock` does. To unlock a mutex that the thread does not hold
is undefined behaviour: nothing happens, or it is taken from its holder. A
waiting operation may wake up without a signal, with either result. The
invocation is dropped when the web application is not loaded (`Send`).

**InvokerQueue.** `ReadState` and the following `Send`, `Put` or `Refuse` are
separate, as they are in `invokeOperation:`. A block of the center remembers
whether this decorator was listed when it was posted (`listed`), since the
center copies its delegates then. The drain holds the buffer's queue from
`BeginDrain` to `EndDrain`. `flow` is fixed at the start: legacy or Swift.
Which steps of the initialization are kept is decided by what the decorator
reads: the rest belongs to `LegacyInit` and `SdkInitialization`. The decorator
implements `OnceInvoker` (`Abstract == INSTANCE OnceInvoker WITH ...`).

**Timer.** Time is counted while an NSTimer is live (`ran`). The caller's
`SetFields`, `InvalidateFirst` and `ArmFirst` are one visit when it is on the
main thread, and three steps otherwise. `TimesUp` calls the block and arms the
next interval in one step: no block in the repository invalidates its timer
before the last interval. NSTimer itself and the application's
changes of state are external.

**LegacyInit and WebViewApp.** `queue` is `initializeQueue`: its head is the
operation that runs, and one whose `execute` has returned nothing is still
there ("Done") until it has left, which is what `initialize` and
`downloadLatestWebView` ask `operationCount` about. Each state of
`InitializationFlow` is an action, or several where it waits or writes two
files; a wait is an action that begins it and others that end it, by a signal,
a connection or the timeout. `mainQ` holds the blocks posted to the main queue,
`dispatch_sync` runs when it is empty. A configuration is the hash it asks for,
whether the update is delayed, how the page is got and the version of the SDK
it was made for; a web view is its hash. `webFile` and `configFile` survive
`Restart`, after which the same or the next version of the SDK runs. A write or
a removal may fail unnoticed, as in the code; a file may fail to be read. The
page calls at any time while its web view is alive. In `WebViewApp` the condition
is static: a report signals whatever creation waits. External: the Swift
storage of configurations, which may write the configuration file (`Saves`), and
the Swift network layer, which may write any web view (`WebIsDownloaded`).
Abstracted: which of several connections counts (`shouldHandleConnectedEvent`)
is left to the environment. A wait may also wake up on its own: `WakeUp` stands
for a connection and for that, which the wait for the network cannot tell apart,
and a spurious wake-up of the reset counts as success. Left out are
error codes and messages, the delays between retries, and what only gates
invocations (`webAppLoaded`). A configuration that the server sends
carries the version of the SDK that asks for it.

**HeaderBiddingTokens.** `calls` are the blocks of the serial queue, the first
one running and standing at `running`; `tokens`, `peekMode` and `firstToken` are
the storage. A block takes a token (`Take`) and asks the mediator for the
observer it is for (`Hand`) in two steps, between which timeouts, native
generations and synchronous readers (`GetTokenNow`) run; the loop of
`notifyObserversAndCleanQueue` keeps the number of observers it has counted
(`left`). The timeout of an observer is two steps as well, `TimeOut` on the main
thread and `GiveUp` or `GiveUpPrivacy` on the mediator's queue. `GiveUp` takes
the removal (`UADSGenericMediator.m:97`) and the closure that follows it (line
98) as one step: that between the two another thread finds the observer gone and
not yet answered is not seen. The privacy
response is saved and told in two steps, and each observer it finds starts a
generation off the serial queue (`FinishGeneration`), as a timeout of that wait
does. The first token is the one of a configuration: it is stored by
`SaveConfiguration` and forgotten when the initialization fails. A token is an
integer in the order in which the web application has made it; that it is an
empty string is left out. One initialization is modelled. `setup` is what a
process has switched on, and the timeouts of the configuration that the readers
are built with: they are read once and divided by 1000 as integers
(`TokenTimeout`, `PrivacyTimeout`), and a mediator arms no timeout for a time
that is not positive (`Subscribe`). Readers built before there is a
configuration, on the first launch, have no timeout for the whole session. The
compression of tokens is left out, so `Inject` never fails to put the identifier
into a token; the refinement maps what completions were called with
to token or nothing.

**SdkInitialization.** `pc` is where a call stands inside the lock of
`UnityServices`, one action per read of the state. `main` holds the posted
announcements; `SetState` and `TellDelegates` are the two steps of each. `queue`
is the queue of `SDKInitializerBase`, whose blocks start, process a result or
call the saved completions. The chain of states and the Swift task are one step
here, how they end (`ChainEnds`, `TaskEnds`); `work` is "over" until the
operation is no longer counted (`OperationEnds`). `Recover` and `FallThrough`
are the wait for the network in the Swift flow, whose `startWithCompletion:`
goes on behind the state it has started again. The runner of the tasks is
external: it may pass on a second result or not. A delegate that calls
`initialize` while it is told is not modelled: the set of delegates would be
changed while it is gone through.

## 4. What is checked

All runs use the modules as they are; the configurations only give constants
their values. None of them checks for deadlock: each of these systems may
rightly come to rest.

| run | what it asks |
| --- | --- |
| `ad_operations` | a load, a show and a banner of which two are called, two events or late expirations each: `AnsweredOnce`, `AnsweredIsRemoved`, `NoTimeoutOnceShowing`, `EveryEndIsCounted`, `InitFailureIsNamed`; under fairness `EveryCallIsSettled` |
| `async_operation` | three operations, with and without a waiting time: `EachAnswerCountsOnce`, `EveryOperationCompletes`, `MainIsNeverStuck` |
| `invoker_queue` | three operations, two starts (valid or not), one reinitialization, both flows: the refinement `IsOnceInvoker`, `DrainSettlesInOrder`, `BufferedIsSettled` |
| `timer` | one interval and three, on and off the main thread, eight changes of the application: `OneTimerIsLive`, `IntervalsAreKept`, `EveryIntervalIsCalled` |
| `legacy_init` | two web views, four configurations, one retry, one wake-up of the wait for the network, one reinitialization, one restart: `VerifiedIsCreated`, `ConfigurationIsOwn`, `CompletedHasSaidSo`, `RequestsAreBounded`, `NobodyKeepsListening`; under fairness `EveryInitializationIsTold` |
| `tokens` | two requests, two tokens of the web, nine kinds of processes: the refinement `IsTokenPromise`, `LostTokensAreAccountedFor`, `WaitingIsForAReason`, `OldTokensGoToOldRequests`, `SignalsMatchToken`; under fairness `EveryRequestIsAnswered` |
| `sdk_initialization` | three calls, one of them with other parameters or none, both flows: `HeardOnce`, `CompletedOnce`, `HeardWhatHappened`, `StatesAgree`; under fairness `EveryCallIsTold`, `EveryCompletionIsCalled` |
| `ad_operations_told_once`, `ad_operations_no_connection`, `async_operation_own_status`, `invoker_queue_stranded`, `legacy_init_is_initialized` | the findings below |

Each run also checks the module's `TypeOK`.

What they show, in short. A delegate hears at most one end from everything that
runs on the main thread, in any order and repetition, and at most one more from
an error in the background; no end leaks the operation; no show times out after
it has started; every end is counted before it is told. No answer of the web
view ends two operations, and with a waiting time neither thread keeps the
other waiting. The buffer never sends twice or sends and refuses, and a due
drain settles it. The timer keeps its intervals over pauses. The page that the
legacy initialization creates has the hash its configuration asks for, and the
configuration is of the running SDK, whatever files an earlier process has left
in whatever state; the exception is a download whose own file could not be
written. Each initialization is told its end, unless the cached configuration
could not be read. Requests for a token are answered, in their order and with
older tokens first, once; a process without a timeout for tokens may leave a
request waiting for ever, but only while there is no token for it, or while the
privacy response, without a timeout either, does not come. A request whose timeout was being handled when it was
answered is told a second time, that there is none. Tokens that nobody gets
were taken for observers that got another answer meanwhile, and whoever waits
beside a storage waits because it is empty. Signals and token of a request go
out under one identifier. A delegate of `initialize` hears one thing, and of an
end that has happened, whichever thread tells it; the exceptions are in the
properties and below.

**Bounds.** `AdOperations`: operations interact only through the main thread,
the asynchronous queue and their module's queue, so two at a time, over all
pairs of kinds, show what one does to another; two events per operation are a
first and a repeated or late one, and a third is not told apart by any action.
One reason of a web view stands for all that the wrappers treat alike.
`AsyncOperation`: an answer that is late by one operation, and one by two.
`InvokerQueue`: with three operations a drain has one before, in and after its
reach; two starts give a repeated call in each state, a reinitialization the
second drain. `Timer`: one interval is the TTL, three have a first, a middle
and a last one; the change from active to background and back takes four
switches, so eight are two full rounds; an interval of three ticks can be
interrupted at its start, inside and at its end. `LegacyInit`: two web views are
the cached and the new one; the configurations ask for either with delay, for
one without and for a page without a hash, and use each way to get a page. One
retry has a first, a repeated and a last request; one wake-up ends one wait
for the network, after which the next failure waits until its timeout. One
process can fill both files, update one of them, and end between the two writes;
one restart uses them under the same or another version of the SDK; one
reinitialization meets every state of the application before it. 1.7 million
states. `HeaderBiddingTokens`: two requests are one that is passed over and the
one that gets what was meant for it; two tokens show their order; two calls of
the web application are tokens and their deletion, a second batch, or peeking.
What a process may have switched on is not combined freely: two calls with
nothing else, one with the signals, the wait for the privacy response or a token
of the configuration, none with wait and signals; the signals touch a request
only when it is asked and told. The timeouts are those a configuration has by
default, none at all for want of a configuration, 999 milliseconds for a token,
which is no second, and 999 for both. 1.3 million states. `SdkInitialization`: three
calls are one before, one in and one after an initialization; more of them only
repeat a call of the same state. One wait for the network falls through.

**Fairness.** Weak fairness for the dispatch queues, for blocks posted to the
main thread and for a running handler: the platform runs what was dispatched.
Weak fairness for an armed TTL and for the passing of time: timers fire. None
for the application, for the web view, which may never answer, or for the buffer
of the invoker, which may keep an operation for ever: that each accepted call is
settled all the same is what `EveryCallIsSettled` says. In `AsyncOperation` the
waiting time passes (`WakeUp` belongs to the queue's steps). In
`HeaderBiddingTokens` the serial queue runs and timeouts that were armed fire;
neither the web application nor the loading of the privacy response has to do
anything, but a response that was saved is told, and a generation that was
started ends: both native generators answer before they return. In `SdkInitialization` the caller,
the main thread and the queue go on, and the chain ends, which `LegacyInit`
shows of the legacy one. In `LegacyInit` the queue runs its operations, whose
waits end when they are due, and the main thread runs its blocks; the page and
the network owe nothing.

**Mutants.** For every property `PROJECT.json` names a change of one definition
that a plausible mistake in the code would make, and that violates it. They
stand before the definition they change and are used by nothing.

## 5. What is proved

Each component has a module of proofs. All theorems are of the form
`Spec => []...` or `Spec => ...!Spec`; none needs the fairness in `Spec`.

| module | theorem | states |
| --- | --- | --- |
| `AdOperationsProofs` | `TypeCorrect` | `[]TypeOK` |
| | `DelegatesAreAnsweredOnce` | `[]AnsweredOnce` |
| | `AnsweredOperationsAreRemoved` | `[]AnsweredIsRemoved` |
| | `ShowingIsNotTimedOut` | `[]NoTimeoutOnceShowing` |
| | `EndsAreAllCounted` | `[]EveryEndIsCounted` |
| | `FailedInitializationIsNamed` | `[]InitFailureIsNamed` |
| `AsyncOperationProofs` | `TypeCorrect` | `[]TypeOK` |
| | `AnswersCountOnce` | `[]EachAnswerCountsOnce` |
| `InvokerQueueProofs` | `TypeCorrect` | `[]TypeOK` |
| | `DrainsSettleInOrder` | `[]DrainSettlesInOrder` |
| | `ImplementsOnceInvoker` | the refinement `IsOnceInvoker` |
| `TimerProofs` | `TypeCorrect` | `[]TypeOK` |
| | `OneIsLive` | `[]OneTimerIsLive` |
| | `TimeIsNeitherLostNorGained` | `[]IntervalsAreKept` |
| `SdkInitializationProofs` | `TypeCorrect` | `[]TypeOK` |
| | `DelegatesHearOnce` | `[]HeardOnce` |
| | `CompletionsAreCalledOnce` | `[]CompletedOnce` |
| | `DelegatesHearWhatHappened` | `[]HeardWhatHappened` |
| | `StatesAgreeInTheEnd` | `[]StatesAgree` |
| `HeaderBiddingTokensProofs` | `TypeCorrect` | `[]TypeOK` |
| | `TokensAreLostForAReason` | `[]LostTokensAreAccountedFor` |
| | `NobodyWaitsWithoutReason` | `[]WaitingIsForAReason` |
| | `RequestsAreServedInOrder` | `[]OldTokensGoToOldRequests` |
| | `SignalsGoWithTheirToken` | `[]SignalsMatchToken` |
| | `ImplementsTokenPromise` | the refinement `IsTokenPromise` |
| `LegacyInitProofs` | `TypeCorrect` | `[]TypeOK` |
| | `PagesAreVerified` | `[]VerifiedIsCreated` |
| | `ConfigurationsAreOwn` | `[]ConfigurationIsOwn` |
| | `CompletionIsSaid` | `[]CompletedHasSaidSo` |
| | `RequestsStayBounded` | `[]RequestsAreBounded` |
| | `ListenersAreGone` | `[]NobodyKeepsListening` |

Each module also has `Invariance`, `Spec => []IInv`, from which the others
follow. They rest on the named assumptions of the modules alone, which the runs
evaluate: the bounds are natural numbers, the constants that stand for "nothing"
differ from what they stand beside, configurations, kinds, setups and reasons
are of their types, and the calls of `initialize` and the requests for a token
are finitely many (they are counted). The proofs hold for any number of
operations, calls, requests, tokens, retries, switches and restarts.

None of the invariants is inductive as it stands. What each proof adds, and why:

**AdOperations.** Whether another end may be told depends on what is still under
way. `IInv` adds that operations on an invoke queue are fresh and accepted
(`QueuesAreFresh`, `OnlyAcceptedRun`), which errors a thread may handle
(`HandlersAreInPlace`), that an operation whose end was told is stored only while
a handler is about to remove it (`HandlersRemove`), that a timeout is told only
for a TTL that has fired (`TimeoutsAreFired`), and the core, `EndsAreBounded`:
ends told plus ends that are still to come are at most one, and two once an
error has run in the background. `EndsStayBounded` shows that each step that
tells an end uses up a turn that was counted before (`NotificationUsesTurn`,
`CallEnds`, `EventEnds`), and that only an error off the main thread adds one.

**AsyncOperation.** The answer that completes an operation passes through the
main thread's hand and the shared status. `AnswersSuffice` counts both beside
the results: up to each operation, those completed with an answer, the one in
the storage and the one about to be stored are no more than the answers given.
`LockIsOwn`, `NothingIsAhead` and `AnswerIsGiven` say whose lock is published and
that nothing is answered before it is asked.

**InvokerQueue.** `DrainSettlesInOrder` needs that a drain belongs to the block
at the head of the main queue (`DrainIsInPlace`) and that what is buffered was
invoked before (`BufferIsOld`); `CountsAreBounded` gives the bounds of the types.
The refinement needs `EndsHaveCauses`: the state, a posted block, a waiting
completion and a decision to send or refuse all rest on an initialization that
has ended so. Then each step maps to a `Settle`, an end, or a stutter of
`OnceInvoker`.

**Timer.** `TimeIsKept`: the time that has run and the time left, with the
NSTimer or saved by `pause`, add up to whole intervals. `OneIsFree` says which
NSTimer the timer may arm; `CallsAreFew` bounds the calls, though nothing stops
`resume` from arming a timer that has called its last block, by the changes of
the application; `NothingHasRun` covers the steps of a caller off the main
thread.

**SdkInitialization.** `OneCaller` (the lock), `FlowsAreApart` and
`StartIsAwaited` say who may do what; `DelegatesWait`, `HeardByStep` and
`CompletionsWait` give `HeardOnce` and `CompletedOnce`. `AnnouncementsAreBounded`
counts the announcements with all that may still post one.
`AnnouncementsHaveCauses` follows an outcome from the work through results,
blocks and saved completions to the delegates; `ParametersFit` says why a call of
the legacy flow that reads a final state may be told it. For `StatesAgree`,
`OneOutcome`: as long as the work goes on nothing is said of its end, and
afterwards every block says the same, and whatever will set a state that is not
yet set is on its way.

**HeaderBiddingTokens.** `RequestsComeOnce` follows a request from its block to
the observers and the answers; `TokensAreInOrder` and `TokensGoOutInOrder` order
the tokens that are on their way, in the storage, in the hand of the loop and
given out; `RequestsAreInOrder` the requests in the same way, so that the two
orders meet in `OldTokensGoToOldRequests`. `LossesAreFew` counts the passes left
of the loop, each of which may lose a token, against the observers and those
served otherwise; `NobodyWaitsInVain` says that a loop under way has a pass for
each observer. `GenerationsAreFew` bounds what the race of the privacy response
with its timeout may generate. The refinement rests on `ArmedObserversWait`,
that only an observer that still waits can time out, and on
`ObserversHaveHeardNothing`: an observer that leaves is answered for the first
time, or its timeout was being handled, and then the answer is none. Nothing is
assumed of the timeouts: the theorems hold for processes without them.

**LegacyInit.** `HeadIsSound` is what the operation on the queue may rely on:
there is one (`OneRuns`), a state that needs a configuration has it, made for
this version of the SDK (`OperationFits`), the requests it has counted fit the
tries it has used (`RequestsFit`; a wait for the network that is not over has
used one more, which the wake-up that ends it pays for), a creation finds the
page its configuration asks for (`FileIsWhatIsCreated`), and a completion has a
page that has said so. Each lemma about a group of states shows that it hands on
a sound operation (`HandsOn`); the application then fits because it is created
by a sound one (`AppFits`). `ListenersStop` orders the main queue: a block that
listens is followed by the one that stops, or by nothing while its state waits.

Only model-checked, because liveness under fairness and ENABLED are beyond the
prover: `EveryCallIsSettled`, `EveryOperationCompletes`, `MainIsNeverStuck`,
`BufferedIsSettled`, `EveryIntervalIsCalled`, `EveryInitializationIsTold`,
`EveryRequestIsAnswered`, `EveryCallIsTold` and `EveryCompletionIsCalled`. The
counterexamples of section 6 are found by TLC.

## 6. Findings

1. **Two ends for one call** (`ad_operations_told_once`).
   `UADSAbstractModule.processError` reads the operation, tells the delegate and
   removes it, on the asynchronous queue, while the web view's event or the TTL
   does the same on the main thread. `UADSLoadModuleTests` expects the delegate
   to be notified once, `UnityAdsShowDelegate.h` that a show is completed or
   failed.
2. **NO_CONNECTION is told as ALREADY_SHOWING** (`ad_operations_no_connection`).
   The table in `UADSApiShow.m:14` maps it to another code than the header says.
3. **An answer for another operation** (`async_operation_own_status`). A late
   answer finds the shared storage waiting for a later operation and completes
   it with a status nobody gave it. `USRVWebViewAsyncOperationTests` expects an
   unanswered operation to time out.
4. **Stranded operations** (`invoker_queue_stranded`). The state is read before
   the operation is put into the buffer; the only drain may come in between.
   The operation then ends by its TTL although the SDK is initialized.
5. **isInitialized after a failure** (`legacy_init_is_initialized`). The page's
   `initComplete` sets the flag, whatever becomes of its creation. If the page
   reports before the creator waits, or after the timeout, the initialization is
   told to have failed while `isInitialized` says YES; the header says that YES
   means success.

Behaviour that no run is about, met while modelling:

- A show on a device that is not supported is reported with the raw code 0,
  `kUnityShowErrorNotInitialized`; a banner refused by a failed initialization
  with 0, unknown.
- With a waiting time of 0 the condition of an asynchronous operation stays
  locked and published; the next answer blocks the main thread on it. This is
  why `MainIsNeverStuck` asks for a waiting time.
- An answer given before the operation waits loses its signal: the operation
  times out although it was answered.
- `timesUp` past the last interval calls the block again when the application
  becomes active once more; an application that becomes active while a timer is
  scheduled off the main thread leaves an NSTimer that nobody invalidates, and
  the TTL may expire at once. The `Timer` properties exclude this race
  (`raced`).
- In the Swift flow a delegate added to an initialized SDK is never told
  (`IsStranded`), and a game identifier that is no number fails and forgets the
  saved completions of an initialization that is under way; the end of it is
  still announced. It is told as an internal error, although
  `UnityAdsInitializationDelegate.h:19` has an error for arguments. In the
  legacy flow an empty game identifier tells its delegate twice, and triggers no
  drain.
- The legacy flow reads the state again for each of its branches. A call that
  finds none of them, because the state was set in between, starts an SDK again
  that is initialized; if the old operation is still counted by the queue,
  nothing starts, and the SDK stays INITIALIZING (`IsStranded`).
- `USRVInitializeStateNetworkError.startWithCompletion` lacks a return behind
  the connected branch (line 88): the failure is announced although the network
  came back and the initialization goes on.
- Once the web application has given tokens, or a configuration its own, no
  native token is generated any more, also not after the tokens were deleted:
  requests then wait for their timeout and get none.
- On the first launch there is no configuration when the readers are built:
  `UADSHeaderBiddingTokenReaderBridge.m:24` divides the timeout of nil, and the
  mediator arms none for the rest of the session. A request that finds no token
  left waits until the web application sends another one, if ever
  (`MayWaitForEver`). The default of `USRVConfiguration.m:173` does not help,
  since the timeout is not read again; one below a second is cut to none.
- A token and the timeout of its request may both answer; a timeout of the wait
  for the privacy response that races the response starts two generations for
  one request, and the second may answer the next one in line.
- The first token is never taken: it is given to every request while the
  storage is empty.
- The synchronous `getToken` does not look at the state of the SDK; with the
  SCAR signals on it returns an identifier and "(null)" where there is no token,
  while `UnityAdvertisement.h:136` promises null.
- A cached configuration that cannot be read leaves none at all
  (`USRVInitializeStateLoadConfigFile.m:17`); if the initialization fails then,
  no module hears of it and the delegates are never told
  (`EveryInitializationIsTold` excludes it).
- `reinitialize` completes the current application as failed even if the queue is
  not empty and nothing follows: an SDK that stays initialized with an
  application that is not. During a creation it ends that creation as failed.
- Writing the web view's file may fail unnoticed; the page is loaded from the
  file all the same, and may be another one than the data whose hash was checked
  (`saved` in `VerifiedIsCreated`).
- The latest configuration is never cleared: a download later in the process may
  bring an older web view back into the cache.

## 7. Not modelled, and why

Configuration and metrics are planned (section 2). Of the tokens, the native
token that the web application asks for itself, the compression of native tokens
and the metrics are left out; of the SCAR signals, how they are collected. Of
the legacy chain the reset that only tests call (`USRVInitialize.reset`) and the
`startWithCompletion` variants of the states, which run in the Swift flow, are
left out, but for the wait that falls through (`SdkInitialization`). The Swift
task runners, the network layer and the mediator they use are in a package that
is not part of this repository. What a data race does to an
`NSMutableDictionary` (`nativeCallbacks`) is not something a model can
enumerate. Views, video, AR, store and the device readers are calls of the
platform passed on to the web view; storage and cache are files. Memory
management is modelled only where it decides what runs (`IsAlive`, the weak
delegates of the center).
