# Verification of entservices-infra

TLA+ models of the infrastructure plugins in this repository (RDKShell,
Analytics, WebBridge, RustAdapter, NativeJS) and of the websocket helper, the
TLC runs that check them on small instances, and TLAPS proofs of the properties
that matter most for any number of threads, clients and requests. `PROJECT.json`
maps every definition to the source lines it models and lists the runs, the
mutants that show each property can fail, the hazards and the findings.

## Running

    tlc -workers 2 -config ShellRequests_safety.cfg MCShellRequests
    tlapm ShellRequestsProofs.tla

Which module a `.cfg` belongs to is in `PROJECT.json`. The proof modules are
`*Proofs.tla`.

## The system

The plugins run in one Thunder process. The framework calls a plugin from the
threads of its worker pool (JSON-RPC calls, jobs) and from its communication
thread (channels), sends it notifications about other plugins, and activates
and deactivates it. Some plugins have threads of their own.

| Part | State | Operations | What is hard |
|---|---|---|---|
| RDKShell, shell thread | `gRdkShellMutex`, queues of create and kill requests, `mTaskQueue`, `sRunning`, the compositor's clients | createDisplay, kill, launch's display, injectKey, plugin notifications; one frame of the shell thread; Initialize, Deinitialize | callers block on semaphores that another thread posts; answers of `isClientExists` grow old; deactivation in the middle |
| RDKShell, applications | marks "being launched", "being destroyed", "destroyed from outside"; the state handler of each application; `gDestroyMutex` | launch, suspend, destroy; Deactivated, Deinitialized, StateChange | calls of several seconds on several threads for one application, against deactivations nobody asked RDKShell for |
| RDKShell, factory and resident application | launch status, factory mode, forced launch, first activation; values in the persistent store | launchFactoryApp and its shortcut, launchResidentApp, toggleFactoryApp, exitAgingMode, killAllApps, easter eggs; Initialized, Activated of ResidentApp | five flags without a lock, set before steps that may fail; activations nobody asked RDKShell for |
| RDKShell, focus and hibernation | the focused application, marks of suspended or hibernated ones, a count that blocks hibernations | setFocus, setTopmost, hibernate, restore; StateChange, Deactivated | telling an application wakes it; a focus that is refused |
| RDKShell, power | connection and subscription to the System plugin, requests under way | subscribeForSystemEvent from three places, onSystemPowerStateChanged, the power key | a connection that three callers share without a lock; requests that answer for an older state |
| RDKShell, boot | wait for the persistent store, splash, the graphics subsystem | frames of the shell thread, Activated of the store | exactly one decision, before the graphics, in the end |
| RDKShell, DAC and native applications | displays, containers, Rialto sessions, announced states | launchApplication, suspendApplication, resumeApplication, kill | three external parties, each of which may fail or be slow |
| RDKShell, methods with lists | none | addKeyIntercepts, addKeyListeners, generateKey, enableInputEvents, setAVBlocked, addAnimation, addEasterEggs, startup calls, getLastWakeupKey | a bad entry among good ones; the last try |
| RDKShell, frame flags | requests for a resolution, full-screen image, watermark, splash logo, screenshot; the frame rate | the setters and hiders, and their use in a frame | showing waits for a frame, hiding does not |
| RDKShell, geometry | the compositor's bounds, scale and virtual resolution of a client | setBounds, setScale, setVirtualResolution | values that are read and written in two sections |
| RDKShell, compositor wrappers | none of their own | the rest of some 150 JSON-RPC methods | little: they check, lock and call the compositor |
| Analytics, action loop | action queue, held events, whether the time is valid | SendEvent, ActionLoop, Configure, destructor | events before the clock is set; order; shutdown with events on the way |
| Analytics, system time | time status, zone, transition map, event queue | queries, notifications, EventLoop, destructor | first queries against notifications |
| Analytics, events map | the map | FromString, MapEventNameIfNeeded | precedence of overlapping entries |
| Analytics, local store | a table with a limit | AddEntry, GetEntriesCount, GetEntries, RemoveEntries, SetLimit | queries that fail, stops between reading and removing, the limit |
| WebBridge | pending requests, observers, methods, the service's channel, the cleaner's job | Invoke, Inbound, Attach, Detach, Cleanup | timeout against late answer; one insertion without the lock |
| RustAdapter, remote | sockets, reader thread, host process | Invoke, Attach, Detach, Run, Deinitialize | messages in pieces and no lock; a host that is not there |
| RustAdapter, local | table of contexts | Initialize, wpe_send_to | a table that grows under its readers |
| NativeJS | a render thread and its renderer | Initialize, CreateApplication, RunApplication, TerminateApplication, Deinitialize | start against stop |
| SceneSet | one application | notifications | a deactivated launcher |
| helpers | websocket endpoint with JSON-RPC and ping, timers, front panel, validators | | responses against timeouts; reconnects |

The components interact in few places: launch and the notifications of
AppLifecycle create and kill displays through ShellRequests; SystemTime tells
Analytics whether the time is valid; Boot decides the factory mode FactoryMode
starts with; the other plugins are independent.

## Modules

**ShellRequests** (`RDKShell.cpp`). A request belongs to exactly one call, so it
is named by the calling thread; `requests` holds the vectors and the task
queue, `sem` the semaphores. What a caller does under `gRdkShellMutex` neither
blocks nor calls out and is one step; a frame of the shell thread is many
steps (`FrameBegin`, `Drain`, `Draw`, `DrainEnd`, `FrameEnd`) with the mutex
held. `CheckPending` and `CheckClients` are the two halves of
`isClientExists`, with the unlock between them. The compositor is external
(`Serve`): it creates, fails to create, or removes a client, under the
lower-case spelling of its name. `disturbed` is a history variable: a create has
failed or the kill API was used.

**AppLifecycle** (`RDKShell.cpp`). launch, suspend and destroy of one application
are sequences of steps split where the code gives up a lock or calls the
framework. Thunder is external: it activates, deactivates, sends Deactivated
while the plugin still exists and Deinitialized when it is gone, and may do so
without RDKShell having asked.

**FactoryMode** (`RDKShell.cpp`). Calls run on threads of the framework or of
their own (`spawned`, `launchRequestThread`) through the steps between which
another thread can get in: reading the store, killing applications one by one,
launching, writing the status. `app` is the framework's state of the two
applications. Everything external may fail (`Failures`). `overlap`, `failed` and
`exempt` are history variables: two calls at once, a failure, an activation the
code lets pass.

**Hibernation** (`RDKShell.cpp`). setFocus in its steps (compositor, block, tell
the loser, unblock, tell the winner), and hibernate on its own thread (wait until
nothing is blocked, invoke, mark). `told` is what each application believes. The
compositor may refuse a focus, and setFocus tells the applications all the same;
setTopmost moves the focus and tells nobody (`misled` records both). createDisplay
cannot move it: the request that it queues for the shell thread has neither the
`topmost` nor the `focus` that it was given.

**PowerEvents** (`RDKShell.cpp`). subscribeForSystemEvent in its steps (look for a
connection, connect, subscribe) for its three callers: the request thread that
is started when the System plugin is activated, the timer, which goes on until somebody
has subscribed, and launchFactoryApp. They share the connection and the flag
without a lock. A subscription may fail, and then its caller drops the
connection, which may be another's (`Replace`; a use of one that is gone is
`down`). The thread then reads the power state, which may fail, and shows. The rest
are the notifications, the requests they lead to, and the power key. `lost`,
`unseen` and `praced` are history variables.

**Boot** (`RDKShell.cpp`). How the shell thread decides on the factory application
(`Decide`), sets the graphics subsystem (`SetGraphics`) and then, without the mutex,
requests the launch (`RequestLaunch`), before its loop or, on a device that waits for
the store, in it. A framework without subsystems is one of the starting situations.

**DacApps** (`RDKShell.cpp`, `RialtoConnector.cpp`). A call is split where it asks
the container plugin or the Rialto server and where it waits; `stateChanged` is
the server's notification, which wakes one waiting thread.

**FrameRequests** (`RDKShell.cpp`). The flags that calls leave for the shell
thread's next frame, each with its value, which is the number of the call that
gave it; hides, which go to the compositor at once; and the frame, which passes
the requests on, draws and takes the screenshot. `last`, `overtaken` and `wanted`
are history variables for what was asked.

**Geometry** (`RDKShell.cpp`). Bounds, scale and virtual resolution of clients that
come and go: a call reads what it was not given (`Look`) and writes all of it in a
second section (`Write`). `given` and `contended` are history variables: who gave a
value last, and where two changes overlapped.

**ListMethods** (`RDKShell.cpp`). The loops over lists as operators on sequences of
entries (a key, an entry for an unknown client, one that the compositor refuses, a
malformed one), against definitions of what their results are read to mean. In
addAnimation a number that cannot be read throws: the loop ends and the mutex stays
locked (`locked`).

**Analytics**, **EventDelivery** (`AnalyticsImplementation.cpp`). EventDelivery is
the promise: an event is passed on once and in order within its class (with a
time of its own, or with an uptime to be converted). Analytics is the code with
its two queues, and implements it under the mapping `Delivery`: what is pending
is the events in the two queues and in the hand of the loop. Times are
instants of a short uptime line after a boot at `Boot`; the system clock is
wrong until `Synchronise`. SystemTime may take a clock that was not set to be right
(`assumed`). While the time is not known to be valid the loop waits 3 s for an
event (`WaitTimesOut`) and only then looks at the time again; `TakeOther` and
`HandleOther` are any number of further events, with times of their own, that end
such a wait.

**SystemTime**, **TimeZone** (`SystemTime.cpp`). SystemTime has the constructor's
queries, the notifications on the System plugin's thread, the event loop and
the destructor. TimeZone is the parsing of zdump's output into the transition
map and the look-up in it, as pure operators.

**LocalStore** (`LocalStore.cpp`, `DatabaseConnection.cpp`). A table of rows with
ids, used the way the repository's backend uses it: add, count, read, remove,
verify, send. A query may fail, and the process may stop between any two. Nobody
looks at what Configure returns, so a backend without a connection, a table or a
limit is given events, too. The limit is on the database's pages, which are not
counted: an addition may fail.

**EventMapper** (`AnalyticsImplementation.cpp`). Reading the events map and looking
up a name, against the reference `MeantName`.

**WebBridge** (`WebBridge.cpp`, `WebBridge.h`). Workers of the pool run Invoke,
Inbound and the cleaner's job in steps; `job` is what each is doing. The
service answers any request it has received, at any time and any number of
times. The insertion into `_pendingRequests` without the lock takes a look-up
and a link; if the map changes between them, one of the nodes may be lost
(`Emplaced`; outcomes that end the process are left out). The ids of requests are
natural numbers; the code's counter has 32 bits, so the model stands for the first
2^32 requests. A use of `_service`
after Deinitialize is `Crash`.

**RemotePlugin** (`RemotePlugin.cpp`, `SocketServer.cpp`). A message is a number
and its pieces are numbered; `stream` is what was written to each connection.
`reader` is the thread in `SocketServer::Run`. The host process is external:
it connects when it likes, more than once if it likes, answers in pieces, may
crash, and exits when it reads an exit message in a stream it can follow. The
reader's loop looks at `m_running` only, which it sets itself (`RunSet`), before or
after Close has cleared it.

**LocalPlugin** (`LocalPlugin.cpp`). Activations add a context to `ctx_array` in two
steps, the ones of a `push_back` (read the end, write there and move the end);
Rust threads search it entry by entry up to `end`. Of two activations that race,
one overwrites the other's context, and a late one may move the end back, so that
cells behind it keep what they held. `raced` records that the table was grown while it was in use;
from then on a search may also end with nothing.

**NativeJS** (`NativeJSImplementation.cpp`). The render thread's steps, the calls
that look whether the renderer is there, and Deinitialize with its join.

**WebSockets** (`helpers/WebSockets`). The client endpoint with JSON-RPC and pings.
Threads go through `sendRequest` in the sections of `responseMutex_`; two may
share a request object, and a request may be sent again under its old id. A
question is named by the object and by how often it was created, so that a
reused id can be told from a new question. `onMessage`, `ping`, `onPong` and the
others are the event loop's handlers, one at a time; an exception on that
thread ends the process (`loop = "crashed"`). The peer answers late or never, and
may answer once more what it has answered (`PeerRepeats`, counted in `repeats`).
websocketpp is external.

**CommandInterface** (`helpers/WebSockets`). sendCommand in its steps (send, wait,
take the last response) and onMessage; a wait may end by a notification, by its
time, or spuriously.

**MC modules.** MCShellServices, MCAppFlows, MCAnalytics, MCHostedCode and
MCWebSockets each put components that share no state into one instance. A
behaviour of them is one of a single component, chosen in the initial state
(`focus`, `interface`), so the state space is the sum and not the product of the
components', and the properties of each are checked on all of its behaviours.
The others have the instances of one module.

## Runs

| Run | Instance | What it shows |
|---|---|---|
| shell_safety | 3 callers, every operation, 2 activations, 1 deactivation | no wake-up is lost or doubled (RequestConservation); until it is disturbed, an active plugin has a display or one that is coming, despite stale answers (PluginHasDisplay) |
| shell_services | ShellRequests with 2 callers, 1 activation and deactivation; Boot in every starting situation; PowerEvents with 2 changes and 1 key press; FrameRequests with 4 calls; fair | calls return, Deinitialize gets past its join; the factory mode is decided before the graphics, the launch requested once and after them, and both come (BootInOrder); when all is quiet a device that is awake shows its application, unless RDKShell could not see the last change; the screen shows what was asked for last, and a screenshot nothing older than its request (ScreenAsAsked) |
| shell_reactivation | 1 caller, 2 activations | finding: after a second activation the shell thread ends at once |
| app_flows | AppLifecycle with 1 launcher, suspender and destroyer, 3 calls each, 1 outside deactivation; FactoryMode with 2 threads, 2 calls, 2 activations, failures; Hibernation with 2 focusers, 1 hibernator, 3 calls; DacApps with 2 threads, a DAC and a native client, 4 calls; Geometry with 2 callers, 1 client, 3 calls; lists of up to 5 entries | marks have owners, launch excludes destroy, what the notifications leave is true, a launch is announced at most once; factory flags have calls, the two modes exclude each other; whoever runs and has lost the focus was told, unless the compositor refused it or setTopmost took it; answers about DAC applications are true; a call that changes one value of a client's geometry keeps the others; list results mean what they say |
| app_overlap | 2 launchers, 1 destroyer | finding: a destroy gets in beside the second launch |
| hibernation_wakes | 2 focusers, 1 hibernator, 3 calls | finding: a hibernation is invoked while the application is told that it lost the focus |
| rialto_waits | 2 threads, 2 DAC clients, 2 calls | finding: a notification wakes the wrong wait, and the right one times out |
| analytics_parts | 4 events of the three kinds, uptime 0..1; 2 changes of the System plugin; a limit of 2 entries per batch, 6 events, 2 stops; every zone with at most 3 transitions; every map with at most 3 entries; fair | true times unless the clock was assumed, order, every event accounted for, events leave once no others delay the look at the time; SystemTime agrees with the System plugin and its destructor returns; a stored event is taken once; the offset in force and the meant name are found |
| bridge_requests | 2 requesters with one id, 2 workers, time 0..2, timeout 1, 1 connection of the service, fair | one answer each and its own, by the service or the cleaner |
| hosted_code | RemotePlugin with 1 sender, 2 messages, 2 connections, 1 response; LocalPlugin with 2 activations, 2 Rust threads, 3 messages; NativeJS with 2 applications, 3 calls; fair | messages arrive whole, responses are counted, Deinitialize returns and the reader ends unless it says that it runs after Close; what Rust code sends goes home; a render thread that is terminated ends |
| websocket_client | 2 threads, 2 request objects, 2 ids, 2 sends, 2 connections, 1 repeated answer, fair | each entry of the map has its call, answers are one's own, a promise is satisfied twice only by a repeated answer or for a request sent again, a silent peer is noticed, the destructor returns; with CommandInterface, 2 threads and 4 commands, a lone command returns its own answer |
| remote_unconnected | 1 connection, fair | finding: Deinitialize hangs when the host has not been accepted yet |

Bounds. Three callers are enough for one to be served, one queued and one
between the halves of `isClientExists`. One application is enough because the
maps of AppLifecycle are keyed by application and nothing relates two of them;
three calls per thread let a mark survive a call, hinder the next and be
cleared by a third. Four events give two of one kind with another between
them. Two requesters with the same id are the smallest case in which an answer
can go astray, and a clock that ends two ticks after the timeout lets one
request expire before the other is made. Two connections are needed for one to
replace the other under a sender. In WebSockets two threads and two sends are
the smallest case of one request timing out under another, and two connections
let a ping timer of the first fire during the second.

Two calls of the factory flow are a launch and the call that undoes or repeats
it, one nested in the other included (toggle); two activations of the resident
application are the first and a later one, which the code treats differently.
Two focusers and one hibernator are the smallest case in which one's unblocking
could free what the other blocks. The two focusers are interchangeable (SYMMETRY; the run
has no liveness property), and setTopmost counts as a call. Four DAC calls let each client be launched and
changed once, by either thread. A list of five entries holds a good entry on
either side of a bad one. Two callers and a client that comes and goes are the
smallest case of two changes of its geometry that overlap, and a third call shows
what they leave; four calls for frames are a show, a hide, another show and a
screenshot. A batch limit below the number of events lets a batch be cut off. Two
changes of the power state put RDKShell to sleep and wake it, on either side of a
failed subscription; a repeated answer is one message more than its promise takes. An
uptime of one tick tells an event before the clock is read from one after. Two activations and two Rust threads
are what a race on `ctx_array` takes.

Fairness. The shell thread, ActionLoop, EventLoop, the reader and the workers
are threads, so a step they can take is taken (weak fairness). Callers of
RDKShell wait for a mutex that the shell thread releases between frames while
it sleeps, so they get it at some frame (strong fairness of the caller's step).
The worker pool's queue is first in first out, so a cleaner that is due is run
however many messages arrive (strong fairness of `CleanupBegin`). websocketpp ends
handshakes and closes by its timeouts and fires its timers (weak fairness of the
handlers); nothing is assumed of the threads that call sendRequest. The framework
delivers the notification of an activation (weak fairness of Boot's
`HandleActivated`), and a renderer that is terminated leaves `run()`. Nothing is
assumed of clients, of the JavaScript service, of the host except that it exits
when told, or of the framework's activations.

## Proofs

The theorems hold for every value of the constants that meets the assumptions in
the modules (disjoint sets of threads, natural bounds, a spelling function on
names, some request object) and the hypotheses written in the theorem. Where the
property is not inductive, the strengthening was checked with TLC before it was
proved.

*ShellRequestsProofs*, for any threads, names, operations and bounds:

- `TypeCorrect`: `Spec => []TypeOK`. TypeOK also says that the mutex is held
  exactly through a frame and that the shell thread exists exactly between
  Initialize and the join; it is inductive.
- `RequestsConserved`: `Spec => []RequestConservation`. The property is about
  positions in the queues; the inductive form says where each caller's request
  is (`Conserved`), together with TypeOK. Lemmas treat the ways a queue
  changes: a caller moves without touching it (`MoveConserves`), pushes
  (`PushConserves`), is served (`DrainConserves`), and is abandoned by
  Deinitialize (`AbandonConserves`).
- `PluginsHaveDisplays`: `Spec => []PluginHasDisplay`. `DisplayInv` adds that
  notifications come from one thread at a time (`NotifiesAlone`), that a kill in a
  queue counts as a disturbance (`KillsDisturb`) and, while nothing has disturbed
  the shell, that every listed plugin has its display or a request for it unless
  it is being taken off the list, and that handleInitialize, once it is past
  isClientExists and its wait, will list one that has (`DisplaysReady`): that is
  what makes the stale answer of `isClientExists` harmless. Hypothesis: no two names differ only in
  their case, because to the compositor they are one client and a kill of one
  takes the display of both.

*AppLifecycleProofs*, for any number of threads and whatever the framework does:

- `Typing`: `Spec => []TypeOK`, with the owner of `gDestroyMutex`.
- `MarksOwned`: a mark that is set has a call behind it. Every step is first
  reduced to its effect on the marks and on one program counter (`StepShape`),
  of which the invariant is an easy consequence.
- `Exclusion`: with at most one launcher and one destroyer, launch and destroy
  exclude each other. The strengthening says that each of the two calls owns its
  mark while it runs; app_overlap shows that the restriction is needed.
- `Notifications`: under the same restriction and for a plugin with a
  configuration line, `[]NotificationsSound`. `NotifyInv` adds that a deactivation
  nobody else asked for has a destroy that waits for it (`DestroyWaits`), and that
  the mark of one from outside lasts from its first notification to its last
  (`ExternalMarkLasts`). Without a configuration line the mark is never taken
  back, as the findings say.
- `Announcements`: for a plugin with a configuration line and a launcher that is
  alone, `[]LaunchesAnnouncedOnce`. `AnnounceInv` adds to the announcements made the
  one that the handler has still to make (`Due`) and the one of the call under way
  (`Own`): together they are no more than the launches. The hypothesis is needed: a
  plugin that is cloned by its launch while it is activated from outside can be
  announced by both.

*WebSocketsProofs*, for any threads, request objects, ids and reconnections:

- `TypeCorrect`: types, and that nothing is under way without a connection.
- `PromisesCorrect`: `Spec => []PromisesHaveCalls`. It needs two more facts: calls
  that hold an entry hold different ids (`IdsDiffer`), so that removing one does
  not remove another's, and a request in use has an id (`UsedHaveIds`).
- `AnswersCorrect`: `Spec => []AnswersAreOwn`. The strengthening says that ids are
  given once (`IdsAreUnique`) and that a message with the id of an object carries
  what that object asks (`MessagesTagged`); with PromisesHaveCalls the value set
  in a promise is then the answer to its caller's question.
- `LoopSurvives`: `Spec => []EventLoopSurvives`. While no request was sent again
  under its old id and no answer was repeated, a question is with the peer or its
  answer on the way, not both (`Placed`), and neither once its promise is set
  (`Settled`): together `OnceInv`. In any case a crash leaves behind the call that
  holds the promise, set (`CrashInv`), since without an entry in the map a message is
  passed over.
- `Responses`: `[]OwnResponse` of CommandInterface, for any callers and commands:
  the last response is the lone command's own (`CommandInv`).

*ShellServicesProofs*, about the composition MCShellServices:

- `ScreenIsAsAsked`: `[]ScreenAsAsked`, for any number of calls. What waits for a
  frame is the last call about its item unless a hide came after it
  (`PendingIsLast`), and what a screenshot wants will be on the screen once the
  next frame has passed on its requests (`ScreenshotIsDue`).
- `Decided`: the action property `BT!DecidedBeforeGraphics` and the invariant
  `BT!RequestedOnce`, the safety half of BootInOrder, for any set of starting
  situations. Graphics are set only where no decision can follow, and the shell
  thread is about to request the launch only when it is decided and they are set
  (`DecidedInv`).
- `AwakeShown`: `[]AwakeIsShown`, for any number of changes and key presses. Somebody
  listens once the thread has been in subscribeForSystemEvent or anybody has
  subscribed, unless the subscription is lost (`SubscriptionKnown`); the last event not
  yet handled tells of the power state there is, unless a later change was not seen
  (`EventsAreFresh`); and once all are handled nothing can hide the application any
  more (`ShowIsDue`). The exceptions of the property are real: see the findings.

*AppFlowsProofs*, about the composition MCAppFlows:

- `GeometryIsAsGiven`: `[]GeometryAsGiven`, for any callers, clients and calls. Where
  nothing is contended one change at most is under way, and what it read is still
  what the client has (`OneChanges`).
- `OnlyTheFocusedTold`: `[]OnlyFocusedTold`, for any finite sets of threads, any
  applications and calls. A mark that setFocus goes by is that of a suspended
  application (`MarksAreTrue`), and until the one that had the focus has been told,
  or needs no telling, no third one believes to have it (`OneFocuses`). Excepted are
  applications that were refused the focus or lost it to setTopmost, which the code
  tells wrongly or not at all.
- `AnswersAreTrue`: `[]AnswerIsTrue` of DacApps, for any threads, clients and calls. A
  state that the Rialto server has announced is the session's (`Announced`); a call
  that no other call for its client disturbs finds at each step what its earlier steps
  established (`CleanCalls`, by `Prepared`); and what the last call said is so and
  nothing that is still under way takes it back (`LastCalls`).
- `FactoryModesAreHeld`: `[]FactoryModesHold`, for any threads, calls and activations.
  Whoever sets STARTED or the force works on it or will come back to it
  (`StartedAndForced`); without overlapping calls one call at most is doing more than
  destroying the resident application (`OneMain`), and the factory application, the
  status, the easter eggs and the stored mode are what its step says, or settled where
  there is none (`ModeFollows`); a resident application that is on beside the factory
  application is about to be destroyed (`ResidentGoes`).

*AnalyticsProofs*, for any events and any instants:

- `TimesTrue`, `Accounted`: `[]TimesAreTrue` and `[]EventsAccounted`. The time is
  taken to be valid only while the clock is right, or after SystemTime assumed that it
  was (`TimeInv`), nothing waits for a
  valid time but while the waiting events are sent (`QueueInv`), and what was
  accepted and not handled is in the queues, once, with the shutdown behind it
  (`ActionsInv`).
- `Delivers`: `Spec => DeliversInOrder`, the refinement of EventDelivery. Init maps
  to Init and each step to an Accept, a PassOn or a stutter; the lemmas say what
  taking one element out of a sequence leaves, and that the event handled next is
  the oldest of its class.
- `SystemTimeAgrees`: `[]Agrees`, for any zones and any number of changes. For the time's
  quality and for the zone alike, the last notification on its way says what is so,
  and if there is none, what the query found or what is already applied does
  (`LoopFollows`); so it does not matter which of the two was the older.
- `EventsAreTakenOnce`: `[]TakenOnce` of LocalStore, for any page limit and
  number of stops, and also for a backend whose Configure failed. The ids in the table are consecutive, and the entries in the
  order of their ids (`TableShape`); the range of a query reaches to the last id and
  the batch has what is in it (`QueryShape`); what was taken is older than all that is
  in the table (`TakenShape`). `Rows` is proved to list a set of ids in order
  (`RowsAre`).

*WebBridgeProofs*, for any workers, channels, connections and timeouts:
`OneAnswer` and `OwnAnswers`. The invariant is a ledger: a request to be answered
is in at most one of three places, with a worker about to insert it, in the map,
or with a worker about to respond, and in none once it is answered (`OneHolder`);
and an id means the same request wherever it is met (`IdsAgree`). It covers the
insertion without the lock: the map may lose a request there but never gets it
twice.

*HostedCodeProofs*, about the composition MCHostedCode:

- `HomeComing`: `[]MessagesGoHome` of LocalPlugin, for any plugins, Rust threads and
  messages. Whatever a cell of the table holds, it pairs a plugin with its own id
  (`TableSound`) and ids are given once; while nothing has raced, every context is
  still ahead of a search for it (`Listed`).
- `StreamsAreSound`: `[]StreamsSound` of RemotePlugin, for any senders, messages,
  connections and responses. While nothing was torn, one sender at most is in the
  middle of a message, a stream is cut short only on its connection, and there the
  last piece is the one before the sender's next (`StreamShape`). The queue of a
  connection alternates as the host writes, a text right behind its header
  (`IncomingShape`), and every response is submitted, half read or has its header in
  a queue (`Counted`): ResponsesCounted with an equality. The lemmas say how the
  number of headers changes when a piece is appended (`HeadersAppend`) and when the
  first is taken (`HeadersTail`, by a bijection that moves the others up).

Only model-checked: everything about liveness, and two invariants. FunctionsMatch and
ListsAreSound are about pure functions that fold a sequence or look one up
recursively; what a fold computes for every sequence takes an induction over data and
an instance of the library's recursion theorems, which the provers do not find. They
are checked over bounded inputs. Of BootInOrder the safety half is proved (`Decided`)
and the liveness half is checked.

## Findings

- After a deactivation RDKShell's `sRunning` stays false and a second activation
  has no shell thread (shell_reactivation).
- Overlapping launches of one application share a mark, and a destroy is let in
  beside the second (app_overlap).
- RemotePlugin's Deinitialize waits for ever for a launched host that it did not
  tell to exit (remote_unconnected).
- hibernate looks whether hibernations are blocked and invokes one later: a
  setFocus in between wakes the application it is hibernating
  (hibernation_wakes).
- RialtoConnector's `notify_one` may wake a wait for another session; the right
  one then times out although its state is set (rialto_waits).

Read in the code while modelling, and not stated as violations because no
document or comment says otherwise:

- FactoryMode: the very first activation of ResidentApp is let pass when it comes
  after the factory application was launched, and one in the window in which
  toggle forces an exit that is then refused.
- Hibernation: an application hibernated without being suspended keeps its mark
  after restore and is skipped by setFocus from then on.
- DacApps: launch waits for the session under the application's id though the
  session is named by the client; a failure before startContainer leaves the
  display; a kill whose stopContainer fails cannot be repeated, because the type
  is gone.
- Hibernation: setFocus tells the applications of a focus that the compositor
  refused, and setTopmost tells nobody of the one it moved (`misled`).
- ListMethods: the results of addKeyIntercepts and of generateKey are those of their
  last entries. setAVBlocked answers true without a resource manager. addAnimation
  converts numbers with `std::stod`, which throws, with `gRdkShellMutex` held, on text
  that is no number: the mutex stays locked (`locked`), and whether the process survives
  the exception is up to the framework.
- FrameRequests: something hidden between the request to show it and the frame
  comes up nevertheless (`overtaken`). A frame rate of 0 is accepted and divided by.
- Geometry: two overlapping changes may undo each other's values, and a change that
  began before a client came gives it values of another (`contended`).
- PowerEvents: onPowerKey says "pressed too fast, ignoring" and goes on;
  `gSystemServiceEventsSubscribed` is never reset. Two callers of
  subscribeForSystemEvent may both get past the check of that flag: if one's
  subscription fails it drops the connection over which the other has subscribed, the
  flag stays set, and nobody subscribes again (`lost`); or the other uses a connection
  that is gone (`down`).
- Analytics: SystemTime takes the clock to be right when the System plugin does not
  answer, and the uptimes converted then are wrong if it is not (`assumed`). Events that
  come more often than every 3 s keep the loop from looking at the time, and the held
  ones wait (EventsLeave assumes that this ends).
- LocalStore: entries beyond the batch's limit are removed unread (`crowded`); an
  apostrophe makes an insertion fail; a stop between removal and sending loses the batch.
- RemotePlugin: a reader thread that sets `m_running` after Close has cleared it runs
  for ever, waking up every ten seconds (the second half of ReaderEnds).
- LocalPlugin: contexts are never removed and outlive the plugins bound to them.
- NativeJS: a Deinitialize before the renderer is made leaves the thread running;
  calls made before that are stored and never served.
- WebBridge: Deinitialize clears `_service` while the cleaner may be queued
  (`Crash`); the insertion without the lock can lose a request.
- AppLifecycle: a plugin without a configuration line keeps its outside mark for
  ever; destroy waits for the framework with `gDestroyMutex` held.
- ShellRequests: callers whose requests are dropped by Deinitialize wait for ever
  (CallsReturn excludes them).
- WebSockets: an answer that is repeated, or comes for a request that was sent again
  under its old id, while sendRequest still holds the promise throws on the event
  loop's thread, and the process ends (EventLoopSurvives says that nothing else does).
- WebSockets: a connection that is still connecting when the endpoint is
  destroyed is not closed, and the join lasts until the peer closes it.

## Not modelled

The compositor wrappers of RDKShell that are not named above check their
parameters, take the mutex once and call the compositor, and the methods that
report plugins and memory (getState, getAvailableTypes, getSystemResourceInfo)
change nothing. Loading of libraries, configuration parsing, JSON formatting and
logging are left out. Queries that fail before anything has changed are left
out. Crashes of the process are modelled only where the code uses a pointer it
has cleared (WebBridge), throws on a thread of its own (WebSockets), or must
find its data again (LocalStore). The websocket server and TLS, WebSocketLink
and WsManager, the front panel, the timers, the other helpers and SceneSet are
not modelled: the helpers are used by plugins that are not in this repository,
and their protocols are the framework's.

## Plan

1. SceneSet; the websocket server.
2. The timers and the front panel's blinking.
3. Proofs: the folds of ListMethods and the functions of Analytics, once the provers
   can instantiate a recursion theorem. Every other safety invariant that a run checks
   is a theorem.
