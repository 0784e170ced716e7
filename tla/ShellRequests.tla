---------------------------- MODULE ShellRequests ----------------------------
(***************************************************************************)
(* The request protocol between RDKShell's callers and its shell thread.   *)
(*                                                                         *)
(* Displays are created and killed by one thread only, the shell thread    *)
(* that Initialize starts.  A JSON-RPC call, or a notification that        *)
(* another plugin is being initialised or was deinitialised, allocates a   *)
(* request with a semaphore, pushes it to a vector under gRdkShellMutex    *)
(* and waits; the shell thread drains the vectors once a frame, holding    *)
(* the mutex, and posts each semaphore.  Injected keys travel the same way *)
(* through mTaskQueue, which has a mutex of its own and a promise instead  *)
(* of a semaphore.                                                         *)
(*                                                                         *)
(* A request belongs to exactly one call, so it is named by the thread     *)
(* that makes the call.  A section a caller runs under gRdkShellMutex      *)
(* neither blocks nor calls out, so it is one step, enabled when the mutex *)
(* is free; the shell thread's frame is many steps.                        *)
(***************************************************************************)
EXTENDS Naturals, Sequences

CONSTANTS
  Threads,        \* threads that call into RDKShell
  Names,          \* client names, in the spelling the caller uses
  toLower,        \* the compositor's spelling of a client name
  Ops,            \* the operations the callers of this instance make
  MaxActivations, \* bound on the calls of Initialize
  MaxDeactivations \* bound on the calls of Deinitialize

ASSUME NamesAssumption == Names # {}
ASSUME toLowerAssumption == toLower \in [Names -> Names]
ASSUME BoundsAssumption == MaxActivations \in Nat /\ MaxDeactivations \in Nat

VARIABLES
  plugin,        \* where Initialize and Deinitialize stand
  activations,   \* calls of Initialize so far
  deactivations, \* calls of Deinitialize so far
  sRunning,      \* the file-scope flag the shell thread polls
  shell,         \* the shell thread's program counter
  isRunning,     \* the shell thread's own copy of sRunning
  mutex,         \* gRdkShellMutex: "free", or "shell" through a frame
  requests,      \* gCreateDisplayRequests, gKillClientRequests, mTaskQueue
  call,          \* what each calling thread is doing, and for which client
  sem,           \* the semaphore (or promise) of the thread's request
  displays,      \* the compositor's clients
  listeners,     \* clients (as the compositor spells them) with mEventListener
  displayNames,  \* the keys of gPluginDisplayNameMap
  activePlugins, \* the keys of gActivePluginsData
  disturbed      \* history: a create failed, or the kill API was used

shellVars  == <<plugin, activations, deactivations, sRunning, shell, isRunning>>
clientVars == <<displays, listeners, displayNames, activePlugins, disturbed>>
vars == <<shellVars, mutex, requests, call, sem, clientVars>>

Kinds == {"create", "kill", "task"}

\* The operations that go through the shell thread.  createDisplay, launch,
\* kill and injectKey are JSON-RPC calls; initialize and deinitialized are
\* MonitorClients notifications about another plugin.
AllOps == {"createDisplay", "launch", "initialize", "kill", "deinitialized", "injectKey"}

ASSUME OpsAssumption == Ops \subseteq AllOps

Notifications == {"initialize", "deinitialized"}

\* The queue in which an operation leaves its request.
Kind(o) == CASE o \in {"createDisplay", "launch", "initialize"} -> "create"
             [] o \in {"kill", "deinitialized"}                 -> "kill"
             [] o = "injectKey"                                 -> "task"

\* Once its request is served, or found to be needless, these operations
\* still update the compositor's listeners.
Listening == {"createDisplay", "initialize", "deinitialized"}

Calls == [pc : {"idle", "pending", "clients", "push", "wait", "listen", "data"},
          op : AllOps, client : Names]

\* A thread that is not in a call.
NoCall == [pc |-> "idle", op |-> "createDisplay", client |-> CHOOSE n \in Names : TRUE]

\* Every variable has its type; besides, gRdkShellMutex is held by the shell
\* thread exactly while it works on a frame, and the shell thread exists
\* exactly from its creation in Initialize to its join in Deinitialize.
TypeOK ==
  /\ plugin \in {"inactive", "starting", "active", "joining", "clearing"}
  /\ activations \in Nat /\ deactivations \in Nat
  /\ sRunning \in BOOLEAN /\ isRunning \in BOOLEAN
  /\ shell \in {"none", "init", "post", "frame", "create", "kill", "draw", "task", "exited"}
  /\ mutex \in {"free", "shell"}
  /\ requests \in [Kinds -> Seq(Threads)]
  /\ call \in [Threads -> Calls]
  /\ sem \in [Threads -> {"unposted", "posted", "abandoned"}]
  /\ displays \subseteq Names /\ listeners \subseteq Names
  /\ displayNames \subseteq Names /\ activePlugins \subseteq Names
  /\ disturbed \in BOOLEAN
  /\ mutex = "shell" <=> shell \in {"create", "kill", "draw", "task"}
  /\ shell = "none" <=> plugin \in {"inactive", "clearing"}

Init ==
  /\ plugin = "inactive" /\ activations = 0 /\ deactivations = 0
  /\ sRunning = TRUE /\ isRunning = TRUE
  /\ shell = "none" /\ mutex = "free"
  /\ requests = [k \in Kinds |-> <<>>]
  /\ call = [t \in Threads |-> NoCall]
  /\ sem = [t \in Threads |-> "posted"]
  /\ displays = {} /\ listeners = {} /\ displayNames = {} /\ activePlugins = {}
  /\ disturbed = FALSE

------------------------------------------------------------------------------
(***************************************************************************)
(* Initialize and Deinitialize, on the thread that (de)activates RDKShell. *)
(***************************************************************************)

\* RDKShell::Initialize up to its sem_wait: the monitor is registered and the
\* shell thread started.  The plugin object is a new one, and its mTaskQueue
\* is empty; a caller still waiting in an earlier object's queue is on its own.
Initialize ==
  /\ plugin = "inactive" /\ activations < MaxActivations
  /\ plugin' = "starting" /\ activations' = activations + 1
  /\ shell' = "init"
  /\ requests' = [requests EXCEPT !["task"] = <<>>]
  /\ sem' = [t \in Threads |->
               IF call[t].pc = "wait" /\ sem[t] = "unposted" /\ Kind(call[t].op) = "task"
               THEN "abandoned" ELSE sem[t]]
  /\ UNCHANGED <<deactivations, sRunning, isRunning, mutex, call, clientVars>>

\* Initialize returns once the shell thread has posted gInitializeSemaphore.
InitializeReturn ==
  /\ plugin = "starting" /\ shell \notin {"init", "post"}
  /\ plugin' = "active"
  /\ UNCHANGED <<activations, deactivations, sRunning, shell, isRunning, mutex,
                 requests, call, sem, clientVars>>

\* RDKShell::Deinitialize up to shellThread.join().
DeinitializeStop ==
  /\ plugin = "active" /\ deactivations < MaxDeactivations
  /\ mutex = "free"
  /\ sRunning' = FALSE
  /\ plugin' = "joining" /\ deactivations' = deactivations + 1
  /\ UNCHANGED <<activations, shell, isRunning, mutex, requests, call, sem, clientVars>>

\* The join, the removal of the listeners and the clearing of the plugin data.
DeinitializeJoin ==
  /\ plugin = "joining" /\ shell = "exited"
  /\ shell' = "none" /\ plugin' = "clearing"
  /\ listeners' = listeners \ displays
  /\ activePlugins' = {}
  /\ UNCHANGED <<activations, deactivations, sRunning, isRunning, mutex, requests,
                 call, sem, displays, displayNames, disturbed>>

\* The requests nobody served: their semaphores are destroyed, not posted.
DeinitializeClear ==
  /\ plugin = "clearing" /\ mutex = "free"
  /\ plugin' = "inactive"
  /\ requests' = [k \in Kinds |-> IF k = "task" THEN requests[k] ELSE <<>>]
  /\ sem' = [t \in Threads |->
               IF call[t].pc = "wait" /\ sem[t] = "unposted" /\ Kind(call[t].op) # "task"
               THEN "abandoned" ELSE sem[t]]
  /\ UNCHANGED <<activations, deactivations, sRunning, shell, isRunning, mutex,
                 call, clientVars>>

------------------------------------------------------------------------------
(***************************************************************************)
(* The shell thread.                                                       *)
(***************************************************************************)

ShellInit ==
  /\ shell = "init" /\ mutex = "free"
  /\ isRunning' = sRunning
  /\ shell' = "post"
  /\ UNCHANGED <<plugin, activations, deactivations, sRunning, mutex, requests,
                 call, sem, clientVars>>

ShellPost ==
  /\ shell = "post"
  /\ shell' = IF isRunning THEN "frame" ELSE "exited"
  /\ UNCHANGED <<plugin, activations, deactivations, sRunning, isRunning, mutex,
                 requests, call, sem, clientVars>>

FrameBegin ==
  /\ shell = "frame" /\ mutex = "free"
  /\ mutex' = "shell" /\ shell' = "create"
  /\ UNCHANGED <<plugin, activations, deactivations, sRunning, isRunning, requests,
                 call, sem, clientVars>>

\* What serving a request of kind k for client c does to the compositor.
\* CompositorController is outside the repository: createDisplay and kill
\* report whether they succeeded, and change the client list if they did.
Serve(k, c, ok) ==
  CASE k = "create" -> displays' = IF ok THEN displays \cup {toLower[c]} ELSE displays
    [] k = "kill"   -> displays' = IF ok THEN displays \ {toLower[c]} ELSE displays
    [] k = "task"   -> displays' = displays

\* Mutant of Drain: a request whose create failed is posted but not erased.
DrainKeepsFailed(k) ==
  /\ shell = k /\ requests[k] # <<>>
  /\ LET t == Head(requests[k]) IN
       \E ok \in BOOLEAN :
         /\ Serve(k, call[t].client, ok)
         /\ disturbed' = (disturbed \/ (k = "create" /\ ~ok))
         /\ requests' = [requests EXCEPT ![k] = IF ok THEN Tail(@) ELSE @]
         /\ sem' = [sem EXCEPT ![t] = "posted"]
  /\ UNCHANGED <<shellVars, mutex, call, listeners, displayNames, activePlugins>>

\* Mutant of Drain: the semaphore is posted only when the request succeeded.
DrainPostsSuccess(k) ==
  /\ shell = k /\ requests[k] # <<>>
  /\ LET t == Head(requests[k]) IN
       \E ok \in BOOLEAN :
         /\ Serve(k, call[t].client, ok)
         /\ disturbed' = (disturbed \/ (k = "create" /\ ~ok))
         /\ requests' = [requests EXCEPT ![k] = Tail(@)]
         /\ sem' = [sem EXCEPT ![t] = IF ok THEN "posted" ELSE @]
  /\ UNCHANGED <<shellVars, mutex, call, listeners, displayNames, activePlugins>>

\* One turn of the drain loops: serve the front request, erase it, post it.
\* The result of a kill or of a key is only reported; that of a create decides
\* whether there is a display.
Drain(k) ==
  /\ shell = k /\ requests[k] # <<>>
  /\ LET t == Head(requests[k]) IN
       /\ \E ok \in BOOLEAN :
            /\ Serve(k, call[t].client, ok)
            /\ disturbed' = (disturbed \/ (k = "create" /\ ~ok))
       /\ requests' = [requests EXCEPT ![k] = Tail(@)]
       /\ sem' = [sem EXCEPT ![t] = "posted"]
  /\ UNCHANGED <<shellVars, mutex, call, listeners, displayNames, activePlugins>>

\* The drain loop ends when its vector is empty.
DrainEnd(k, next) ==
  /\ shell = k /\ requests[k] = <<>>
  /\ shell' = next
  /\ UNCHANGED <<plugin, activations, deactivations, sRunning, isRunning, mutex,
                 requests, call, sem, clientVars>>

\* Mutant of Draw: sRunning is not read again.
DrawForever ==
  /\ shell = "draw"
  /\ shell' = "task"
  /\ UNCHANGED <<plugin, activations, deactivations, sRunning, isRunning, mutex,
                 requests, call, sem, clientVars>>

\* Draw and update the scene; sRunning is read before the tasks are run.
Draw ==
  /\ shell = "draw"
  /\ isRunning' = sRunning
  /\ shell' = "task"
  /\ UNCHANGED <<plugin, activations, deactivations, sRunning, mutex, requests,
                 call, sem, clientVars>>

\* Mutant of FrameEnd: the thread leaves its last frame without unlocking.
FrameEndLocked ==
  /\ shell = "task" /\ requests["task"] = <<>>
  /\ mutex' = IF isRunning THEN "free" ELSE mutex
  /\ shell' = IF isRunning THEN "frame" ELSE "exited"
  /\ UNCHANGED <<plugin, activations, deactivations, sRunning, isRunning, requests,
                 call, sem, clientVars>>

\* The frame's last section, after which the thread sleeps or exits.
FrameEnd ==
  /\ shell = "task" /\ requests["task"] = <<>>
  /\ mutex' = "free"
  /\ shell' = IF isRunning THEN "frame" ELSE "exited"
  /\ UNCHANGED <<plugin, activations, deactivations, sRunning, isRunning, requests,
                 call, sem, clientVars>>

ShellStep ==
  \/ ShellInit \/ ShellPost \/ FrameBegin
  \/ \E k \in Kinds : Drain(k)
  \/ DrainEnd("create", "kill") \/ DrainEnd("kill", "draw")
  \/ Draw \/ FrameEnd

------------------------------------------------------------------------------
(***************************************************************************)
(* The callers.                                                            *)
(***************************************************************************)

Goto(t, from, to) ==
  /\ call[t].pc = from
  /\ call' = [call EXCEPT ![t] = IF to = "idle" THEN NoCall ELSE [@ EXCEPT !.pc = to]]

\* JSON-RPC calls arrive while the plugin is active, notifications while the
\* monitor is registered; the framework does not overlap two notifications
\* about one plugin.
MayCall(o, c) ==
  IF o \in Notifications
  THEN /\ plugin \in {"starting", "active", "joining"}
       /\ \A u \in Threads : call[u].pc # "idle" /\ call[u].op \in Notifications => call[u].client # c
  ELSE plugin = "active"

Call(t, o, c) ==
  /\ MayCall(o, c)
  /\ call[t].pc = "idle"
  /\ call' = [call EXCEPT ![t] = [pc |-> IF Kind(o) = "create" THEN "pending" ELSE "push",
                                  op |-> o, client |-> c]]
  /\ UNCHANGED <<shellVars, mutex, requests, sem, clientVars>>

\* Where an operation goes when there is nothing to request, or when its
\* request was served.
AfterRequest(o) == IF o \in Listening THEN "listen" ELSE "idle"

\* isClientExists, first section: is a create request with this very name
\* pending?
CheckPending(t) ==
  /\ mutex = "free"
  /\ LET exist == \E i \in DOMAIN requests["create"] :
                     call[requests["create"][i]].client = call[t].client
     IN  Goto(t, "pending", IF exist THEN AfterRequest(call[t].op) ELSE "clients")
  /\ UNCHANGED <<shellVars, mutex, requests, sem, clientVars>>

\* isClientExists, second section: does the compositor list the client?
CheckClients(t) ==
  /\ mutex = "free"
  /\ Goto(t, "clients", IF toLower[call[t].client] \in displays THEN AfterRequest(call[t].op) ELSE "push")
  /\ UNCHANGED <<shellVars, mutex, requests, sem, clientVars>>

\* Allocate a request with an unposted semaphore and push it.  launch records
\* the display's name in the same section; RDKShell::kill drops it and the
\* listener.  mTaskQueue.push does not take gRdkShellMutex.
Push(t) ==
  /\ Kind(call[t].op) = "task" \/ mutex = "free"
  /\ Goto(t, "push", "wait")
  /\ requests' = [requests EXCEPT ![Kind(call[t].op)] = Append(@, t)]
  /\ sem' = [sem EXCEPT ![t] = "unposted"]
  /\ displayNames' = CASE call[t].op = "launch" -> displayNames \cup {call[t].client}
                       [] call[t].op = "kill"   -> displayNames \ {call[t].client}
                       [] OTHER            -> displayNames
  /\ listeners' = IF call[t].op = "kill" THEN listeners \ {toLower[call[t].client]} ELSE listeners
  /\ disturbed' = (disturbed \/ call[t].op = "kill")
  /\ UNCHANGED <<shellVars, mutex, displays, activePlugins>>

\* sem_wait (or future::get) returns.
Wake(t) ==
  /\ sem[t] = "posted"
  /\ Goto(t, "wait", AfterRequest(call[t].op))
  /\ UNCHANGED <<shellVars, mutex, requests, sem, clientVars>>

\* addListener or removeListener, under gRdkShellMutex.
Listen(t) ==
  /\ mutex = "free"
  /\ Goto(t, "listen", IF call[t].op \in Notifications THEN "data" ELSE "idle")
  /\ listeners' = IF call[t].op = "deinitialized" THEN listeners \ {toLower[call[t].client]}
                                             ELSE listeners \cup {toLower[call[t].client]}
  /\ UNCHANGED <<shellVars, mutex, requests, sem, displays, displayNames, activePlugins,
                 disturbed>>

\* Mutant of Data: the data of a deinitialised plugin is not erased.
DataKept(t) ==
  /\ Goto(t, "data", "idle")
  /\ activePlugins' = IF call[t].op = "initialize" THEN activePlugins \cup {call[t].client}
                                              ELSE activePlugins
  /\ UNCHANGED <<shellVars, mutex, requests, sem, displays, listeners, displayNames,
                 disturbed>>

\* The plugin data, under gPluginDataMutex.
Data(t) ==
  /\ Goto(t, "data", "idle")
  /\ activePlugins' = IF call[t].op = "initialize" THEN activePlugins \cup {call[t].client}
                                              ELSE activePlugins \ {call[t].client}
  /\ UNCHANGED <<shellVars, mutex, requests, sem, displays, listeners, displayNames,
                 disturbed>>

CallerStep(t) ==
  CheckPending(t) \/ CheckClients(t) \/ Push(t) \/ Wake(t) \/ Listen(t) \/ Data(t)

------------------------------------------------------------------------------

Lifecycle ==
  Initialize \/ InitializeReturn \/ DeinitializeStop \/ DeinitializeJoin \/ DeinitializeClear

Next ==
  \/ Lifecycle
  \/ ShellStep
  \/ \E t \in Threads : CallerStep(t) \/ \E o \in Ops, c \in Names : Call(t, o, c)

Spec == Init /\ [][Next]_vars

\* The shell thread is scheduled, and so are the callers.  Between two frames
\* the shell thread sleeps for the rest of the frame time with the mutex
\* released, so a caller that waits for the mutex gets it at some frame.
Fairness ==
  /\ WF_vars(InitializeReturn) /\ WF_vars(DeinitializeJoin) /\ WF_vars(DeinitializeClear)
  /\ WF_vars(ShellStep)
  /\ \A t \in Threads : SF_vars(CallerStep(t))

FairSpec == Spec /\ Fairness

------------------------------------------------------------------------------
(***************************************************************************)
(* Properties.                                                             *)
(***************************************************************************)

Positions(k, t) == {i \in DOMAIN requests[k] : requests[k][i] = t}

\* No lost and no double wake-up.  A caller blocked in sem_wait on an unposted
\* semaphore has its request queued exactly once, in the vector of its kind;
\* and no vector holds a request whose caller is not blocked on it, because it
\* was posted, was abandoned by Deinitialize, or is not waiting at all.
RequestConservation ==
  \A t \in Threads, k \in Kinds :
    IF call[t].pc = "wait" /\ sem[t] = "unposted" /\ k = Kind(call[t].op)
    THEN \E i \in DOMAIN requests[k] : Positions(k, t) = {i}
    ELSE Positions(k, t) = {}

Deinitializing(c) ==
  \E t \in Threads : call[t].pc # "idle" /\ call[t].op = "deinitialized" /\ call[t].client = c

CreatePending(c) ==
  \E i \in DOMAIN requests["create"] : call[requests["create"][i]].client = c

\* A plugin that RDKShell lists as active has a display, or a create request
\* that the shell thread will serve, until its own deinitialisation begins.
\* handleInitialize skips its request when isClientExists says the client is
\* there or coming, so this could fail on a stale answer.  It is stated as
\* long as no create has failed and the kill API, which takes a display away
\* from a plugin that is running, has not been used, and until RDKShell itself
\* is deinitialised, which drops pending requests.
PluginHasDisplay ==
  ~disturbed /\ deactivations = 0 =>
    \A c \in activePlugins : toLower[c] \in displays \/ CreatePending(c) \/ Deinitializing(c)

\* While the plugin is active its shell thread is alive to serve requests.
ActiveShellRuns == plugin = "active" => shell \notin {"none", "exited"}

\* Every call returns, unless RDKShell is deactivated meanwhile: a request is
\* never overtaken for ever, and a woken caller gets the mutex.
CallsReturn ==
  \A t \in Threads :
    call[t].pc # "idle" ~> (call[t].pc = "idle" \/ plugin \notin {"starting", "active"})

\* Deinitialize gets past shellThread.join(): the shell thread leaves its last
\* frame, however many requests arrive while it drains.
DeinitializeCompletes == plugin = "joining" ~> plugin = "inactive"

==============================================================================
