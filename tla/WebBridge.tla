------------------------------ MODULE WebBridge ------------------------------
(***************************************************************************)
(* The WebBridge plugin (src/WebBridge): JSON-RPC requests that arrive on  *)
(* any channel are given a new id, remembered in _pendingRequests and      *)
(* forwarded to a service written in JavaScript, which has opened a        *)
(* channel of its own.  Its answer goes back to the requester under the    *)
(* id the requester used; a request that is not answered in time gets an   *)
(* error from the cleaner, a job of the worker pool.                       *)
(*                                                                         *)
(* Invoke, Inbound and the cleaner run on the threads of the worker pool,  *)
(* Attach and Detach on the communication thread.  Invoke adds to          *)
(* _pendingRequests without _adminLock, which the others hold: the         *)
(* outcomes of that race are in Emplaced.  Names are those of the source   *)
(* without their leading underscore.                                       *)
(***************************************************************************)
EXTENDS Integers, Sequences, FiniteSets, Functions, FiniteSetsExt

CONSTANTS
  Workers,      \* threads of the worker pool
  Requests,     \* <<channel, id>> of requests for the service: two channels may use one id
  Listeners,    \* channels that register for the service's event
  Designators,  \* [callsign, version, method] of the requests made
  Offered,      \* <<version, method>> pairs the service may register
  TimeOut,      \* the configured timeout, 0 for none
  MaxTime,      \* bound: the last instant of the clock
  MaxAttaches,  \* bound: connections of the service
  MaxEvents     \* bound: events the service sends

NoVersion == 255   \* uint8_t(~0): the designator names no version
NoRequest == <<>>

ASSUME BridgeConstants ==
  /\ TimeOut \in Nat /\ MaxTime \in Nat /\ MaxAttaches \in Nat /\ MaxEvents \in Nat
  /\ NoRequest \notin Requests
  /\ Designators \subseteq [callsign : {"own", "other"}, version : Nat, method : STRING]
  /\ Offered \subseteq Nat \X STRING

VARIABLES
  service,            \* "none", "set", "cleared", "destroyed", or "crashed": used as nullptr
  supportedVersions,  \* <<version, method>> pairs
  observers,          \* the channels registered for the service's event, in order
  pendingRequests,    \* new id -> [request, issued]
  sequenceId,         \* the last new id
  javascriptService,  \* channel of the service, 0 for none
  cleaner,            \* {} or the time the cleaner is scheduled for
  job,                \* what each worker is doing
  now,                \* the clock
  inbox,              \* new id -> request, for what the service has received
  made,               \* requests for the service made so far
  answers,            \* the answers each request has had, in order
  attaches,           \* connections so far
  events, heard,      \* events sent by the service, and received by each channel
  raced               \* an insertion met another change of the map

bridgeVars == <<supportedVersions, observers, pendingRequests, sequenceId, cleaner>>
peerVars   == <<inbox, made, answers, events, heard>>
vars == <<service, bridgeVars, javascriptService, job, now, peerVars, attaches, raced>>

\* A worker without a job.
Free == [pc |-> "idle", request |-> NoRequest, of |-> NoRequest, id |-> 0, time |-> 0, seen |-> {}]
Idle(w) == service = "set" /\ job[w] = Free

\* An answer: its kind, and the request whose result it carries.
Answer(kind, r) == [kind |-> kind, of |-> r]
Answered(r) == answers[r] # <<>>

Init ==
  /\ service = "none" /\ supportedVersions = {} /\ observers = <<>>
  /\ pendingRequests = <<>> /\ sequenceId = 1 /\ javascriptService = 0
  /\ cleaner = {} /\ job = [w \in Workers |-> Free] /\ now = 0
  /\ inbox = <<>> /\ made = {} /\ answers = [r \in Requests |-> <<>>]
  /\ attaches = 0 /\ events = 0 /\ heard = [c \in Listeners |-> 0]
  /\ raced = FALSE

Initialize ==
  /\ service = "none"
  /\ service' = "set"
  /\ UNCHANGED <<bridgeVars, javascriptService, job, now, peerVars, attaches, raced>>

\* Neither the cleaner nor the pending requests are touched.
Deinitialize ==
  /\ service = "set"
  /\ service' = "cleared"
  /\ UNCHANGED <<bridgeVars, javascriptService, job, now, peerVars, attaches, raced>>

\* The plugin object goes, and with it the cleaner's job.
Destroy ==
  /\ service = "cleared" /\ \A w \in Workers : job[w] = Free
  /\ service' = "destroyed" /\ cleaner' = {}
  /\ UNCHANGED <<supportedVersions, observers, pendingRequests, sequenceId,
                 javascriptService, job, now, peerVars, attaches, raced>>

\* A channel that speaks "json" becomes the service's if there is none yet.
Attach ==
  /\ service = "set" /\ attaches < MaxAttaches
  /\ attaches' = attaches + 1
  /\ javascriptService' = IF javascriptService = 0 THEN attaches' ELSE javascriptService
  /\ UNCHANGED <<service, bridgeVars, job, now, peerVars, raced>>

\* The service is lost with what it has received.
Detach ==
  /\ service = "set" /\ javascriptService # 0
  /\ javascriptService' = 0 /\ inbox' = <<>>
  /\ UNCHANGED <<service, bridgeVars, job, now, made, answers, attaches, events, heard, raced>>

-----------------------------------------------------------------------------
(* Invoke *)

Versions == {s[1] : s \in supportedVersions}

\* With a version only its methods count, without one those of all.
HasMethodSupport(version, method) ==
  \E s \in supportedVersions : s[2] = method /\ (version # NoVersion => s[1] = version)

Destination(d) ==
  CASE d.callsign # "own" -> "INCORRECT_HANDLER"
    [] d.callsign = "own" /\ d.version # NoVersion /\ d.version \notin Versions -> "INCORRECT_VERSION"
    [] OTHER ->
         CASE d.method = "register" -> "REGISTRATION"
           [] d.method = "unregister" -> "UNREGISTRATION"
           [] d.method = "exists" ->
                IF HasMethodSupport(d.version, d.method) THEN "EXISTS" ELSE "NONE_EXISTING"
           [] HasMethodSupport(d.version, d.method) -> "CUSTOM"
           [] OTHER -> "UNKNOWN_METHOD"

Subscribe(c) ==
  observers' = IF c \in Range(observers) THEN observers ELSE Append(observers, c)

\* The first of the channel's registrations goes, if there is one.
Unsubscribe(c) ==
  IF c \in Range(observers)
  THEN \E i \in DOMAIN observers :
         /\ observers[i] = c /\ \A j \in 1 .. i - 1 : observers[j] # c
         /\ observers' = [j \in 1 .. Len(observers) - 1 |->
                             IF j < i THEN observers[j] ELSE observers[j + 1]]
  ELSE UNCHANGED observers

\* The requests that are answered on the spot, by what Invoke returns.
InvokeHere(w, c, d) ==
  /\ Idle(w) /\ Destination(d) # "CUSTOM"
  /\ CASE Destination(d) = "REGISTRATION" -> Subscribe(c)
       [] Destination(d) = "UNREGISTRATION" -> Unsubscribe(c)
       [] OTHER -> UNCHANGED observers
  /\ UNCHANGED <<service, supportedVersions, pendingRequests, sequenceId, cleaner,
                 javascriptService, job, now, peerVars, attaches, raced>>

\* The request is forwarded under the requester's own id.
InvokeCustomOwnId(w, r, d) ==
  /\ Idle(w) /\ r \notin made /\ Destination(d) = "CUSTOM"
  /\ now + TimeOut =< MaxTime
  /\ made' = made \cup {r}
  /\ job' = [job EXCEPT ![w] = [pc |-> "emplace", request |-> r, of |-> r,
                                id |-> r[2], time |-> now + TimeOut,
                                seen |-> DOMAIN pendingRequests]]
  /\ UNCHANGED <<service, bridgeVars, javascriptService, now, inbox, answers, attaches,
                 events, heard, raced>>

\* A request for the service: the new id and the time to wait till, and the
\* insertion into the map begins.
InvokeCustom(w, r, d) ==
  /\ Idle(w) /\ r \notin made /\ Destination(d) = "CUSTOM"
  /\ now + TimeOut =< MaxTime
  /\ made' = made \cup {r}
  /\ sequenceId' = sequenceId + 1
  /\ job' = [job EXCEPT ![w] = [pc |-> "emplace", request |-> r, of |-> r,
                                id |-> sequenceId', time |-> now + TimeOut,
                                seen |-> DOMAIN pendingRequests]]
  /\ UNCHANGED <<service, supportedVersions, observers, pendingRequests, cleaner,
                 javascriptService, now, inbox, answers, attaches, events, heard, raced>>

\* A map with one more entry; one that is there already stays.
With(map, n, value) ==
  [m \in DOMAIN map \cup {n} |-> IF m \in DOMAIN map THEN map[m] ELSE value]

\* _pendingRequests.emplace without _adminLock.  If the map has changed since
\* the place for the new node was looked up, either node may end up unlinked.
Emplaced(w) ==
  LET new == [request |-> job[w].request, issued |-> job[w].time]
      kept == Restrict(pendingRequests, job[w].seen \cap DOMAIN pendingRequests)
  IN  IF DOMAIN pendingRequests = job[w].seen
      THEN {With(pendingRequests, job[w].id, new)}
      ELSE {With(pendingRequests, job[w].id, new), pendingRequests, With(kept, job[w].id, new)}

Emplace(w) ==
  /\ job[w].pc = "emplace" /\ service # "crashed"
  /\ pendingRequests' \in Emplaced(w)
  /\ raced' = (raced \/ DOMAIN pendingRequests # job[w].seen)
  /\ job' = [job EXCEPT ![w].pc = "submit"]
  /\ UNCHANGED <<service, supportedVersions, observers, sequenceId, cleaner,
                 javascriptService, now, peerVars, attaches>>

\* A use of _service after Deinitialize has cleared it.
Crash(w, pc) ==
  /\ job[w].pc = pc /\ service = "cleared"
  /\ service' = "crashed"
  /\ UNCHANGED <<bridgeVars, javascriptService, job, now, peerVars, attaches, raced>>

\* The request reaches the service if there is one.
SubmitRequest(w) ==
  /\ job[w].pc = "submit" /\ service = "set"
  /\ inbox' = IF javascriptService = 0 THEN inbox ELSE With(inbox, job[w].id, job[w].request)
  /\ job' = [job EXCEPT ![w].pc = "schedule"]
  /\ UNCHANGED <<service, bridgeVars, javascriptService, now, made, answers, attaches,
                 events, heard, raced>>

\* Core::WorkerPool::JobType::Schedule: the job is in the pool's queue at most
\* once, and what is there already stays.
Schedule(time) == cleaner' = IF cleaner = {} THEN {time} ELSE cleaner

ScheduleCleaner(w) ==
  /\ job[w].pc = "schedule" /\ service # "crashed"
  /\ IF TimeOut # 0 THEN Schedule(job[w].time) ELSE UNCHANGED cleaner
  /\ job' = [job EXCEPT ![w] = Free]
  /\ UNCHANGED <<service, supportedVersions, observers, pendingRequests, sequenceId,
                 javascriptService, now, peerVars, attaches, raced>>

-----------------------------------------------------------------------------
(* Inbound: messages from the service *)

\* A request that stays in the map once it is answered.
InboundResponseKeeps(w, n) ==
  /\ Idle(w) /\ n \in DOMAIN inbox
  /\ IF n \in DOMAIN pendingRequests
     THEN job' = [job EXCEPT ![w] = [Free EXCEPT !.pc = "respond", !.of = inbox[n],
                                                 !.request = pendingRequests[n].request]]
     ELSE UNCHANGED job
  /\ UNCHANGED <<service, bridgeVars, javascriptService, now, peerVars, attaches, raced>>

\* An answer of the service, late or doubled ones included: whoever finds the
\* request takes it out of the map.  Done under _adminLock.
InboundResponse(w, n) ==
  /\ Idle(w) /\ n \in DOMAIN inbox
  /\ IF n \in DOMAIN pendingRequests
     THEN /\ job' = [job EXCEPT ![w] = [Free EXCEPT !.pc = "respond", !.of = inbox[n],
                                                    !.request = pendingRequests[n].request]]
          /\ pendingRequests' = Restrict(pendingRequests, DOMAIN pendingRequests \ {n})
     ELSE UNCHANGED <<job, pendingRequests>>
  /\ UNCHANGED <<service, supportedVersions, observers, sequenceId, cleaner,
                 javascriptService, now, inbox, made, answers, attaches, events, heard, raced>>

\* The answer goes out under the requester's own id, after the unlock.  Its
\* contents are what the service computed for the id it was given.
SubmitResponse(w) ==
  /\ job[w].pc = "respond" /\ service = "set"
  /\ answers' = [answers EXCEPT ![job[w].request] = Append(@, Answer("result", job[w].of))]
  /\ job' = [job EXCEPT ![w] = Free]
  /\ UNCHANGED <<service, bridgeVars, javascriptService, now, inbox, made, attaches,
                 events, heard, raced>>

\* An event goes to the observers under _adminLock.
InboundEvent(w) ==
  /\ Idle(w) /\ javascriptService # 0 /\ events < MaxEvents
  /\ events' = events + 1
  /\ heard' = [c \in Listeners |-> heard[c] + Cardinality({i \in DOMAIN observers : observers[i] = c})]
  /\ UNCHANGED <<service, bridgeVars, javascriptService, job, now, inbox, made, answers,
                 attaches, raced>>

\* "registerjsonrpcmethods" empties the map of methods, with no lock, ...
ClearMethods(w) ==
  /\ Idle(w) /\ javascriptService # 0
  /\ supportedVersions' = {}
  /\ job' = [job EXCEPT ![w].pc = "fill"]
  /\ UNCHANGED <<service, observers, pendingRequests, sequenceId, cleaner,
                 javascriptService, now, peerVars, attaches, raced>>

\* ... and fills it again.
FillMethods(w) ==
  /\ job[w].pc = "fill" /\ service # "crashed"
  /\ supportedVersions' = Offered
  /\ job' = [job EXCEPT ![w] = Free]
  /\ UNCHANGED <<service, observers, pendingRequests, sequenceId, cleaner,
                 javascriptService, now, peerVars, attaches, raced>>

-----------------------------------------------------------------------------
(* Cleanup *)

\* The pool runs the cleaner's job once its time has come.
CleanupBegin(w) ==
  /\ service \in {"set", "cleared"} /\ job[w] = Free
  /\ \E time \in cleaner : now >= time
  /\ cleaner' = {}
  /\ job' = [job EXCEPT ![w] = [Free EXCEPT !.pc = "cleanup", !.time = now]]
  /\ UNCHANGED <<service, supportedVersions, observers, pendingRequests, sequenceId,
                 javascriptService, now, peerVars, attaches, raced>>

Expired(time) == {n \in DOMAIN pendingRequests : time >= pendingRequests[n].issued}

\* A cleaner that does not come back for the requests that are left.
CleanupOnce(w) ==
  /\ job[w].pc = "cleanup"
  /\ service = "set" \/ (service = "cleared" /\ Expired(job[w].time) = {})
  /\ LET late == Expired(job[w].time)
     IN  /\ answers' = [r \in Requests |->
              IF \E n \in late : pendingRequests[n].request = r
              THEN Append(answers[r], Answer("timeout", r)) ELSE answers[r]]
         /\ pendingRequests' = Restrict(pendingRequests, DOMAIN pendingRequests \ late)
  /\ job' = [job EXCEPT ![w] = Free]
  /\ UNCHANGED <<service, supportedVersions, observers, sequenceId, cleaner,
                 javascriptService, now, inbox, made, attaches, events, heard, raced>>

\* Under _adminLock every request whose time has passed is answered with an
\* error and forgotten; the earliest of the others is when to come back.
Cleanup(w) ==
  /\ job[w].pc = "cleanup"
  /\ service = "set" \/ (service = "cleared" /\ Expired(job[w].time) = {})
  /\ LET late == Expired(job[w].time)
         kept == DOMAIN pendingRequests \ late
     IN  /\ answers' = [r \in Requests |->
              IF \E n \in late : pendingRequests[n].request = r
              THEN Append(answers[r], Answer("timeout", r)) ELSE answers[r]]
         /\ pendingRequests' = Restrict(pendingRequests, kept)
         /\ job' = [job EXCEPT ![w] =
              IF kept = {} THEN Free
              ELSE [Free EXCEPT !.pc = "reschedule",
                                !.time = Min({pendingRequests[n].issued : n \in kept})]]
  /\ UNCHANGED <<service, supportedVersions, observers, sequenceId, cleaner,
                 javascriptService, now, inbox, made, attaches, events, heard, raced>>

Reschedule(w) ==
  /\ job[w].pc = "reschedule" /\ service # "crashed"
  /\ Schedule(job[w].time)
  /\ job' = [job EXCEPT ![w] = Free]
  /\ UNCHANGED <<service, supportedVersions, observers, pendingRequests, sequenceId,
                 javascriptService, now, peerVars, attaches, raced>>

Tick ==
  /\ service \in {"set", "cleared"} /\ now < MaxTime
  /\ now' = now + 1
  /\ UNCHANGED <<service, bridgeVars, javascriptService, job, peerVars, attaches, raced>>
-----------------------------------------------------------------------------
(* What a worker does once it has begun a job, and picking up the cleaner's. *)
Step(w) ==
  \/ Emplace(w) \/ SubmitRequest(w) \/ ScheduleCleaner(w)
  \/ SubmitResponse(w) \/ FillMethods(w)
  \/ CleanupBegin(w) \/ Cleanup(w) \/ Reschedule(w)
  \/ Crash(w, "submit") \/ Crash(w, "respond")
  \/ (Crash(w, "cleanup") /\ Expired(job[w].time) # {})

Receive(w) ==
  \/ \E c \in Listeners, d \in Designators : InvokeHere(w, c, d)
  \/ \E r \in Requests, d \in Designators : InvokeCustom(w, r, d)
  \/ \E n \in DOMAIN inbox : InboundResponse(w, n)
  \/ InboundEvent(w) \/ ClearMethods(w)

Next ==
  \/ Initialize \/ Deinitialize \/ Destroy \/ Attach \/ Detach \/ Tick
  \/ \E w \in Workers : Step(w) \/ Receive(w)

Spec == Init /\ [][Next]_vars

\* A worker goes on with the job it has begun, the pool's queue is first in
\* first out, so a cleaner that is due gets a worker however many messages
\* arrive, and time passes.  Nothing is assumed of the requesters, of the
\* service or of the framework.
FairSpec ==
  /\ Spec /\ WF_vars(Tick)
  /\ \A w \in Workers : WF_vars(Step(w))
  /\ SF_vars(\E w \in Workers : CleanupBegin(w))

-----------------------------------------------------------------------------
(* Properties *)

JobType == [pc : {"idle", "emplace", "submit", "schedule", "respond", "fill", "cleanup", "reschedule"},
            request : Requests \cup {NoRequest}, of : Requests \cup {NoRequest},
            id : Nat, time : 0..MaxTime, seen : SUBSET Nat]

\* Types, and that no channel is registered twice for one event ("Only 1
\* remains!!!" in Subscribe).
TypeOK ==
  /\ service \in {"none", "set", "cleared", "destroyed", "crashed"}
  /\ supportedVersions \in {{}, Offered}
  /\ observers \in Seq(Listeners)
  /\ \A i, j \in DOMAIN observers : observers[i] = observers[j] => i = j
  /\ DOMAIN pendingRequests \subseteq 2..sequenceId
  /\ \A n \in DOMAIN pendingRequests :
       pendingRequests[n] \in [request : Requests, issued : 0..MaxTime]
  /\ sequenceId \in Nat \ {0} /\ javascriptService \in 0..MaxAttaches
  /\ cleaner \in SUBSET (0..MaxTime) /\ \A s, t \in cleaner : s = t
  /\ job \in [Workers -> JobType]
  /\ now \in 0..MaxTime
  /\ DOMAIN inbox \subseteq 2..sequenceId /\ \A n \in DOMAIN inbox : inbox[n] \in Requests
  /\ made \subseteq Requests
  /\ answers \in [Requests -> Seq([kind : {"result", "timeout"}, of : Requests])]
  /\ attaches \in 0..MaxAttaches /\ events \in 0..MaxEvents /\ heard \in [Listeners -> Nat]
  /\ raced \in BOOLEAN

\* A request is answered at most once: an answer of the service that comes
\* late, or twice, or beside the cleaner's error, finds nothing in
\* _pendingRequests any more.
AnsweredOnce == \A r \in Requests : Len(answers[r]) =< 1

\* However the service's answers, their copies, the cleaner's error and the insertions
\* of two workers without _adminLock fall together, no request is answered twice.
\* The variables of WebBridge have their types.
OneAnswerEach == TypeOK /\ AnsweredOnce

\* What a requester receives under one of its ids is what the service computed
\* for that very request, although two requesters may use the same id and the
\* service sees only the ids WebBridge made up.
AnswersAreOwn ==
  \A r \in Requests : \A i \in DOMAIN answers[r] : answers[r][i].of = r

\* Every request is answered, by the service or in its place by the cleaner,
\* although the cleaner's job is in the pool's queue only once and requests
\* arrive while it runs.  This needs a timeout, and holds until WebBridge is
\* deactivated and as long as no insertion meets another change of the map.
RequestsAnswered ==
  \A r \in Requests : r \in made ~> (Answered(r) \/ service # "set" \/ raced)
==============================================================================
