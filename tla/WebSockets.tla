----------------------------- MODULE WebSockets -----------------------------
(***************************************************************************)
(* A WSEndpoint in the role of a client, with JsonRpcInterface and         *)
(* PingPongEnabled: threads that send requests and wait for the answers,   *)
(* and the event loop thread that receives them and keeps the connection   *)
(* alive.                                                                  *)
(*                                                                         *)
(* A request object gets an id when it is created and may be sent again;   *)
(* what is asked is named by the object and by how often it was created.   *)
(* The map responseToPromise_ takes an id to the thread that waits for it. *)
(*                                                                         *)
(* websocketpp is outside the repository; it is modelled by how the        *)
(* endpoint uses it: events are handled one at a time by the thread in     *)
(* run(), messages are delivered in order while the connection is open, a  *)
(* close or a handshake that takes too long ends by itself, and run()      *)
(* returns when there is no connection and no timer left, once             *)
(* stop_perpetual was called.                                              *)
(***************************************************************************)
EXTENDS Naturals, Sequences

CONSTANTS
  Threads,     \* threads that send requests
  Requests,    \* JsonRpc::Request objects
  MaxIds,      \* bound on the ids generated
  MaxSends,    \* bound on the requests put on the wire
  MaxRepeats,  \* bound on the answers that come more than once
  MaxConnects  \* bound on the calls of connect

ASSUME RequestsAssumption == Requests # {}
ASSUME BoundsAssumption == MaxIds \in Nat /\ MaxSends \in Nat /\ MaxConnects \in Nat
                            /\ MaxRepeats \in Nat

VARIABLES
  idSequence, \* Request::idSequence
  id,         \* each object's Id, 0 before it is created
  created,    \* how often each object was created
  call,       \* where each thread is in sendRequest, and with which object
  responseToPromise_, \* pairs of an id and the thread that has its future
  future,     \* the value each thread's future has
  sends,      \* requests put on the wire so far
  resent,     \* history: some request went on the wire twice
  repeats,    \* history: answers that the peer sends again, so far
  onWire,     \* history: what was asked on the wire
  connection, \* the state of the connection behind connectionHandler_
  connects,   \* calls of connect so far
  asked,      \* what the peer was asked and has not answered
  inbox,      \* the peer's answers on their way, in order
  peer,       \* "alive", or "silent" while the connection lasts
  timers,     \* ping timers set and not fired
  pings,      \* pings the peer has not answered
  loop,       \* the event loop thread
  destructor  \* "no", "join" or "done"

rpcVars  == <<idSequence, id, created, call, responseToPromise_, future>>
wireVars == <<sends, resent, repeats, onWire, asked, inbox>>
linkVars == <<connection, connects, peer, timers, pings>>
vars == <<rpcVars, wireVars, linkVars, loop, destructor>>

Null == <<>>

\* A thread that is not in sendRequest.
Idle == [pc |-> "idle", req |-> CHOOSE r \in Requests : TRUE]

\* What object r asks, with the id it was created with.
Question(r) == <<r, created[r]>>

Questions == Requests \X Nat

\* Every variable has its type; besides, the event loop was started by the
\* first connect, and nothing is under way without a connection.
TypeOK ==
  /\ idSequence \in Nat /\ id \in [Requests -> Nat] /\ created \in [Requests -> Nat]
  /\ call \in [Threads -> [pc : {"idle", "check", "create", "send", "wait", "remove"}, req : Requests]]
  /\ responseToPromise_ \subseteq Nat \X Threads
  /\ future \in [Threads -> Questions \cup {Null}]
  /\ sends \in Nat /\ resent \in BOOLEAN /\ repeats \in Nat /\ onWire \subseteq Questions
  /\ connection \in {"none", "connecting", "open", "closing"}
  /\ connects \in Nat
  /\ asked \in Seq(Nat \X Questions) /\ inbox \in Seq(Nat \X Questions)
  /\ peer \in {"alive", "silent"}
  /\ timers \in Nat /\ pings \in Nat
  /\ loop \in {"off", "running", "ended", "crashed"}
  /\ destructor \in {"no", "join", "done"}
  /\ loop = "off" <=> connects = 0
  /\ connection \in {"none", "connecting"} => pings = 0 /\ asked = <<>> /\ inbox = <<>>

Init ==
  /\ idSequence = 0
  /\ id = [r \in Requests |-> 0] /\ created = [r \in Requests |-> 0]
  /\ call = [t \in Threads |-> Idle]
  /\ responseToPromise_ = {} /\ future = [t \in Threads |-> Null]
  /\ sends = 0 /\ resent = FALSE /\ repeats = 0 /\ onWire = {}
  /\ connection = "none" /\ connects = 0
  /\ asked = <<>> /\ inbox = <<>>
  /\ peer = "alive" /\ timers = 0 /\ pings = 0
  /\ loop = "off" /\ destructor = "no"

------------------------------------------------------------------------------
(***************************************************************************)
(* JsonRpc::Request and JsonRpcInterface::sendRequest.                     *)
(***************************************************************************)

\* Mutant of generateId: the sequence is read but not advanced.
generateIdAgain == IF idSequence = 0 THEN 1 ELSE idSequence

\* Request::generateId.
generateId == idSequence + 1

InUse(r) == \E t \in Threads : call[t].pc # "idle" /\ call[t].req = r

\* Request::create gives the object a new id.
create(r) ==
  /\ destructor = "no" /\ ~InUse(r) /\ idSequence < MaxIds /\ created[r] < MaxIds
  /\ idSequence' = generateId
  /\ id' = [id EXCEPT ![r] = generateId]
  /\ created' = [created EXCEPT ![r] = @ + 1]
  /\ UNCHANGED <<call, responseToPromise_, future, wireVars, linkVars, loop, destructor>>

\* A thread calls sendRequest; two threads may share a request.
sendRequest(t, r) ==
  /\ destructor = "no"
  /\ call[t].pc = "idle" /\ id[r] # 0
  /\ call' = [call EXCEPT ![t] = [pc |-> "check", req |-> r]]
  /\ UNCHANGED <<idSequence, id, created, responseToPromise_, future, wireVars, linkVars,
                 loop, destructor>>

Goto(t, from, to) ==
  /\ call[t].pc = from
  /\ call' = [call EXCEPT ![t] = IF to = "idle" THEN Idle ELSE [@ EXCEPT !.pc = to]]

Ongoing(i) == \E t \in Threads : <<i, t>> \in responseToPromise_

\* isRequestProcessingOngoing, which unlocks responseMutex_ with its answer.
CheckOngoing(t) ==
  /\ Goto(t, "check", IF Ongoing(id[call[t].req]) THEN "idle" ELSE "create")
  /\ UNCHANGED <<idSequence, id, created, responseToPromise_, future, wireVars, linkVars,
                 loop, destructor>>

\* Mutant of createFutureResponse: a request whose id is taken goes on to be
\* removed, as if it had been inserted.
createFutureResponseRemoves(t) ==
  /\ IF Ongoing(id[call[t].req])
     THEN Goto(t, "create", "remove") /\ UNCHANGED <<responseToPromise_, future>>
     ELSE /\ Goto(t, "create", "send")
          /\ responseToPromise_' = responseToPromise_ \cup {<<id[call[t].req], t>>}
          /\ future' = [future EXCEPT ![t] = Null]
  /\ UNCHANGED <<idSequence, id, created, wireVars, linkVars, loop, destructor>>

\* createFutureResponse: emplace refuses an id that is there already.
createFutureResponse(t) ==
  /\ IF Ongoing(id[call[t].req])
     THEN Goto(t, "create", "idle") /\ UNCHANGED <<responseToPromise_, future>>
     ELSE /\ Goto(t, "create", "send")
          /\ responseToPromise_' = responseToPromise_ \cup {<<id[call[t].req], t>>}
          /\ future' = [future EXCEPT ![t] = Null]
  /\ UNCHANGED <<idSequence, id, created, wireVars, linkVars, loop, destructor>>

\* WSEndpoint::send.  It fails unless the connection is open, and it may fail
\* then: connectionHandler_ is read while the event loop may be writing it.
Send(t) ==
  LET q == Question(call[t].req) IN
  /\ \/ /\ connection = "open" /\ sends < MaxSends
        /\ Goto(t, "send", "wait")
        /\ asked' = Append(asked, <<id[call[t].req], q>>)
        /\ sends' = sends + 1
        /\ resent' = (resent \/ q \in onWire) /\ onWire' = onWire \cup {q}
     \/ /\ Goto(t, "send", "remove")
        /\ UNCHANGED <<asked, sends, resent, onWire>>
  /\ UNCHANGED <<idSequence, id, created, responseToPromise_, future, repeats, inbox, linkVars,
                 loop, destructor>>

\* getAsyncResponse: the future is ready, or five seconds are over.
getAsyncResponse(t) ==
  /\ Goto(t, "wait", "remove")
  /\ UNCHANGED <<idSequence, id, created, responseToPromise_, future, wireVars, linkVars,
                 loop, destructor>>

\* removePromise, after which sendRequest returns with what processResponse
\* makes of the future's value, if the wait ended with one.
removePromise(t) ==
  /\ Goto(t, "remove", "idle")
  /\ responseToPromise_' = {p \in responseToPromise_ : p[1] # id[call[t].req]}
  /\ future' = [future EXCEPT ![t] = Null]
  /\ UNCHANGED <<idSequence, id, created, wireVars, linkVars, loop, destructor>>

CallerStep(t) ==
  /\ loop # "crashed"
  /\ \/ CheckOngoing(t) \/ createFutureResponse(t) \/ Send(t)
     \/ getAsyncResponse(t) \/ removePromise(t)

------------------------------------------------------------------------------
(***************************************************************************)
(* The peer.  It answers what it was asked, with its id, in any order and  *)
(* perhaps more than once, while the connection lasts, and it may fall     *)
(* silent.                                                                 *)
(***************************************************************************)

PeerAnswers ==
  /\ peer = "alive" /\ connection = "open"
  /\ \E i \in DOMAIN asked :
       /\ inbox' = Append(inbox, asked[i])
       /\ asked' = [j \in 1 .. Len(asked) - 1 |-> IF j < i THEN asked[j] ELSE asked[j + 1]]
  /\ UNCHANGED <<rpcVars, sends, resent, repeats, onWire, linkVars, loop, destructor>>

\* An answer that is not the last to its request: nothing on the endpoint's
\* side keeps a message from coming twice.
PeerRepeats ==
  /\ peer = "alive" /\ connection = "open" /\ repeats < MaxRepeats
  /\ \E i \in DOMAIN asked : inbox' = Append(inbox, asked[i])
  /\ repeats' = repeats + 1
  /\ UNCHANGED <<rpcVars, sends, resent, onWire, asked, linkVars, loop, destructor>>

PeerFallsSilent ==
  /\ peer = "alive" /\ connection = "open"
  /\ peer' = "silent"
  /\ UNCHANGED <<rpcVars, wireVars, connection, connects, timers, pings, loop, destructor>>

------------------------------------------------------------------------------
(***************************************************************************)
(* The event loop.                                                         *)
(***************************************************************************)

\* onMessage and handleResponse.  A message without a number for its id is
\* dropped, or handed to the owner as a notification, and changes nothing
\* here.  An answer to an id nobody waits for is dropped; a second answer to one
\* id throws promise_already_satisfied, which nothing catches.
onMessage ==
  /\ loop = "running" /\ connection = "open" /\ inbox # <<>>
  /\ LET i == Head(inbox)[1]
         q == Head(inbox)[2]
         waiting == {t \in Threads : <<i, t>> \in responseToPromise_}
     IN  /\ future' = [t \in Threads |-> IF t \in waiting /\ future[t] = Null THEN q ELSE future[t]]
         /\ loop' = IF \E t \in waiting : future[t] # Null THEN "crashed" ELSE loop
  /\ inbox' = Tail(inbox)
  /\ UNCHANGED <<idSequence, id, created, call, responseToPromise_, sends, resent, repeats,
                 onWire, asked, linkVars, destructor>>

\* Mutant of onOpen: no ping is scheduled.
onOpenUnwatched ==
  /\ loop = "running" /\ connection = "connecting"
  /\ connection' = "open"
  /\ UNCHANGED <<rpcVars, wireVars, connects, peer, timers, pings, loop, destructor>>

\* onOpen takes the connection over and starts the pings.
onOpen ==
  /\ loop = "running" /\ connection = "connecting"
  /\ connection' = "open"
  /\ timers' = timers + 1
  /\ UNCHANGED <<rpcVars, wireVars, connects, peer, pings, loop, destructor>>

\* onFail, or the handshake took too long.
onFail ==
  /\ loop = "running" /\ connection = "connecting"
  /\ connection' = "none"
  /\ UNCHANGED <<rpcVars, wireVars, connects, peer, timers, pings, loop, destructor>>

\* onClose: the peer closed or the link broke, or the close that was asked for
\* is complete.  What was under way is lost; the timers are not cancelled.
onClose ==
  /\ loop = "running" /\ connection \in {"open", "closing"}
  /\ connection' = "none" /\ pings' = 0
  /\ asked' = <<>> /\ inbox' = <<>> /\ peer' = "alive"
  /\ UNCHANGED <<rpcVars, sends, resent, repeats, onWire, connects, timers, loop, destructor>>

\* Mutant of ping: a ping that cannot be sent is scheduled again.
pingRepeats ==
  /\ loop = "running" /\ timers > 0
  /\ timers' = IF connection = "open" THEN timers - 1 ELSE timers
  /\ pings' = IF connection = "open" THEN pings + 1 ELSE pings
  /\ UNCHANGED <<rpcVars, wireVars, connection, connects, peer, loop, destructor>>

\* A timer fires: ping the connection the endpoint has now, if it is open.
ping ==
  /\ loop = "running" /\ timers > 0
  /\ timers' = timers - 1
  /\ pings' = IF connection = "open" THEN pings + 1 ELSE pings
  /\ UNCHANGED <<rpcVars, wireVars, connection, connects, peer, loop, destructor>>

\* onPong schedules the next ping.
onPong ==
  /\ loop = "running" /\ connection = "open" /\ pings > 0 /\ peer = "alive"
  /\ pings' = pings - 1 /\ timers' = timers + 1
  /\ UNCHANGED <<rpcVars, wireVars, connection, connects, peer, loop, destructor>>

\* onPongTimeout closes the connection.
onPongTimeout ==
  /\ loop = "running" /\ connection = "open" /\ pings > 0
  /\ connection' = "closing"
  /\ UNCHANGED <<rpcVars, wireVars, connects, peer, timers, pings, loop, destructor>>

\* run() has nothing left to wait for.
LoopEnd ==
  /\ loop = "running" /\ destructor = "join"
  /\ connection = "none" /\ timers = 0
  /\ loop' = "ended"
  /\ UNCHANGED <<rpcVars, wireVars, linkVars, destructor>>

------------------------------------------------------------------------------
(***************************************************************************)
(* connect, disconnect and the destructor, on the owner's thread.  The     *)
(* owner connects again only when the connection failed or was closed, and *)
(* destroys the endpoint when no call is in progress.                      *)
(***************************************************************************)

\* The state in which closeConnection leaves the connection: only one that is
\* open is closed.
closeConnection == IF connection = "open" THEN "closing" ELSE connection

\* Mutant of connect: the event loop is started for a second connection only.
connectUnstarted ==
  /\ destructor = "no" /\ loop # "crashed"
  /\ connection = "none" /\ connects < MaxConnects
  /\ connection' = "connecting" /\ connects' = connects + 1
  /\ loop' = IF connects = 0 THEN loop ELSE "running"
  /\ UNCHANGED <<rpcVars, wireVars, peer, timers, pings, destructor>>

\* Client::connect, which starts the event loop if it is not there.
connect ==
  /\ destructor = "no" /\ loop # "crashed"
  /\ connection = "none" /\ connects < MaxConnects
  /\ connection' = "connecting" /\ connects' = connects + 1
  /\ loop' = "running"
  /\ UNCHANGED <<rpcVars, wireVars, peer, timers, pings, destructor>>

\* Client::disconnect.
disconnect ==
  /\ destructor = "no" /\ connection = "open" /\ loop # "crashed"
  /\ connection' = closeConnection
  /\ UNCHANGED <<rpcVars, wireVars, connects, peer, timers, pings, loop, destructor>>

\* ~WSEndpoint: stop_perpetual, closeConnection, and the join in stopEventLoop
\* if there is a thread.
destroy ==
  /\ destructor = "no" /\ loop # "crashed"
  /\ \A t \in Threads : call[t].pc = "idle"
  /\ connection' = closeConnection
  /\ destructor' = IF loop = "running" THEN "join" ELSE "done"
  /\ UNCHANGED <<rpcVars, wireVars, connects, peer, timers, pings, loop>>

\* The join is over.
stopEventLoop ==
  /\ destructor = "join" /\ loop = "ended"
  /\ destructor' = "done"
  /\ UNCHANGED <<rpcVars, wireVars, linkVars, loop>>

------------------------------------------------------------------------------

Next ==
  \/ \E t \in Threads : CallerStep(t)
  \/ \E t \in Threads, r \in Requests : loop # "crashed" /\ sendRequest(t, r)
  \/ \E r \in Requests : loop # "crashed" /\ create(r)
  \/ PeerAnswers \/ PeerRepeats \/ PeerFallsSilent
  \/ onMessage \/ onOpen \/ onFail \/ onClose \/ ping \/ onPong \/ onPongTimeout \/ LoopEnd
  \/ connect \/ disconnect \/ destroy \/ stopEventLoop

Spec == Init /\ [][Next]_vars

------------------------------------------------------------------------------
(***************************************************************************)
(* Properties.                                                             *)
(***************************************************************************)

\* The thread's request is in responseToPromise_, for it to remove.
Holds(t) == call[t].pc \in {"send", "wait", "remove"}

\* The map's entries are those of the calls in progress, one each, whichever
\* way the calls end and although the check for a duplicate and the insertion
\* are two sections: an entry left behind would refuse its request for ever,
\* and one removed by another thread's call would lose an answer.
PromisesHaveCalls ==
  responseToPromise_ = {<<id[call[t].req], t>> : t \in {u \in Threads : Holds(u)}}

\* sendRequest returns an answer to what was asked, never the late answer to
\* another request that timed out, from a peer that answers with the ids it was
\* given.  A late answer to the same request, sent again under its old id,
\* counts as its own.
AnswersAreOwn ==
  \A t \in Threads : Holds(t) /\ future[t] # Null => future[t] = Question(call[t].req)

\* A promise that is satisfied twice ends the process.  That takes a message
\* that came twice, or a request that was sent again under its old id, whatever
\* threads share requests and however answers are late; and even then a call
\* that has its answer and has not removed its promise yet: what comes after
\* the call is dropped.
EventLoopSurvives ==
  loop = "crashed" =>
    /\ resent \/ repeats > 0
    /\ \E t \in Threads : Holds(t) /\ future[t] # Null

\* A peer that falls silent is noticed: an open connection has a ping on its
\* way or a timer that will send one, across reconnections too.
SilentPeerNoticed ==
  peer = "silent" /\ connection = "open" ~> (connection # "open" \/ loop = "crashed")

\* The destructor returns once the connection it leaves is not one that was
\* still connecting: no ping timer keeps run() going.
DestructorReturns ==
  destructor = "join" /\ connection \in {"closing", "none"} ~> destructor = "done"

==============================================================================
