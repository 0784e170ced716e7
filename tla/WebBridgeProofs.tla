---------------------------- MODULE WebBridgeProofs ----------------------------
(***************************************************************************)
(* WebBridge answers a request at most once, and with what the service     *)
(* computed for that request, for any number of workers, channels,         *)
(* requests and connections and any timeout.                               *)
(*                                                                         *)
(* Neither property is inductive.  An answer is due for every request that *)
(* is in one of three places: a worker about to insert it, the map of      *)
(* pending requests, or a worker about to respond.  OneHolder says that a  *)
(* request is never in two of them, and not in any of them once it is      *)
(* answered; IdsAgree says that a new id means the same request wherever   *)
(* it is met: with a worker, in the map and with the service.              *)
(***************************************************************************)
EXTENDS WebBridge, FiniteSetTheorems, NaturalsInduction, TLAPS

\* The worker has an id the service has not seen yet.
Sending(w) == job[w].pc \in {"emplace", "submit"}

\* The worker has a request that is not in the map and is to be answered.
Holding(w) == job[w].pc \in {"emplace", "respond"}

\* What a worker has is complete, and a response goes to the requester it is for.
JobsMatch ==
  \A w \in Workers :
    /\ Sending(w) => job[w].id \in 2..sequenceId /\ job[w].request \in Requests
    /\ job[w].pc = "respond" => job[w].request \in Requests /\ job[w].of = job[w].request

IdsAgree ==
  /\ \A v, w \in Workers : Sending(v) /\ Sending(w) /\ job[v].id = job[w].id => v = w
  /\ \A w \in Workers : Sending(w) => job[w].id \notin DOMAIN inbox
  /\ \A w \in Workers : job[w].pc = "emplace" => job[w].id \notin DOMAIN pendingRequests
  /\ \A w \in Workers : Sending(w) /\ job[w].id \in DOMAIN pendingRequests
                          => pendingRequests[job[w].id].request = job[w].request
  /\ \A n \in DOMAIN inbox : n \in DOMAIN pendingRequests => pendingRequests[n].request = inbox[n]

\* An answer to this request is still to come.
Due(r) == r \in made /\ answers[r] = <<>>

OneHolder ==
  /\ \A v, w \in Workers : Holding(v) /\ Holding(w) /\ job[v].request = job[w].request => v = w
  /\ \A w \in Workers, n \in DOMAIN pendingRequests :
       Holding(w) => pendingRequests[n].request # job[w].request
  /\ \A m, n \in DOMAIN pendingRequests : pendingRequests[m].request = pendingRequests[n].request => m = n
  /\ \A w \in Workers : Holding(w) => Due(job[w].request)
  /\ \A n \in DOMAIN pendingRequests : Due(pendingRequests[n].request)
  /\ \A r \in Requests : answers[r] # <<>> => r \in made

Ledger == JobsMatch /\ IdsAgree /\ OneHolder /\ AnsweredOnce /\ AnswersAreOwn

BridgeInv == TypeOK /\ Ledger

--------------------------------------------------------------------------------
(* The operators of the model. *)

\* The earliest of some instants is one of them.
LEMMA MinIsIn ==
  ASSUME NEW S \in SUBSET Nat, S # {}
  PROVE  Min(S) \in S
  <1>1. PICK x \in S : \A y \in S : ~(<<y, x>> \in OpToRel(<, Nat))
    BY NatLessThanWellFounded, WFMin
  <1>2. ASSUME NEW y \in S PROVE x =< y
    <2>1. <<y, x>> \in Nat \X Nat /\ <<y, x>>[1] = y /\ <<y, x>>[2] = x
      OBVIOUS
    <2>2. ~(y < x)
      BY <1>1, <2>1, Zenon DEF OpToRel
    <2>3. QED
      BY <2>2
  <1>3. QED
    BY <1>2 DEF Min

\* Subscribe and Unsubscribe keep every channel registered once.
LEMMA ObserversOnce ==
  ASSUME NEW c \in Listeners, Subscribe(c) \/ Unsubscribe(c),
         observers \in Seq(Listeners),
         \A i, j \in DOMAIN observers : observers[i] = observers[j] => i = j
  PROVE  /\ observers' \in Seq(Listeners)
         /\ \A i, j \in DOMAIN observers' : observers'[i] = observers'[j] => i = j
  <1>1. Len(observers) \in Nat /\ DOMAIN observers = 1 .. Len(observers)
    OBVIOUS
  <1>2. CASE UNCHANGED observers
    BY <1>2
  <1>3. CASE observers' = Append(observers, c) /\ c \notin Range(observers)
    BY <1>1, <1>3 DEF Range
  <1>4. ASSUME NEW k \in DOMAIN observers,
               observers' = [j \in 1 .. Len(observers) - 1 |->
                               IF j < k THEN observers[j] ELSE observers[j + 1]]
        PROVE  /\ observers' \in Seq(Listeners)
               /\ \A i, j \in DOMAIN observers' : observers'[i] = observers'[j] => i = j
    <2> DEFINE at(j) == IF j < k THEN j ELSE j + 1
    <2>1. DOMAIN observers' = 1 .. Len(observers) - 1
      BY <1>4
    <2>2. \A j \in DOMAIN observers' : at(j) \in DOMAIN observers /\ observers'[j] = observers[at(j)]
      BY <1>1, <1>4, <2>1
    <2>3. \A i, j \in DOMAIN observers' : at(i) = at(j) => i = j
      BY <1>1, <2>1
    <2>4. observers' \in Seq(Listeners)
      BY <1>1, <1>4
    <2> HIDE DEF at
    <2>5. QED
      BY <2>2, <2>3, <2>4
  <1>5. QED
    BY <1>2, <1>3, <1>4 DEF Subscribe, Unsubscribe

\* What a map with one more entry holds.
LEMMA WithHolds ==
  ASSUME NEW map, NEW n, NEW value
  PROVE  /\ DOMAIN With(map, n, value) = DOMAIN map \cup {n}
         /\ \A m \in DOMAIN map : With(map, n, value)[m] = map[m]
         /\ n \notin DOMAIN map => With(map, n, value)[n] = value
  BY DEF With

\* What a restricted map holds.
LEMMA RestrictHolds ==
  ASSUME NEW map, NEW S
  PROVE  DOMAIN Restrict(map, S) = S /\ \A m \in S : Restrict(map, S)[m] = map[m]
  BY DEF Restrict

\* The outcomes of an insertion: entries may be lost, and only the new one is new.
LEMMA EmplacedHolds ==
  ASSUME NEW w, NEW map, map \in Emplaced(w), job[w].id \notin DOMAIN pendingRequests
  PROVE  /\ DOMAIN map \subseteq DOMAIN pendingRequests \cup {job[w].id}
         /\ \A n \in DOMAIN map : n # job[w].id => map[n] = pendingRequests[n]
         /\ job[w].id \in DOMAIN map =>
              map[job[w].id] = [request |-> job[w].request, issued |-> job[w].time]
  <1> DEFINE new == [request |-> job[w].request, issued |-> job[w].time]
             S == job[w].seen \cap DOMAIN pendingRequests
             kept == Restrict(pendingRequests, S)
  <1>1. \/ map = With(pendingRequests, job[w].id, new)
        \/ map = pendingRequests
        \/ map = With(kept, job[w].id, new)
    BY DEF Emplaced
  <1>2. DOMAIN kept = S /\ \A n \in S : kept[n] = pendingRequests[n]
    BY RestrictHolds
  <1> HIDE DEF new, kept
  <1>3. CASE map = With(pendingRequests, job[w].id, new)
    <2>1. /\ DOMAIN map = DOMAIN pendingRequests \cup {job[w].id}
          /\ \A m \in DOMAIN pendingRequests : map[m] = pendingRequests[m]
          /\ map[job[w].id] = new
      BY <1>3 DEF With
    <2>2. QED
      BY <2>1, Zenon DEF new
  <1>4. CASE map = With(kept, job[w].id, new)
    <2>1. /\ DOMAIN map = S \cup {job[w].id}
          /\ \A m \in S : map[m] = pendingRequests[m]
          /\ map[job[w].id] = new
      <3>1. job[w].id \notin DOMAIN kept
        BY <1>2
      <3>2. /\ DOMAIN map = DOMAIN kept \cup {job[w].id}
            /\ \A m \in DOMAIN kept : map[m] = kept[m]
            /\ map[job[w].id] = new
        BY <1>4, <3>1 DEF With
      <3>3. QED
        BY <1>2, <3>2
    <2>2. QED
      BY <2>1, Zenon DEF new
  <1>5. QED
    BY <1>1, <1>3, <1>4

--------------------------------------------------------------------------------
(* Typing. *)

LEMMA TypeInit == Init => TypeOK
  <1> SUFFICES ASSUME Init PROVE TypeOK
    OBVIOUS
  <1>1. DOMAIN pendingRequests = {} /\ DOMAIN inbox = {} /\ DOMAIN observers = {} /\ cleaner = {}
    BY DEF Init
  <1>2. Free \in JobType
    BY BridgeConstants DEF JobType, Free
  <1>3. job \in [Workers -> JobType] /\ observers \in Seq(Listeners) /\ heard \in [Listeners -> Nat]
    BY <1>2 DEF Init
  <1>4. answers \in [Requests -> Seq([kind : {"result", "timeout"}, of : Requests])]
    BY DEF Init
  <1>5. raced \in BOOLEAN /\ service = "none" /\ supportedVersions = {} /\ made = {}
    BY DEF Init
  <1>6. /\ sequenceId \in Nat \ {0} /\ javascriptService \in 0..MaxAttaches
        /\ now \in 0..MaxTime /\ attaches \in 0..MaxAttaches /\ events \in 0..MaxEvents
    BY BridgeConstants DEF Init
  <1>7. QED
    BY <1>1, <1>3, <1>4, <1>5, <1>6 DEF TypeOK

\* A worker with a job, and one without, has the type of jobs.
LEMMA JobsTyped ==
  ASSUME BridgeInv, NEW w \in Workers
  PROVE  /\ job[w] \in JobType /\ Free \in JobType
         /\ \A pc \in {"submit", "schedule", "fill"} :
              [job EXCEPT ![w].pc = pc] \in [Workers -> JobType]
         /\ \A j \in JobType : [job EXCEPT ![w] = j] \in [Workers -> JobType]
  <1>1. job \in [Workers -> JobType]
    BY DEF BridgeInv, TypeOK
  <1>2. Free \in JobType
    BY BridgeConstants DEF JobType, Free
  <1>3. QED
    BY <1>1, <1>2 DEF JobType

\* The actions of the framework and the clock.
LEMMA TypeFramework ==
  ASSUME BridgeInv, Initialize \/ Deinitialize \/ Destroy \/ Attach \/ Detach \/ Tick
  PROVE  TypeOK'
  <1> USE BridgeConstants
  <1>1. CASE Initialize
    BY <1>1 DEF BridgeInv, TypeOK, Initialize, bridgeVars, peerVars
  <1>2. CASE Deinitialize
    BY <1>2 DEF BridgeInv, TypeOK, Deinitialize, bridgeVars, peerVars
  <1>3. CASE Destroy
    BY <1>3 DEF BridgeInv, TypeOK, Destroy, bridgeVars, peerVars
  <1>4. CASE Attach
    <2>1. UNCHANGED <<service, bridgeVars, job, now, peerVars, raced>>
      BY <1>4 DEF Attach
    <2>2. javascriptService' \in 0..MaxAttaches /\ attaches' \in 0..MaxAttaches
      BY <1>4 DEF BridgeInv, TypeOK, Attach
    <2>3. QED
      BY <2>1, <2>2 DEF BridgeInv, TypeOK, bridgeVars, peerVars
  <1>5. CASE Detach
    <2>1. UNCHANGED <<service, bridgeVars, job, now, made, answers, attaches, events, heard, raced>>
      BY <1>5 DEF Detach
    <2>2. javascriptService' \in 0..MaxAttaches /\ DOMAIN inbox' = {}
      BY <1>5 DEF Detach
    <2>3. QED
      BY <2>1, <2>2 DEF BridgeInv, TypeOK, bridgeVars
  <1>6. CASE Tick
    <2>1. UNCHANGED <<service, bridgeVars, javascriptService, job, peerVars, attaches, raced>>
      BY <1>6 DEF Tick
    <2>2. now' \in 0..MaxTime
      BY <1>6 DEF BridgeInv, TypeOK, Tick
    <2>3. QED
      BY <2>1, <2>2 DEF BridgeInv, TypeOK, bridgeVars, peerVars
  <1>7. QED
    BY <1>1, <1>2, <1>3, <1>4, <1>5, <1>6

\* The requests and messages a worker receives.
LEMMA TypeReceive ==
  ASSUME BridgeInv, NEW w \in Workers, Receive(w)
  PROVE  TypeOK'
  <1> USE BridgeConstants
  <1>0. TypeOK /\ job[w] \in JobType /\ Free \in JobType
    BY JobsTyped DEF BridgeInv
  <1>j. /\ \A pc \in {"submit", "schedule", "fill"} :
             [job EXCEPT ![w].pc = pc] \in [Workers -> JobType]
        /\ \A j \in JobType : [job EXCEPT ![w] = j] \in [Workers -> JobType]
    BY JobsTyped
  <1>1. ASSUME NEW c \in Listeners, NEW d \in Designators, InvokeHere(w, c, d) PROVE TypeOK'
    <2>1. UNCHANGED <<service, supportedVersions, pendingRequests, sequenceId, cleaner,
                      javascriptService, job, now, peerVars, attaches, raced>>
      BY <1>1 DEF InvokeHere
    <2>2. Subscribe(c) \/ Unsubscribe(c) \/ UNCHANGED observers
      BY <1>1, Zenon DEF InvokeHere
    <2>3. /\ observers' \in Seq(Listeners)
          /\ \A i, j \in DOMAIN observers' : observers'[i] = observers'[j] => i = j
      BY <1>0, <2>2, ObserversOnce DEF TypeOK
    <2>4. QED
      BY <1>0, <2>1, <2>3 DEF TypeOK, peerVars
  <1>2. ASSUME NEW r \in Requests, NEW d \in Designators, InvokeCustom(w, r, d) PROVE TypeOK'
    <2> DEFINE j == [pc |-> "emplace", request |-> r, of |-> r, id |-> sequenceId',
                     time |-> now + TimeOut, seen |-> DOMAIN pendingRequests]
    <2>1. /\ job' = [job EXCEPT ![w] = j] /\ sequenceId' = sequenceId + 1
          /\ made' = made \cup {r} /\ now + TimeOut =< MaxTime
          /\ UNCHANGED <<service, supportedVersions, observers, pendingRequests, cleaner,
                         javascriptService, now, inbox, answers, attaches, events, heard, raced>>
      BY <1>2 DEF InvokeCustom
    <2>2. j \in JobType
      BY <1>0, <2>1 DEF TypeOK, JobType
    <2>3. job' \in [Workers -> JobType]
      BY <1>j, <2>1, <2>2
    <2> HIDE DEF j
    <2>4. sequenceId' \in Nat \ {0} /\ \A n \in 2..sequenceId : n \in 2..sequenceId'
      BY <1>0, <2>1 DEF TypeOK
    <2>5. DOMAIN pendingRequests' \subseteq 2..sequenceId' /\ DOMAIN inbox' \subseteq 2..sequenceId'
      BY <1>0, <2>1, <2>4 DEF TypeOK
    <2>6. QED
      BY <1>0, <2>1, <2>3, <2>4, <2>5 DEF TypeOK
  <1>3. ASSUME NEW n \in DOMAIN inbox, InboundResponse(w, n) PROVE TypeOK'
    <2> DEFINE j == [Free EXCEPT !.pc = "respond", !.of = inbox[n],
                                 !.request = pendingRequests[n].request]
    <2>1. UNCHANGED <<service, supportedVersions, observers, sequenceId, cleaner,
                      javascriptService, now, inbox, made, answers, attaches, events, heard, raced>>
      BY <1>3 DEF InboundResponse
    <2>2. CASE n \in DOMAIN pendingRequests
      <3>1. /\ job' = [job EXCEPT ![w] = j]
            /\ pendingRequests' = Restrict(pendingRequests, DOMAIN pendingRequests \ {n})
        BY <1>3, <2>2 DEF InboundResponse
      <3>2. j \in JobType
        BY <1>0, <2>2 DEF TypeOK, JobType, Free
      <3>3. job' \in [Workers -> JobType]
        BY <1>j, <3>1, <3>2
      <3> HIDE DEF j
      <3>4. /\ DOMAIN pendingRequests' \subseteq DOMAIN pendingRequests
            /\ \A m \in DOMAIN pendingRequests' : pendingRequests'[m] = pendingRequests[m]
        BY <3>1, RestrictHolds
      <3>5. QED
        BY <1>0, <2>1, <3>3, <3>4 DEF TypeOK
    <2>3. CASE n \notin DOMAIN pendingRequests
      <3>1. UNCHANGED <<job, pendingRequests>>
        BY <1>3, <2>3 DEF InboundResponse
      <3>2. QED
        BY <1>0, <2>1, <3>1 DEF TypeOK
    <2>4. QED
      BY <2>2, <2>3
  <1>4. CASE InboundEvent(w)
    <2>1. ASSUME NEW c \in Listeners
          PROVE  Cardinality({i \in DOMAIN observers : observers[i] = c}) \in Nat
      <3>1. Len(observers) \in Nat /\ DOMAIN observers = 1 .. Len(observers)
        BY <1>0 DEF TypeOK
      <3>2. IsFiniteSet(1 .. Len(observers))
        BY <3>1, FS_Interval
      <3>3. IsFiniteSet({i \in DOMAIN observers : observers[i] = c})
        BY <3>1, <3>2, FS_Subset
      <3>4. QED
        BY <3>3, FS_CardinalityType
    <2>2. heard' \in [Listeners -> Nat]
      BY <1>0, <1>4, <2>1 DEF InboundEvent, TypeOK
    <2>3. events' \in 0..MaxEvents
      BY <1>0, <1>4 DEF InboundEvent, TypeOK
    <2>4. UNCHANGED <<service, bridgeVars, javascriptService, job, now, inbox, made, answers,
                      attaches, raced>>
      BY <1>4 DEF InboundEvent
    <2>5. QED
      BY <1>0, <2>2, <2>3, <2>4 DEF TypeOK, bridgeVars
  <1>5. CASE ClearMethods(w)
    <2>1. job' \in [Workers -> JobType]
      BY <1>5, <1>j DEF ClearMethods
    <2>2. QED
      BY <1>0, <1>5, <2>1 DEF TypeOK, ClearMethods, peerVars
  <1>6. QED
    BY <1>1, <1>2, <1>3, <1>4, <1>5 DEF Receive

\* The steps of a worker that has a job, and picking up the cleaner's.
LEMMA TypeSteps ==
  ASSUME BridgeInv, NEW w \in Workers, Step(w)
  PROVE  TypeOK'
  <1> USE BridgeConstants
  <1>0. TypeOK /\ job[w] \in JobType /\ Free \in JobType
    BY JobsTyped DEF BridgeInv
  <1>j. /\ \A pc \in {"submit", "schedule", "fill"} :
             [job EXCEPT ![w].pc = pc] \in [Workers -> JobType]
        /\ \A j \in JobType : [job EXCEPT ![w] = j] \in [Workers -> JobType]
    BY JobsTyped
  <1>t. job[w].time \in 0..MaxTime
    BY <1>0 DEF JobType
  <1>m. JobsMatch /\ IdsAgree
    BY DEF BridgeInv, Ledger
  <1>1. CASE Emplace(w)
    <2>1. /\ job' = [job EXCEPT ![w].pc = "submit"]
          /\ UNCHANGED <<service, supportedVersions, observers, sequenceId, cleaner,
                         javascriptService, now, peerVars, attaches>>
      BY <1>1 DEF Emplace
    <2>2. job' \in [Workers -> JobType]
      BY <1>j, <2>1
    <2>3. raced' \in BOOLEAN
      BY <1>1, Zenon DEF Emplace
    <2>4. /\ job[w].id \in 2..sequenceId /\ job[w].request \in Requests
          /\ job[w].id \notin DOMAIN pendingRequests
      BY <1>1, <1>m DEF Emplace, JobsMatch, IdsAgree, Sending
    <2>5. /\ DOMAIN pendingRequests' \subseteq DOMAIN pendingRequests \cup {job[w].id}
          /\ \A n \in DOMAIN pendingRequests' : n # job[w].id => pendingRequests'[n] = pendingRequests[n]
          /\ job[w].id \in DOMAIN pendingRequests' =>
               pendingRequests'[job[w].id] = [request |-> job[w].request, issued |-> job[w].time]
      BY <1>1, <2>4, EmplacedHolds DEF Emplace
    <2>6. /\ DOMAIN pendingRequests' \subseteq 2..sequenceId
          /\ \A n \in DOMAIN pendingRequests' :
               pendingRequests'[n] \in [request : Requests, issued : 0..MaxTime]
      <3>1. [request |-> job[w].request, issued |-> job[w].time]
              \in [request : Requests, issued : 0..MaxTime]
        BY <1>t, <2>4
      <3>2. /\ DOMAIN pendingRequests \subseteq 2..sequenceId
            /\ \A n \in DOMAIN pendingRequests :
                 pendingRequests[n] \in [request : Requests, issued : 0..MaxTime]
        BY <1>0 DEF TypeOK
      <3>3. QED
        BY <2>4, <2>5, <3>1, <3>2, Zenon
    <2>7. QED
      BY <1>0, <2>1, <2>2, <2>3, <2>6 DEF TypeOK, peerVars
  <1>2. CASE SubmitRequest(w)
    <2>1. /\ job' = [job EXCEPT ![w].pc = "schedule"]
          /\ inbox' = inbox \/ inbox' = With(inbox, job[w].id, job[w].request)
          /\ UNCHANGED <<service, bridgeVars, javascriptService, now, made, answers, attaches,
                         events, heard, raced>>
      BY <1>2 DEF SubmitRequest
    <2>2. job' \in [Workers -> JobType]
      BY <1>j, <2>1
    <2>3. job[w].id \in 2..sequenceId /\ job[w].request \in Requests /\ job[w].id \notin DOMAIN inbox
      BY <1>2, <1>m DEF SubmitRequest, JobsMatch, IdsAgree, Sending
    <2>4. DOMAIN inbox' \subseteq 2..sequenceId /\ \A n \in DOMAIN inbox' : inbox'[n] \in Requests
      <3>1. CASE inbox' = inbox
        BY <1>0, <3>1 DEF TypeOK
      <3>2. CASE inbox' = With(inbox, job[w].id, job[w].request)
        <4>1. /\ DOMAIN inbox' = DOMAIN inbox \cup {job[w].id}
              /\ \A m \in DOMAIN inbox : inbox'[m] = inbox[m]
              /\ inbox'[job[w].id] = job[w].request
          BY <2>3, <3>2 DEF With
        <4>2. QED
          BY <1>0, <2>3, <4>1 DEF TypeOK
      <3>3. QED
        BY <2>1, <3>1, <3>2
    <2>5. QED
      BY <1>0, <2>1, <2>2, <2>4 DEF TypeOK, bridgeVars
  <1>3. CASE ScheduleCleaner(w)
    <2>1. job' = [job EXCEPT ![w] = Free]
      BY <1>3 DEF ScheduleCleaner
    <2>2. job' \in [Workers -> JobType]
      BY <1>0, <1>j, <2>1
    <2>3. cleaner' \in SUBSET (0..MaxTime) /\ \A s, t \in cleaner' : s = t
      BY <1>0, <1>3, <1>t DEF ScheduleCleaner, Schedule, TypeOK
    <2>4. QED
      BY <1>0, <1>3, <2>2, <2>3 DEF TypeOK, ScheduleCleaner, peerVars
  <1>4. CASE SubmitResponse(w)
    <2>1. job' \in [Workers -> JobType]
      BY <1>0, <1>4, <1>j DEF SubmitResponse
    <2>2. job[w].request \in Requests /\ job[w].of \in Requests
      BY <1>4, <1>m DEF SubmitResponse, JobsMatch
    <2>3. answers' \in [Requests -> Seq([kind : {"result", "timeout"}, of : Requests])]
      BY <1>0, <1>4, <2>2 DEF SubmitResponse, Answer, TypeOK
    <2>4. UNCHANGED <<service, bridgeVars, javascriptService, now, inbox, made, attaches,
                      events, heard, raced>>
      BY <1>4 DEF SubmitResponse
    <2>5. QED
      BY <1>0, <2>1, <2>3, <2>4 DEF TypeOK, bridgeVars
  <1>5. CASE FillMethods(w)
    <2>1. job' \in [Workers -> JobType]
      BY <1>0, <1>5, <1>j DEF FillMethods
    <2>2. QED
      BY <1>0, <1>5, <2>1 DEF TypeOK, FillMethods, peerVars
  <1>6. CASE CleanupBegin(w)
    <2>1. [Free EXCEPT !.pc = "cleanup", !.time = now] \in JobType
      BY <1>0 DEF JobType, Free, TypeOK
    <2>2. job' \in [Workers -> JobType]
      BY <1>6, <1>j, <2>1 DEF CleanupBegin
    <2>3. QED
      BY <1>0, <1>6, <2>2 DEF TypeOK, CleanupBegin, peerVars
  <1>7. CASE Cleanup(w)
    <2> DEFINE late == Expired(job[w].time)
               kept == DOMAIN pendingRequests \ late
               times == {pendingRequests[n].issued : n \in kept}
               back == [Free EXCEPT !.pc = "reschedule", !.time = Min(times)]
    <2>1. /\ answers' = [r \in Requests |->
                IF \E n \in late : pendingRequests[n].request = r
                THEN Append(answers[r], Answer("timeout", r)) ELSE answers[r]]
          /\ pendingRequests' = Restrict(pendingRequests, kept)
          /\ job' = [job EXCEPT ![w] = IF kept = {} THEN Free ELSE back]
          /\ UNCHANGED <<service, supportedVersions, observers, sequenceId, cleaner,
                         javascriptService, now, inbox, made, attaches, events, heard, raced>>
      BY <1>7 DEF Cleanup
    <2>2. times \in SUBSET (0..MaxTime)
      BY <1>0 DEF TypeOK
    <2>3. ASSUME kept # {} PROVE back \in JobType
      <3>1. times # {} /\ times \in SUBSET Nat
        BY <2>2, <2>3
      <3>2. Min(times) \in 0..MaxTime
        BY <2>2, <3>1, MinIsIn
      <3> HIDE DEF times
      <3>3. QED
        BY <3>2 DEF JobType, Free
    <2>4. (IF kept = {} THEN Free ELSE back) \in JobType
      BY <1>0, <2>3
    <2>5. job' \in [Workers -> JobType]
      BY <1>j, <2>1, <2>4
    <2>6. answers' \in [Requests -> Seq([kind : {"result", "timeout"}, of : Requests])]
      <3> DEFINE T == [kind : {"result", "timeout"}, of : Requests]
      <3>1. answers \in [Requests -> Seq(T)]
        BY <1>0 DEF TypeOK
      <3>a. \A r \in Requests : Answer("timeout", r) \in T
        BY DEF Answer
      <3> HIDE DEF late, T
      <3>2. ASSUME NEW r \in Requests
            PROVE  answers[r] \in Seq(T) /\ Append(answers[r], Answer("timeout", r)) \in Seq(T)
        BY <3>1, <3>a
      <3>3. answers' \in [Requests -> Seq(T)]
        BY <2>1, <3>2
      <3>4. QED
        BY <3>3 DEF T
    <2>7. /\ DOMAIN pendingRequests' \subseteq DOMAIN pendingRequests
          /\ \A m \in DOMAIN pendingRequests' : pendingRequests'[m] = pendingRequests[m]
      BY <2>1, RestrictHolds
    <2> HIDE DEF late, kept, times, back
    <2>8. QED
      BY <1>0, <2>1, <2>5, <2>6, <2>7 DEF TypeOK
  <1>8. CASE Reschedule(w)
    <2>1. job' = [job EXCEPT ![w] = Free]
      BY <1>8 DEF Reschedule
    <2>2. job' \in [Workers -> JobType]
      BY <1>0, <1>j, <2>1
    <2>3. cleaner' \in SUBSET (0..MaxTime) /\ \A s, t \in cleaner' : s = t
      BY <1>0, <1>8, <1>t DEF Reschedule, Schedule, TypeOK
    <2>4. QED
      BY <1>0, <1>8, <2>2, <2>3 DEF TypeOK, Reschedule, peerVars
  <1>9. ASSUME NEW pc, Crash(w, pc) PROVE TypeOK'
    BY <1>0, <1>9 DEF TypeOK, Crash, bridgeVars, peerVars
  <1>10. QED
    BY <1>1, <1>2, <1>3, <1>4, <1>5, <1>6, <1>7, <1>8, <1>9 DEF Step

LEMMA TypeStep ==
  ASSUME BridgeInv, [Next]_vars
  PROVE  TypeOK'
  <1>1. CASE UNCHANGED vars
    BY <1>1 DEF BridgeInv, TypeOK, vars, bridgeVars, peerVars
  <1>2. CASE Next
    BY <1>2, TypeFramework, TypeReceive, TypeSteps DEF Next
  <1>3. QED
    BY <1>1, <1>2

--------------------------------------------------------------------------------
(* The ledger of requests. *)

\* A worker that has nothing to send or to respond.
Aside(j) == j.pc \notin {"emplace", "submit", "respond"}

\* What an entry of the first map says, the second says too.
SubMap(f, g) == DOMAIN f \subseteq DOMAIN g /\ \A n \in DOMAIN f : f[n] = g[n]

\* The ids still agree when workers and entries leave and none comes.
LEMMA IdsFewer ==
  ASSUME IdsAgree, SubMap(pendingRequests', pendingRequests), SubMap(inbox', inbox),
         \A w \in Workers : Sending(w)' => Sending(w) /\ job'[w] = job[w]
  PROVE  IdsAgree'
  <1>1. \A w \in Workers : job'[w].pc = "emplace" => Sending(w)' /\ job'[w] = job[w]
    BY DEF Sending
  <1>2. /\ \A n \in DOMAIN pendingRequests' : n \in DOMAIN pendingRequests
                                              /\ pendingRequests'[n] = pendingRequests[n]
        /\ \A n \in DOMAIN inbox' : n \in DOMAIN inbox /\ inbox'[n] = inbox[n]
    BY DEF SubMap
  <1>3. \A v, w \in Workers : Sending(v)' /\ Sending(w)' /\ job'[v].id = job'[w].id => v = w
    BY DEF IdsAgree
  <1>4. \A w \in Workers : Sending(w)' => job'[w].id \notin DOMAIN inbox'
    BY <1>2 DEF IdsAgree
  <1>5. \A w \in Workers : job'[w].pc = "emplace" => job'[w].id \notin DOMAIN pendingRequests'
    BY <1>1, <1>2 DEF IdsAgree
  <1>6. \A w \in Workers : Sending(w)' /\ job'[w].id \in DOMAIN pendingRequests'
                             => pendingRequests'[job'[w].id].request = job'[w].request
    BY <1>2 DEF IdsAgree
  <1>7. \A n \in DOMAIN inbox' : n \in DOMAIN pendingRequests' => pendingRequests'[n].request = inbox'[n]
    BY <1>2 DEF IdsAgree
  <1>8. QED
    BY <1>3, <1>4, <1>5, <1>6, <1>7 DEF IdsAgree

\* An answer that is alone, and the requester's own.
Alone(s, r) == \E a : s = <<a>> /\ a.of = r

\* Every request that is answered now is answered alone, with its own.
LEMMA AnswersAlone ==
  ASSUME AnsweredOnce, AnswersAreOwn,
         \A r \in Requests : answers'[r] = answers[r] \/ Alone(answers'[r], r)
  PROVE  AnsweredOnce' /\ AnswersAreOwn'
  <1>1. ASSUME NEW s, NEW r, Alone(s, r)
        PROVE  Len(s) =< 1 /\ \A i \in DOMAIN s : s[i].of = r
    <2>1. PICK a : s = <<a>> /\ a.of = r
      BY <1>1 DEF Alone
    <2>2. QED
      BY <2>1
  <1>2. ASSUME NEW r \in Requests
        PROVE  Len(answers'[r]) =< 1 /\ \A i \in DOMAIN answers'[r] : answers'[r][i].of = r
    <2>1. CASE answers'[r] = answers[r]
      BY <2>1 DEF AnsweredOnce, AnswersAreOwn
    <2>2. CASE Alone(answers'[r], r)
      BY <1>1, <2>2
    <2>3. QED
      BY <2>1, <2>2
  <1>3. QED
    BY <1>2 DEF AnsweredOnce, AnswersAreOwn

\* Entries may be lost, and a worker may turn to something else.
LEMMA LedgerFewer ==
  ASSUME BridgeInv,
         \A w \in Workers : job'[w] = job[w] \/ Aside(job'[w]),
         SubMap(pendingRequests', pendingRequests), SubMap(inbox', inbox),
         UNCHANGED <<sequenceId, made, answers>>
  PROVE  Ledger'
  <1>0. JobsMatch /\ IdsAgree /\ OneHolder /\ AnsweredOnce /\ AnswersAreOwn
    BY DEF BridgeInv, Ledger
  <1>1. \A w \in Workers : job'[w] = job[w] \/ job'[w].pc \notin {"emplace", "submit", "respond"}
    BY DEF Aside
  <1>2. /\ \A w \in Workers : Sending(w)' => job'[w] = job[w] /\ Sending(w)
        /\ \A w \in Workers : Holding(w)' => job'[w] = job[w] /\ Holding(w)
        /\ \A w \in Workers : job'[w].pc \in {"emplace", "respond"} => job'[w] = job[w]
    BY <1>1 DEF Sending, Holding
  <1>3. JobsMatch'
    BY <1>0, <1>2 DEF JobsMatch
  <1>4. IdsAgree'
    BY <1>0, <1>2, IdsFewer
  <1>5. \A r : Due(r)' <=> Due(r)
    BY DEF Due
  <1>6. OneHolder'
    BY <1>0, <1>2, <1>5 DEF OneHolder, SubMap
  <1>7. AnsweredOnce' /\ AnswersAreOwn'
    BY <1>0 DEF AnsweredOnce, AnswersAreOwn
  <1>8. QED
    BY <1>3, <1>4, <1>6, <1>7 DEF Ledger

\* The same when the maps stay.
LEMMA LedgerStays ==
  ASSUME BridgeInv,
         \A w \in Workers : job'[w] = job[w] \/ Aside(job'[w]),
         UNCHANGED <<pendingRequests, inbox, sequenceId, made, answers>>
  PROVE  Ledger'
  BY LedgerFewer DEF SubMap

\* A new request gets an id that nobody has.
LEMMA LedgerInvoke ==
  ASSUME BridgeInv, NEW w \in Workers, NEW r \in Requests, NEW d, InvokeCustom(w, r, d)
  PROVE  Ledger'
  <1>0. JobsMatch /\ IdsAgree /\ OneHolder /\ AnsweredOnce /\ AnswersAreOwn /\ TypeOK
    BY DEF BridgeInv, Ledger
  <1>1. /\ r \notin made /\ made' = made \cup {r} /\ sequenceId' = sequenceId + 1
        /\ UNCHANGED <<pendingRequests, inbox, answers>>
        /\ job[w] = Free
    BY DEF InvokeCustom, Idle
  <1>2. /\ job'[w].pc = "emplace" /\ job'[w].id = sequenceId + 1 /\ job'[w].request = r
        /\ \A v \in Workers : v # w => job'[v] = job[v]
    BY <1>0, <1>1 DEF InvokeCustom, TypeOK
  <1>3. /\ sequenceId \in Nat /\ sequenceId >= 1 /\ sequenceId + 1 \in 2..sequenceId'
        /\ \A n \in 2..sequenceId : n # sequenceId + 1 /\ n \in 2..sequenceId'
    BY <1>0, <1>1 DEF TypeOK
  <1>4. \A v \in Workers : v # w => (Sending(v)' <=> Sending(v)) /\ (Holding(v)' <=> Holding(v))
    BY <1>2 DEF Sending, Holding
  <1>5. JobsMatch'
    BY <1>0, <1>2, <1>3, <1>4 DEF JobsMatch
  <1>6. sequenceId + 1 \notin DOMAIN pendingRequests /\ sequenceId + 1 \notin DOMAIN inbox
    BY <1>0, <1>3 DEF TypeOK
  <1>7. \A v \in Workers : Sending(v) => job[v].id # sequenceId + 1
    BY <1>0, <1>3 DEF JobsMatch
  <1>8. IdsAgree'
    BY <1>0, <1>1, <1>2, <1>4, <1>6, <1>7 DEF IdsAgree
  <1>9. \A q : Due(q) => Due(q)' /\ q # r
    BY <1>1 DEF Due
  <1>10. answers[r] = <<>> /\ Due(r)'
    BY <1>0, <1>1 DEF OneHolder, Due
  <1>11. OneHolder'
    BY <1>0, <1>1, <1>2, <1>4, <1>9, <1>10 DEF OneHolder
  <1>12. AnsweredOnce' /\ AnswersAreOwn'
    BY <1>0, <1>1 DEF AnsweredOnce, AnswersAreOwn
  <1>13. QED
    BY <1>5, <1>8, <1>11, <1>12 DEF Ledger

\* The request goes into the map, unless the race loses it, and from the worker.
LEMMA LedgerEmplace ==
  ASSUME BridgeInv, NEW w \in Workers, Emplace(w)
  PROVE  Ledger'
  <1>0. JobsMatch /\ IdsAgree /\ OneHolder /\ AnsweredOnce /\ AnswersAreOwn /\ TypeOK
    BY DEF BridgeInv, Ledger
  <1> DEFINE i == job[w].id
             r == job[w].request
  <1>1. /\ job[w].pc = "emplace" /\ UNCHANGED <<inbox, sequenceId, made, answers>>
        /\ pendingRequests' \in Emplaced(w) /\ job' = [job EXCEPT ![w].pc = "submit"]
    BY DEF Emplace, peerVars
  <1>2. /\ Sending(w) /\ Holding(w) /\ i \in 2..sequenceId /\ r \in Requests
        /\ i \notin DOMAIN pendingRequests /\ i \notin DOMAIN inbox
    BY <1>0, <1>1 DEF JobsMatch, IdsAgree, Sending, Holding
  <1>3. /\ DOMAIN pendingRequests' \subseteq DOMAIN pendingRequests \cup {i}
        /\ \A n \in DOMAIN pendingRequests' : n # i => pendingRequests'[n] = pendingRequests[n]
        /\ i \in DOMAIN pendingRequests' => pendingRequests'[i].request = r
    <2>1. /\ DOMAIN pendingRequests' \subseteq DOMAIN pendingRequests \cup {i}
          /\ \A n \in DOMAIN pendingRequests' : n # i => pendingRequests'[n] = pendingRequests[n]
          /\ i \in DOMAIN pendingRequests' =>
               pendingRequests'[i] = [request |-> r, issued |-> job[w].time]
      BY <1>1, <1>2, EmplacedHolds, Zenon
    <2>2. QED
      BY <2>1
  <1>4. /\ job'[w].pc = "submit" /\ job'[w].id = i /\ job'[w].request = r
        /\ \A v \in Workers : v # w => job'[v] = job[v]
    BY <1>0, <1>1 DEF TypeOK, JobType
  <1>5. /\ \A v \in Workers : (Sending(v)' <=> Sending(v)) /\ job'[v].id = job[v].id
                              /\ job'[v].request = job[v].request
        /\ \A v \in Workers : Holding(v)' <=> Holding(v) /\ v # w
        /\ \A v \in Workers : job'[v].pc \in {"emplace", "respond"} => v # w
    BY <1>1, <1>4 DEF Sending, Holding
  <1> HIDE DEF i, r
  <1>6. JobsMatch'
    BY <1>0, <1>1, <1>4, <1>5 DEF JobsMatch
  <1>7. IdsAgree'
    <2>1. ASSUME NEW v \in Workers, job'[v].pc = "emplace" PROVE job'[v].id \notin DOMAIN pendingRequests'
      <3>1. v # w /\ Sending(v) /\ job[v].pc = "emplace" /\ job'[v].id = job[v].id
        BY <1>4, <1>5, <2>1 DEF Sending
      <3>2. job[v].id # i /\ job[v].id \notin DOMAIN pendingRequests
        BY <1>0, <1>2, <3>1 DEF IdsAgree, i
      <3>3. QED
        BY <1>3, <3>1, <3>2
    <2>2. ASSUME NEW v \in Workers, Sending(v)', job'[v].id \in DOMAIN pendingRequests'
          PROVE  pendingRequests'[job'[v].id].request = job'[v].request
      <3>1. CASE v = w
        BY <1>3, <1>4, <2>2, <3>1
      <3>2. CASE v # w
        <4>1. Sending(v) /\ job[v].id # i /\ job'[v] = job[v]
          BY <1>0, <1>2, <1>4, <1>5, <2>2, <3>2 DEF IdsAgree, i
        <4>2. job[v].id \in DOMAIN pendingRequests /\ pendingRequests'[job[v].id] = pendingRequests[job[v].id]
          BY <1>3, <2>2, <4>1
        <4>3. QED
          BY <1>0, <4>1, <4>2 DEF IdsAgree
      <3>3. QED
        BY <3>1, <3>2
    <2>3. ASSUME NEW n \in DOMAIN inbox', n \in DOMAIN pendingRequests'
          PROVE  pendingRequests'[n].request = inbox'[n]
      <3>1. n # i /\ n \in DOMAIN inbox /\ inbox'[n] = inbox[n]
        BY <1>1, <1>2, <2>3
      <3>2. QED
        BY <1>0, <1>3, <2>3, <3>1 DEF IdsAgree
    <2>4. /\ \A v, u \in Workers : Sending(v)' /\ Sending(u)' /\ job'[v].id = job'[u].id => v = u
          /\ \A v \in Workers : Sending(v)' => job'[v].id \notin DOMAIN inbox'
      BY <1>0, <1>1, <1>5 DEF IdsAgree
    <2>5. QED
      BY <2>1, <2>2, <2>3, <2>4 DEF IdsAgree
  <1>8. \A q : Due(q)' <=> Due(q)
    BY <1>1 DEF Due
  <1>9. /\ Due(r) /\ \A n \in DOMAIN pendingRequests : pendingRequests[n].request # r
        /\ \A v \in Workers : Holding(v) /\ v # w => job[v].request # r
    BY <1>0, <1>2 DEF OneHolder, r
  <1>10. \A n \in DOMAIN pendingRequests' :
           \/ n = i /\ pendingRequests'[n].request = r
           \/ n \in DOMAIN pendingRequests /\ pendingRequests'[n] = pendingRequests[n]
    BY <1>3
  <1>11. OneHolder'
    BY <1>0, <1>1, <1>5, <1>8, <1>9, <1>10 DEF OneHolder
  <1>12. AnsweredOnce' /\ AnswersAreOwn'
    BY <1>0, <1>1 DEF AnsweredOnce, AnswersAreOwn
  <1>13. QED
    BY <1>6, <1>7, <1>11, <1>12 DEF Ledger

\* The service gets the request under the id the map has it under.
LEMMA LedgerSubmit ==
  ASSUME BridgeInv, NEW w \in Workers, SubmitRequest(w)
  PROVE  Ledger'
  <1>0. JobsMatch /\ IdsAgree /\ OneHolder /\ AnsweredOnce /\ AnswersAreOwn /\ TypeOK
    BY DEF BridgeInv, Ledger
  <1> DEFINE i == job[w].id
             r == job[w].request
  <1>1. /\ job[w].pc = "submit" /\ UNCHANGED <<pendingRequests, sequenceId, made, answers>>
        /\ job' = [job EXCEPT ![w].pc = "schedule"]
        /\ inbox' = inbox \/ inbox' = With(inbox, i, r)
    BY DEF SubmitRequest, bridgeVars
  <1>2. /\ Sending(w) /\ i \notin DOMAIN inbox
        /\ i \in DOMAIN pendingRequests => pendingRequests[i].request = r
    BY <1>0, <1>1 DEF IdsAgree, Sending
  <1>3. \A n \in DOMAIN inbox' :
          \/ n = i /\ inbox'[n] = r
          \/ n \in DOMAIN inbox /\ inbox'[n] = inbox[n]
    BY <1>1, <1>2 DEF With
  <1>4. /\ job'[w].pc = "schedule" /\ \A v \in Workers : v # w => job'[v] = job[v]
    BY <1>0, <1>1 DEF TypeOK
  <1>5. /\ \A v \in Workers : Sending(v)' => v # w /\ Sending(v) /\ job'[v] = job[v]
        /\ \A v \in Workers : Holding(v)' => v # w /\ Holding(v) /\ job'[v] = job[v]
        /\ \A v \in Workers : job'[v].pc \in {"emplace", "respond"} => job'[v] = job[v]
    BY <1>4 DEF Sending, Holding
  <1>6. JobsMatch'
    BY <1>0, <1>1, <1>5 DEF JobsMatch
  <1>7. \A v \in Workers : Sending(v) /\ v # w => job[v].id # i
    BY <1>0, <1>2 DEF IdsAgree
  <1> HIDE DEF i, r
  <1>8. IdsAgree'
    BY <1>0, <1>1, <1>2, <1>3, <1>5, <1>7 DEF IdsAgree
  <1>9. \A q : Due(q)' <=> Due(q)
    BY <1>1 DEF Due
  <1>10. OneHolder'
    BY <1>0, <1>1, <1>5, <1>9 DEF OneHolder
  <1>11. AnsweredOnce' /\ AnswersAreOwn'
    BY <1>0, <1>1 DEF AnsweredOnce, AnswersAreOwn
  <1>12. QED
    BY <1>6, <1>8, <1>10, <1>11 DEF Ledger

\* Whoever takes a request out of the map holds it alone, with its own result.
LEMMA LedgerTake ==
  ASSUME BridgeInv, NEW w \in Workers, NEW n \in DOMAIN inbox, InboundResponse(w, n)
  PROVE  Ledger'
  <1>0. JobsMatch /\ IdsAgree /\ OneHolder /\ AnsweredOnce /\ AnswersAreOwn /\ TypeOK
    BY DEF BridgeInv, Ledger
  <1>1. CASE n \notin DOMAIN pendingRequests
    <2>1. UNCHANGED <<job, pendingRequests, inbox, sequenceId, made, answers>>
      BY <1>1 DEF InboundResponse
    <2>2. QED
      BY <2>1, LedgerStays
  <1>2. CASE n \in DOMAIN pendingRequests
    <2> DEFINE r == pendingRequests[n].request
    <2>1. /\ job' = [job EXCEPT ![w] = [Free EXCEPT !.pc = "respond", !.of = inbox[n], !.request = r]]
          /\ pendingRequests' = Restrict(pendingRequests, DOMAIN pendingRequests \ {n})
          /\ job[w] = Free /\ UNCHANGED <<inbox, sequenceId, made, answers>>
      BY <1>2 DEF InboundResponse, Idle
    <2>2. /\ job'[w].pc = "respond" /\ job'[w].request = r /\ job'[w].of = inbox[n]
          /\ \A v \in Workers : v # w => job'[v] = job[v]
      BY <1>0, <2>1 DEF TypeOK, Free
    <2>3. r \in Requests /\ inbox[n] = r
      BY <1>0, <1>2 DEF TypeOK, IdsAgree
    <2>4. /\ \A m \in DOMAIN pendingRequests' : /\ m \in DOMAIN pendingRequests /\ m # n
                                                /\ pendingRequests'[m] = pendingRequests[m]
      BY <2>1, RestrictHolds
    <2>5. /\ \A v \in Workers : Sending(v)' => v # w /\ Sending(v) /\ job'[v] = job[v]
          /\ \A v \in Workers : v # w => (Holding(v)' <=> Holding(v)) /\ job'[v] = job[v]
          /\ \A v \in Workers : job'[v].pc = "emplace" => v # w /\ job'[v] = job[v]
      BY <2>2 DEF Sending, Holding
    <2>6. /\ Due(r) /\ \A m \in DOMAIN pendingRequests : m # n => pendingRequests[m].request # r
          /\ \A v \in Workers : Holding(v) => job[v].request # r
      BY <1>0, <1>2 DEF OneHolder
    <2> HIDE DEF r
    <2>7. JobsMatch'
      <3>1. ASSUME NEW v \in Workers, Sending(v)'
            PROVE  job'[v].id \in 2..sequenceId' /\ job'[v].request \in Requests
        BY <1>0, <2>1, <2>5, <3>1 DEF JobsMatch
      <3>2. ASSUME NEW v \in Workers, job'[v].pc = "respond"
            PROVE  job'[v].request \in Requests /\ job'[v].of = job'[v].request
        BY <1>0, <2>2, <2>3, <3>2 DEF JobsMatch
      <3>3. QED
        BY <3>1, <3>2 DEF JobsMatch
    <2>8. IdsAgree'
      <3>1. SubMap(pendingRequests', pendingRequests) /\ SubMap(inbox', inbox)
        BY <2>1, <2>4 DEF SubMap
      <3>2. QED
        BY <1>0, <2>5, <3>1, IdsFewer
    <2>10. OneHolder'
      <3>1. \A v, u \in Workers : Holding(v)' /\ Holding(u)' /\ job'[v].request = job'[u].request => v = u
        BY <1>0, <2>2, <2>5, <2>6 DEF OneHolder
      <3>2. \A v \in Workers, m \in DOMAIN pendingRequests' :
              Holding(v)' => pendingRequests'[m].request # job'[v].request
        BY <1>0, <2>2, <2>4, <2>5, <2>6 DEF OneHolder
      <3>3. \A k, m \in DOMAIN pendingRequests' :
              pendingRequests'[k].request = pendingRequests'[m].request => k = m
        BY <1>0, <2>4 DEF OneHolder
      <3>4. \A v \in Workers : Holding(v)' => Due(job[v].request)'
        <4>1. ASSUME NEW v \in Workers, Holding(v)' PROVE Due(job'[v].request)
          BY <1>0, <2>2, <2>5, <2>6, <4>1 DEF OneHolder
        <4>2. QED
          BY <2>1, <4>1 DEF Due
      <3>5. \A m \in DOMAIN pendingRequests' : Due(pendingRequests[m].request)'
        <4>1. \A m \in DOMAIN pendingRequests' : Due(pendingRequests'[m].request)
          BY <1>0, <2>4 DEF OneHolder
        <4>2. QED
          BY <2>1, <4>1 DEF Due
      <3>6. \A q \in Requests : answers'[q] # <<>> => q \in made'
        BY <1>0, <2>1 DEF OneHolder
      <3>7. QED
        BY <3>1, <3>2, <3>3, <3>4, <3>5, <3>6 DEF OneHolder
    <2>11. AnsweredOnce' /\ AnswersAreOwn'
      BY <1>0, <2>1 DEF AnsweredOnce, AnswersAreOwn
    <2>12. QED
      BY <2>7, <2>8, <2>10, <2>11 DEF Ledger
  <1>3. QED
    BY <1>1, <1>2

\* The first answer is the only one, and nobody holds the request any more.
LEMMA LedgerRespond ==
  ASSUME BridgeInv, NEW w \in Workers, SubmitResponse(w)
  PROVE  Ledger'
  <1>0. JobsMatch /\ IdsAgree /\ OneHolder /\ AnsweredOnce /\ AnswersAreOwn /\ TypeOK
    BY DEF BridgeInv, Ledger
  <1> DEFINE r == job[w].request
  <1>1. /\ job[w].pc = "respond" /\ UNCHANGED <<pendingRequests, inbox, sequenceId, made>>
        /\ job' = [job EXCEPT ![w] = Free]
        /\ answers' = [answers EXCEPT ![r] = Append(@, Answer("result", job[w].of))]
    BY DEF SubmitResponse, bridgeVars
  <1>2. /\ r \in Requests /\ job[w].of = r /\ Due(r)
        /\ \A m \in DOMAIN pendingRequests : pendingRequests[m].request # r
        /\ \A v \in Workers : Holding(v) /\ v # w => job[v].request # r
    BY <1>0, <1>1 DEF JobsMatch, OneHolder, Holding
  <1>3. /\ job'[w].pc = "idle" /\ \A v \in Workers : v # w => job'[v] = job[v]
    BY <1>0, <1>1 DEF TypeOK, Free
  <1>4. /\ \A v \in Workers : Sending(v)' => v # w /\ Sending(v) /\ job'[v] = job[v]
        /\ \A v \in Workers : Holding(v)' => v # w /\ Holding(v) /\ job'[v] = job[v]
        /\ \A v \in Workers : job'[v].pc \in {"emplace", "respond"} => job'[v] = job[v]
    BY <1>3 DEF Sending, Holding
  <1>5. answers' = [answers EXCEPT ![r] = <<[kind |-> "result", of |-> r]>>]
    BY <1>0, <1>1, <1>2 DEF Answer, Due
  <1> HIDE DEF r
  <1>6. JobsMatch'
    BY <1>0, <1>1, <1>4 DEF JobsMatch
  <1>7. IdsAgree'
    BY <1>0, <1>1, <1>4 DEF IdsAgree
  <1>8. answers'[r] = <<[kind |-> "result", of |-> r]>> /\ \A q \in Requests : q # r => answers'[q] = answers[q]
    BY <1>0, <1>2, <1>5 DEF TypeOK
  <1>9. /\ \A v \in Workers : Holding(v) => job[v].request \in Requests
        /\ \A m \in DOMAIN pendingRequests : pendingRequests[m].request \in Requests
    BY <1>0 DEF JobsMatch, Holding, Sending, TypeOK
  <1>10. \A q \in Requests : Due(q) /\ q # r => Due(q)'
    BY <1>1, <1>8 DEF Due
  <1>11. OneHolder'
    <2>1. \A q \in Requests : answers'[q] # <<>> => q \in made'
      BY <1>0, <1>1, <1>2, <1>8 DEF OneHolder, Due
    <2>2. QED
      BY <1>0, <1>1, <1>2, <1>4, <1>9, <1>10, <2>1 DEF OneHolder
  <1>12. \A q \in Requests : answers'[q] = answers[q] \/ Alone(answers'[q], q)
    <2>1. Alone(answers'[r], r)
      BY <1>8 DEF Alone
    <2>2. QED
      BY <1>8, <2>1
  <1>13. AnsweredOnce' /\ AnswersAreOwn'
    BY <1>0, <1>12, AnswersAlone
  <1>14. QED
    BY <1>6, <1>7, <1>11, <1>13 DEF Ledger

\* The cleaner answers what it takes out of the map, for the first time.
LEMMA LedgerCleanup ==
  ASSUME BridgeInv, NEW w \in Workers, Cleanup(w)
  PROVE  Ledger'
  <1>0. JobsMatch /\ IdsAgree /\ OneHolder /\ AnsweredOnce /\ AnswersAreOwn /\ TypeOK
    BY DEF BridgeInv, Ledger
  <1> DEFINE late == Expired(job[w].time)
             kept == DOMAIN pendingRequests \ late
             next == IF kept = {} THEN Free
                     ELSE [Free EXCEPT !.pc = "reschedule",
                                       !.time = Min({pendingRequests[n].issued : n \in kept})]
             Taken(r) == \E n \in late : pendingRequests[n].request = r
  <1>1. /\ answers' = [r \in Requests |->
              IF Taken(r) THEN Append(answers[r], Answer("timeout", r)) ELSE answers[r]]
        /\ pendingRequests' = Restrict(pendingRequests, kept)
        /\ job' = [job EXCEPT ![w] = next]
        /\ UNCHANGED <<inbox, sequenceId, made>>
    BY DEF Cleanup
  <1>2. late \subseteq DOMAIN pendingRequests
    BY DEF Expired
  <1>3. next.pc \in {"idle", "reschedule"}
    BY DEF Free
  <1> HIDE DEF late, next
  <1>4. /\ job'[w].pc \in {"idle", "reschedule"} /\ \A v \in Workers : v # w => job'[v] = job[v]
    BY <1>0, <1>1, <1>3 DEF TypeOK
  <1>5. /\ \A v \in Workers : Sending(v)' => v # w /\ Sending(v) /\ job'[v] = job[v]
        /\ \A v \in Workers : Holding(v)' => v # w /\ Holding(v) /\ job'[v] = job[v]
        /\ \A v \in Workers : job'[v].pc \in {"emplace", "respond"} => job'[v] = job[v]
    BY <1>4 DEF Sending, Holding
  <1>6. \A m \in DOMAIN pendingRequests' : /\ m \in DOMAIN pendingRequests /\ m \notin late
                                           /\ pendingRequests'[m] = pendingRequests[m]
    BY <1>1, RestrictHolds
  <1>7. JobsMatch'
    BY <1>0, <1>1, <1>5 DEF JobsMatch
  <1>8. IdsAgree'
    <2>1. SubMap(pendingRequests', pendingRequests) /\ SubMap(inbox', inbox)
      BY <1>1, <1>6 DEF SubMap
    <2>2. QED
      BY <1>0, <1>5, <2>1, IdsFewer
  <1>9. \A r \in Requests : Taken(r) => Due(r)
    BY <1>0, <1>2 DEF OneHolder
  <1>10. \A v \in Workers : Holding(v) => job[v].request \in Requests /\ ~Taken(job[v].request)
    BY <1>0, <1>2 DEF JobsMatch, OneHolder, Holding, Sending
  <1>11. \A m \in DOMAIN pendingRequests' : /\ pendingRequests[m].request \in Requests
                                            /\ ~Taken(pendingRequests[m].request)
    BY <1>0, <1>2, <1>6 DEF OneHolder, TypeOK
  <1>12. ASSUME NEW r \in Requests, Taken(r)
         PROVE  answers'[r] = <<[kind |-> "timeout", of |-> r]>> /\ r \in made
    <2>1. answers[r] = <<>> /\ r \in made
      BY <1>9, <1>12 DEF Due
    <2>2. answers'[r] = Append(answers[r], [kind |-> "timeout", of |-> r])
      BY <1>1, <1>12, Zenon DEF Answer
    <2>3. QED
      BY <2>1, <2>2
  <1>13. \A r \in Requests : ~Taken(r) => answers'[r] = answers[r]
    BY <1>1
  <1> HIDE DEF Taken
  <1>14. \A r \in Requests : Due(r) /\ ~Taken(r) => Due(r)'
    BY <1>1, <1>13 DEF Due
  <1>15. OneHolder'
    <2>1. \A q \in Requests : answers'[q] # <<>> => q \in made'
      BY <1>0, <1>1, <1>12, <1>13 DEF OneHolder
    <2>2. QED
      BY <1>0, <1>5, <1>6, <1>10, <1>11, <1>14, <2>1 DEF OneHolder
  <1>16. \A r \in Requests : answers'[r] = answers[r] \/ Alone(answers'[r], r)
    <2>1. ASSUME NEW r \in Requests, Taken(r) PROVE Alone(answers'[r], r)
      <3>1. answers'[r] = <<[kind |-> "timeout", of |-> r]>>
        BY <1>12, <2>1
      <3>2. QED
        BY <3>1 DEF Alone
    <2>2. QED
      BY <1>13, <2>1
  <1>17. AnsweredOnce' /\ AnswersAreOwn'
    BY <1>0, <1>16, AnswersAlone
  <1>18. QED
    BY <1>7, <1>8, <1>15, <1>17 DEF Ledger

\* The steps that leave the ledger as it is, and those above.
LEMMA LedgerStep ==
  ASSUME BridgeInv, [Next]_vars
  PROVE  Ledger'
  <1>0. job \in [Workers -> JobType]
    BY DEF BridgeInv, TypeOK
  <1>1. ASSUME UNCHANGED <<job, pendingRequests, inbox, sequenceId, made, answers>> PROVE Ledger'
    BY <1>1, LedgerStays
  <1>2. ASSUME NEW w \in Workers, NEW j, Aside(j), job' = [job EXCEPT ![w] = j],
               UNCHANGED <<pendingRequests, inbox, sequenceId, made, answers>>
        PROVE  Ledger'
    <2>1. \A v \in Workers : job'[v] = job[v] \/ Aside(job'[v])
      BY <1>0, <1>2
    <2>2. QED
      BY <1>2, <2>1, LedgerStays
  <1>3. Aside(Free)
    BY DEF Aside, Free
  <1>4. CASE UNCHANGED vars
    BY <1>1, <1>4 DEF vars, bridgeVars, peerVars
  <1>5. CASE Initialize \/ Deinitialize \/ Destroy \/ Attach \/ Tick
    <2>1. UNCHANGED <<job, pendingRequests, inbox, sequenceId, made, answers>>
      BY <1>5 DEF Initialize, Deinitialize, Destroy, Attach, Tick, bridgeVars, peerVars
    <2>2. QED
      BY <1>1, <2>1
  <1>6. CASE Detach
    <2>1. inbox' = <<>> /\ UNCHANGED <<job, pendingRequests, sequenceId, made, answers>>
      BY <1>6 DEF Detach, bridgeVars
    <2>2. SubMap(pendingRequests', pendingRequests) /\ SubMap(inbox', inbox)
      BY <2>1 DEF SubMap
    <2>3. \A w \in Workers : job'[w] = job[w]
      BY <2>1
    <2>4. QED
      BY <2>1, <2>2, <2>3, LedgerFewer
  <1>7. ASSUME NEW w \in Workers, Step(w) PROVE Ledger'
    <2>1. CASE ScheduleCleaner(w) \/ FillMethods(w) \/ Reschedule(w)
      <3>1. job' = [job EXCEPT ![w] = Free]
            /\ UNCHANGED <<pendingRequests, inbox, sequenceId, made, answers>>
        BY <2>1 DEF ScheduleCleaner, FillMethods, Reschedule, peerVars
      <3>2. QED
        BY <1>2, <1>3, <3>1
    <2>2. CASE CleanupBegin(w)
      <3> DEFINE j == [Free EXCEPT !.pc = "cleanup", !.time = now]
      <3>1. job' = [job EXCEPT ![w] = j] /\ UNCHANGED <<pendingRequests, inbox, sequenceId, made, answers>>
        BY <2>2 DEF CleanupBegin, peerVars
      <3>2. Aside(j)
        BY DEF Aside, Free
      <3> HIDE DEF j
      <3>3. QED
        BY <1>2, <3>1, <3>2
    <2>3. ASSUME NEW pc, Crash(w, pc) PROVE Ledger'
      <3>1. UNCHANGED <<job, pendingRequests, inbox, sequenceId, made, answers>>
        BY <2>3 DEF Crash, bridgeVars, peerVars
      <3>2. QED
        BY <1>1, <3>1
    <2>4. QED
      BY <1>7, <2>1, <2>2, <2>3, LedgerEmplace, LedgerSubmit, LedgerRespond, LedgerCleanup DEF Step
  <1>8. ASSUME NEW w \in Workers, Receive(w) PROVE Ledger'
    <2>1. ASSUME NEW c, NEW d, InvokeHere(w, c, d) PROVE Ledger'
      <3>1. UNCHANGED <<job, pendingRequests, inbox, sequenceId, made, answers>>
        BY <2>1 DEF InvokeHere, peerVars
      <3>2. QED
        BY <1>1, <3>1
    <2>2. CASE InboundEvent(w)
      <3>1. UNCHANGED <<job, pendingRequests, inbox, sequenceId, made, answers>>
        BY <2>2 DEF InboundEvent, bridgeVars
      <3>2. QED
        BY <1>1, <3>1
    <2>3. CASE ClearMethods(w)
      <3> DEFINE j == [job[w] EXCEPT !.pc = "fill"]
      <3>1. job' = [job EXCEPT ![w] = j] /\ UNCHANGED <<pendingRequests, inbox, sequenceId, made, answers>>
        BY <2>3 DEF ClearMethods, peerVars
      <3>2. Aside(j)
        BY <1>0 DEF Aside, JobType
      <3> HIDE DEF j
      <3>3. QED
        BY <1>2, <3>1, <3>2
    <2>4. QED
      BY <1>8, <2>1, <2>2, <2>3, LedgerInvoke, LedgerTake DEF Receive
  <1>9. QED
    BY <1>4, <1>5, <1>6, <1>7, <1>8 DEF Next

LEMMA AlwaysBridgeInv == Spec => []BridgeInv
  <1>1. Init => BridgeInv
    <2> SUFFICES ASSUME Init PROVE BridgeInv
      OBVIOUS
    <2>1. TypeOK
      BY TypeInit
    <2>2. /\ DOMAIN pendingRequests = {} /\ DOMAIN inbox = {}
          /\ \A w \in Workers : job[w].pc = "idle"
          /\ \A r \in Requests : answers[r] = <<>>
      BY DEF Init, Free
    <2>3. JobsMatch /\ IdsAgree /\ OneHolder
      BY <2>2 DEF JobsMatch, IdsAgree, OneHolder, Sending, Holding
    <2>4. AnsweredOnce /\ AnswersAreOwn
      BY <2>2 DEF AnsweredOnce, AnswersAreOwn
    <2>5. QED
      BY <2>1, <2>3, <2>4 DEF BridgeInv, Ledger
  <1>2. BridgeInv /\ [Next]_vars => BridgeInv'
    BY TypeStep, LedgerStep DEF BridgeInv
  <1>3. QED
    BY <1>1, <1>2, PTL DEF Spec

\* WebBridge answers no request twice: neither a late or doubled answer of the
\* service, nor the cleaner's error beside one, nor the insertions that race
\* without _adminLock, whatever the timeout and the number of workers.
THEOREM OneAnswer == Spec => []OneAnswerEach
  <1>1. BridgeInv => OneAnswerEach
    BY DEF BridgeInv, Ledger, OneAnswerEach
  <1>2. QED
    BY <1>1, AlwaysBridgeInv, PTL

\* What a requester gets is what the service computed for its own request, though
\* two channels use one id and the service only sees the ids WebBridge made up.
THEOREM OwnAnswers == Spec => []AnswersAreOwn
  <1>1. BridgeInv => AnswersAreOwn
    BY DEF BridgeInv, Ledger
  <1>2. QED
    BY <1>1, AlwaysBridgeInv, PTL
================================================================================
