-------------------------- MODULE WebSocketsProofs --------------------------
(***************************************************************************)
(* Proofs about the two ways to use a WSEndpoint: WebSockets, for any      *)
(* number of threads, request objects, ids, sends and reconnections, and   *)
(* CommandInterface, for any number of callers and commands.               *)
(***************************************************************************)
EXTENDS MCWebSockets, TLAPS

Calls == [pc : {"idle", "check", "create", "send", "wait", "remove"}, req : Requests]

Messages == Nat \X Questions

\* The value of an idle thread is a call record.
LEMMA IdleType == Idle \in Calls /\ Idle.pc = "idle"
  <1>1. (CHOOSE r \in Requests : TRUE) \in Requests
    BY RequestsAssumption
  <1>2. QED
    BY <1>1 DEF Idle, Calls

\* Moving a thread through its call keeps the calls well formed, and changes
\* no other thread's.
LEMMA GotoType ==
  ASSUME TypeOK, NEW t \in Threads, NEW from, NEW to,
         to \in {"idle", "check", "create", "send", "wait", "remove"},
         Goto(t, from, to)
  PROVE  /\ call' \in [Threads -> Calls]
         /\ \A u \in Threads : u # t => call'[u] = call[u]
         /\ call[t].pc = from /\ call'[t].pc = to
         /\ to # "idle" => call'[t].req = call[t].req
  <1>1. call \in [Threads -> Calls]
    BY DEF TypeOK, Calls
  <1>2. [call[t] EXCEPT !.pc = to] \in Calls
    BY <1>1 DEF Calls
  <1>3. QED
    BY <1>1, <1>2, IdleType DEF Goto, Calls

\* Taking an element out of a sequence of messages leaves one.
LEMMA RemoveType ==
  ASSUME NEW s \in Seq(Messages), NEW i \in DOMAIN s,
         NEW r, r = [j \in 1 .. Len(s) - 1 |-> IF j < i THEN s[j] ELSE s[j + 1]]
  PROVE  /\ r \in Seq(Messages)
         /\ \A j \in DOMAIN r : \E k \in DOMAIN s : r[j] = s[k]
  <1>1. Len(s) - 1 \in Nat /\ i \in 1 .. Len(s)
    OBVIOUS
  <1>2. \A j \in 1 .. Len(s) - 1 : j \in DOMAIN s /\ j + 1 \in DOMAIN s
    BY <1>1
  <1>3. r \in [1 .. Len(s) - 1 -> Messages]
    BY <1>1, <1>2
  <1>4. QED
    BY <1>1, <1>2, <1>3

\* Appending keeps a sequence's type.
LEMMA AppendType ==
  ASSUME NEW S, NEW s \in Seq(S), NEW m \in S
  PROVE  Append(s, m) \in Seq(S)
  OBVIOUS

\* What object r asks is a question.
LEMMA QuestionType == TypeOK => \A r \in Requests : Question(r) \in Questions
  BY DEF TypeOK, Question, Questions

\* The types hold at the start.
LEMMA TypeInit == Init => TypeOK
  <1>1. Init => resent \in BOOLEAN
    BY DEF Init
  <1>2. QED
    BY <1>1, IdleType DEF Init, TypeOK, Calls, Null

\* Type correctness, with the event loop's start and the emptiness of a link
\* without a connection: whatever the callers, the peer and the owner do.
THEOREM TypeCorrect == Spec => []TypeOK
  <1>1. Init => TypeOK
    BY TypeInit
  <1>2. TypeOK /\ [Next]_vars => TypeOK'
    <2> SUFFICES ASSUME TypeOK, [Next]_vars
                 PROVE  TypeOK'
      OBVIOUS
    <2> USE DEF rpcVars, wireVars, linkVars
    <2>1. ASSUME NEW t \in Threads, CallerStep(t) PROVE TypeOK'
      <3>1. call[t] \in Calls /\ id[call[t].req] \in Nat
        BY DEF TypeOK, Calls
      <3>2. CASE CheckOngoing(t)
        BY <3>2, GotoType DEF CheckOngoing, TypeOK, Calls
      <3>3. CASE createFutureResponse(t)
        <4>1. call' \in [Threads -> Calls]
          BY <3>3, GotoType DEF createFutureResponse
        <4>2. responseToPromise_' \subseteq Nat \X Threads
          BY <3>3, <3>1 DEF createFutureResponse, TypeOK
        <4>3. future' \in [Threads -> Questions \cup {Null}]
          BY <3>3 DEF createFutureResponse, TypeOK
        <4>4. QED
          BY <3>3, <4>1, <4>2, <4>3 DEF createFutureResponse, TypeOK, Calls
      <3>4. CASE Send(t)
        <4>1. call' \in [Threads -> Calls]
          BY <3>4, GotoType DEF Send
        <4>2. Question(call[t].req) \in Questions
          BY <3>1, QuestionType DEF Calls
        <4>3. asked' \in Seq(Nat \X Questions)
          <5>1. <<id[call[t].req], Question(call[t].req)>> \in Nat \X Questions
            BY <3>1, <4>2
          <5>2. asked' = asked \/ asked' = Append(asked, <<id[call[t].req], Question(call[t].req)>>)
            BY <3>4 DEF Send
          <5>3. asked \in Seq(Nat \X Questions)
            BY DEF TypeOK
          <5>4. QED
            BY <5>1, <5>2, <5>3, AppendType
        <4>4. onWire' \subseteq Questions
          BY <3>4, <4>2 DEF Send, TypeOK
        <4>5. resent' \in BOOLEAN
          BY <3>4 DEF Send, TypeOK
        <4>6. connection' \in {"none", "connecting"} => pings' = 0 /\ asked' = <<>> /\ inbox' = <<>>
          BY <3>4 DEF Send, TypeOK
        <4>7. sends' \in Nat
          BY <3>4 DEF Send, TypeOK
        <4>8. QED
          BY <3>4, <4>1, <4>3, <4>4, <4>5, <4>6, <4>7 DEF Send, TypeOK, Calls
      <3>5. CASE getAsyncResponse(t)
        BY <3>5, GotoType DEF getAsyncResponse, TypeOK, Calls
      <3>6. CASE removePromise(t)
        <4>1. future' \in [Threads -> Questions \cup {Null}]
          BY <3>6 DEF removePromise, TypeOK
        <4>2. QED
          BY <3>6, <4>1, GotoType DEF removePromise, TypeOK, Calls
      <3>7. QED
        BY <2>1, <3>2, <3>3, <3>4, <3>5, <3>6 DEF CallerStep
    <2>2. ASSUME NEW t \in Threads, NEW r \in Requests, sendRequest(t, r) PROVE TypeOK'
      BY <2>2 DEF sendRequest, TypeOK
    <2>3. ASSUME NEW r \in Requests, create(r) PROVE TypeOK'
      BY <2>3 DEF create, generateId, TypeOK
    <2>4. CASE PeerAnswers
      <3>1. PICK i \in DOMAIN asked :
              /\ inbox' = Append(inbox, asked[i])
              /\ asked' = [j \in 1 .. Len(asked) - 1 |-> IF j < i THEN asked[j] ELSE asked[j + 1]]
        BY <2>4 DEF PeerAnswers
      <3>2. asked \in Seq(Messages) /\ inbox \in Seq(Messages)
        BY DEF TypeOK, Messages
      <3>3. asked' \in Seq(Messages)
        BY <3>1, <3>2, RemoveType
      <3>4. inbox' \in Seq(Messages)
        BY <3>1, <3>2
      <3>5. QED
        BY <2>4, <3>3, <3>4 DEF PeerAnswers, TypeOK, Messages
    <2>11. CASE PeerRepeats
      <3>1. PICK i \in DOMAIN asked : inbox' = Append(inbox, asked[i])
        BY <2>11 DEF PeerRepeats
      <3>2. inbox' \in Seq(Messages)
        BY <3>1 DEF TypeOK, Messages
      <3>3. repeats' \in Nat
        BY <2>11 DEF PeerRepeats, TypeOK
      <3>4. QED
        BY <2>11, <3>2, <3>3 DEF PeerRepeats, TypeOK, Messages
    <2>5. CASE onMessage
      <3>1. Head(inbox) \in Nat \X Questions /\ Tail(inbox) \in Seq(Nat \X Questions)
        BY <2>5 DEF onMessage, TypeOK
      <3>2. future' \in [Threads -> Questions \cup {Null}]
        BY <2>5, <3>1 DEF onMessage, TypeOK
      <3>3. loop' \in {"running", "crashed"} /\ connects # 0 /\ connection = "open"
        BY <2>5 DEF onMessage, TypeOK
      <3>4. QED
        BY <2>5, <3>1, <3>2, <3>3 DEF onMessage, TypeOK
    <2>6. CASE onOpen \/ onFail \/ ping \/ onPong \/ onPongTimeout \/ LoopEnd \/ PeerFallsSilent
      <3>1. CASE onOpen
        BY <3>1 DEF onOpen, TypeOK
      <3>2. CASE onFail
        BY <3>2 DEF onFail, TypeOK
      <3>3. CASE ping
        BY <3>3 DEF ping, TypeOK
      <3>4. CASE onPong
        BY <3>4 DEF onPong, TypeOK
      <3>5. CASE onPongTimeout
        BY <3>5 DEF onPongTimeout, TypeOK
      <3>6. CASE LoopEnd
        BY <3>6 DEF LoopEnd, TypeOK
      <3>7. CASE PeerFallsSilent
        BY <3>7 DEF PeerFallsSilent, TypeOK
      <3>8. QED
        BY <2>6, <3>1, <3>2, <3>3, <3>4, <3>5, <3>6, <3>7
    <2>7. CASE onClose
      BY <2>7 DEF onClose, TypeOK
    <2>8. CASE connect \/ disconnect \/ destroy \/ stopEventLoop
      <3>1. CASE connect
        BY <3>1 DEF connect, TypeOK
      <3>2. CASE disconnect
        BY <3>2 DEF disconnect, closeConnection, TypeOK
      <3>3. CASE destroy
        BY <3>3 DEF destroy, closeConnection, TypeOK
      <3>4. CASE stopEventLoop
        BY <3>4 DEF stopEventLoop, TypeOK
      <3>5. QED
        BY <2>8, <3>1, <3>2, <3>3, <3>4
    <2>9. CASE UNCHANGED vars
      BY <2>9 DEF vars, TypeOK
    <2>10. QED
      BY <2>1, <2>2, <2>3, <2>4, <2>5, <2>6, <2>7, <2>8, <2>9, <2>11 DEF Next
  <1>3. QED
    BY <1>1, <1>2, PTL DEF Spec

------------------------------------------------------------------------------
(***************************************************************************)
(* The promises.  PromisesHaveCalls is inductive together with the fact    *)
(* that the calls that hold an entry hold different ids, and that a        *)
(* request in use has an id.                                               *)
(***************************************************************************)

\* Two calls that hold an entry hold different ids.
IdsDiffer ==
  \A t, u \in Threads : Holds(t) /\ Holds(u) /\ t # u => id[call[t].req] # id[call[u].req]

\* A request that is being sent was created.
UsedHaveIds == \A t \in Threads : call[t].pc # "idle" => id[call[t].req] # 0

PromiseInv == TypeOK /\ PromisesHaveCalls /\ IdsDiffer /\ UsedHaveIds

\* The map has an entry for an id exactly if some call holds it.
LEMMA OngoingHeld ==
  ASSUME PromiseInv, NEW i
  PROVE  Ongoing(i) <=> \E t \in Threads : Holds(t) /\ id[call[t].req] = i
  BY DEF PromiseInv, PromisesHaveCalls, Ongoing

\* The invariant holds at the start.
LEMMA PromiseInit == Init => PromiseInv
  BY TypeInit, IdleType DEF Init, PromiseInv, PromisesHaveCalls, IdsDiffer, UsedHaveIds, Holds

\* Every step preserves the invariant.
LEMMA PromiseStep == PromiseInv /\ TypeOK' /\ [Next]_vars => PromiseInv'
  <1> SUFFICES ASSUME PromiseInv, TypeOK', [Next]_vars
               PROVE  PromiseInv'
    OBVIOUS
  <1> USE DEF rpcVars, wireVars, linkVars
  <1>0. TypeOK /\ call \in [Threads -> Calls]
    BY DEF PromiseInv, TypeOK, Calls
  <1>1. ASSUME NEW t \in Threads, CallerStep(t) PROVE PromiseInv'
    <2>0. \A u \in Threads : call[u] \in Calls
      BY <1>0
    <2>1. ASSUME NEW from, NEW to, Goto(t, from, to), UNCHANGED <<id, responseToPromise_>>,
                 \/ from \in {"check", "create"} /\ to \in {"idle", "check", "create"}
                 \/ from \in {"send", "wait"} /\ to \in {"wait", "remove"}
          PROVE  PromiseInv'
      <3>1. /\ \A u \in Threads : u # t => call'[u] = call[u]
            /\ call[t].pc = from /\ call'[t].pc = to
            /\ to # "idle" => call'[t].req = call[t].req
        BY <2>1, <1>0, GotoType
      <3>2. \A u \in Threads : Holds(u)' <=> Holds(u)
        BY <2>1, <3>1 DEF Holds
      <3>3. \A u \in Threads : Holds(u) => call'[u].req = call[u].req
        BY <2>1, <3>1 DEF Holds
      <3>4. PromisesHaveCalls'
        BY <2>1, <3>2, <3>3 DEF PromiseInv, PromisesHaveCalls
      <3>5. IdsDiffer'
        BY <2>1, <3>2, <3>3 DEF PromiseInv, IdsDiffer
      <3>6. UsedHaveIds'
        BY <2>1, <3>1 DEF PromiseInv, UsedHaveIds
      <3>7. QED
        BY <3>4, <3>5, <3>6 DEF PromiseInv
    <2>2. CASE CheckOngoing(t)
      BY <2>2, <2>1 DEF CheckOngoing
    <2>3. CASE createFutureResponse(t)
      <3>1. CASE Ongoing(id[call[t].req])
        BY <2>3, <3>1, <2>1 DEF createFutureResponse
      <3>2. CASE ~Ongoing(id[call[t].req])
        <4>1. /\ Goto(t, "create", "send")
              /\ responseToPromise_' = responseToPromise_ \cup {<<id[call[t].req], t>>}
              /\ id' = id
          BY <2>3, <3>2 DEF createFutureResponse
        <4>2. /\ \A u \in Threads : u # t => call'[u] = call[u]
              /\ call[t].pc = "create" /\ call'[t].pc = "send" /\ call'[t].req = call[t].req
          BY <4>1, <1>0, GotoType
        <4>3. \A u \in Threads : Holds(u)' <=> (Holds(u) \/ u = t)
          BY <4>2 DEF Holds
        <4>4. \A u \in Threads : call'[u].req = call[u].req
          BY <4>2
        <4>5. PromisesHaveCalls'
          BY <4>1, <4>3, <4>4 DEF PromiseInv, PromisesHaveCalls
        <4>6. IdsDiffer'
          BY <4>1, <4>3, <4>4, <3>2, OngoingHeld DEF PromiseInv, IdsDiffer
        <4>7. UsedHaveIds'
          BY <4>1, <4>2, <4>4 DEF PromiseInv, UsedHaveIds
        <4>8. QED
          BY <4>5, <4>6, <4>7 DEF PromiseInv
      <3>3. QED
        BY <3>1, <3>2
    <2>4. CASE Send(t)
      BY <2>4, <2>1 DEF Send
    <2>5. CASE getAsyncResponse(t)
      BY <2>5, <2>1 DEF getAsyncResponse
    <2>6. CASE removePromise(t)
      <3>1. /\ Goto(t, "remove", "idle")
            /\ responseToPromise_' = {p \in responseToPromise_ : p[1] # id[call[t].req]}
            /\ id' = id
        BY <2>6 DEF removePromise
      <3>2. /\ \A u \in Threads : u # t => call'[u] = call[u]
            /\ call[t].pc = "remove" /\ call'[t].pc = "idle"
        BY <3>1, <1>0, GotoType
      <3>3. Holds(t) /\ \A u \in Threads : Holds(u)' <=> (Holds(u) /\ u # t)
        BY <3>2 DEF Holds
      <3>4. PromisesHaveCalls'
        <4>1. \A u \in Threads : Holds(u) /\ u # t => id[call[u].req] # id[call[t].req]
          BY <3>3 DEF PromiseInv, IdsDiffer
        <4>2. QED
          BY <3>1, <3>2, <3>3, <4>1 DEF PromiseInv, PromisesHaveCalls
      <3>5. IdsDiffer'
        BY <3>1, <3>2, <3>3 DEF PromiseInv, IdsDiffer
      <3>6. UsedHaveIds'
        BY <3>1, <3>2 DEF PromiseInv, UsedHaveIds
      <3>7. QED
        BY <3>4, <3>5, <3>6 DEF PromiseInv
    <2>7. QED
      BY <1>1, <2>2, <2>3, <2>4, <2>5, <2>6 DEF CallerStep
  <1>2. ASSUME NEW t \in Threads, NEW r \in Requests, sendRequest(t, r) PROVE PromiseInv'
    <2>1. /\ \A u \in Threads : u # t => call'[u] = call[u]
          /\ call[t].pc = "idle" /\ call'[t].pc = "check" /\ call'[t].req = r
          /\ id[r] # 0 /\ UNCHANGED <<id, responseToPromise_>>
      BY <1>2, <1>0 DEF sendRequest
    <2>2. \A u \in Threads : Holds(u)' <=> Holds(u)
      BY <2>1 DEF Holds
    <2>3. \A u \in Threads : Holds(u) => call'[u].req = call[u].req
      BY <2>1 DEF Holds
    <2>4. QED
      BY <2>1, <2>2, <2>3 DEF PromiseInv, PromisesHaveCalls, IdsDiffer, UsedHaveIds
  <1>3. ASSUME NEW r \in Requests, create(r) PROVE PromiseInv'
    <2>1. \A u \in Threads : call[u].pc # "idle" => id'[call[u].req] = id[call[u].req]
      BY <1>3, <1>0 DEF create, InUse, TypeOK, Calls
    <2>2. \A u \in Threads : Holds(u) => call[u].pc # "idle"
      BY DEF Holds
    <2>3. \A u \in Threads : Holds(u)' <=> Holds(u)
      BY <1>3 DEF create, Holds
    <2>4. UNCHANGED <<call, responseToPromise_>>
      BY <1>3 DEF create
    <2>5. QED
      BY <2>1, <2>2, <2>3, <2>4 DEF PromiseInv, PromisesHaveCalls, IdsDiffer, UsedHaveIds
  <1>4. CASE UNCHANGED <<id, call, responseToPromise_>>
    BY <1>4 DEF PromiseInv, PromisesHaveCalls, IdsDiffer, UsedHaveIds, Holds
  <1>5. QED
    BY <1>1, <1>2, <1>3, <1>4
    DEF Next, vars, PeerAnswers, PeerRepeats, PeerFallsSilent, onMessage, onOpen, onFail, onClose, ping, onPong,
        onPongTimeout, LoopEnd, connect, disconnect, destroy, stopEventLoop

\* The entries of responseToPromise_ are those of the calls in progress, for
\* any number of threads sharing any number of requests.
THEOREM PromisesCorrect == Spec => []PromisesHaveCalls
  <1>1. Init => PromiseInv
    BY PromiseInit
  <1>2. PromiseInv => PromisesHaveCalls
    BY DEF PromiseInv
  <1>3. QED
    BY <1>1, <1>2, PromiseStep, TypeCorrect, PTL DEF Spec

------------------------------------------------------------------------------
(***************************************************************************)
(* The answers.  Ids are given once, so a message whose id some object has *)
(* asks, or answers, what that object asks.                                *)
(***************************************************************************)

\* No object has an id that was not given yet, and no two have the same.
IdsAreUnique ==
  /\ \A r \in Requests : id[r] <= idSequence
  /\ \A r, s \in Requests : id[r] = id[s] /\ id[r] # 0 => r = s

\* A message with the id of an object carries its question.
Tagged(m) == m[1] <= idSequence /\ \A r \in Requests : id[r] # 0 /\ id[r] = m[1] => m[2] = Question(r)

MessagesTagged ==
  /\ \A i \in DOMAIN asked : Tagged(asked[i])
  /\ \A i \in DOMAIN inbox : Tagged(inbox[i])

AnswerInv == PromiseInv /\ IdsAreUnique /\ MessagesTagged /\ AnswersAreOwn

\* Every step preserves the invariant.
LEMMA AnswerStep == AnswerInv /\ PromiseInv' /\ [Next]_vars => AnswerInv'
  <1> SUFFICES ASSUME AnswerInv, PromiseInv', [Next]_vars
               PROVE  AnswerInv'
    OBVIOUS
  <1> USE DEF rpcVars, wireVars, linkVars
  <1>0. TypeOK /\ call \in [Threads -> Calls]
    BY DEF AnswerInv, PromiseInv, TypeOK, Calls
  <1>1. ASSUME UNCHANGED <<idSequence, id, created, asked, inbox>>
        PROVE  IdsAreUnique' /\ MessagesTagged'
    BY <1>1 DEF AnswerInv, IdsAreUnique, MessagesTagged, Tagged, Question
  <1>2. ASSUME NEW t \in Threads, CallerStep(t) PROVE AnswerInv'
    <2>1. ASSUME NEW from, NEW to, Goto(t, from, to), UNCHANGED <<created, future>>,
                 \/ from \in {"check", "create"} /\ to \in {"idle", "check", "create"}
                 \/ from \in {"send", "wait"} /\ to \in {"wait", "remove"}
          PROVE  AnswersAreOwn'
      <3>1. /\ \A u \in Threads : u # t => call'[u] = call[u]
            /\ call[t].pc = from /\ call'[t].pc = to
            /\ to # "idle" => call'[t].req = call[t].req
        BY <2>1, <1>0, GotoType
      <3>2. \A u \in Threads : Holds(u)' => Holds(u) /\ call'[u].req = call[u].req
        BY <2>1, <3>1 DEF Holds
      <3>3. QED
        BY <2>1, <3>2 DEF AnswerInv, AnswersAreOwn, Question
    <2>2. CASE CheckOngoing(t)
      BY <2>2, <2>1, <1>1 DEF CheckOngoing, AnswerInv
    <2>3. CASE createFutureResponse(t)
      <3>1. CASE Ongoing(id[call[t].req])
        BY <2>3, <3>1, <2>1, <1>1 DEF createFutureResponse, AnswerInv
      <3>2. CASE ~Ongoing(id[call[t].req])
        <4>1. /\ Goto(t, "create", "send")
              /\ future' = [future EXCEPT ![t] = Null] /\ created' = created
          BY <2>3, <3>2 DEF createFutureResponse
        <4>2. \A u \in Threads : u # t => call'[u] = call[u]
          BY <4>1, <1>0, GotoType
        <4>3. \A u \in Threads : u # t => (Holds(u)' <=> Holds(u)) /\ future'[u] = future[u]
          BY <4>1, <4>2, <1>0 DEF Holds, TypeOK
        <4>4. future'[t] = Null
          BY <4>1, <1>0 DEF TypeOK
        <4>5. AnswersAreOwn'
          BY <4>1, <4>2, <4>3, <4>4 DEF AnswerInv, AnswersAreOwn, Question
        <4>6. QED
          BY <2>3, <4>5, <1>1 DEF createFutureResponse, AnswerInv
      <3>3. QED
        BY <3>1, <3>2
    <2>4. CASE Send(t)
      <3>1. AnswersAreOwn' /\ UNCHANGED <<idSequence, id, created, inbox>>
        BY <2>4, <2>1 DEF Send
      <3>2. IdsAreUnique'
        BY <3>1 DEF AnswerInv, IdsAreUnique
      <3>3. DEFINE m == <<id[call[t].req], Question(call[t].req)>>
      <3>4. Tagged(m)
        <4>1. call[t].req \in Requests
          BY <1>0 DEF Calls
        <4>2. QED
          BY <4>1, <1>0 DEF Tagged, AnswerInv, IdsAreUnique, TypeOK
      <3>5. asked' = asked \/ asked' = Append(asked, m)
        BY <2>4 DEF Send
      <3>6. \A i \in DOMAIN asked' : Tagged(asked'[i])
        <4>1. asked \in Seq(Messages)
          BY <1>0 DEF TypeOK, Messages
        <4>2. \A i \in DOMAIN asked : Tagged(asked[i])
          BY DEF AnswerInv, MessagesTagged
        <4> HIDE DEF m
        <4>3. CASE asked' = asked
          BY <4>2, <4>3
        <4>4. CASE asked' = Append(asked, m)
          <5>1. \A i \in DOMAIN asked' : (i \in DOMAIN asked /\ asked'[i] = asked[i]) \/ asked'[i] = m
            BY <4>1, <4>4
          <5>2. QED
            BY <5>1, <4>2, <3>4
        <4>5. QED
          BY <3>5, <4>3, <4>4
      <3>7. MessagesTagged'
        BY <3>1, <3>6 DEF AnswerInv, MessagesTagged, Tagged, Question
      <3>8. QED
        BY <3>1, <3>2, <3>7 DEF AnswerInv
    <2>5. CASE getAsyncResponse(t)
      BY <2>5, <2>1, <1>1 DEF getAsyncResponse, AnswerInv
    <2>6. CASE removePromise(t)
      <3>1. /\ Goto(t, "remove", "idle") /\ created' = created
            /\ future' = [future EXCEPT ![t] = Null]
        BY <2>6 DEF removePromise
      <3>2. /\ \A u \in Threads : u # t => call'[u] = call[u]
            /\ call'[t].pc = "idle"
        BY <3>1, <1>0, GotoType
      <3>3. \A u \in Threads : Holds(u)' => u # t /\ Holds(u)
        BY <3>2 DEF Holds
      <3>4. AnswersAreOwn'
        BY <3>1, <3>2, <3>3, <1>0 DEF AnswerInv, AnswersAreOwn, Question, TypeOK
      <3>5. QED
        BY <2>6, <3>4, <1>1 DEF removePromise, AnswerInv
    <2>7. QED
      BY <1>2, <2>2, <2>3, <2>4, <2>5, <2>6 DEF CallerStep
  <1>3. ASSUME NEW t \in Threads, NEW r \in Requests, sendRequest(t, r) PROVE AnswerInv'
    <2>1. /\ \A u \in Threads : u # t => call'[u] = call[u]
          /\ call'[t].pc = "check" /\ UNCHANGED <<created, future>>
      BY <1>3, <1>0 DEF sendRequest
    <2>2. \A u \in Threads : Holds(u)' => u # t /\ Holds(u)
      BY <2>1 DEF Holds
    <2>3. AnswersAreOwn'
      BY <2>1, <2>2 DEF AnswerInv, AnswersAreOwn, Question
    <2>4. QED
      BY <1>3, <1>1, <2>3 DEF sendRequest, AnswerInv
  <1>4. ASSUME NEW r \in Requests, create(r) PROVE AnswerInv'
    <2>1. /\ idSequence' = idSequence + 1
          /\ id' = [id EXCEPT ![r] = idSequence + 1]
          /\ created' = [created EXCEPT ![r] = @ + 1]
          /\ UNCHANGED <<call, future, asked, inbox>>
          /\ \A u \in Threads : call[u].pc # "idle" => call[u].req # r
      BY <1>4 DEF create, generateId, InUse
    <2>2. IdsAreUnique'
      <3>1. id \in [Requests -> Nat] /\ idSequence \in Nat /\ id'[r] = idSequence + 1
        BY <2>1, <1>0 DEF TypeOK
      <3>2. \A s \in Requests : s # r => id'[s] = id[s] /\ id[s] <= idSequence
        BY <2>1, <3>1 DEF AnswerInv, IdsAreUnique
      <3>3. \A s \in Requests : id'[s] <= idSequence'
        BY <2>1, <3>1, <3>2
      <3>4. \A s, u \in Requests : id'[s] = id'[u] /\ id'[s] # 0 => s = u
        <4>1. \A s \in Requests : s # r => id'[s] # id'[r]
          BY <3>1, <3>2
        <4>2. \A s, u \in Requests : s # r /\ u # r /\ id'[s] = id'[u] /\ id'[s] # 0 => s = u
          BY <3>2 DEF AnswerInv, IdsAreUnique
        <4>3. QED
          BY <4>1, <4>2
      <3>5. QED
        BY <3>3, <3>4 DEF IdsAreUnique
    <2>3. AnswersAreOwn'
      <3>1. \A u \in Threads : Holds(u)' => Holds(u) /\ call[u].pc # "idle"
        BY <2>1 DEF Holds
      <3>2. \A u \in Threads : call[u].pc # "idle" => created'[call[u].req] = created[call[u].req]
        BY <2>1, <1>0 DEF TypeOK, Calls
      <3>3. QED
        BY <2>1, <3>1, <3>2 DEF AnswerInv, AnswersAreOwn, Question
    <2>4. ASSUME NEW m \in Messages, Tagged(m) PROVE Tagged(m)'
      <3>1. m[1] \in Nat /\ m[1] <= idSequence
        BY <2>4 DEF Tagged, Messages
      <3>2. m[1] <= idSequence'
        BY <2>1, <3>1, <1>0 DEF TypeOK
      <3>3. ASSUME NEW s \in Requests, id'[s] # 0, id'[s] = m[1] PROVE m[2] = <<s, created'[s]>>
        <4>1. s # r
          BY <2>1, <3>1, <3>3, <1>0 DEF TypeOK
        <4>2. id'[s] = id[s] /\ created'[s] = created[s]
          BY <2>1, <4>1, <1>0 DEF TypeOK
        <4>3. QED
          BY <2>4, <3>3, <4>2 DEF Tagged, Question
      <3>4. QED
        BY <3>2, <3>3 DEF Tagged, Question
    <2>5. MessagesTagged'
      <3>1. \A i \in DOMAIN asked : asked[i] \in Messages
        BY <1>0 DEF TypeOK, Messages
      <3>2. \A i \in DOMAIN inbox : inbox[i] \in Messages
        BY <1>0 DEF TypeOK, Messages
      <3>3. \A i \in DOMAIN asked : Tagged(asked[i])
        BY DEF AnswerInv, MessagesTagged
      <3>4. \A i \in DOMAIN inbox : Tagged(inbox[i])
        BY DEF AnswerInv, MessagesTagged
      <3>5. UNCHANGED <<asked, inbox>>
        BY <2>1
      <3>6. \A m \in Messages : Tagged(m) =>
              m[1] <= idSequence' /\ \A s \in Requests : id'[s] # 0 /\ id'[s] = m[1] => m[2] = <<s, created'[s]>>
        BY <2>4 DEF Tagged, Question
      <3>7. QED
        BY <3>1, <3>2, <3>3, <3>4, <3>5, <3>6 DEF MessagesTagged, Tagged, Question
    <2>6. QED
      BY <2>2, <2>3, <2>5 DEF AnswerInv
  <1>5. CASE PeerAnswers
    <2>1. PICK i \in DOMAIN asked :
            /\ inbox' = Append(inbox, asked[i])
            /\ asked' = [j \in 1 .. Len(asked) - 1 |-> IF j < i THEN asked[j] ELSE asked[j + 1]]
      BY <1>5 DEF PeerAnswers
    <2>2. asked \in Seq(Messages) /\ inbox \in Seq(Messages) /\ asked[i] \in Messages
      BY <1>0 DEF TypeOK, Messages
    <2>3. \A j \in DOMAIN asked' : \E k \in DOMAIN asked : asked'[j] = asked[k]
      BY <2>1, <2>2, RemoveType
    <2>4. \A j \in DOMAIN inbox' : (j \in DOMAIN inbox /\ inbox'[j] = inbox[j]) \/ inbox'[j] = asked[i]
      BY <2>1, <2>2
    <2>5. UNCHANGED <<idSequence, id, created, call, future>>
      BY <1>5 DEF PeerAnswers
    <2>6. MessagesTagged'
      BY <2>3, <2>4, <2>5 DEF AnswerInv, MessagesTagged, Tagged, Question
    <2>7. QED
      BY <2>5, <2>6 DEF AnswerInv, IdsAreUnique, AnswersAreOwn, Holds, Question
  <1>10. CASE PeerRepeats
    <2>1. PICK i \in DOMAIN asked : inbox' = Append(inbox, asked[i])
      BY <1>10 DEF PeerRepeats
    <2>2. asked \in Seq(Messages) /\ inbox \in Seq(Messages) /\ asked[i] \in Messages
      BY <1>0 DEF TypeOK, Messages
    <2>3. \A j \in DOMAIN inbox' : (j \in DOMAIN inbox /\ inbox'[j] = inbox[j]) \/ inbox'[j] = asked[i]
      BY <2>1, <2>2
    <2>4. UNCHANGED <<idSequence, id, created, call, future, asked>>
      BY <1>10 DEF PeerRepeats
    <2>5. MessagesTagged'
      BY <2>3, <2>4 DEF AnswerInv, MessagesTagged, Tagged, Question
    <2>6. QED
      BY <2>4, <2>5 DEF AnswerInv, IdsAreUnique, AnswersAreOwn, Holds, Question
  <1>6. CASE onMessage
    <2> DEFINE i == Head(inbox)[1]
               q == Head(inbox)[2]
               waiting == {t \in Threads : <<i, t>> \in responseToPromise_}
    <2>1. /\ future' = [t \in Threads |-> IF t \in waiting /\ future[t] = Null THEN q ELSE future[t]]
          /\ inbox # <<>> /\ inbox' = Tail(inbox)
          /\ UNCHANGED <<idSequence, id, created, call, asked>>
      BY <1>6 DEF onMessage
    <2>2. inbox \in Seq(Messages)
      BY <1>0 DEF TypeOK, Messages
    <2>3. Tagged(Head(inbox))
      <3>1. 1 \in DOMAIN inbox /\ Head(inbox) = inbox[1]
        BY <2>1, <2>2
      <3>2. QED
        BY <3>1 DEF AnswerInv, MessagesTagged
    <2>4. ASSUME NEW t \in waiting PROVE q = Question(call[t].req)
      <3>1. Holds(t) /\ i = id[call[t].req]
        BY DEF AnswerInv, PromiseInv, PromisesHaveCalls
      <3>2. call[t].pc # "idle" /\ call[t].req \in Requests
        BY <3>1, <1>0 DEF Holds, Calls
      <3>3. id[call[t].req] # 0
        BY <3>2 DEF AnswerInv, PromiseInv, UsedHaveIds
      <3>4. QED
        BY <2>3, <3>1, <3>2, <3>3 DEF Tagged
    <2>5. AnswersAreOwn'
      BY <2>1, <2>4 DEF AnswerInv, AnswersAreOwn, Holds, Question
    <2>6. MessagesTagged'
      <3>1. \A j \in DOMAIN inbox' : j + 1 \in DOMAIN inbox /\ inbox'[j] = inbox[j + 1]
        BY <2>1, <2>2
      <3>2. QED
        BY <2>1, <3>1 DEF AnswerInv, MessagesTagged, Tagged, Question
    <2>7. QED
      BY <2>1, <2>5, <2>6 DEF AnswerInv, IdsAreUnique
  <1>7. CASE onClose
    <2>1. asked' = <<>> /\ inbox' = <<>> /\ UNCHANGED <<idSequence, id, created, call, future>>
      BY <1>7 DEF onClose
    <2>2. QED
      BY <2>1 DEF AnswerInv, IdsAreUnique, MessagesTagged, AnswersAreOwn, Holds, Question
  <1>8. CASE UNCHANGED <<idSequence, id, created, call, future, asked, inbox>>
    BY <1>8, <1>1 DEF AnswerInv, AnswersAreOwn, Holds, Question
  <1>9. QED
    BY <1>2, <1>3, <1>4, <1>5, <1>6, <1>7, <1>8, <1>10
    DEF Next, vars, PeerFallsSilent, onOpen, onFail, ping, onPong,
        onPongTimeout, LoopEnd, connect, disconnect, destroy, stopEventLoop

\* sendRequest never returns the answer to another request, however late
\* answers are and however often requests time out and are sent again.
THEOREM AnswersCorrect == Spec => []AnswersAreOwn
  <1>1. Init => AnswerInv
    BY PromiseInit, IdleType
    DEF Init, AnswerInv, IdsAreUnique, MessagesTagged, AnswersAreOwn, Holds
  <1>2. AnswerInv => AnswersAreOwn
    BY DEF AnswerInv
  <1>3. AnswerInv => PromiseInv
    BY DEF AnswerInv
  <1>4. QED
    BY <1>1, <1>2, <1>3, PromiseStep, AnswerStep, TypeCorrect, PTL DEF Spec

------------------------------------------------------------------------------
(***************************************************************************)
(* The promises are satisfied once.  As long as nothing was put on the     *)
(* wire twice and no answer came twice, a question is in one place only:   *)
(* asked, on its way back, or answered.                                    *)
(***************************************************************************)

Carries(s, q) == \E i \in DOMAIN s : s[i][2] = q
Once(s) == \A i, j \in DOMAIN s : s[i][2] = s[j][2] => i = j

\* Nothing carries what was not put on the wire, and no question is both asked and answered.
Placed ==
  /\ Once(asked) /\ Once(inbox)
  /\ \A q : Carries(asked, q) => q \in onWire /\ ~Carries(inbox, q)
  /\ \A q : Carries(inbox, q) => q \in onWire

\* What a future has is not under way any more.
Settled ==
  \A t \in Threads : future[t] # Null =>
    future[t] \in onWire /\ ~Carries(asked, future[t]) /\ ~Carries(inbox, future[t])

OnceInv == ~resent /\ repeats = 0 => loop # "crashed" /\ Placed /\ Settled

\* The loop ended in a call that has its answer and holds its promise.
CrashInv == loop = "crashed" => \E t \in Threads : Holds(t) /\ future[t] # Null

\* Appending a message adds what it carries.
LEMMA AppendCarries ==
  ASSUME NEW s \in Seq(Messages), NEW m \in Messages
  PROVE  /\ \A q : Carries(Append(s, m), q) <=> Carries(s, q) \/ q = m[2]
         /\ Once(s) /\ ~Carries(s, m[2]) => Once(Append(s, m))
  <1> DEFINE a == Append(s, m)
  <1>1. /\ DOMAIN s = 1 .. Len(s) /\ DOMAIN a = 1 .. Len(s) + 1 /\ Len(s) \in Nat
        /\ a[Len(s) + 1] = m /\ \A i \in DOMAIN s : a[i] = s[i]
    OBVIOUS
  <1>2. \A i \in DOMAIN a : i \in DOMAIN s \/ i = Len(s) + 1
    BY <1>1
  <1>3. \A i \in DOMAIN s : i \in DOMAIN a
    BY <1>1
  <1>4. Len(s) + 1 \in DOMAIN a
    BY <1>1
  <1> HIDE DEF a
  <1>5. \A q : Carries(a, q) <=> Carries(s, q) \/ q = m[2]
    BY <1>1, <1>2, <1>3, <1>4 DEF Carries
  <1>6. ASSUME Once(s), ~Carries(s, m[2]) PROVE Once(a)
    BY <1>1, <1>2, <1>6 DEF Once, Carries
  <1>7. QED
    BY <1>5, <1>6 DEF a

\* Taking a message out of a sequence without duplicates takes what it carries.
LEMMA RemoveCarries ==
  ASSUME NEW s \in Seq(Messages), NEW i \in DOMAIN s, Once(s),
         NEW r, r = [j \in 1 .. Len(s) - 1 |-> IF j < i THEN s[j] ELSE s[j + 1]]
  PROVE  Once(r) /\ \A q : Carries(r, q) => Carries(s, q) /\ q # s[i][2]
  <1> DEFINE at(j) == IF j < i THEN j ELSE j + 1
  <1>1. Len(s) \in Nat /\ DOMAIN s = 1 .. Len(s) /\ i \in 1 .. Len(s) /\ DOMAIN r = 1 .. Len(s) - 1
    OBVIOUS
  <1>2. \A j \in DOMAIN r : at(j) \in DOMAIN s /\ at(j) # i /\ r[j] = s[at(j)]
    BY <1>1
  <1>3. \A j, k \in DOMAIN r : at(j) = at(k) => j = k
    BY <1>1
  <1> HIDE DEF at
  <1>4. Once(r)
    <2> SUFFICES ASSUME NEW j \in DOMAIN r, NEW k \in DOMAIN r, r[j][2] = r[k][2] PROVE j = k
      BY DEF Once
    <2>1. at(j) = at(k)
      BY <1>2 DEF Once
    <2>2. QED
      BY <1>3, <2>1
  <1>5. ASSUME NEW j \in DOMAIN r PROVE Carries(s, r[j][2]) /\ r[j][2] # s[i][2]
    BY <1>2 DEF Once, Carries
  <1>6. QED
    BY <1>4, <1>5 DEF Carries

\* Taking the first message of a sequence without duplicates.
LEMMA TailCarries ==
  ASSUME NEW s \in Seq(Messages), s # <<>>, Once(s)
  PROVE  /\ Once(Tail(s)) /\ Carries(s, Head(s)[2])
         /\ \A q : Carries(Tail(s), q) => Carries(s, q) /\ q # Head(s)[2]
  <1>1. /\ Len(s) \in Nat \ {0} /\ DOMAIN s = 1 .. Len(s) /\ Head(s) = s[1] /\ 1 \in DOMAIN s
        /\ DOMAIN Tail(s) = 1 .. Len(s) - 1 /\ \A j \in DOMAIN Tail(s) : Tail(s)[j] = s[j + 1]
    OBVIOUS
  <1>2. \A j \in DOMAIN Tail(s) : j + 1 \in DOMAIN s /\ j + 1 # 1
    BY <1>1
  <1>3. \A j, k \in DOMAIN Tail(s) : j + 1 = k + 1 => j = k
    BY <1>1
  <1>4. QED
    BY <1>1, <1>2, <1>3 DEF Once, Carries

\* After the loop has ended no call moves, and it ends in onMessage.
LEMMA CrashStep == AnswerInv /\ CrashInv /\ [Next]_vars => CrashInv'
  <1> SUFFICES ASSUME AnswerInv, CrashInv, [Next]_vars PROVE CrashInv'
    OBVIOUS
  <1> USE DEF rpcVars, wireVars, linkVars
  <1>1. CASE onMessage
    <2> DEFINE i == Head(inbox)[1]
               q == Head(inbox)[2]
               waiting == {t \in Threads : <<i, t>> \in responseToPromise_}
    <2>1. /\ future' = [t \in Threads |-> IF t \in waiting /\ future[t] = Null THEN q ELSE future[t]]
          /\ loop' = IF \E t \in waiting : future[t] # Null THEN "crashed" ELSE loop
          /\ loop = "running" /\ call' = call
      BY <1>1 DEF onMessage
    <2>2. \A t \in waiting : Holds(t)
      BY DEF AnswerInv, PromiseInv, PromisesHaveCalls
    <2> HIDE DEF q
    <2>3. \A t \in waiting : future[t] # Null => future'[t] # Null /\ Holds(t)'
      BY <2>1, <2>2 DEF Holds
    <2>4. CASE \E t \in waiting : future[t] # Null
      BY <2>3, <2>4 DEF CrashInv
    <2>5. CASE ~\E t \in waiting : future[t] # Null
      BY <2>1, <2>5 DEF CrashInv
    <2>6. QED
      BY <2>4, <2>5
  <1>2. CASE loop' # "crashed"
    BY <1>2 DEF CrashInv
  <1>3. CASE loop = "crashed" /\ UNCHANGED <<call, future>>
    BY <1>3 DEF CrashInv, Holds
  <1>4. (\E t \in Threads : CallerStep(t)) => loop' = loop /\ loop # "crashed"
    BY DEF CallerStep, CheckOngoing, createFutureResponse, Send, getAsyncResponse, removePromise
  <1>5. /\ PeerAnswers \/ PeerRepeats \/ PeerFallsSilent => UNCHANGED <<loop, call, future>>
        /\ ping \/ onPong \/ onPongTimeout \/ onClose \/ onFail \/ onOpen => UNCHANGED <<loop, call, future>>
    BY DEF PeerAnswers, PeerRepeats, PeerFallsSilent, ping, onPong, onPongTimeout, onClose, onFail, onOpen
  <1>6. /\ disconnect \/ destroy \/ stopEventLoop \/ UNCHANGED vars => UNCHANGED <<loop, call, future>>
        /\ LoopEnd \/ connect => loop' # "crashed"
    BY DEF disconnect, destroy, stopEventLoop, vars, LoopEnd, connect
  <1>7. /\ (\E t \in Threads, r \in Requests : loop # "crashed" /\ sendRequest(t, r))
             => loop' = loop /\ loop # "crashed"
        /\ (\E r \in Requests : loop # "crashed" /\ create(r)) => loop' = loop /\ loop # "crashed"
    BY DEF sendRequest, create
  <1>8. QED
    BY <1>1, <1>2, <1>3, <1>4, <1>5, <1>6, <1>7 DEF Next

\* As long as nothing is on the wire twice, a step keeps every question in one
\* place and the loop alive.
LEMMA OnceStep == AnswerInv /\ OnceInv /\ [Next]_vars => OnceInv'
  <1> SUFFICES ASSUME AnswerInv, OnceInv, [Next]_vars, ~resent', repeats' = 0
               PROVE  (loop # "crashed" /\ Placed /\ Settled)'
    BY DEF OnceInv
  <1> USE DEF rpcVars, wireVars, linkVars
  <1>0. TypeOK /\ call \in [Threads -> Calls] /\ asked \in Seq(Messages) /\ inbox \in Seq(Messages)
    BY DEF AnswerInv, PromiseInv, TypeOK, Calls, Messages
  <1>9. ~PeerRepeats
    BY <1>0 DEF PeerRepeats, TypeOK
  <1>1. CASE /\ UNCHANGED <<asked, inbox, onWire, resent, repeats>>
             /\ loop' \in {loop, "running", "ended"}
             /\ \A t \in Threads : future'[t] = future[t] \/ future'[t] = Null
    BY <1>1 DEF OnceInv, Placed, Settled, Carries, Once
  <1>2. ASSUME NEW t \in Threads, CallerStep(t) PROVE (loop # "crashed" /\ Placed /\ Settled)'
    <2>1. CASE CheckOngoing(t) \/ getAsyncResponse(t)
      BY <1>1, <2>1 DEF CheckOngoing, getAsyncResponse
    <2>2. CASE createFutureResponse(t) \/ removePromise(t)
      <3>1. \A u \in Threads : future'[u] = future[u] \/ future'[u] = Null
        BY <2>2, <1>0 DEF createFutureResponse, removePromise, TypeOK
      <3>2. UNCHANGED <<asked, inbox, onWire, resent, repeats, loop>>
        BY <2>2 DEF createFutureResponse, removePromise
      <3>3. QED
        BY <1>1, <3>1, <3>2
    <2>3. CASE Send(t)
      <3> DEFINE q == Question(call[t].req)
                 m == <<id[call[t].req], q>>
      <3>1. m \in Messages /\ m[2] = q
        <4>1. call[t] \in Calls /\ q \in Questions /\ id[call[t].req] \in Nat
          BY <1>0, QuestionType DEF Calls, TypeOK
        <4>2. QED
          BY <4>1 DEF Messages
      <3>2. \/ UNCHANGED <<asked, resent, onWire>>
            \/ /\ asked' = Append(asked, m) /\ onWire' = onWire \cup {q}
               /\ resent' = (resent \/ q \in onWire)
        BY <2>3 DEF Send
      <3>3. UNCHANGED <<inbox, future, loop, repeats>>
        BY <2>3 DEF Send
      <3> HIDE DEF q, m
      <3>4. CASE asked' = Append(asked, m) /\ onWire' = onWire \cup {q} /\ resent' = (resent \/ q \in onWire)
        <4>1. ~resent /\ repeats = 0 /\ q \notin onWire
          BY <3>3, <3>4
        <4>2. loop # "crashed" /\ Placed /\ Settled
          BY <4>1 DEF OnceInv
        <4>3. ~Carries(asked, q) /\ ~Carries(inbox, q)
          BY <4>1, <4>2 DEF Placed
        <4>4. /\ \A p : Carries(asked', p) <=> Carries(asked, p) \/ p = q
              /\ Once(asked')
          BY <1>0, <3>1, <3>4, <4>2, <4>3, AppendCarries DEF Placed
        <4>5. Placed'
          BY <3>3, <3>4, <4>2, <4>3, <4>4 DEF Placed
        <4>6. Settled'
          BY <3>3, <3>4, <4>1, <4>2, <4>4 DEF Settled, Carries
        <4>7. QED
          BY <3>3, <4>2, <4>5, <4>6
      <3>5. QED
        BY <1>1, <3>2, <3>3, <3>4
    <2>4. QED
      BY <1>2, <2>1, <2>2, <2>3 DEF CallerStep
  <1>3. CASE PeerAnswers
    <2>1. PICK i \in DOMAIN asked :
            /\ inbox' = Append(inbox, asked[i])
            /\ asked' = [j \in 1 .. Len(asked) - 1 |-> IF j < i THEN asked[j] ELSE asked[j + 1]]
      BY <1>3 DEF PeerAnswers
    <2>2. UNCHANGED <<resent, repeats, onWire, future, loop>>
      BY <1>3 DEF PeerAnswers
    <2> DEFINE q == asked[i][2]
    <2>3. loop # "crashed" /\ Placed /\ Settled
      BY <2>2 DEF OnceInv
    <2>4. asked[i] \in Messages /\ Carries(asked, q)
      BY <1>0 DEF Carries
    <2>5. Once(asked') /\ \A p : Carries(asked', p) => Carries(asked, p) /\ p # q
      BY <1>0, <2>1, <2>3, RemoveCarries DEF Placed
    <2>6. ~Carries(inbox, q) /\ q \in onWire
      BY <2>3, <2>4 DEF Placed
    <2>7. Once(inbox') /\ \A p : Carries(inbox', p) <=> Carries(inbox, p) \/ p = q
      BY <1>0, <2>1, <2>3, <2>4, <2>6, AppendCarries DEF Placed
    <2> HIDE DEF q
    <2>8. Placed'
      BY <2>2, <2>3, <2>5, <2>6, <2>7 DEF Placed, Carries, Once
    <2>9. Settled'
      BY <2>2, <2>3, <2>4, <2>5, <2>7 DEF Settled
    <2>10. QED
      BY <2>2, <2>3, <2>8, <2>9
  <1>4. CASE onMessage
    <2> DEFINE i == Head(inbox)[1]
               q == Head(inbox)[2]
               waiting == {t \in Threads : <<i, t>> \in responseToPromise_}
    <2>1. /\ future' = [t \in Threads |-> IF t \in waiting /\ future[t] = Null THEN q ELSE future[t]]
          /\ loop' = IF \E t \in waiting : future[t] # Null THEN "crashed" ELSE loop
          /\ inbox # <<>> /\ inbox' = Tail(inbox)
          /\ UNCHANGED <<asked, resent, repeats, onWire>>
      BY <1>4 DEF onMessage
    <2>2. loop # "crashed" /\ Placed /\ Settled
      BY <2>1 DEF OnceInv
    <2>3. /\ Once(inbox') /\ Carries(inbox, q)
          /\ \A p : Carries(inbox', p) => Carries(inbox, p) /\ p # q
      BY <1>0, <2>1, <2>2, TailCarries DEF Placed
    <2>4. q \in onWire /\ ~Carries(asked, q)
      BY <2>2, <2>3 DEF Placed
    <2>5. ASSUME NEW t \in waiting PROVE future[t] = Null
      <3>1. Holds(t) /\ i = id[call[t].req]
        BY DEF AnswerInv, PromiseInv, PromisesHaveCalls
      <3>2. call[t].pc # "idle" /\ call[t].req \in Requests
        BY <3>1, <1>0 DEF Holds, Calls
      <3>3. id[call[t].req] # 0
        BY <3>2 DEF AnswerInv, PromiseInv, UsedHaveIds
      <3>4. Tagged(Head(inbox))
        <4>1. 1 \in DOMAIN inbox /\ Head(inbox) = inbox[1]
          BY <1>0, <2>1
        <4>2. QED
          BY <4>1 DEF AnswerInv, MessagesTagged
      <3>5. q = Question(call[t].req)
        BY <3>1, <3>2, <3>3, <3>4 DEF Tagged
      <3>6. future[t] # Null => future[t] = q
        BY <3>1, <3>5 DEF AnswerInv, AnswersAreOwn
      <3>7. QED
        BY <2>2, <2>3, <3>6 DEF Settled
    <2>6. loop' # "crashed"
      BY <2>1, <2>2, <2>5
    <2> HIDE DEF q, waiting
    <2>7. Placed'
      BY <2>1, <2>2, <2>3 DEF Placed, Carries, Once
    <2>8. Settled'
      BY <2>1, <2>2, <2>3, <2>4 DEF Settled, Carries
    <2>9. QED
      BY <2>6, <2>7, <2>8
  <1>5. CASE onClose
    <2>1. asked' = <<>> /\ inbox' = <<>> /\ UNCHANGED <<resent, repeats, onWire, future, loop>>
      BY <1>5 DEF onClose
    <2>2. QED
      BY <2>1 DEF OnceInv, Placed, Settled, Carries, Once
  <1>6. CASE \/ \E t \in Threads, r \in Requests : sendRequest(t, r)
             \/ \E r \in Requests : create(r)
    BY <1>1, <1>6 DEF sendRequest, create
  <1>7. CASE \/ PeerFallsSilent \/ onOpen \/ onFail \/ ping \/ onPong \/ onPongTimeout \/ LoopEnd
             \/ connect \/ disconnect \/ destroy \/ stopEventLoop \/ UNCHANGED vars
    BY <1>1, <1>7 DEF PeerFallsSilent, onOpen, onFail, ping, onPong, onPongTimeout, LoopEnd, connect,
         disconnect, destroy, stopEventLoop, vars
  <1>8. QED
    BY <1>2, <1>3, <1>4, <1>5, <1>6, <1>7, <1>9 DEF Next

\* The event loop ends only if an answer came twice or a request was sent again under its
\* old id, and then in a call that has its answer, whatever is late, lost or timed out, and
\* across reconnections.
THEOREM LoopSurvives == Spec => []EventLoopSurvives
  <1>1. Init => AnswerInv /\ OnceInv /\ CrashInv
    BY PromiseInit, IdleType
    DEF Init, AnswerInv, IdsAreUnique, MessagesTagged, AnswersAreOwn, Holds, OnceInv, CrashInv, Placed,
        Settled, Carries, Once
  <1>2. TypeOK /\ OnceInv /\ CrashInv => EventLoopSurvives
    BY DEF TypeOK, OnceInv, CrashInv, EventLoopSurvives
  <1>3. AnswerInv => PromiseInv
    BY DEF AnswerInv
  <1>4. QED
    BY <1>1, <1>2, <1>3, PromiseStep, AnswerStep, OnceStep, CrashStep, TypeCorrect, PTL DEF Spec

------------------------------------------------------------------------------
(* CommandInterface. *)

\* Before any early return and while calls come one at a time, there is one call,
\* of the last command, and what has come last answers it unless nothing has.
OneCommand ==
  /\ unanswered \subseteq {commands}
  /\ \A t \in Callers : command[t] # CI!Idle => command[t].id = commands
  /\ \A t, u \in Callers : command[t] # CI!Idle /\ command[u] # CI!Idle => t = u
  /\ (\A t \in Callers : command[t] = CI!Idle) => unanswered = {}
  /\ \A t \in Callers : command[t] # CI!Idle => commands \in unanswered \/ lastResponse_ = commands

CommandInv ==
  /\ CI!TypeOK /\ CI!OwnResponse
  /\ ~early /\ ~together => OneCommand

Steps == {"idle", "sent", "wait", "notified"}
Commands == [pc : Steps, id : 0 .. MaxCommands]

\* notify_one leaves every caller with its command, and the idle ones idle.
LEMMA NotifyKeeps ==
  ASSUME CI!TypeOK, CI!notify_one
  PROVE  /\ command' \in [Callers -> Commands]
         /\ \A t \in Callers : /\ command'[t].id = command[t].id
                               /\ command'[t] = CI!Idle <=> command[t] = CI!Idle
                               /\ command'[t].pc = "idle" <=> command[t].pc = "idle"
  <1>1. command \in [Callers -> Commands]
    BY DEF CI!TypeOK, Commands, Steps
  <1>2. CASE UNCHANGED command
    BY <1>1, <1>2
  <1>3. ASSUME NEW u \in Callers, command[u].pc = "wait",
               command' = [command EXCEPT ![u].pc = "notified"]
        PROVE  /\ command' \in [Callers -> Commands]
               /\ \A t \in Callers : /\ command'[t].id = command[t].id
                                     /\ command'[t] = CI!Idle <=> command[t] = CI!Idle
                                     /\ command'[t].pc = "idle" <=> command[t].pc = "idle"
    BY <1>1, <1>3 DEF Commands, Steps, CI!Idle
  <1>4. QED
    BY <1>2, <1>3 DEF CI!notify_one

LEMMA CommandStep ==
  ASSUME MaxCommands \in Nat, CommandInv, [CI!Next]_(CI!vars)
  PROVE  CommandInv'
  <1>0. /\ CI!TypeOK /\ command \in [Callers -> Commands] /\ CI!OwnResponse
        /\ commands \in 0 .. MaxCommands /\ unanswered \subseteq 1 .. commands
        /\ lastResponse_ \in 0 .. commands
        /\ \A t \in Callers : command[t].pc = "idle" <=> command[t].id = 0
    BY DEF CommandInv, CI!TypeOK, Commands, Steps
  <1>i. \A t \in Callers : command[t] = CI!Idle <=> command[t].pc = "idle"
    BY <1>0 DEF CI!Idle, Commands
  <1>b. early \in BOOLEAN /\ together \in BOOLEAN
    BY DEF CommandInv, CI!TypeOK
  <1>1. ASSUME NEW t \in Callers, CI!sendCommand(t) PROVE CommandInv'
    <2> DEFINE n == commands + 1
    <2>1. /\ command[t] = CI!Idle /\ commands < MaxCommands /\ commands' = n
          /\ command' = [command EXCEPT ![t] = [pc |-> "sent", id |-> n]]
          /\ unanswered' = unanswered \cup {n} /\ UNCHANGED <<lastResponse_, early, results>>
      BY <1>1 DEF CI!sendCommand
    <2>2. together' = (together \/ (\E u \in Callers : command[u] # CI!Idle))
      BY <1>1 DEF CI!sendCommand
    <2>3. n \in 1 .. MaxCommands /\ n # 0
      BY <1>0, <2>1
    <2>4. command' \in [Callers -> Commands] /\ command'[t] = [pc |-> "sent", id |-> n]
          /\ \A u \in Callers : u # t => command'[u] = command[u]
      BY <1>0, <2>1, <2>3 DEF Commands, Steps
    <2>5. \A u \in Callers : command'[u].pc = "idle" <=> command'[u].id = 0
      BY <1>0, <2>3, <2>4
    <2>6. together' \in BOOLEAN /\ early' \in BOOLEAN
      BY <1>b, <2>1, <2>2, Zenon
    <2>7. unanswered' \subseteq 1 .. commands' /\ lastResponse_' \in 0 .. commands'
      BY <1>0, <2>1
    <2>8. CI!TypeOK'
      BY <2>1, <2>3, <2>4, <2>5, <2>6, <2>7 DEF CI!TypeOK, Commands, Steps
    <2>9. CI!OwnResponse'
      BY <1>0, <2>1 DEF CI!OwnResponse
    <2>10. ASSUME ~early', ~together' PROVE OneCommand'
      <3>1. ~early /\ ~together /\ \A u \in Callers : command[u] = CI!Idle
        BY <2>1, <2>2, <2>10, Zenon
      <3>2. unanswered = {} /\ unanswered' = {n}
        BY <2>1, <3>1 DEF CommandInv, OneCommand
      <3>3. command'[t] # CI!Idle
        BY <2>4 DEF CI!Idle
      <3>4. \A u \in Callers : command'[u] # CI!Idle => u = t
        BY <2>4, <3>1
      <3>5. QED
        BY <2>1, <2>4, <3>2, <3>3, <3>4 DEF OneCommand
    <2>11. QED
      BY <2>8, <2>9, <2>10 DEF CommandInv
  <1>2. ASSUME NEW t \in Callers, CI!Wait(t) PROVE CommandInv'
    <2>1. /\ command[t].pc = "sent" /\ command' = [command EXCEPT ![t].pc = "wait"]
          /\ UNCHANGED <<commands, unanswered, lastResponse_, early, together, results>>
      BY <1>2 DEF CI!Wait
    <2>2. /\ command' \in [Callers -> Commands]
          /\ \A u \in Callers : /\ command'[u].id = command[u].id
                                /\ command'[u] = CI!Idle <=> command[u] = CI!Idle
                                /\ command'[u].pc = "idle" <=> command[u].pc = "idle"
      BY <1>0, <2>1 DEF Commands, Steps, CI!Idle
    <2>3. CI!TypeOK'
      BY <1>0, <1>b, <2>1, <2>2 DEF CI!TypeOK, Commands, Steps
    <2>4. CI!OwnResponse'
      BY <1>0, <2>1 DEF CI!OwnResponse
    <2>5. ASSUME ~early', ~together' PROVE OneCommand'
      <3>1. OneCommand
        BY <2>1, <2>5 DEF CommandInv
      <3>2. QED
        BY <2>1, <2>2, <3>1 DEF OneCommand
    <2>6. QED
      BY <2>3, <2>4, <2>5 DEF CommandInv
  <1>3. ASSUME NEW t \in Callers, CI!Return(t) PROVE CommandInv'
    <2>1. /\ command[t].pc \in {"wait", "notified"} /\ command' = [command EXCEPT ![t] = CI!Idle]
          /\ UNCHANGED <<commands, unanswered, lastResponse_, together>>
          /\ results' = IF early' \/ together THEN results
                        ELSE results \cup {<<command[t].id, lastResponse_>>}
      BY <1>3 DEF CI!Return
    <2>2. early' = (early \/ command[t].id \in unanswered)
      BY <1>3 DEF CI!Return
    <2>3. /\ command' \in [Callers -> Commands] /\ command'[t] = CI!Idle
          /\ \A u \in Callers : u # t => command'[u] = command[u]
      BY <1>0, <2>1 DEF Commands, Steps, CI!Idle
    <2>4. \A u \in Callers : command'[u].pc = "idle" <=> command'[u].id = 0
      BY <1>0, <2>3 DEF CI!Idle
    <2>5. early' \in BOOLEAN
      BY <1>b, <2>2, Zenon
    <2>6. CI!TypeOK'
      BY <1>0, <1>b, <2>1, <2>3, <2>4, <2>5 DEF CI!TypeOK, Commands, Steps
    <2>7. ASSUME ~early', ~together' PROVE OneCommand' /\ command[t].id = lastResponse_
      <3>1. ~early /\ ~together /\ command[t].id \notin unanswered
        BY <2>1, <2>2, <2>7, Zenon
      <3>2. OneCommand
        BY <3>1 DEF CommandInv
      <3>3. command[t] # CI!Idle
        BY <1>i, <2>1
      <3>4. command[t].id = commands /\ unanswered = {} /\ lastResponse_ = commands
        BY <3>1, <3>2, <3>3 DEF OneCommand
      <3>5. \A u \in Callers : command'[u] = CI!Idle
        BY <2>3, <3>2, <3>3 DEF OneCommand
      <3>6. QED
        BY <2>1, <3>4, <3>5 DEF OneCommand
    <2>8. CI!OwnResponse'
      <3>1. CASE early' \/ together
        BY <1>0, <2>1, <3>1 DEF CI!OwnResponse
      <3>2. CASE ~(early' \/ together)
        <4>1. ~early' /\ ~together'
          BY <2>1, <3>2, Zenon
        <4>2. results' = results \cup {<<command[t].id, lastResponse_>>}
          BY <2>1, <3>2
        <4>3. command[t].id = lastResponse_
          BY <2>7, <4>1
        <4>4. QED
          BY <1>0, <4>2, <4>3 DEF CI!OwnResponse
      <3>3. QED
        BY <3>1, <3>2
    <2>9. QED
      BY <2>6, <2>7, <2>8 DEF CommandInv
  <1>4. ASSUME NEW c \in 1 .. MaxCommands, CI!onMessage(c) PROVE CommandInv'
    <2>1. /\ c \in unanswered /\ unanswered' = unanswered \ {c} /\ lastResponse_' = c
          /\ CI!notify_one /\ UNCHANGED <<commands, early, together, results>>
      BY <1>4 DEF CI!onMessage
    <2>2. /\ command' \in [Callers -> Commands]
          /\ \A t \in Callers : /\ command'[t].id = command[t].id
                                /\ command'[t] = CI!Idle <=> command[t] = CI!Idle
                                /\ command'[t].pc = "idle" <=> command[t].pc = "idle"
      BY <1>0, <2>1, NotifyKeeps
    <2>3. unanswered' \subseteq 1 .. commands' /\ lastResponse_' \in 0 .. commands'
      BY <1>0, <2>1
    <2>4. CI!TypeOK'
      BY <1>0, <1>b, <2>1, <2>2, <2>3 DEF CI!TypeOK, Commands, Steps
    <2>5. CI!OwnResponse'
      BY <1>0, <2>1 DEF CI!OwnResponse
    <2>6. ASSUME ~early', ~together' PROVE OneCommand'
      <3>1. OneCommand
        BY <2>1, <2>6 DEF CommandInv
      <3>2. c = commands /\ unanswered' = {}
        BY <2>1, <3>1 DEF OneCommand
      <3>3. QED
        BY <2>1, <2>2, <3>1, <3>2 DEF OneCommand
    <2>7. QED
      BY <2>4, <2>5, <2>6 DEF CommandInv
  <1>5. CASE UNCHANGED CI!vars
    <2>1. UNCHANGED <<command, commands, unanswered, lastResponse_, early, together, results>>
      BY <1>5 DEF CI!vars
    <2>2. CI!TypeOK' /\ CI!OwnResponse'
      BY <1>0, <1>b, <2>1 DEF CI!TypeOK, CI!OwnResponse
    <2>3. ASSUME ~early', ~together' PROVE OneCommand'
      <3>1. OneCommand
        BY <2>1, <2>3 DEF CommandInv
      <3>2. QED
        BY <2>1, <3>1 DEF OneCommand
    <2>4. QED
      BY <2>2, <2>3 DEF CommandInv
  <1>6. QED
    BY <1>1, <1>2, <1>3, <1>4, <1>5 DEF CI!Next

\* sendCommand returns its own answer, also when that comes before the wait begins, as
\* long as calls come one at a time and none has given up on its answer: lastResponse_
\* is then never another command's.
THEOREM Responses ==
  ASSUME MaxCommands \in Nat
  PROVE  CI!Spec => []OwnResponse
  <1>1. CI!Init => CommandInv
    <2> SUFFICES ASSUME CI!Init PROVE CommandInv
      OBVIOUS
    <2>1. /\ \A t \in Callers : command[t] = CI!Idle
          /\ unanswered = {} /\ results = {} /\ commands = 0 /\ lastResponse_ = 0
      BY DEF CI!Init
    <2>2. command \in [Callers -> [pc : {"idle", "sent", "wait", "notified"}, id : 0 .. MaxCommands]]
      BY DEF CI!Init, CI!Idle
    <2>3. early \in BOOLEAN /\ together \in BOOLEAN
      BY Zenon DEF CI!Init
    <2>4. CI!TypeOK
      BY <2>1, <2>2, <2>3 DEF CI!TypeOK, CI!Idle
    <2>5. OneCommand /\ CI!OwnResponse
      BY <2>1 DEF OneCommand, CI!OwnResponse
    <2>6. QED
      BY <2>4, <2>5 DEF CommandInv
  <1>2. CommandInv /\ [CI!Next]_(CI!vars) => CommandInv'
    BY CommandStep
  <1>3. CommandInv => OwnResponse
    BY DEF CommandInv, OwnResponse
  <1>4. QED
    BY <1>1, <1>2, <1>3, PTL DEF CI!Spec
==============================================================================
