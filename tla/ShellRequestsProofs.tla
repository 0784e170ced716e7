------------------------- MODULE ShellRequestsProofs -------------------------
(***************************************************************************)
(* Proofs about ShellRequests, for any number of callers, any set of       *)
(* client names and any number of activations.                             *)
(***************************************************************************)
EXTENDS ShellRequests, TLAPS

\* Every operation leaves its request in one of the three queues.
LEMMA KindType == \A o \in AllOps : Kind(o) \in Kinds
  BY DEF AllOps, Kind, Kinds

\* The value of an idle thread is a call record.
LEMMA NoCallType == NoCall \in Calls
  <1>1. (CHOOSE n \in Names : TRUE) \in Names
    BY NamesAssumption
  <1>2. QED
    BY <1>1 DEF NoCall, Calls, AllOps

\* Moving a thread through its call keeps the call records well formed, and
\* changes no other thread's.
LEMMA GotoType ==
  ASSUME TypeOK, NEW t \in Threads, NEW from, NEW to,
         to \in {"idle", "pending", "clients", "push", "wait", "listen", "data"},
         Goto(t, from, to)
  PROVE  /\ call' \in [Threads -> Calls]
         /\ \A u \in Threads : u # t => call'[u] = call[u]
         /\ call'[t].pc = to
         /\ to # "idle" => call'[t].op = call[t].op /\ call'[t].client = call[t].client
  <1>1. call \in [Threads -> Calls]
    BY DEF TypeOK
  <1>2. NoCall \in Calls /\ NoCall.pc = "idle"
    BY NoCallType DEF NoCall
  <1>3. [call[t] EXCEPT !.pc = to] \in Calls
    BY <1>1 DEF Calls
  <1>4. QED
    BY <1>1, <1>2, <1>3 DEF Goto, Calls

\* Type correctness: whatever the interleaving of callers, frames and
\* (de)activations, every variable keeps its type.
THEOREM TypeCorrect == Spec => []TypeOK
  <1>1. Init => TypeOK
    <2>1. Init => disturbed \in BOOLEAN
      BY DEF Init
    <2>2. QED
      BY <2>1, NoCallType DEF Init, TypeOK, Kinds
  <1>2. TypeOK /\ [Next]_vars => TypeOK'
    <2> SUFFICES ASSUME TypeOK, [Next]_vars
                 PROVE  TypeOK'
      OBVIOUS
    <2> USE toLowerAssumption
    <2>1. CASE Lifecycle
      <3>1. CASE Initialize
        BY <3>1 DEF Initialize, TypeOK, Kinds, clientVars
      <3>2. CASE InitializeReturn
        BY <3>2 DEF InitializeReturn, TypeOK, clientVars
      <3>6. CASE DeinitializeStop
        <4>1. sRunning' \in BOOLEAN
          BY <3>6 DEF DeinitializeStop
        <4>2. QED
          BY <3>6, <4>1 DEF DeinitializeStop, TypeOK, clientVars
      <3>3. CASE DeinitializeJoin
        BY <3>3 DEF DeinitializeJoin, TypeOK
      <3>4. CASE DeinitializeClear
        <4>1. requests' \in [Kinds -> Seq(Threads)]
          BY <3>4 DEF DeinitializeClear, TypeOK, Kinds
        <4>2. sem' \in [Threads -> {"unposted", "posted", "abandoned"}]
          BY <3>4 DEF DeinitializeClear, TypeOK
        <4>3. QED
          BY <3>4, <4>1, <4>2 DEF DeinitializeClear, TypeOK, clientVars
      <3>5. QED
        BY <2>1, <3>1, <3>2, <3>3, <3>4, <3>6 DEF Lifecycle
    <2>2. CASE ShellStep
      <3>1. ASSUME NEW k \in Kinds, Drain(k) PROVE TypeOK'
        <4> DEFINE t == Head(requests[k])
        <4>1. t \in Threads /\ Tail(requests[k]) \in Seq(Threads)
          BY <3>1 DEF Drain, TypeOK
        <4>2. call[t].client \in Names
          BY <4>1 DEF TypeOK, Calls
        <4>3. displays' \subseteq Names
          <5>1. PICK ok \in BOOLEAN : Serve(k, call[t].client, ok)
            BY <3>1 DEF Drain
          <5>2. toLower[call[t].client] \in Names
            BY <4>2
          <5>3. CASE k = "create"
            BY <5>1, <5>2, <5>3 DEF Serve, TypeOK
          <5>4. CASE k = "kill"
            BY <5>1, <5>4 DEF Serve, TypeOK
          <5>5. CASE k = "task"
            BY <5>1, <5>5 DEF Serve, TypeOK
          <5>6. QED
            BY <5>3, <5>4, <5>5 DEF Kinds
        <4>4. requests' \in [Kinds -> Seq(Threads)]
          BY <3>1, <4>1 DEF Drain, TypeOK
        <4>5. sem' \in [Threads -> {"unposted", "posted", "abandoned"}]
          BY <3>1, <4>1 DEF Drain, TypeOK
        <4>6. disturbed' \in BOOLEAN
          BY <3>1 DEF Drain
        <4>7. QED
          BY <3>1, <4>3, <4>4, <4>5, <4>6 DEF Drain, TypeOK, shellVars
      <3>2. CASE ShellInit \/ ShellPost \/ FrameBegin \/ Draw \/ FrameEnd
        BY <3>2 DEF ShellInit, ShellPost, FrameBegin, Draw, FrameEnd, TypeOK, clientVars
      <3>3. CASE DrainEnd("create", "kill") \/ DrainEnd("kill", "draw")
        BY <3>3 DEF DrainEnd, TypeOK, clientVars
      <3>4. QED
        BY <2>2, <3>1, <3>2, <3>3 DEF ShellStep
    <2>3. ASSUME NEW t \in Threads, CallerStep(t) PROVE TypeOK'
      <3> USE DEF shellVars, clientVars
      <3>1. call[t] \in Calls /\ call[t].client \in Names /\ call[t].op \in AllOps
        BY DEF TypeOK, Calls
      <3>2. AfterRequest(call[t].op) \in {"idle", "listen"}
        BY DEF AfterRequest
      <3>3. CASE CheckPending(t)
        BY <3>3, <3>2, GotoType DEF CheckPending, TypeOK
      <3>4. CASE CheckClients(t)
        BY <3>4, <3>2, GotoType DEF CheckClients, TypeOK
      <3>5. CASE Push(t)
        <4>1. call' \in [Threads -> Calls]
          BY <3>5, GotoType DEF Push
        <4>2. requests' \in [Kinds -> Seq(Threads)]
          BY <3>5, <3>1, KindType DEF Push, TypeOK
        <4>3. displayNames' \subseteq Names /\ listeners' \subseteq Names
          BY <3>5, <3>1 DEF Push, TypeOK
        <4>4. disturbed' \in BOOLEAN
          BY <3>5 DEF Push
        <4>5. QED
          BY <3>5, <4>1, <4>2, <4>3, <4>4 DEF Push, TypeOK
      <3>6. CASE Wake(t)
        BY <3>6, <3>2, GotoType DEF Wake, TypeOK
      <3>7. CASE Listen(t)
        BY <3>7, <3>1, GotoType DEF Listen, TypeOK
      <3>8. CASE Data(t)
        BY <3>8, <3>1, GotoType DEF Data, TypeOK
      <3>9. QED
        BY <2>3, <3>3, <3>4, <3>5, <3>6, <3>7, <3>8 DEF CallerStep
    <2>4. ASSUME NEW t \in Threads, NEW o \in Ops, NEW c \in Names, Call(t, o, c)
          PROVE  TypeOK'
      BY <2>4, OpsAssumption DEF Call, TypeOK, Calls, shellVars, clientVars
    <2>5. CASE UNCHANGED vars
      BY <2>5 DEF vars, shellVars, clientVars, TypeOK
    <2>6. QED
      BY <2>1, <2>2, <2>3, <2>4, <2>5 DEF Next
  <1>3. QED
    BY <1>1, <1>2, PTL DEF Spec

------------------------------------------------------------------------------
(***************************************************************************)
(* Conservation of requests.  RequestConservation counts the positions of  *)
(* a request in a vector; the induction is on three simpler facts.         *)
(***************************************************************************)

\* Thread t is blocked on a request of kind k that is not posted.
Blocked(t, k) == call[t].pc = "wait" /\ sem[t] = "unposted" /\ k = Kind(call[t].op)

\* The same, after the step.
BlockedNext(t, k) == call'[t].pc = "wait" /\ sem'[t] = "unposted" /\ k = Kind(call'[t].op)

\* A queued request has its caller blocked on it.
Owned == \A k \in Kinds : \A i \in DOMAIN requests[k] : Blocked(requests[k][i], k)

\* A blocked caller has its request queued.
Queued == \A k \in Kinds : \A t \in Threads :
            Blocked(t, k) => \E i \in DOMAIN requests[k] : requests[k][i] = t

\* A request is queued once.
Distinct == \A k \in Kinds : \A i, j \in DOMAIN requests[k] :
              requests[k][i] = requests[k][j] => i = j

Conserved == Owned /\ Queued /\ Distinct

LEMMA ConservedSuffices == Conserved => RequestConservation
  BY DEF Conserved, Owned, Queued, Distinct, Blocked, RequestConservation, Positions

\* A step that moves one thread between two points outside sem_wait, and
\* touches neither the vectors nor the semaphores, conserves the requests.
LEMMA MoveConserves ==
  ASSUME TypeOK, Conserved, NEW t \in Threads,
         UNCHANGED <<requests, sem>>,
         \A u \in Threads : u # t => call'[u] = call[u],
         call'[t].pc # "wait",
         call[t].pc # "wait" \/ sem[t] = "posted"
  PROVE  Conserved'
  <1>1. \A k \in Kinds : \A i \in DOMAIN requests[k] : requests[k][i] \in Threads
    BY DEF TypeOK
  <1>2. \A k \in Kinds : ~Blocked(t, k) /\ ~Blocked(t, k)'
    BY DEF Blocked
  <1>3. \A k \in Kinds, u \in Threads : Blocked(u, k)' <=> Blocked(u, k)
    BY <1>2 DEF Blocked
  <1>4. Owned'
    BY <1>1, <1>3 DEF Conserved, Owned
  <1>5. Queued'
    BY <1>3 DEF Conserved, Queued
  <1>6. Distinct'
    BY DEF Conserved, Distinct
  <1>7. QED
    BY <1>4, <1>5, <1>6 DEF Conserved

\* The shell thread takes the front request off a vector and posts it.
LEMMA DrainConserves ==
  ASSUME TypeOK, Conserved, NEW k \in Kinds, Drain(k)
  PROVE  Conserved'
  <1> DEFINE s == requests[k]
             t == Head(s)
  <1>1. /\ s \in Seq(Threads) /\ s # <<>>
        /\ requests' = [requests EXCEPT ![k] = Tail(s)]
        /\ sem' = [sem EXCEPT ![t] = "posted"]
        /\ call' = call
    BY DEF TypeOK, Drain
  <1>2. /\ Len(s) \in Nat \ {0} /\ DOMAIN s = 1 .. Len(s)
        /\ t = s[1] /\ t \in Threads
        /\ DOMAIN Tail(s) = 1 .. (Len(s) - 1)
        /\ \A i \in 1 .. (Len(s) - 1) : Tail(s)[i] = s[i + 1]
    BY <1>1
  <1>3. /\ requests'[k] = Tail(s)
        /\ \A l \in Kinds : l # k => requests'[l] = requests[l]
    BY <1>1 DEF TypeOK
  <1>4. /\ sem'[t] = "posted"
        /\ \A u \in Threads : u # t => sem'[u] = sem[u]
    BY <1>1, <1>2 DEF TypeOK
  <1>5. \A l \in Kinds, u \in Threads : BlockedNext(u, l) <=> Blocked(u, l) /\ u # t
    BY <1>1, <1>4 DEF Blocked, BlockedNext
  <1>6. Blocked(t, k) /\ \A l \in Kinds : Blocked(t, l) => l = k
    BY <1>2 DEF Conserved, Owned, Blocked
  <1>7. Owned'
    <2> SUFFICES ASSUME NEW l \in Kinds, NEW i \in DOMAIN requests'[l]
                 PROVE  BlockedNext(requests'[l][i], l)
      BY DEF Owned, Blocked, BlockedNext
    <2>1. CASE l = k
      <3>1. requests'[l][i] = s[i + 1] /\ i + 1 \in DOMAIN s /\ 1 \in DOMAIN s /\ i + 1 # 1
        BY <2>1, <1>2, <1>3
      <3>2. s[i + 1] # t /\ Blocked(s[i + 1], k) /\ s[i + 1] \in Threads
        BY <3>1, <1>1, <1>2 DEF Conserved, Distinct, Owned
      <3>3. QED
        BY <2>1, <3>1, <3>2, <1>5
    <2>2. CASE l # k
      <3>1. i \in DOMAIN requests[l] /\ requests'[l][i] = requests[l][i]
        BY <2>2, <1>3
      <3>2. Blocked(requests[l][i], l) /\ requests[l][i] \in Threads
        BY <3>1 DEF Conserved, Owned, TypeOK
      <3>3. requests[l][i] # t
        BY <3>2, <2>2, <1>6
      <3>4. QED
        BY <3>1, <3>2, <3>3, <1>5
    <2>3. QED
      BY <2>1, <2>2
  <1>8. Queued'
    <2> SUFFICES ASSUME NEW l \in Kinds, NEW u \in Threads, BlockedNext(u, l)
                 PROVE  \E i \in DOMAIN requests'[l] : requests'[l][i] = u
      BY DEF Queued, Blocked, BlockedNext
    <2>1. Blocked(u, l) /\ u # t
      BY <1>5
    <2>2. PICK i \in DOMAIN requests[l] : requests[l][i] = u
      BY <2>1 DEF Conserved, Queued
    <2>3. CASE l = k
      <3>1. i # 1 /\ i - 1 \in DOMAIN Tail(s) /\ Tail(s)[i - 1] = u
        <4>1. i \in 1 .. Len(s) /\ s[i] = u
          BY <2>2, <2>3, <1>2
        <4>2. i # 1
          BY <4>1, <2>1, <1>2
        <4>3. i - 1 \in 1 .. (Len(s) - 1) /\ (i - 1) + 1 = i
          BY <4>1, <4>2, <1>2
        <4>4. QED
          BY <4>1, <4>2, <4>3, <1>2
      <3>2. QED
        BY <2>3, <3>1, <1>3
    <2>4. CASE l # k
      BY <2>2, <2>4, <1>3
    <2>5. QED
      BY <2>3, <2>4
  <1>9. Distinct'
    <2> SUFFICES ASSUME NEW l \in Kinds, NEW i \in DOMAIN requests'[l], NEW j \in DOMAIN requests'[l],
                        requests'[l][i] = requests'[l][j]
                 PROVE  i = j
      BY DEF Distinct
    <2>1. CASE l = k
      <3>1. /\ i + 1 \in DOMAIN s /\ j + 1 \in DOMAIN s /\ s[i + 1] = s[j + 1]
            /\ i \in Nat /\ j \in Nat
        BY <2>1, <1>2, <1>3
      <3>2. i + 1 = j + 1
        BY <3>1 DEF Conserved, Distinct
      <3>3. QED
        BY <3>1, <3>2
    <2>2. CASE l # k
      BY <2>2, <1>3 DEF Conserved, Distinct
    <2>3. QED
      BY <2>1, <2>2
  <1>10. QED
    BY <1>7, <1>8, <1>9 DEF Conserved

\* A caller pushes its request and blocks on it.
LEMMA PushConserves ==
  ASSUME TypeOK, Conserved, NEW t \in Threads, Push(t)
  PROVE  Conserved'
  <1> DEFINE k == Kind(call[t].op)
             s == requests[k]
  <1>1. k \in Kinds /\ s \in Seq(Threads)
    BY KindType DEF TypeOK, Calls
  <1>2. /\ requests' = [requests EXCEPT ![k] = Append(s, t)]
        /\ sem' = [sem EXCEPT ![t] = "unposted"]
    BY DEF Push
  <1>3. /\ call'[t].pc = "wait" /\ call'[t].op = call[t].op /\ call[t].pc = "push"
        /\ \A u \in Threads : u # t => call'[u] = call[u]
    BY GotoType DEF Push, Goto
  <1>4. /\ requests'[k] = Append(s, t)
        /\ \A l \in Kinds : l # k => requests'[l] = requests[l]
        /\ sem'[t] = "unposted"
        /\ \A u \in Threads : u # t => sem'[u] = sem[u]
    BY <1>1, <1>2 DEF TypeOK
  <1>5. /\ Len(s) \in Nat /\ DOMAIN s = 1 .. Len(s)
        /\ DOMAIN Append(s, t) = 1 .. (Len(s) + 1)
        /\ Append(s, t)[Len(s) + 1] = t
        /\ \A i \in 1 .. Len(s) : Append(s, t)[i] = s[i]
    BY <1>1
  <1>6. /\ \A l \in Kinds : ~Blocked(t, l)
        /\ \A l \in Kinds : BlockedNext(t, l) <=> l = k
        /\ \A l \in Kinds, u \in Threads : u # t => (BlockedNext(u, l) <=> Blocked(u, l))
    BY <1>3, <1>4 DEF Blocked, BlockedNext
  <1>7. \A l \in Kinds : \A i \in DOMAIN requests[l] :
          requests[l][i] # t /\ requests[l][i] \in Threads /\ BlockedNext(requests[l][i], l)
    BY <1>6 DEF Conserved, Owned, TypeOK
  <1>8. \A l \in Kinds : \A i \in DOMAIN requests'[l] :
          \/ i \in DOMAIN requests[l] /\ requests'[l][i] = requests[l][i]
          \/ l = k /\ i = Len(s) + 1 /\ requests'[l][i] = t
    BY <1>4, <1>5
  <1>9. Owned'
    BY <1>6, <1>7, <1>8 DEF Owned, Blocked, BlockedNext
  <1>10. Queued'
    <2> SUFFICES ASSUME NEW l \in Kinds, NEW u \in Threads, BlockedNext(u, l)
                 PROVE  \E i \in DOMAIN requests'[l] : requests'[l][i] = u
      BY DEF Queued, Blocked, BlockedNext
    <2>1. CASE u = t
      BY <2>1, <1>4, <1>5, <1>6
    <2>2. CASE u # t
      <3>1. PICK i \in DOMAIN requests[l] : requests[l][i] = u
        BY <2>2, <1>6 DEF Conserved, Queued
      <3>2. i \in DOMAIN requests'[l] /\ requests'[l][i] = u
        BY <3>1, <1>4, <1>5
      <3>3. QED
        BY <3>2
    <2>3. QED
      BY <2>1, <2>2
  <1>11. Distinct'
    BY <1>7, <1>8 DEF Conserved, Distinct
  <1>12. QED
    BY <1>9, <1>10, <1>11 DEF Conserved

\* Emptying some of the vectors, and abandoning exactly the callers that wait
\* on them, conserves the requests.
LEMMA AbandonConserves ==
  ASSUME TypeOK, Conserved, NEW K \in SUBSET Kinds,
         requests' \in [Kinds -> Seq(Threads)],
         \A k \in Kinds : requests'[k] = IF k \in K THEN <<>> ELSE requests[k],
         \A t \in Threads : sem'[t] = IF call[t].pc = "wait" /\ sem[t] = "unposted"
                                          /\ Kind(call[t].op) \in K
                                       THEN "abandoned" ELSE sem[t],
         call' = call
  PROVE  Conserved'
  <1>1. \A k \in Kinds, t \in Threads : Blocked(t, k)' <=> Blocked(t, k) /\ k \notin K
    BY DEF Blocked
  <1>2. \A k \in Kinds : \A i \in DOMAIN requests'[k] :
          k \notin K /\ i \in DOMAIN requests[k] /\ requests'[k][i] = requests[k][i]
    OBVIOUS
  <1>3. \A k \in Kinds : \A i \in DOMAIN requests[k] : requests[k][i] \in Threads
    BY DEF TypeOK
  <1>4. Owned'
    BY <1>1, <1>2, <1>3 DEF Conserved, Owned
  <1>5. Queued'
    BY <1>1 DEF Conserved, Queued
  <1>6. Distinct'
    BY <1>2 DEF Conserved, Distinct
  <1>7. QED
    BY <1>4, <1>5, <1>6 DEF Conserved

LEMMA AlwaysConserved == Spec => []Conserved
  <1>1. Init => Conserved
    BY DEF Init, Conserved, Owned, Queued, Distinct, Blocked, NoCall, Kinds
  <1>2. TypeOK /\ Conserved /\ [Next]_vars => Conserved'
    <2> SUFFICES ASSUME TypeOK, Conserved, [Next]_vars
                 PROVE  Conserved'
      OBVIOUS
    <2>1. CASE UNCHANGED <<requests, sem, call>>
      BY <2>1 DEF Conserved, Owned, Queued, Distinct, Blocked
    <2>2. CASE Initialize
      <3>1. \A k \in Kinds : requests'[k] = IF k \in {"task"} THEN <<>> ELSE requests[k]
        BY <2>2 DEF Initialize, TypeOK, Kinds
      <3>2. requests' \in [Kinds -> Seq(Threads)]
        BY <2>2 DEF Initialize, TypeOK, Kinds
      <3>3. QED
        BY <2>2, <3>1, <3>2, AbandonConserves DEF Initialize, Kinds
    <2>3. CASE DeinitializeClear
      <3>1. \A k \in Kinds : requests'[k] = IF k \in Kinds \ {"task"} THEN <<>> ELSE requests[k]
        BY <2>3 DEF DeinitializeClear
      <3>2. requests' \in [Kinds -> Seq(Threads)]
        BY <2>3 DEF DeinitializeClear, TypeOK
      <3>3. \A t \in Threads : Kind(call[t].op) # "task" <=> Kind(call[t].op) \in Kinds \ {"task"}
        BY KindType DEF TypeOK, Calls
      <3>4. QED
        BY <2>3, <3>1, <3>2, <3>3, AbandonConserves DEF DeinitializeClear
    <2>4. ASSUME NEW k \in Kinds, Drain(k) PROVE Conserved'
      BY <2>4, DrainConserves
    <2>5. ASSUME NEW t \in Threads, CallerStep(t) PROVE Conserved'
      <3>1. AfterRequest(call[t].op) \in {"idle", "listen"}
        BY DEF AfterRequest
      <3>2. CASE Push(t)
        BY <3>2, PushConserves
      <3>3. CASE CheckPending(t)
        BY <3>1, <3>3, GotoType, MoveConserves DEF CheckPending, Goto
      <3>4. CASE CheckClients(t)
        BY <3>1, <3>4, GotoType, MoveConserves DEF CheckClients, Goto
      <3>5. CASE Wake(t)
        BY <3>1, <3>5, GotoType, MoveConserves DEF Wake
      <3>6. CASE Listen(t)
        BY <3>6, GotoType, MoveConserves DEF Listen, Goto
      <3>7. CASE Data(t)
        BY <3>7, GotoType, MoveConserves DEF Data, Goto
      <3>8. QED
        BY <2>5, <3>2, <3>3, <3>4, <3>5, <3>6, <3>7 DEF CallerStep
    <2>6. ASSUME NEW t \in Threads, NEW o \in Ops, NEW c \in Names, Call(t, o, c)
          PROVE  Conserved'
      <3>1. call'[t].pc # "wait" /\ \A u \in Threads : u # t => call'[u] = call[u]
        BY <2>6 DEF Call, TypeOK
      <3>2. QED
        BY <2>6, <3>1, MoveConserves DEF Call
    <2>7. QED
      BY <2>1, <2>2, <2>3, <2>4, <2>5, <2>6
      DEF Next, vars, Lifecycle, InitializeReturn, DeinitializeStop, DeinitializeJoin, ShellStep,
          ShellInit, ShellPost, FrameBegin, DrainEnd, Draw, FrameEnd
  <1>3. QED
    BY <1>1, <1>2, TypeCorrect, PTL DEF Spec

\* No request is lost, queued twice, or left behind without its caller: for
\* any number of callers and through any number of (de)activations.
THEOREM RequestsConserved == Spec => []RequestConservation
  BY AlwaysConserved, ConservedSuffices, PTL

------------------------------------------------------------------------------
(***************************************************************************)
(* The displays of the plugins.                                            *)
(***************************************************************************)

HasDisplay(c) == toLower[c] \in displays \/ CreatePending(c)

\* The framework's notifications about one plugin come one at a time.
Notifies(t) == call[t].pc # "idle" /\ call[t].op \in Notifications

NotifiesAlone ==
  \A t, u \in Threads : Notifies(t) /\ Notifies(u) /\ call[t].client = call[u].client => t = u

\* A kill request of the kill API leaves its trace.
KillsDisturb == \A t \in Threads : call[t].pc = "wait" /\ call[t].op = "kill" => disturbed

StopsCount == plugin \in {"joining", "clearing"} => deactivations # 0

\* handleInitialize is past isClientExists and past its sem_wait.
Expects(t) ==
  /\ call[t].op = "initialize"
  /\ call[t].pc \in {"listen", "data"} \/ (call[t].pc = "wait" /\ sem[t] = "posted")

Calm == ~disturbed /\ deactivations = 0

\* What handleInitialize learnt from isClientExists, or waited for, is still true when
\* it lists the plugin.
DisplaysReady ==
  /\ \A c \in activePlugins : HasDisplay(c) \/ Deinitializing(c)
  /\ \A t \in Threads : Expects(t) => HasDisplay(call[t].client)

DisplayInv == NotifiesAlone /\ KillsDisturb /\ StopsCount /\ (Calm => DisplaysReady)

\* The same, after the step.
HasDisplayNext(c) ==
  toLower[c] \in displays' \/ \E i \in DOMAIN requests'["create"] : call'[requests'["create"][i]].client = c

DeinitializingNext(c) ==
  \E t \in Threads : call'[t].pc # "idle" /\ call'[t].op = "deinitialized" /\ call'[t].client = c

ExpectsNext(t) ==
  /\ call'[t].op = "initialize"
  /\ call'[t].pc \in {"listen", "data"} \/ (call'[t].pc = "wait" /\ sem'[t] = "posted")

LEMMA ReadyNext ==
  ASSUME \A c \in activePlugins' : HasDisplayNext(c) \/ DeinitializingNext(c),
         \A t \in Threads : ExpectsNext(t) => HasDisplayNext(call'[t].client)
  PROVE  DisplaysReady'
  BY DEF DisplaysReady, HasDisplay, HasDisplayNext, CreatePending, Deinitializing, DeinitializingNext,
       Expects, ExpectsNext

\* A caller that has no request queued changes nothing about the displays that are there
\* or coming.
LEMMA KeepsDisplays ==
  ASSUME TypeOK, Conserved, NEW t \in Threads,
         UNCHANGED <<displays, requests>>, \A u \in Threads : u # t => call'[u] = call[u],
         call[t].pc # "wait" \/ sem[t] = "posted"
  PROVE  \A c : HasDisplayNext(c) <=> HasDisplay(c)
  <1>1. "create" \in Kinds
    BY DEF Kinds
  <1>2. \A i \in DOMAIN requests["create"] : requests["create"][i] \in Threads /\ requests["create"][i] # t
    BY <1>1 DEF TypeOK, Conserved, Owned, Blocked
  <1>3. \A i \in DOMAIN requests["create"] : call'[requests["create"][i]] = call[requests["create"][i]]
    BY <1>2
  <1>4. QED
    BY <1>3 DEF HasDisplay, HasDisplayNext, CreatePending

\* The part of the invariant that a caller's move keeps: the callers' notifications.
LEMMA MoveNotifies ==
  ASSUME TypeOK, DisplayInv, NEW t \in Threads, \A u \in Threads : u # t => call'[u] = call[u],
         call[t].pc # "idle",
         call'[t].pc # "idle" => call'[t].op = call[t].op /\ call'[t].client = call[t].client
  PROVE  NotifiesAlone'
  <1>1. \A u \in Threads : Notifies(u)' => Notifies(u) /\ call'[u].client = call[u].client
    BY DEF Notifies
  <1>2. QED
    BY <1>1 DEF DisplayInv, NotifiesAlone

\* A caller's move that asks for nothing and lists nothing.
LEMMA MoveKeeps ==
  ASSUME TypeOK, Conserved, DisplayInv, NEW t \in Threads, NEW from, NEW to,
         Goto(t, from, to), from \in {"pending", "clients", "listen"} \/ (from = "wait" /\ sem[t] = "posted"),
         to \in {"idle", "clients", "push", "listen", "data"},
         call[t].op = "deinitialized" => to # "idle",
         call[t].op = "initialize" /\ to \in {"listen", "data"} => HasDisplay(call[t].client) \/ Expects(t),
         UNCHANGED <<requests, sem, displays, activePlugins, disturbed, deactivations, plugin>>
  PROVE  DisplayInv'
  <1>1. /\ \A u \in Threads : u # t => call'[u] = call[u]
        /\ call[t].pc = from /\ call'[t].pc = to /\ from # "idle" /\ to # "wait"
        /\ to # "idle" => call'[t].op = call[t].op /\ call'[t].client = call[t].client
    BY GotoType DEF Goto
  <1>2. NotifiesAlone'
    BY <1>1, MoveNotifies
  <1>3. KillsDisturb' /\ StopsCount'
    BY <1>1 DEF DisplayInv, KillsDisturb, StopsCount
  <1>4. ASSUME Calm' PROVE DisplaysReady'
    <2>1. DisplaysReady
      BY <1>4 DEF DisplayInv, Calm
    <2>2. \A c : HasDisplayNext(c) <=> HasDisplay(c)
      BY <1>1, KeepsDisplays
    <2>3. \A c : Deinitializing(c) => DeinitializingNext(c)
      <3> SUFFICES ASSUME NEW c, NEW u \in Threads, call[u].pc # "idle", call[u].op = "deinitialized",
                          call[u].client = c
                   PROVE  DeinitializingNext(c)
        BY DEF Deinitializing, DeinitializingNext
      <3>1. call'[u].pc # "idle" /\ call'[u].op = "deinitialized" /\ call'[u].client = c
        BY <1>1
      <3>2. QED
        BY <3>1 DEF Deinitializing, DeinitializingNext
    <2>4. \A c \in activePlugins' : HasDisplayNext(c) \/ DeinitializingNext(c)
      BY <2>1, <2>2, <2>3 DEF DisplaysReady
    <2>5. ASSUME NEW u \in Threads, ExpectsNext(u) PROVE HasDisplayNext(call'[u].client)
      <3>1. CASE u = t
        <4>1. call[t].op = "initialize" /\ to \in {"listen", "data"} /\ call'[t].client = call[t].client
          BY <1>1, <2>5, <3>1 DEF Expects, ExpectsNext
        <4>2. HasDisplay(call[t].client)
          BY <2>1, <4>1 DEF DisplaysReady
        <4>3. QED
          BY <2>2, <3>1, <4>1, <4>2
      <3>2. CASE u # t
        <4>1. Expects(u) /\ call'[u] = call[u]
          BY <1>1, <2>5, <3>2 DEF Expects, ExpectsNext
        <4>2. HasDisplay(call[u].client)
          BY <2>1, <4>1 DEF DisplaysReady
        <4>3. QED
          BY <2>2, <4>1, <4>2
      <3>3. QED
        BY <3>1, <3>2
    <2>6. QED
      BY <2>4, <2>5, ReadyNext
  <1>5. QED
    BY <1>2, <1>3, <1>4 DEF DisplayInv

\* A request is pushed.
LEMMA PushKeeps ==
  ASSUME TypeOK, Conserved, DisplayInv, NEW t \in Threads, Push(t)
  PROVE  DisplayInv'
  <1> DEFINE k == Kind(call[t].op)
  <1>1. /\ \A u \in Threads : u # t => call'[u] = call[u]
        /\ call[t].pc = "push" /\ call'[t].pc = "wait"
        /\ call'[t].op = call[t].op /\ call'[t].client = call[t].client
    BY GotoType DEF Push, Goto
  <1>2. /\ requests' = [requests EXCEPT ![k] = Append(@, t)] /\ sem' = [sem EXCEPT ![t] = "unposted"]
        /\ disturbed' = (disturbed \/ call[t].op = "kill")
        /\ UNCHANGED <<plugin, deactivations, displays, activePlugins>>
    BY DEF Push, shellVars
  <1>3. NotifiesAlone'
    BY <1>1, MoveNotifies
  <1>4. StopsCount'
    BY <1>2 DEF DisplayInv, StopsCount
  <1>5. KillsDisturb'
    BY <1>1, <1>2 DEF DisplayInv, KillsDisturb
  <1>6. ASSUME Calm' PROVE DisplaysReady'
    <2>1. DisplaysReady
      BY <1>2, <1>6 DEF DisplayInv, Calm
    <2>2. \A c : HasDisplay(c) => HasDisplayNext(c)
      <3>1. /\ k \in Kinds /\ "create" \in Kinds /\ requests["create"] \in Seq(Threads)
            /\ requests \in [Kinds -> Seq(Threads)]
        BY KindType DEF TypeOK, Calls, Kinds
      <3>2. requests'["create"] \in {requests["create"], Append(requests["create"], t)}
        BY <1>2, <3>1
      <3>3. \A i \in DOMAIN requests["create"] :
              i \in DOMAIN requests'["create"] /\ requests'["create"][i] = requests["create"][i]
        <4>1. \A s \in Seq(Threads) : \A i \in DOMAIN s :
                i \in DOMAIN Append(s, t) /\ Append(s, t)[i] = s[i]
          OBVIOUS
        <4>2. CASE requests'["create"] = requests["create"]
          BY <4>2
        <4>3. CASE requests'["create"] = Append(requests["create"], t)
          BY <3>1, <4>1, <4>3
        <4>4. QED
          BY <3>2, <4>2, <4>3
      <3>4. \A i \in DOMAIN requests["create"] :
              requests["create"][i] \in Threads /\ call'[requests["create"][i]].client = call[requests["create"][i]].client
        BY <1>1, <3>1
      <3>5. QED
        BY <1>2, <3>3, <3>4 DEF HasDisplay, HasDisplayNext, CreatePending
    <2>3. \A c : Deinitializing(c) => DeinitializingNext(c)
      <3> SUFFICES ASSUME NEW c, NEW u \in Threads, call[u].pc # "idle", call[u].op = "deinitialized",
                          call[u].client = c
                   PROVE  DeinitializingNext(c)
        BY DEF Deinitializing
      <3>1. call'[u].pc # "idle" /\ call'[u].op = "deinitialized" /\ call'[u].client = c
        BY <1>1
      <3>2. QED
        BY <3>1 DEF DeinitializingNext
    <2>4. \A u \in Threads : ExpectsNext(u) => Expects(u) /\ call'[u] = call[u]
      <3>1. sem'[t] = "unposted" /\ \A u \in Threads : u # t => sem'[u] = sem[u]
        BY <1>2 DEF TypeOK
      <3>2. QED
        BY <1>1, <3>1 DEF Expects, ExpectsNext
    <2>5. \A u \in Threads : ExpectsNext(u) => HasDisplayNext(call'[u].client)
      BY <2>1, <2>2, <2>4 DEF DisplaysReady
    <2>6. \A c \in activePlugins' : HasDisplayNext(c) \/ DeinitializingNext(c)
      BY <1>2, <2>1, <2>2, <2>3 DEF DisplaysReady
    <2>7. QED
      BY <2>5, <2>6, ReadyNext
  <1>7. QED
    BY <1>3, <1>4, <1>5, <1>6 DEF DisplayInv

\* handleInitialize lists the plugin, handleDeinitialized drops it.
LEMMA DataKeeps ==
  ASSUME TypeOK, Conserved, DisplayInv, NEW t \in Threads, Data(t)
  PROVE  DisplayInv'
  <1>1. /\ \A u \in Threads : u # t => call'[u] = call[u]
        /\ call[t].pc = "data" /\ call'[t].pc = "idle"
    BY GotoType DEF Data, Goto
  <1>2. /\ UNCHANGED <<requests, sem, displays, disturbed, deactivations, plugin>>
        /\ activePlugins' = IF call[t].op = "initialize" THEN activePlugins \cup {call[t].client}
                                                       ELSE activePlugins \ {call[t].client}
    BY DEF Data, shellVars
  <1>3. NotifiesAlone'
    BY <1>1, MoveNotifies
  <1>4. KillsDisturb' /\ StopsCount'
    BY <1>1, <1>2 DEF DisplayInv, KillsDisturb, StopsCount
  <1>5. ASSUME Calm' PROVE DisplaysReady'
    <2>1. DisplaysReady
      BY <1>2, <1>5 DEF DisplayInv, Calm
    <2>2. \A c : HasDisplayNext(c) <=> HasDisplay(c)
      BY <1>1, <1>2, KeepsDisplays
    <2>3. \A u \in Threads : ExpectsNext(u) => Expects(u) /\ call'[u] = call[u]
      BY <1>1, <1>2 DEF Expects, ExpectsNext
    <2>4. \A u \in Threads : ExpectsNext(u) => HasDisplayNext(call'[u].client)
      BY <2>1, <2>2, <2>3 DEF DisplaysReady
    <2>5. ASSUME NEW c \in activePlugins' PROVE HasDisplayNext(c) \/ DeinitializingNext(c)
      <3>1. CASE call[t].op = "initialize" /\ c = call[t].client
        BY <1>1, <2>1, <2>2, <3>1 DEF DisplaysReady, Expects
      <3>2. CASE ~(call[t].op = "initialize" /\ c = call[t].client)
        <4>1. c \in activePlugins /\ (call[t].op = "deinitialized" => c # call[t].client)
          BY <1>2, <3>2
        <4>2. CASE HasDisplay(c)
          BY <2>2, <4>2
        <4>3. CASE Deinitializing(c)
          <5>1. PICK u \in Threads : call[u].pc # "idle" /\ call[u].op = "deinitialized" /\ call[u].client = c
            BY <4>3 DEF Deinitializing
          <5>2. u # t /\ call'[u] = call[u]
            BY <1>1, <4>1, <5>1
          <5>3. QED
            BY <5>1, <5>2 DEF DeinitializingNext
        <4>4. QED
          BY <2>1, <4>1, <4>2, <4>3 DEF DisplaysReady
      <3>3. QED
        BY <3>1, <3>2
    <2>6. QED
      BY <2>4, <2>5, ReadyNext
  <1>6. QED
    BY <1>3, <1>4, <1>5 DEF DisplayInv

\* A call begins.
LEMMA CallKeeps ==
  ASSUME TypeOK, Conserved, DisplayInv, NEW t \in Threads, NEW o \in Ops, NEW c \in Names, Call(t, o, c)
  PROVE  DisplayInv'
  <1>1. /\ \A u \in Threads : u # t => call'[u] = call[u]
        /\ call[t].pc = "idle" /\ call'[t].pc \in {"pending", "push"}
        /\ call'[t].op = o /\ call'[t].client = c
        /\ UNCHANGED <<requests, sem, displays, activePlugins, disturbed, deactivations, plugin>>
    BY DEF Call, TypeOK, shellVars, clientVars
  <1>2. NotifiesAlone'
    <2>1. \A u \in Threads : u # t => (Notifies(u)' <=> Notifies(u))
      BY <1>1 DEF Notifies
    <2>2. Notifies(t)' => \A u \in Threads : Notifies(u) => call[u].client # c
      BY <1>1 DEF Call, MayCall, Notifies
    <2>3. QED
      BY <1>1, <2>1, <2>2 DEF DisplayInv, NotifiesAlone
  <1>3. KillsDisturb' /\ StopsCount'
    BY <1>1 DEF DisplayInv, KillsDisturb, StopsCount
  <1>4. ASSUME Calm' PROVE DisplaysReady'
    <2>1. DisplaysReady
      BY <1>1, <1>4 DEF DisplayInv, Calm
    <2>2. \A d : HasDisplayNext(d) <=> HasDisplay(d)
      BY <1>1, KeepsDisplays
    <2>3. \A u \in Threads : ExpectsNext(u) => Expects(u) /\ call'[u] = call[u]
      BY <1>1 DEF Expects, ExpectsNext
    <2>4. \A u \in Threads : ExpectsNext(u) => HasDisplayNext(call'[u].client)
      BY <2>1, <2>2, <2>3 DEF DisplaysReady
    <2>5. \A d : Deinitializing(d) => DeinitializingNext(d)
      <3>1. \A u \in Threads : call[u].pc # "idle" => call'[u] = call[u]
        BY <1>1
      <3>2. QED
        BY <3>1 DEF Deinitializing, DeinitializingNext
    <2>6. \A d \in activePlugins' : HasDisplayNext(d) \/ DeinitializingNext(d)
      BY <1>1, <2>1, <2>2, <2>5 DEF DisplaysReady
    <2>7. QED
      BY <2>4, <2>6, ReadyNext
  <1>5. QED
    BY <1>2, <1>3, <1>4 DEF DisplayInv

\* The shell thread serves the front request of a vector.
LEMMA DrainKeeps ==
  ASSUME TypeOK, Conserved, DisplayInv, NEW k \in Kinds, Drain(k),
         \A c, d \in Names : toLower[c] = toLower[d] => c = d
  PROVE  DisplayInv'
  <1> DEFINE s == requests[k]
             t == Head(s)
             d == call[t].client
  <1>1. /\ s \in Seq(Threads) /\ s # <<>>
        /\ requests' = [requests EXCEPT ![k] = Tail(s)] /\ sem' = [sem EXCEPT ![t] = "posted"]
        /\ UNCHANGED <<call, activePlugins, deactivations, plugin>>
    BY DEF TypeOK, Drain, shellVars
  <1>2. PICK ok \in BOOLEAN :
          Serve(k, d, ok) /\ disturbed' = (disturbed \/ (k = "create" /\ ~ok))
    BY DEF Drain
  <1>3. /\ 1 \in DOMAIN s /\ t = s[1] /\ t \in Threads
        /\ \A i \in DOMAIN s : i = 1 \/ (i - 1 \in DOMAIN Tail(s) /\ Tail(s)[i - 1] = s[i])
    BY <1>1
  <1>4. call[t].pc = "wait" /\ sem[t] = "unposted" /\ k = Kind(call[t].op) /\ d \in Names /\ call[t].op \in AllOps
    BY <1>3 DEF Conserved, Owned, Blocked, TypeOK, Calls
  <1>5. /\ requests'[k] = Tail(s)
        /\ k # "create" => requests'["create"] = requests["create"]
        /\ sem'[t] = "posted" /\ \A u \in Threads : u # t => sem'[u] = sem[u]
    BY <1>1, <1>3 DEF TypeOK, Kinds
  <1> HIDE DEF s, t, d
  <1>6. NotifiesAlone'
    BY <1>1 DEF DisplayInv, NotifiesAlone, Notifies
  <1>7. KillsDisturb' /\ StopsCount'
    BY <1>1, <1>2 DEF DisplayInv, KillsDisturb, StopsCount
  <1>8. ASSUME Calm' PROVE DisplaysReady'
    <2>1. DisplaysReady /\ ~disturbed /\ (k = "create" => ok)
      BY <1>1, <1>2, <1>8 DEF DisplayInv, Calm
    <2>2. \A c : Deinitializing(c) <=> DeinitializingNext(c)
      BY <1>1 DEF Deinitializing, DeinitializingNext
    <2>3. CASE k = "create"
      <3>1. displays' = displays \cup {toLower[d]}
        BY <1>2, <2>1, <2>3 DEF Serve
      <3>2. \A c : HasDisplay(c) => HasDisplayNext(c)
        <4> SUFFICES ASSUME NEW c, CreatePending(c) PROVE HasDisplayNext(c)
          BY <3>1 DEF HasDisplay, HasDisplayNext
        <4>1. PICK i \in DOMAIN s : call[s[i]].client = c
          BY <2>3 DEF CreatePending, s
        <4>2. CASE i = 1
          BY <1>3, <3>1, <4>1, <4>2 DEF HasDisplayNext, d
        <4>3. CASE i # 1
          <5>1. i - 1 \in DOMAIN requests'["create"] /\ requests'["create"][i - 1] = s[i]
            BY <1>3, <1>5, <2>3, <4>3
          <5>2. QED
            BY <1>1, <4>1, <5>1 DEF HasDisplayNext
        <4>4. QED
          BY <4>2, <4>3
      <3>3. ASSUME NEW u \in Threads, ExpectsNext(u) PROVE HasDisplayNext(call'[u].client)
        <4>1. CASE u = t
          BY <1>1, <3>1, <4>1 DEF HasDisplayNext, d
        <4>2. CASE u # t
          <5>1. Expects(u)
            BY <1>1, <1>5, <3>3, <4>2 DEF Expects, ExpectsNext
          <5>2. QED
            BY <1>1, <2>1, <3>2, <5>1 DEF DisplaysReady
        <4>3. QED
          BY <4>1, <4>2
      <3>4. \A c \in activePlugins' : HasDisplayNext(c) \/ DeinitializingNext(c)
        BY <1>1, <2>1, <2>2, <3>2 DEF DisplaysReady
      <3>5. QED
        BY <3>3, <3>4, ReadyNext
    <2>4. CASE k = "kill"
      <3>1. call[t].op = "deinitialized"
        <4>1. call[t].op \in {"kill", "deinitialized"}
          BY <1>4, <2>4 DEF Kind, AllOps
        <4>2. QED
          BY <1>3, <1>4, <2>1, <4>1 DEF DisplayInv, KillsDisturb
      <3>2. displays \ {toLower[d]} \subseteq displays'
        BY <1>2, <2>4 DEF Serve
      <3>3. \A c \in Names : c # d /\ HasDisplay(c) => HasDisplayNext(c)
        BY <1>1, <1>4, <1>5, <2>4, <3>2 DEF HasDisplay, HasDisplayNext, CreatePending
      <3>4. DeinitializingNext(d)
        BY <1>1, <1>3, <1>4, <3>1 DEF DeinitializingNext, d
      <3>5. ASSUME NEW u \in Threads, ExpectsNext(u) PROVE HasDisplayNext(call'[u].client)
        <4>1. u # t
          BY <1>1, <3>1, <3>5 DEF ExpectsNext
        <4>2. Expects(u) /\ Notifies(u) /\ Notifies(t) /\ call[u].client \in Names
          BY <1>1, <1>4, <1>5, <3>1, <3>5, <4>1 DEF Expects, ExpectsNext, Notifies, Notifications, TypeOK, Calls
        <4>3. call[u].client # d
          BY <1>3, <4>1, <4>2 DEF DisplayInv, NotifiesAlone, d
        <4>4. QED
          BY <1>1, <2>1, <3>3, <4>2, <4>3 DEF DisplaysReady
      <3>6. \A c \in activePlugins' : HasDisplayNext(c) \/ DeinitializingNext(c)
        BY <1>1, <2>1, <2>2, <3>3, <3>4 DEF DisplaysReady, TypeOK
      <3>7. QED
        BY <3>5, <3>6, ReadyNext
    <2>5. CASE k = "task"
      <3>1. displays' = displays
        BY <1>2, <2>5 DEF Serve
      <3>2. \A c : HasDisplay(c) => HasDisplayNext(c)
        BY <1>1, <1>5, <2>5, <3>1 DEF HasDisplay, HasDisplayNext, CreatePending
      <3>3. call[t].op # "initialize"
        BY <1>4, <2>5 DEF Kind
      <3>4. \A u \in Threads : ExpectsNext(u) => Expects(u)
        BY <1>1, <1>5, <3>3 DEF Expects, ExpectsNext
      <3>5. \A u \in Threads : ExpectsNext(u) => HasDisplayNext(call'[u].client)
        BY <1>1, <2>1, <3>2, <3>4 DEF DisplaysReady
      <3>6. \A c \in activePlugins' : HasDisplayNext(c) \/ DeinitializingNext(c)
        BY <1>1, <2>1, <2>2, <3>2 DEF DisplaysReady
      <3>7. QED
        BY <3>5, <3>6, ReadyNext
    <2>6. QED
      BY <2>3, <2>4, <2>5 DEF Kinds
  <1>9. QED
    BY <1>6, <1>7, <1>8 DEF DisplayInv

\* The plugin's lifecycle and the shell thread between two requests.
LEMMA LifecycleKeeps ==
  ASSUME TypeOK, DisplayInv, UNCHANGED <<call, displays, disturbed>>,
         \/ plugin \in {"joining", "clearing"} /\ UNCHANGED deactivations
         \/ deactivations' = deactivations + 1
         \/ /\ UNCHANGED <<activePlugins, deactivations>>
            /\ requests'["create"] = requests["create"] /\ plugin' \in {plugin, "starting", "active"}
            /\ \A t \in Threads : sem'[t] = "posted" => sem[t] = "posted"
  PROVE  DisplayInv'
  <1>1. deactivations \in Nat
    BY DEF TypeOK
  <1>2. NotifiesAlone' /\ KillsDisturb'
    BY DEF DisplayInv, NotifiesAlone, Notifies, KillsDisturb
  <1>3. CASE plugin \in {"joining", "clearing"} /\ UNCHANGED deactivations
    BY <1>1, <1>2, <1>3 DEF DisplayInv, StopsCount, Calm
  <1>4. CASE deactivations' = deactivations + 1
    BY <1>1, <1>2, <1>4 DEF DisplayInv, StopsCount, Calm
  <1>5. CASE /\ UNCHANGED <<activePlugins, deactivations>>
             /\ requests'["create"] = requests["create"] /\ plugin' \in {plugin, "starting", "active"}
             /\ \A t \in Threads : sem'[t] = "posted" => sem[t] = "posted"
    <2>1. StopsCount'
      BY <1>5 DEF DisplayInv, StopsCount
    <2>2. ASSUME Calm' PROVE DisplaysReady'
      <3>1. DisplaysReady
        BY <1>5, <2>2 DEF DisplayInv, Calm
      <3>2. \A c : HasDisplay(c) => HasDisplayNext(c)
        BY <1>5 DEF HasDisplay, HasDisplayNext, CreatePending
      <3>3. \A u \in Threads : ExpectsNext(u) => Expects(u)
        BY <1>5 DEF Expects, ExpectsNext
      <3>4. \A u \in Threads : ExpectsNext(u) => HasDisplayNext(call'[u].client)
        BY <3>1, <3>2, <3>3 DEF DisplaysReady
      <3>5. \A c \in activePlugins' : HasDisplayNext(c) \/ DeinitializingNext(c)
        BY <1>5, <3>1, <3>2 DEF DisplaysReady, Deinitializing, DeinitializingNext
      <3>6. QED
        BY <3>4, <3>5, ReadyNext
    <2>3. QED
      BY <1>2, <2>1, <2>2 DEF DisplayInv
  <1>6. QED
    BY <1>3, <1>4, <1>5

LEMMA DisplayStep ==
  ASSUME TypeOK, Conserved, DisplayInv, [Next]_vars,
         \A c, d \in Names : toLower[c] = toLower[d] => c = d
  PROVE  DisplayInv'
  <1>1. CASE Initialize
    <2>1. requests'["create"] = requests["create"]
      BY <1>1 DEF Initialize, TypeOK, Kinds
    <2>2. \A t \in Threads : sem'[t] = "posted" => sem[t] = "posted"
      BY <1>1 DEF Initialize
    <2>3. QED
      BY <1>1, <2>1, <2>2, LifecycleKeeps DEF Initialize, clientVars
  <1>2. CASE DeinitializeStop \/ DeinitializeJoin \/ DeinitializeClear
    BY <1>2, LifecycleKeeps DEF DeinitializeStop, DeinitializeJoin, DeinitializeClear, clientVars
  <1>3. CASE InitializeReturn \/ ShellInit \/ ShellPost \/ FrameBegin \/ DrainEnd("create", "kill")
             \/ DrainEnd("kill", "draw") \/ Draw \/ FrameEnd \/ UNCHANGED vars
    <2>1. UNCHANGED <<call, displays, disturbed, activePlugins, deactivations, requests, sem>>
      BY <1>3 DEF InitializeReturn, ShellInit, ShellPost, FrameBegin, DrainEnd, Draw, FrameEnd, vars,
           shellVars, clientVars
    <2>2. plugin' \in {plugin, "active"}
      BY <1>3 DEF InitializeReturn, ShellInit, ShellPost, FrameBegin, DrainEnd, Draw, FrameEnd, vars, shellVars
    <2>3. QED
      BY <2>1, <2>2, LifecycleKeeps
  <1>4. ASSUME NEW k \in Kinds, Drain(k) PROVE DisplayInv'
    BY <1>4, DrainKeeps
  <1>5. ASSUME NEW t \in Threads, CallerStep(t) PROVE DisplayInv'
    <2>1. /\ AfterRequest(call[t].op) \in {"idle", "listen"}
          /\ call[t].op = "deinitialized" => AfterRequest(call[t].op) = "listen"
      BY DEF AfterRequest, Listening
    <2>2. CASE CheckPending(t)
      <3> DEFINE exist == CreatePending(call[t].client)
                 to == IF exist THEN AfterRequest(call[t].op) ELSE "clients"
      <3>1. /\ Goto(t, "pending", to)
            /\ UNCHANGED <<requests, sem, displays, activePlugins, disturbed, deactivations, plugin>>
        BY <2>2 DEF CheckPending, CreatePending, shellVars, clientVars
      <3>2. to \in {"idle", "clients", "listen"} /\ (call[t].op = "deinitialized" => to # "idle")
        BY <2>1
      <3>3. to = "listen" => HasDisplay(call[t].client)
        BY DEF HasDisplay
      <3> HIDE DEF to
      <3>4. QED
        BY <3>1, <3>2, <3>3, MoveKeeps
    <2>3. CASE CheckClients(t)
      <3> DEFINE to == IF toLower[call[t].client] \in displays THEN AfterRequest(call[t].op) ELSE "push"
      <3>1. /\ Goto(t, "clients", to)
            /\ UNCHANGED <<requests, sem, displays, activePlugins, disturbed, deactivations, plugin>>
        BY <2>3 DEF CheckClients, shellVars, clientVars
      <3>2. to \in {"idle", "push", "listen"} /\ (call[t].op = "deinitialized" => to # "idle")
        BY <2>1
      <3>3. to = "listen" => HasDisplay(call[t].client)
        BY DEF HasDisplay
      <3> HIDE DEF to
      <3>4. QED
        BY <3>1, <3>2, <3>3, MoveKeeps
    <2>4. CASE Push(t)
      BY <2>4, PushKeeps
    <2>5. CASE Wake(t)
      <3> DEFINE to == AfterRequest(call[t].op)
      <3>1. /\ Goto(t, "wait", to) /\ sem[t] = "posted" /\ call[t].pc = "wait"
            /\ UNCHANGED <<requests, sem, displays, activePlugins, disturbed, deactivations, plugin>>
        BY <2>5 DEF Wake, shellVars, clientVars, Goto
      <3>2. to \in {"idle", "listen"} /\ (call[t].op = "deinitialized" => to # "idle")
        BY <2>1
      <3>3. call[t].op = "initialize" => Expects(t)
        BY <3>1 DEF Expects
      <3> HIDE DEF to
      <3>4. QED
        BY <3>1, <3>2, <3>3, MoveKeeps
    <2>6. CASE Listen(t)
      <3> DEFINE to == IF call[t].op \in Notifications THEN "data" ELSE "idle"
      <3>1. /\ Goto(t, "listen", to) /\ call[t].pc = "listen"
            /\ UNCHANGED <<requests, sem, displays, activePlugins, disturbed, deactivations, plugin>>
        BY <2>6 DEF Listen, shellVars, Goto
      <3>2. to \in {"idle", "data"} /\ (call[t].op = "deinitialized" => to # "idle")
        BY DEF Notifications
      <3>3. call[t].op = "initialize" => Expects(t)
        BY <3>1 DEF Expects
      <3> HIDE DEF to
      <3>4. QED
        BY <3>1, <3>2, <3>3, MoveKeeps
    <2>7. CASE Data(t)
      BY <2>7, DataKeeps
    <2>8. QED
      BY <1>5, <2>2, <2>3, <2>4, <2>5, <2>6, <2>7 DEF CallerStep
  <1>6. ASSUME NEW t \in Threads, NEW o \in Ops, NEW c \in Names, Call(t, o, c) PROVE DisplayInv'
    BY <1>6, CallKeeps
  <1>7. QED
    BY <1>1, <1>2, <1>3, <1>4, <1>5, <1>6 DEF Next, Lifecycle, ShellStep

\* Where no two client names differ in their case only, a plugin that RDKShell lists as
\* active has its display or a request for it pending: for any number of callers, clients
\* and frames, although isClientExists answers in two sections and its answer is used later.
THEOREM PluginsHaveDisplays ==
  ASSUME \A c, d \in Names : toLower[c] = toLower[d] => c = d
  PROVE  Spec => []PluginHasDisplay
  <1>1. Init => DisplayInv
    <2> SUFFICES ASSUME Init PROVE DisplayInv
      OBVIOUS
    <2>1. \A t \in Threads : call[t].pc = "idle"
      BY DEF Init, NoCall
    <2>2. QED
      BY <2>1 DEF Init, DisplayInv, NotifiesAlone, Notifies, KillsDisturb, StopsCount, DisplaysReady, Expects
  <1>2. TypeOK /\ Conserved /\ DisplayInv /\ [Next]_vars => DisplayInv'
    BY DisplayStep
  <1>3. DisplayInv => PluginHasDisplay
    BY DEF DisplayInv, Calm, DisplaysReady, HasDisplay, PluginHasDisplay
  <1>4. QED
    BY <1>1, <1>2, <1>3, TypeCorrect, AlwaysConserved, PTL DEF Spec

==============================================================================
