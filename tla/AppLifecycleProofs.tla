-------------------------- MODULE AppLifecycleProofs --------------------------
(***************************************************************************)
(* Proofs about AppLifecycle.  For any number of threads and calls the     *)
(* variables have their types and no mark outlives its calls; with one     *)
(* launcher and one destroyer launch and destroy exclude each other and    *)
(* what the notifications leave behind is true; and a launch is announced  *)
(* at most once.                                                           *)
(***************************************************************************)
EXTENDS AppLifecycle, TLAPS

\* The part of the typing that the arguments about the marks use.
CallType ==
  /\ call \in [Threads -> Calls]
  /\ gLaunchApplications \in BOOLEAN /\ gDestroyApplications \in BOOLEAN

Busy(t) == call[t].pc # "idle"
BusyNext(t) == call'[t].pc # "idle"

\* Only thread t's call changes.
OnlyMoves(t) == \A u \in Threads : u # t => call'[u] = call[u]

SameMarks == UNCHANGED <<gLaunchApplications, gDestroyApplications>>

(***************************************************************************)
(* What a step can do to the calls and the two marks: the seven shapes of  *)
(* a step.                                                                 *)
(***************************************************************************)

Elsewhere   == UNCHANGED call /\ SameMarks
Proceed(t)  == OnlyMoves(t) /\ Busy(t) /\ BusyNext(t) /\ SameMarks
Suspends(t) == t \in Suspenders /\ OnlyMoves(t) /\ SameMarks
LaunchIn(t) ==
  /\ t \in Launchers /\ OnlyMoves(t) /\ ~Busy(t) /\ BusyNext(t)
  /\ ~gDestroyApplications /\ gLaunchApplications' = TRUE /\ UNCHANGED gDestroyApplications
LaunchOut(t) ==
  /\ t \in Launchers /\ OnlyMoves(t) /\ Busy(t) /\ ~BusyNext(t)
  /\ gLaunchApplications' = FALSE /\ UNCHANGED gDestroyApplications
DestroyIn(t) ==
  /\ t \in Destroyers /\ OnlyMoves(t) /\ ~Busy(t) /\ BusyNext(t)
  /\ ~gLaunchApplications /\ gDestroyApplications' = TRUE /\ UNCHANGED gLaunchApplications
DestroyOut(t) ==
  /\ t \in Destroyers /\ OnlyMoves(t) /\ Busy(t) /\ ~BusyNext(t)
  /\ gDestroyApplications' = FALSE /\ UNCHANGED gLaunchApplications

Shape ==
  \/ Elsewhere
  \/ \E t \in Threads : \/ Proceed(t) \/ Suspends(t) \/ LaunchIn(t) \/ LaunchOut(t)
                        \/ DestroyIn(t) \/ DestroyOut(t)

PCs == {"idle", "find", "config", "state", "activate", "register", "request", "launched",
        "launchEnd", "lock", "suspend", "deactivate", "wait", "destroyEnd"}

\* Moving a thread through its call.
LEMMA GotoMoves ==
  ASSUME CallType, NEW t \in Threads, NEW from, NEW to \in PCs, Goto(t, from, to)
  PROVE  /\ call' \in [Threads -> Calls]
         /\ OnlyMoves(t)
         /\ Busy(t) <=> from # "idle"
         /\ BusyNext(t) <=> to # "idle"
  <1>1. Idle \in Calls /\ Idle.pc = "idle"
    BY DEF Idle, Calls
  <1>2. [call[t] EXCEPT !.pc = to] \in Calls /\ [call[t] EXCEPT !.pc = to].pc = to
    BY DEF CallType, Calls, PCs
  <1>3. QED
    BY <1>1, <1>2 DEF Goto, CallType, OnlyMoves, Busy, BusyNext

\* Beginning a call.
LEMMA BeginMoves ==
  ASSUME CallType, NEW t \in Threads, NEW c \in Calls, Begin(t, c)
  PROVE  /\ call' \in [Threads -> Calls]
         /\ OnlyMoves(t)
         /\ ~Busy(t)
         /\ call'[t] = c /\ call[t] = Idle
  BY DEF Begin, CallType, OnlyMoves, Busy, Idle

\* Rewriting a thread's call record.
LEMMA UpdateMoves ==
  ASSUME CallType, NEW t \in Threads, NEW c \in Calls, call' = [call EXCEPT ![t] = c],
         c.pc # "idle", call[t].pc # "idle"
  PROVE  call' \in [Threads -> Calls] /\ OnlyMoves(t) /\ Busy(t) /\ BusyNext(t)
  BY DEF CallType, OnlyMoves, Busy, BusyNext

\* A thread that begins a call with an idle record leaves everything as it is.
LEMMA RefusedMoves ==
  ASSUME CallType, NEW t \in Threads, Begin(t, Idle)
  PROVE  UNCHANGED call
  BY DEF Begin, CallType

LEMMA LaunchShape ==
  ASSUME CallType, NEW t \in Launchers, Launch(t)
  PROVE  Shape /\ CallType'
  <1> t \in Threads
    BY DEF Threads
  <1> call[t] \in Calls
    BY DEF CallType
  <1>1. CASE LaunchBegin(t)
    <2>1. PICK s \in BOOLEAN :
            Begin(t, IF gDestroyApplications THEN Idle ELSE [Idle EXCEPT !.pc = "find", !.suspend = s])
      BY <1>1 DEF LaunchBegin
    <2>2. gLaunchApplications' = (gLaunchApplications \/ ~gDestroyApplications) /\ UNCHANGED gDestroyApplications
      BY <1>1 DEF LaunchBegin
    <2>3. CASE gDestroyApplications
      <3>1. UNCHANGED call
        BY <2>1, <2>3, RefusedMoves
      <3>2. gLaunchApplications' = gLaunchApplications
        BY <2>2, <2>3 DEF CallType
      <3>3. QED
        BY <3>1, <3>2, <2>2 DEF Shape, Elsewhere, SameMarks, CallType
    <2>4. CASE ~gDestroyApplications
      <3> DEFINE c == [Idle EXCEPT !.pc = "find", !.suspend = s]
      <3>1. c \in Calls /\ c.pc = "find"
        BY DEF Idle, Calls
      <3>2. Begin(t, c)
        BY <2>1, <2>4
      <3>3. call' \in [Threads -> Calls] /\ OnlyMoves(t) /\ ~Busy(t) /\ call'[t] = c
        BY <3>1, <3>2, BeginMoves
      <3>4. gLaunchApplications' = TRUE
        BY <2>2, <2>4
      <3>5. LaunchIn(t)
        BY <3>1, <3>3, <3>4, <2>2, <2>4 DEF LaunchIn, BusyNext
      <3>6. QED
        BY <3>3, <3>4, <3>5, <2>2 DEF Shape, CallType
    <2>5. QED
      BY <2>3, <2>4
  <1>2. ASSUME NEW from, NEW to \in PCs \ {"idle"}, from # "idle", Goto(t, from, to), SameMarks
        PROVE  Shape /\ CallType'
    BY <1>2, GotoMoves DEF Shape, Proceed, SameMarks, CallType
  <1>3. ASSUME NEW c \in Calls, call' = [call EXCEPT ![t] = c], c.pc # "idle",
               call[t].pc # "idle", SameMarks
        PROVE  Shape /\ CallType'
    BY <1>3, UpdateMoves DEF Shape, Proceed, SameMarks, CallType
  <1>4. ASSUME NEW from, from # "idle", Goto(t, from, "idle"), gLaunchApplications' = FALSE,
               UNCHANGED gDestroyApplications
        PROVE  Shape /\ CallType'
    <2>1. "idle" \in PCs
      BY DEF PCs
    <2>2. call' \in [Threads -> Calls] /\ OnlyMoves(t) /\ Busy(t) /\ ~BusyNext(t)
      BY <1>4, <2>1, GotoMoves
    <2>3. LaunchOut(t)
      BY <1>4, <2>2 DEF LaunchOut
    <2>4. QED
      BY <1>4, <2>2, <2>3 DEF Shape, CallType
  <1>5. CASE LaunchFind(t)
    <2>1. CASE Goto(t, "find", "config") /\ SameMarks
      BY <2>1, <1>2 DEF PCs
    <2>2. CASE Goto(t, "find", "idle") /\ gLaunchApplications' = FALSE /\ UNCHANGED gDestroyApplications
      BY <2>2, <1>4
    <2>3. CASE LaunchClone(t) /\ SameMarks
      <3>1. PICK ask \in {TRUE, call[t].suspend} :
              call' = [call EXCEPT ![t].pc = "config", ![t].type = "CREATE", ![t].ask = ask]
        BY <2>3 DEF LaunchClone
      <3> DEFINE c == [call[t] EXCEPT !.pc = "config", !.type = "CREATE", !.ask = ask]
      <3>2. c \in Calls /\ c.pc # "idle" /\ call' = [call EXCEPT ![t] = c]
        BY <3>1 DEF CallType, Calls
      <3>3. QED
        BY <3>2, <2>3, <1>3 DEF LaunchClone
    <2>4. QED
      BY <1>5, <2>1, <2>2, <2>3 DEF LaunchFind, SameMarks
  <1>6. CASE LaunchConfig(t)
    BY <1>6, <1>2 DEF LaunchConfig, PCs, marks, SameMarks
  <1>7. CASE LaunchState(t)
    <2> DEFINE c == IF state = "activated" THEN [call[t] EXCEPT !.pc = "register"]
                    ELSE [call[t] EXCEPT !.pc = "activate", !.type = "ACTIVATE"]
    <2>1. c \in Calls /\ c.pc # "idle" /\ call' = [call EXCEPT ![t] = c] /\ call[t].pc # "idle"
      BY <1>7 DEF LaunchState, CallType, Calls
    <2>2. QED
      BY <2>1, <1>7, <1>3 DEF LaunchState, marks, SameMarks
  <1>8. CASE LaunchActivate(t)
    BY <1>8, <1>2 DEF LaunchActivate, PCs, marks, SameMarks
  <1>9. CASE LaunchRegister(t)
    <2>1. CASE call' = [call EXCEPT ![t].pc = "request", ![t].defer = TRUE]
      <3> DEFINE c == [call[t] EXCEPT !.pc = "request", !.defer = TRUE]
      <3>1. c \in Calls /\ c.pc # "idle" /\ call' = [call EXCEPT ![t] = c]
        BY <2>1 DEF CallType, Calls
      <3>2. QED
        BY <3>1, <1>9, <1>3 DEF LaunchRegister, marks, SameMarks
    <2>2. CASE call' = [call EXCEPT ![t].pc = "request"]
      <3> DEFINE c == [call[t] EXCEPT !.pc = "request"]
      <3>1. c \in Calls /\ c.pc # "idle" /\ call' = [call EXCEPT ![t] = c]
        BY <2>2 DEF CallType, Calls
      <3>2. QED
        BY <3>1, <1>9, <1>3 DEF LaunchRegister, marks, SameMarks
    <2>3. QED
      BY <1>9, <2>1, <2>2 DEF LaunchRegister
  <1>10. CASE LaunchRequest(t)
    <2> DEFINE type == IF call[t].type # "UNKNOWN" \/ ~call[t].ask THEN call[t].type
                       ELSE IF call[t].suspend THEN "SUSPEND" ELSE "RESUME"
    <2>1. PICK next \in {"launched", "launchEnd"} :
            call' = [call EXCEPT ![t].pc = next, ![t].type = type]
      BY <1>10 DEF LaunchRequest
    <2> DEFINE c == [call[t] EXCEPT !.pc = next, !.type = type]
    <2>2. c \in Calls /\ c.pc # "idle" /\ call' = [call EXCEPT ![t] = c]
      BY <2>1 DEF CallType, Calls
    <2>3. QED
      BY <2>2, <1>10, <1>3 DEF LaunchRequest, marks, SameMarks
  <1>11. CASE LaunchAnnounce(t)
    BY <1>11, <1>2 DEF LaunchAnnounce, PCs, marks, SameMarks
  <1>12. CASE LaunchEnd(t)
    BY <1>12, <1>4 DEF LaunchEnd
  <1>13. QED
    BY <1>1, <1>5, <1>6, <1>7, <1>8, <1>9, <1>10, <1>11, <1>12 DEF Launch

LEMMA DestroyShape ==
  ASSUME CallType, NEW t \in Destroyers, Destroy(t)
  PROVE  Shape /\ CallType'
  <1> t \in Threads
    BY DEF Threads
  <1>1. CASE DestroyBegin(t)
    <2>1. Begin(t, IF gLaunchApplications THEN Idle ELSE [Idle EXCEPT !.pc = "deactivate"])
      BY <1>1 DEF DestroyBegin
    <2>2. gDestroyApplications' = (gDestroyApplications \/ ~gLaunchApplications) /\ UNCHANGED gLaunchApplications
      BY <1>1 DEF DestroyBegin
    <2>3. CASE gLaunchApplications
      <3>1. UNCHANGED call
        BY <2>1, <2>3, RefusedMoves
      <3>2. gDestroyApplications' = gDestroyApplications
        BY <2>2, <2>3 DEF CallType
      <3>3. QED
        BY <3>1, <3>2, <2>2 DEF Shape, Elsewhere, SameMarks, CallType
    <2>4. CASE ~gLaunchApplications
      <3> DEFINE c == [Idle EXCEPT !.pc = "deactivate"]
      <3>1. c \in Calls /\ c.pc = "deactivate"
        BY DEF Idle, Calls
      <3>2. Begin(t, c)
        BY <2>1, <2>4
      <3>3. call' \in [Threads -> Calls] /\ OnlyMoves(t) /\ ~Busy(t) /\ call'[t] = c
        BY <3>1, <3>2, BeginMoves
      <3>4. gDestroyApplications' = TRUE
        BY <2>2, <2>4
      <3>5. DestroyIn(t)
        BY <3>1, <3>3, <3>4, <2>2, <2>4 DEF DestroyIn, BusyNext
      <3>6. QED
        BY <3>3, <3>4, <3>5, <2>2 DEF Shape, CallType
    <2>5. QED
      BY <2>3, <2>4
  <1>2. ASSUME NEW from, NEW to \in PCs \ {"idle"}, from # "idle", Goto(t, from, to), SameMarks
        PROVE  Shape /\ CallType'
    BY <1>2, GotoMoves DEF Shape, Proceed, SameMarks, CallType
  <1>3. CASE DestroyDeactivate(t)
    BY <1>3, <1>2 DEF DestroyDeactivate, PCs, marks, SameMarks
  <1>4. CASE DestroyWait(t)
    BY <1>4, <1>2 DEF DestroyWait, PCs, marks, SameMarks
  <1>5. CASE DestroyEnd(t)
    <2>1. "idle" \in PCs
      BY DEF PCs
    <2>2. call' \in [Threads -> Calls] /\ OnlyMoves(t) /\ Busy(t) /\ ~BusyNext(t)
      BY <1>5, <2>1, GotoMoves DEF DestroyEnd
    <2>3. DestroyOut(t)
      BY <1>5, <2>2 DEF DestroyEnd, DestroyOut
    <2>4. QED
      BY <2>2, <2>3 DEF DestroyOut, Shape, CallType
  <1>6. QED
    BY <1>1, <1>3, <1>4, <1>5 DEF Destroy

\* Every step of the specification has one of the shapes.
LEMMA StepShape ==
  ASSUME CallType, [Next]_vars
  PROVE  Shape /\ CallType'
  <1>1. ASSUME NEW t \in Suspenders, SuspendBegin(t) \/ SuspendLock(t) \/ Suspend(t)
        PROVE  Shape /\ CallType'
    <2> t \in Threads
      BY DEF Threads
    <2>1. call' \in [Threads -> Calls] /\ OnlyMoves(t)
      <3>1. CASE SuspendBegin(t)
        <4>1. Idle \in Calls /\ [Idle EXCEPT !.pc = "lock"] \in Calls
          BY DEF Idle, Calls
        <4>2. QED
          BY <3>1, <4>1, BeginMoves DEF SuspendBegin
      <3>2. CASE SuspendLock(t)
        BY <3>2, GotoMoves DEF SuspendLock, PCs
      <3>3. CASE Suspend(t)
        BY <3>3, GotoMoves DEF Suspend, PCs
      <3>4. QED
        BY <1>1, <3>1, <3>2, <3>3
    <2>2. SameMarks
      BY <1>1 DEF SuspendBegin, SuspendLock, Suspend, marks, SameMarks
    <2>3. QED
      BY <2>1, <2>2 DEF Shape, Suspends, SameMarks, CallType
  <1>2. CASE ActivateOutside \/ DeactivateOutside \/ Notification \/ StateChange \/ UNCHANGED vars
    BY <1>2 DEF ActivateOutside, DeactivateOutside, Notification, handleDeactivatedFlag,
         handleDeactivatedHandler, handleDeinitialized, StateChange, vars, marks,
         Shape, Elsewhere, SameMarks, CallType
  <1>3. QED
    BY <1>1, <1>2, LaunchShape, DestroyShape DEF Next

LEMMA InitType == Init => CallType
  <1>1. Idle \in Calls
    BY DEF Idle, Calls
  <1>2. Init => call \in [Threads -> Calls]
    BY <1>1 DEF Init
  <1>3. Init => CallType
    BY <1>2, Zenon DEF Init, CallType
  <1>4. QED
    BY <1>3

------------------------------------------------------------------------------

\* No mark outlives its calls, for any number of threads and calls, and
\* whatever the framework does meanwhile.
THEOREM MarksOwned == Spec => []MarksHaveOwners
  <1>1. Init => CallType /\ MarksHaveOwners
    BY InitType DEF Init, MarksHaveOwners
  <1>2. CallType /\ MarksHaveOwners /\ [Next]_vars => CallType' /\ MarksHaveOwners'
    <2> SUFFICES ASSUME CallType, MarksHaveOwners, Shape
                 PROVE  MarksHaveOwners'
      BY StepShape
    <2> USE DEF MarksHaveOwners, Launching, Destroying, Busy, BusyNext, OnlyMoves, SameMarks
    <2>0. /\ Launchers \subseteq Threads /\ Destroyers \subseteq Threads
          /\ \A u \in Threads : u \in Suspenders => u \notin Launchers /\ u \notin Destroyers
          /\ \A u \in Threads : u \in Launchers => u \notin Destroyers
      BY ThreadsAssumption DEF Threads
    <2>1. CASE Elsewhere
      BY <2>1 DEF Elsewhere
    <2>2. ASSUME NEW t \in Threads, Proceed(t) PROVE MarksHaveOwners'
      BY <2>0, <2>2 DEF Proceed
    <2>3. ASSUME NEW t \in Threads, Suspends(t) PROVE MarksHaveOwners'
      BY <2>0, <2>3 DEF Suspends
    <2>4. ASSUME NEW t \in Threads, LaunchIn(t) PROVE MarksHaveOwners'
      BY <2>0, <2>4 DEF LaunchIn
    <2>5. ASSUME NEW t \in Threads, LaunchOut(t) PROVE MarksHaveOwners'
      BY <2>0, <2>5 DEF LaunchOut
    <2>6. ASSUME NEW t \in Threads, DestroyIn(t) PROVE MarksHaveOwners'
      BY <2>0, <2>6 DEF DestroyIn
    <2>7. ASSUME NEW t \in Threads, DestroyOut(t) PROVE MarksHaveOwners'
      BY <2>0, <2>7 DEF DestroyOut
    <2>8. QED
      BY <2>1, <2>2, <2>3, <2>4, <2>5, <2>6, <2>7 DEF Shape
  <1>3. QED
    BY <1>1, <1>2, PTL DEF Spec

\* A call has its mark set, and the two marks are never set together: this is
\* where it matters that no second launcher can erase the first one's mark.
CallsAreMarked ==
  /\ \A t \in Launchers : Launching(t) => gLaunchApplications
  /\ \A t \in Destroyers : Destroying(t) => gDestroyApplications
  /\ ~(gLaunchApplications /\ gDestroyApplications)

LEMMA CallsMarked ==
  ASSUME \A t, u \in Launchers : t = u, \A t, u \in Destroyers : t = u
  PROVE  Spec => []CallsAreMarked
  <1>1. Init => CallType /\ MarksHaveOwners /\ CallsAreMarked
    BY InitType DEF Init, MarksHaveOwners, CallsAreMarked, Launching, Destroying, Idle, Threads
  <1>2. CallType /\ MarksHaveOwners /\ CallsAreMarked /\ [Next]_vars => CallType' /\ CallsAreMarked'
    <2> SUFFICES ASSUME CallType, MarksHaveOwners, CallsAreMarked, Shape
                 PROVE  CallsAreMarked'
      BY StepShape
    <2> USE DEF CallsAreMarked, Launching, Destroying, Busy, BusyNext, OnlyMoves, SameMarks
    <2>0. /\ Launchers \subseteq Threads /\ Destroyers \subseteq Threads
          /\ \A u \in Threads : u \in Suspenders => u \notin Launchers /\ u \notin Destroyers
          /\ \A u \in Threads : u \in Launchers => u \notin Destroyers
      BY ThreadsAssumption DEF Threads
    <2>1. CASE Elsewhere
      BY <2>1 DEF Elsewhere
    <2>2. ASSUME NEW t \in Threads, Proceed(t) PROVE CallsAreMarked'
      BY <2>0, <2>2 DEF Proceed
    <2>3. ASSUME NEW t \in Threads, Suspends(t) PROVE CallsAreMarked'
      BY <2>0, <2>3 DEF Suspends
    <2>4. ASSUME NEW t \in Threads, LaunchIn(t) PROVE CallsAreMarked'
      BY <2>0, <2>4 DEF LaunchIn
    <2>5. ASSUME NEW t \in Threads, LaunchOut(t) PROVE CallsAreMarked'
      BY <2>0, <2>5 DEF LaunchOut
    <2>6. ASSUME NEW t \in Threads, DestroyIn(t) PROVE CallsAreMarked'
      BY <2>0, <2>6 DEF DestroyIn
    <2>7. ASSUME NEW t \in Threads, DestroyOut(t) PROVE CallsAreMarked'
      BY <2>0, <2>7 DEF DestroyOut
    <2>8. QED
      BY <2>1, <2>2, <2>3, <2>4, <2>5, <2>6, <2>7 DEF Shape
  <1>3. QED
    BY <1>1, <1>2, MarksOwned, PTL DEF Spec

\* With one launcher and one destroyer, launch and destroy exclude each other,
\* for any number of calls, of suspends and of deactivations from outside.
THEOREM Exclusion ==
  ASSUME \A t, u \in Launchers : t = u, \A t, u \in Destroyers : t = u
  PROVE  Spec => []LaunchExcludesDestroy
  <1>1. CallsAreMarked => LaunchExcludesDestroy
    BY DEF CallsAreMarked, LaunchExcludesDestroy
  <1>2. Spec => []CallsAreMarked
    BY CallsMarked
  <1>3. QED
    BY <1>1, <1>2, PTL

------------------------------------------------------------------------------
(***************************************************************************)
(* Type correctness.                                                       *)
(***************************************************************************)

InLock(u) == call[u].pc \in {"suspend", "wait"}

\* What is typed besides the calls and the two marks.
ThunderType ==
  /\ state \in {"absent", "deactivated", "activated", "deactivation"}
  /\ run \in {"suspended", "resumed"} /\ hasConfig \in BOOLEAN
  /\ deactivation \in {"none", "flag", "handler", "deinit"}
  /\ state = "deactivation" <=> deactivation # "none"
  /\ deactivations \in 0 .. MaxDeactivations /\ changed \in BOOLEAN
  /\ gExternalDestroyApplications \in BOOLEAN
  /\ gStateNotifications \in {"none", "live", "orphan"} /\ mLaunchEnabled \in BOOLEAN

MutexType ==
  /\ gDestroyMutex \in Threads \cup {"free"}
  /\ \A u \in Threads : gDestroyMutex = u <=> InLock(u)

CountType == calls \in [Threads -> 0 .. MaxCalls] /\ launched \in Nat

LEMMA TypeParts == TypeOK <=> CallType /\ ThunderType /\ MutexType /\ CountType
  BY DEF TypeOK, CallType, ThunderType, MutexType, CountType, InLock

LEMMA GotoPcs ==
  ASSUME CallType, NEW t \in Threads, NEW from, NEW to \in PCs, Goto(t, from, to)
  PROVE  /\ call[t].pc = from /\ call'[t].pc = to /\ OnlyMoves(t)
         /\ call'[t] = IF to = "idle" THEN Idle ELSE [call[t] EXCEPT !.pc = to]
  <1>1. Idle.pc = "idle"
    BY DEF Idle
  <1>2. [call[t] EXCEPT !.pc = to].pc = to
    BY DEF CallType, Calls
  <1>3. QED
    BY <1>1, <1>2 DEF Goto, CallType, OnlyMoves

\* The call of a thread after a step of it: the fields that the announcements turn on.
Becomes(t, pc, type, defer, ask) ==
  /\ OnlyMoves(t)
  /\ call'[t].pc = pc /\ call'[t].type = type /\ call'[t].defer = defer /\ call'[t].ask = ask

MovesTo(t, pc) == Becomes(t, pc, call[t].type, call[t].defer, call[t].ask)
GoesIdle(t) == Becomes(t, "idle", "UNKNOWN", FALSE, TRUE)

LEMMA GotoBecomes ==
  ASSUME CallType, NEW t \in Threads, NEW from, NEW to \in PCs, Goto(t, from, to)
  PROVE  /\ call[t].pc = from
         /\ to = "idle" => GoesIdle(t)
         /\ to # "idle" => MovesTo(t, to)
  <1> DEFINE c == [call[t] EXCEPT !.pc = to]
  <1>1. /\ c.pc = to /\ c.type = call[t].type /\ c.defer = call[t].defer /\ c.ask = call[t].ask
    BY DEF CallType, Calls
  <1>2. Idle.pc = "idle" /\ Idle.type = "UNKNOWN" /\ Idle.defer = FALSE /\ Idle.ask = TRUE
    BY DEF Idle
  <1>3. call'[t] = IF to = "idle" THEN Idle ELSE c
    BY GotoPcs
  <1> HIDE DEF c
  <1>4. QED
    BY <1>1, <1>2, <1>3, GotoPcs DEF Becomes, MovesTo, GoesIdle

\* What each step of a launch makes of its call.
LEMMA LaunchSteps ==
  ASSUME CallType, NEW t \in Launchers
  PROVE  /\ LaunchBegin(t) => /\ call[t] = Idle
                              /\ GoesIdle(t) \/ Becomes(t, "find", "UNKNOWN", FALSE, TRUE)
         /\ LaunchFind(t) => /\ call[t].pc = "find"
                             /\ \/ MovesTo(t, "config") \/ GoesIdle(t)
                                \/ /\ \E ask \in BOOLEAN : Becomes(t, "config", "CREATE", call[t].defer, ask)
                                   /\ LaunchClone(t)
         /\ LaunchConfig(t) => /\ call[t].pc = "config"
                               /\ MovesTo(t, IF call[t].type = "CREATE" THEN "activate" ELSE "state")
         /\ LaunchState(t) => /\ call[t].pc = "state"
                              /\ IF state = "activated" THEN MovesTo(t, "register")
                                 ELSE Becomes(t, "activate", "ACTIVATE", call[t].defer, call[t].ask)
         /\ LaunchActivate(t) => /\ call[t].pc = "activate"
                                 /\ \/ MovesTo(t, "register") /\ state \in {"deactivated", "activated"}
                                    \/ MovesTo(t, "launchEnd") /\ UNCHANGED state
         /\ LaunchRegister(t) => /\ call[t].pc = "register"
                                 /\ IF gStateNotifications = "none" THEN MovesTo(t, "request")
                                    ELSE Becomes(t, "request", call[t].type, TRUE, call[t].ask)
         /\ LaunchRequest(t) => /\ call[t].pc = "request"
                                /\ \E pc \in {"launched", "launchEnd"}, type \in {"SUSPEND", "RESUME"} :
                                     Becomes(t, pc, IF call[t].type # "UNKNOWN" \/ ~call[t].ask
                                                    THEN call[t].type ELSE type, call[t].defer, call[t].ask)
         /\ LaunchAnnounce(t) => call[t].pc = "launched" /\ MovesTo(t, "launchEnd")
         /\ LaunchEnd(t) => call[t].pc = "launchEnd" /\ GoesIdle(t)
  <1> t \in Threads
    BY DEF Threads
  <1>0. /\ call[t] \in Calls /\ call[t].ask \in BOOLEAN /\ call[t].suspend \in BOOLEAN
        /\ {"find", "config", "state", "activate", "register", "request", "launched", "launchEnd", "idle"} \subseteq PCs
    BY DEF CallType, Calls, PCs
  <1>A. ASSUME NEW c, call' = [call EXCEPT ![t] = c]
        PROVE  Becomes(t, c.pc, c.type, c.defer, c.ask)
    BY <1>A DEF Becomes, OnlyMoves, CallType
  <1>1. ASSUME LaunchBegin(t)
        PROVE  call[t] = Idle /\ (GoesIdle(t) \/ Becomes(t, "find", "UNKNOWN", FALSE, TRUE))
    <2>1. PICK s \in BOOLEAN :
            Begin(t, IF gDestroyApplications THEN Idle ELSE [Idle EXCEPT !.pc = "find", !.suspend = s])
      BY <1>1 DEF LaunchBegin
    <2> DEFINE c == IF gDestroyApplications THEN Idle ELSE [Idle EXCEPT !.pc = "find", !.suspend = s]
    <2>2. c.pc \in {"idle", "find"} /\ c.type = "UNKNOWN" /\ c.defer = FALSE /\ c.ask = TRUE
      BY DEF Idle
    <2>3. call[t] = Idle /\ call' = [call EXCEPT ![t] = c]
      BY <2>1 DEF Begin
    <2> HIDE DEF c
    <2>4. Becomes(t, c.pc, c.type, c.defer, c.ask)
      BY <2>3, <1>A
    <2>5. QED
      BY <2>2, <2>3, <2>4 DEF GoesIdle
  <1>2. ASSUME LaunchFind(t)
        PROVE  /\ call[t].pc = "find"
               /\ \/ MovesTo(t, "config") \/ GoesIdle(t)
                  \/ /\ \E ask \in BOOLEAN : Becomes(t, "config", "CREATE", call[t].defer, ask)
                     /\ LaunchClone(t)
    <2>1. CASE Goto(t, "find", "config")
      BY <2>1, <1>0, GotoBecomes
    <2>2. CASE Goto(t, "find", "idle")
      BY <2>2, <1>0, GotoBecomes
    <2>3. CASE LaunchClone(t)
      <3>1. PICK ask \in {TRUE, call[t].suspend} :
              call' = [call EXCEPT ![t].pc = "config", ![t].type = "CREATE", ![t].ask = ask]
        BY <2>3 DEF LaunchClone
      <3> DEFINE c == [call[t] EXCEPT !.pc = "config", !.type = "CREATE", !.ask = ask]
      <3>2. c.pc = "config" /\ c.type = "CREATE" /\ c.defer = call[t].defer /\ c.ask = ask
        BY <1>0 DEF Calls
      <3>3. call' = [call EXCEPT ![t] = c]
        BY <3>1 DEF CallType, Calls
      <3> HIDE DEF c
      <3>4. Becomes(t, c.pc, c.type, c.defer, c.ask)
        BY <3>3, <1>A
      <3>5. QED
        BY <3>2, <3>4, <2>3, <1>0 DEF LaunchClone
    <2>4. QED
      BY <1>2, <2>1, <2>2, <2>3 DEF LaunchFind
  <1>3. ASSUME LaunchConfig(t)
        PROVE  call[t].pc = "config" /\ MovesTo(t, IF call[t].type = "CREATE" THEN "activate" ELSE "state")
    <2> DEFINE to == IF call[t].type = "CREATE" THEN "activate" ELSE "state"
    <2>1. to \in PCs /\ to # "idle" /\ Goto(t, "config", to)
      BY <1>3, <1>0 DEF LaunchConfig
    <2> HIDE DEF to
    <2>2. call[t].pc = "config" /\ MovesTo(t, to)
      BY <2>1, GotoBecomes
    <2>3. QED
      BY <2>2 DEF to
  <1>4. ASSUME LaunchState(t)
        PROVE  /\ call[t].pc = "state"
               /\ IF state = "activated" THEN MovesTo(t, "register")
                  ELSE Becomes(t, "activate", "ACTIVATE", call[t].defer, call[t].ask)
    <2> DEFINE c == [call[t] EXCEPT !.pc = "register"]
               d == [call[t] EXCEPT !.pc = "activate", !.type = "ACTIVATE"]
    <2>1. /\ c.pc = "register" /\ c.type = call[t].type /\ c.defer = call[t].defer /\ c.ask = call[t].ask
          /\ d.pc = "activate" /\ d.type = "ACTIVATE" /\ d.defer = call[t].defer /\ d.ask = call[t].ask
      BY <1>0 DEF Calls
    <2>2. /\ state = "activated" => call' = [call EXCEPT ![t] = c]
          /\ state # "activated" => call' = [call EXCEPT ![t] = d]
      BY <1>4 DEF LaunchState
    <2> HIDE DEF c, d
    <2>3. /\ state = "activated" => Becomes(t, c.pc, c.type, c.defer, c.ask)
          /\ state # "activated" => Becomes(t, d.pc, d.type, d.defer, d.ask)
      BY <2>2, <1>A
    <2>4. QED
      BY <1>4, <2>1, <2>3 DEF LaunchState, MovesTo
  <1>5. ASSUME LaunchActivate(t)
        PROVE  /\ call[t].pc = "activate"
               /\ \/ MovesTo(t, "register") /\ state \in {"deactivated", "activated"}
                  \/ MovesTo(t, "launchEnd") /\ UNCHANGED state
    <2>1. CASE Goto(t, "activate", "register") /\ state \in {"deactivated", "activated"}
      BY <2>1, <1>0, GotoBecomes
    <2>2. CASE Goto(t, "activate", "launchEnd") /\ UNCHANGED state
      BY <2>2, <1>0, GotoBecomes
    <2>3. QED
      BY <1>5, <2>1, <2>2 DEF LaunchActivate
  <1>6. ASSUME LaunchRegister(t)
        PROVE  /\ call[t].pc = "register"
               /\ IF gStateNotifications = "none" THEN MovesTo(t, "request")
                  ELSE Becomes(t, "request", call[t].type, TRUE, call[t].ask)
    <2> DEFINE c == [call[t] EXCEPT !.pc = "request"]
               d == [call[t] EXCEPT !.pc = "request", !.defer = TRUE]
    <2>1. /\ c.pc = "request" /\ c.type = call[t].type /\ c.defer = call[t].defer /\ c.ask = call[t].ask
          /\ d.pc = "request" /\ d.type = call[t].type /\ d.defer = TRUE /\ d.ask = call[t].ask
      BY <1>0 DEF Calls
    <2>2. /\ gStateNotifications = "none" => call' = [call EXCEPT ![t] = c]
          /\ gStateNotifications # "none" => call' = [call EXCEPT ![t] = d]
      BY <1>6 DEF LaunchRegister, CallType, Calls
    <2> HIDE DEF c, d
    <2>3. /\ gStateNotifications = "none" => Becomes(t, c.pc, c.type, c.defer, c.ask)
          /\ gStateNotifications # "none" => Becomes(t, d.pc, d.type, d.defer, d.ask)
      BY <2>2, <1>A
    <2>4. QED
      BY <1>6, <2>1, <2>3 DEF LaunchRegister, MovesTo
  <1>7. ASSUME LaunchRequest(t)
        PROVE  /\ call[t].pc = "request"
               /\ \E pc \in {"launched", "launchEnd"}, type \in {"SUSPEND", "RESUME"} :
                    Becomes(t, pc, IF call[t].type # "UNKNOWN" \/ ~call[t].ask
                                   THEN call[t].type ELSE type, call[t].defer, call[t].ask)
    <2> DEFINE kind == IF call[t].suspend THEN "SUSPEND" ELSE "RESUME"
               newType == IF call[t].type # "UNKNOWN" \/ ~call[t].ask THEN call[t].type ELSE kind
    <2>1. PICK next \in {"launched", "launchEnd"} :
            call' = [call EXCEPT ![t].pc = next, ![t].type = newType]
      BY <1>7 DEF LaunchRequest
    <2>2. kind \in {"SUSPEND", "RESUME"}
      OBVIOUS
    <2> HIDE DEF kind
    <2> DEFINE c == [call[t] EXCEPT !.pc = next, !.type = newType]
    <2>3. c.pc = next /\ c.type = newType /\ c.defer = call[t].defer /\ c.ask = call[t].ask
      BY <1>0 DEF Calls
    <2>4. call' = [call EXCEPT ![t] = c]
      BY <2>1 DEF CallType, Calls
    <2> HIDE DEF c
    <2>5. Becomes(t, c.pc, c.type, c.defer, c.ask)
      BY <2>4, <1>A
    <2>6. Becomes(t, next, IF call[t].type # "UNKNOWN" \/ ~call[t].ask THEN call[t].type ELSE kind,
                  call[t].defer, call[t].ask)
      BY <2>3, <2>5
    <2>7. QED
      BY <1>7, <2>1, <2>2, <2>6 DEF LaunchRequest
  <1>8. ASSUME LaunchAnnounce(t) PROVE call[t].pc = "launched" /\ MovesTo(t, "launchEnd")
    <2>1. Goto(t, "launched", "launchEnd")
      BY <1>8 DEF LaunchAnnounce
    <2>2. QED
      BY <2>1, <1>0, GotoBecomes
  <1>9. ASSUME LaunchEnd(t) PROVE call[t].pc = "launchEnd" /\ GoesIdle(t)
    <2>1. Goto(t, "launchEnd", "idle")
      BY <1>9 DEF LaunchEnd
    <2>2. QED
      BY <2>1, <1>0, GotoBecomes
  <1>10. QED
    BY <1>1, <1>2, <1>3, <1>4, <1>5, <1>6, <1>7, <1>8, <1>9

\* Where a launch stands before and after one of its steps.
LEMMA LaunchPcs ==
  ASSUME CallType, NEW t \in Launchers, Launch(t)
  PROVE  OnlyMoves(t) /\ ~InLock(t) /\ call'[t].pc \notin {"suspend", "wait"}
  <1>1. Idle.pc = "idle"
    BY DEF Idle
  <1>2. QED
    BY <1>1, LaunchSteps DEF Launch, Becomes, MovesTo, GoesIdle, InLock

\* A call that neither takes nor gives back gDestroyMutex.
LEMMA MutexStays ==
  ASSUME MutexType, NEW t \in Threads, OnlyMoves(t), UNCHANGED gDestroyMutex, ~InLock(t),
         call'[t].pc \notin {"suspend", "wait"}
  PROVE  MutexType'
  BY DEF MutexType, OnlyMoves, InLock

LEMMA MutexMoves ==
  ASSUME MutexType, NEW t \in Threads, OnlyMoves(t),
         \/ gDestroyMutex = "free" /\ gDestroyMutex' = t /\ call'[t].pc \in {"suspend", "wait"}
         \/ InLock(t) /\ gDestroyMutex' = "free" /\ call'[t].pc \notin {"suspend", "wait"}
  PROVE  MutexType'
  BY ThreadsAssumption DEF MutexType, OnlyMoves, InLock

LEMMA BeginCounts ==
  ASSUME CountType, NEW t \in Threads, NEW c, Begin(t, c)
  PROVE  calls' \in [Threads -> 0 .. MaxCalls] /\ calls'[t] = calls[t] + 1
         /\ \A u \in Threads : u # t => calls'[u] = calls[u]
  BY BoundsAssumption DEF CountType, Begin

\* A request to the plugin.
LEMMA RequestType ==
  ASSUME ThunderType, NEW target \in {"suspended", "resumed"}, NEW obeys \in BOOLEAN, Request(target, obeys)
  PROVE  run' \in {"suspended", "resumed"} /\ changed' \in BOOLEAN
  <1>1. run' \in {"suspended", "resumed"}
    BY DEF Request, ThunderType
  <1>2. changed' \in BOOLEAN
    BY DEF Request
  <1>3. QED
    BY <1>1, <1>2

LEMMA LaunchType ==
  ASSUME TypeOK, NEW t \in Launchers, Launch(t)
  PROVE  ThunderType' /\ MutexType' /\ CountType'
  <1> t \in Threads
    BY DEF Threads
  <1> CallType /\ ThunderType /\ MutexType /\ CountType
    BY TypeParts
  <1>0. UNCHANGED gDestroyMutex
    BY DEF Launch, LaunchBegin, LaunchFind, LaunchConfig, LaunchState, LaunchActivate,
         LaunchRegister, LaunchRequest, LaunchAnnounce, LaunchEnd
  <1>1. MutexType'
    BY <1>0, LaunchPcs, MutexStays
  <1>2. CASE LaunchBegin(t)
    BY <1>1, <1>2, BeginCounts DEF LaunchBegin, ThunderType, CountType, thunder, handler
  <1>3. CASE LaunchFind(t)
    <2>1. UNCHANGED <<run, hasConfig, deactivation, deactivations, changed, gExternalDestroyApplications,
                      gStateNotifications, mLaunchEnabled, calls, launched>>
      BY <1>3 DEF LaunchFind, handler
    <2>2. state' = state \/ (state = "absent" /\ state' = "deactivated")
      BY <1>3 DEF LaunchFind, LaunchClone, ThunderType
    <2>3. QED
      BY <1>1, <2>1, <2>2 DEF ThunderType, CountType
  <1>4. CASE LaunchConfig(t)
    <2>1. hasConfig' \in BOOLEAN
      BY <1>4 DEF LaunchConfig
    <2>2. QED
      BY <1>1, <1>4, <2>1 DEF LaunchConfig, ThunderType, CountType, marks, handler
  <1>5. CASE LaunchState(t)
    BY <1>1, <1>5 DEF LaunchState, ThunderType, CountType, thunder, marks, handler
  <1>6. CASE LaunchActivate(t)
    BY <1>1, <1>6 DEF LaunchActivate, ThunderType, CountType, marks, handler
  <1>7. CASE LaunchRegister(t)
    <2>1. mLaunchEnabled' \in BOOLEAN /\ gStateNotifications' \in {"none", "live", "orphan"}
      <3>1. CASE gStateNotifications # "none" /\ mLaunchEnabled' = TRUE /\ UNCHANGED gStateNotifications
        BY <3>1, Zenon DEF ThunderType
      <3>2. CASE mLaunchEnabled' = FALSE /\ gStateNotifications' \in {"none", "live"}
        BY <3>2, Zenon
      <3>3. QED
        BY <1>7, <3>1, <3>2 DEF LaunchRegister
    <2>2. QED
      BY <1>1, <1>7, <2>1 DEF LaunchRegister, ThunderType, CountType, thunder, marks
  <1>8. CASE LaunchRequest(t)
    <2>1. run' \in {"suspended", "resumed"} /\ changed' \in BOOLEAN
      <3>1. PICK obeys \in BOOLEAN : Request(IF call[t].suspend THEN "suspended" ELSE "resumed", obeys)
        BY <1>8 DEF LaunchRequest
      <3>2. QED
        BY <3>1, RequestType
    <2>2. QED
      BY <1>1, <1>8, <2>1 DEF LaunchRequest, ThunderType, CountType, marks, handler
  <1>9. CASE LaunchAnnounce(t)
    BY <1>1, <1>9 DEF LaunchAnnounce, ThunderType, CountType, thunder, marks, handler
  <1>10. CASE LaunchEnd(t)
    BY <1>1, <1>10 DEF LaunchEnd, ThunderType, CountType, thunder, handler
  <1>11. QED
    BY <1>2, <1>3, <1>4, <1>5, <1>6, <1>7, <1>8, <1>9, <1>10 DEF Launch

LEMMA SuspendType ==
  ASSUME TypeOK, NEW t \in Suspenders, SuspendBegin(t) \/ SuspendLock(t) \/ Suspend(t)
  PROVE  ThunderType' /\ MutexType' /\ CountType'
  <1> t \in Threads
    BY DEF Threads
  <1> CallType /\ ThunderType /\ MutexType /\ CountType
    BY TypeParts
  <1>1. CASE SuspendBegin(t)
    <2> DEFINE c == IF gDestroyApplications \/ gExternalDestroyApplications
                    THEN Idle ELSE [Idle EXCEPT !.pc = "lock"]
    <2>1. c \in Calls /\ c.pc \in {"idle", "lock"} /\ Idle.pc = "idle"
      BY DEF Idle, Calls
    <2>2. Begin(t, c) /\ UNCHANGED <<thunder, marks, gDestroyMutex, handler, launched>>
      BY <1>1 DEF SuspendBegin
    <2> HIDE DEF c
    <2>3. OnlyMoves(t) /\ call'[t] = c /\ call[t] = Idle
      BY <2>1, <2>2, BeginMoves
    <2>4. MutexType'
      BY <2>1, <2>2, <2>3, MutexStays DEF InLock
    <2>5. QED
      BY <2>2, <2>4, BeginCounts DEF ThunderType, CountType, thunder, marks, handler
  <1>2. CASE SuspendLock(t)
    <2>1. MutexType'
      BY <1>2, GotoPcs, MutexMoves DEF SuspendLock, PCs
    <2>2. QED
      BY <1>2, <2>1 DEF SuspendLock, ThunderType, CountType, thunder, marks, handler
  <1>3. CASE Suspend(t)
    <2>1. MutexType'
      BY <1>3, GotoPcs, MutexMoves DEF Suspend, PCs, InLock
    <2>2. run' \in {"suspended", "resumed"} /\ changed' \in BOOLEAN
      BY <1>3, RequestType DEF Suspend
    <2>3. QED
      BY <1>3, <2>1, <2>2 DEF Suspend, ThunderType, CountType, marks, handler
  <1>4. QED
    BY <1>1, <1>2, <1>3

LEMMA DestroyType ==
  ASSUME TypeOK, NEW t \in Destroyers, Destroy(t)
  PROVE  ThunderType' /\ MutexType' /\ CountType'
  <1> t \in Threads
    BY DEF Threads
  <1> CallType /\ ThunderType /\ MutexType /\ CountType
    BY TypeParts
  <1>1. CASE DestroyBegin(t)
    <2> DEFINE c == IF gLaunchApplications THEN Idle ELSE [Idle EXCEPT !.pc = "deactivate"]
    <2>1. c \in Calls /\ c.pc \in {"idle", "deactivate"} /\ Idle.pc = "idle"
      BY DEF Idle, Calls
    <2>2. Begin(t, c) /\ UNCHANGED <<thunder, gExternalDestroyApplications, gDestroyMutex, handler, launched>>
      BY <1>1 DEF DestroyBegin
    <2> HIDE DEF c
    <2>3. OnlyMoves(t) /\ call'[t] = c /\ call[t] = Idle
      BY <2>1, <2>2, BeginMoves
    <2>4. MutexType'
      BY <2>1, <2>2, <2>3, MutexStays DEF InLock
    <2>5. QED
      BY <2>2, <2>4, BeginCounts DEF ThunderType, CountType, thunder, handler
  <1>2. CASE DestroyDeactivate(t)
    <2>1. MutexType'
      <3>1. CASE Goto(t, "deactivate", "wait") /\ gDestroyMutex' = t
        <4>1. OnlyMoves(t) /\ call'[t].pc = "wait"
          BY <3>1, GotoPcs DEF PCs
        <4>2. QED
          BY <1>2, <3>1, <4>1, MutexMoves DEF DestroyDeactivate
      <3>2. CASE Goto(t, "deactivate", "destroyEnd") /\ UNCHANGED gDestroyMutex
        <4>1. OnlyMoves(t) /\ call[t].pc = "deactivate" /\ call'[t].pc = "destroyEnd"
          BY <3>2, GotoPcs DEF PCs
        <4>2. QED
          BY <3>2, <4>1, MutexStays DEF InLock
      <3>3. QED
        BY <1>2, <3>1, <3>2 DEF DestroyDeactivate
    <2>2. QED
      BY <1>2, <2>1 DEF DestroyDeactivate, ThunderType, CountType, marks, handler
  <1>3. CASE DestroyWait(t)
    <2>1. MutexType'
      BY <1>3, GotoPcs, MutexMoves DEF DestroyWait, PCs, InLock
    <2>2. QED
      BY <1>3, <2>1 DEF DestroyWait, ThunderType, CountType, thunder, marks, handler
  <1>4. CASE DestroyEnd(t)
    <2>1. MutexType'
      <3>1. Goto(t, "destroyEnd", "idle") /\ UNCHANGED gDestroyMutex
        BY <1>4 DEF DestroyEnd
      <3>2. OnlyMoves(t) /\ call[t].pc = "destroyEnd" /\ call'[t].pc = "idle"
        BY <3>1, GotoPcs DEF PCs
      <3>3. QED
        BY <3>1, <3>2, MutexStays DEF InLock
    <2>2. QED
      BY <1>4, <2>1 DEF DestroyEnd, ThunderType, CountType, thunder, handler
  <1>5. QED
    BY <1>1, <1>2, <1>3, <1>4 DEF Destroy

LEMMA FrameworkType ==
  ASSUME TypeOK, ActivateOutside \/ DeactivateOutside \/ Notification \/ StateChange \/ UNCHANGED vars
  PROVE  ThunderType' /\ MutexType' /\ CountType'
  <1> CallType /\ ThunderType /\ MutexType /\ CountType
    BY TypeParts
  <1>1. MutexType'
    BY DEF MutexType, InLock, ActivateOutside, DeactivateOutside, Notification, handleDeactivatedFlag,
         handleDeactivatedHandler, handleDeinitialized, StateChange, vars
  <1>2. CASE ActivateOutside \/ DeactivateOutside
    BY <1>1, <1>2, BoundsAssumption DEF ActivateOutside, DeactivateOutside, ThunderType, CountType, marks, handler
  <1>3. CASE handleDeactivatedFlag
    <2>1. gExternalDestroyApplications' \in BOOLEAN
      BY <1>3 DEF handleDeactivatedFlag
    <2>2. QED
      BY <1>1, <1>3, <2>1 DEF handleDeactivatedFlag, ThunderType, CountType, handler
  <1>4. CASE handleDeactivatedHandler
    <2>1. mLaunchEnabled' \in BOOLEAN
      BY <1>4, Zenon DEF handleDeactivatedHandler
    <2>2. QED
      BY <1>1, <1>4, <2>1 DEF handleDeactivatedHandler, ThunderType, CountType, marks
  <1>5. CASE handleDeinitialized
    <2>1. gExternalDestroyApplications' \in BOOLEAN /\ changed' \in BOOLEAN
      <3>1. gExternalDestroyApplications' \in BOOLEAN
        BY <1>5 DEF handleDeinitialized
      <3>2. changed' \in BOOLEAN
        BY <1>5, Zenon DEF handleDeinitialized
      <3>3. QED
        BY <3>1, <3>2
    <2>2. QED
      BY <1>1, <1>5, <2>1 DEF handleDeinitialized, ThunderType, CountType
  <1>6. CASE StateChange
    <2>1. changed' \in BOOLEAN /\ mLaunchEnabled' \in BOOLEAN
      BY <1>6, Zenon DEF StateChange, ThunderType
    <2>2. launched' \in Nat
      BY <1>6 DEF StateChange, CountType
    <2>3. QED
      BY <1>1, <1>6, <2>1, <2>2 DEF StateChange, ThunderType, CountType, marks
  <1>7. CASE UNCHANGED vars
    BY <1>1, <1>7 DEF vars, ThunderType, CountType, thunder, marks, handler
  <1>8. QED
    BY <1>2, <1>3, <1>4, <1>5, <1>6, <1>7 DEF Notification

LEMMA InitTypes == Init => TypeOK
  <1> SUFFICES ASSUME Init PROVE CallType /\ ThunderType /\ MutexType /\ CountType
    BY TypeParts
  <1>1. ThunderType
    <2>1. /\ hasConfig \in BOOLEAN /\ changed \in BOOLEAN /\ gExternalDestroyApplications \in BOOLEAN
          /\ mLaunchEnabled \in BOOLEAN
      BY ConfiguredAssumption, Zenon DEF Init
    <2>2. QED
      BY <2>1, BoundsAssumption DEF Init, ThunderType
  <1>2. MutexType
    BY ThreadsAssumption DEF Init, MutexType, InLock, Idle
  <1>3. CountType
    BY BoundsAssumption DEF Init, CountType
  <1>4. QED
    BY <1>1, <1>2, <1>3, InitType

LEMMA StepTypes == TypeOK /\ [Next]_vars => TypeOK'
  <1> SUFFICES ASSUME TypeOK, [Next]_vars PROVE (CallType /\ ThunderType /\ MutexType /\ CountType)'
    BY TypeParts DEF TypeOK, CallType, ThunderType, MutexType, CountType, InLock
  <1>1. CallType'
    BY StepShape, TypeParts
  <1>2. ThunderType' /\ MutexType' /\ CountType'
    BY LaunchType, SuspendType, DestroyType, FrameworkType DEF Next
  <1>3. QED
    BY <1>1, <1>2

\* The variables have their types, and gDestroyMutex is held by the call that is in its
\* section, for any number of threads and calls.
THEOREM Typing == Spec => []TypeOK
  BY InitTypes, StepTypes, PTL DEF Spec

------------------------------------------------------------------------------
(***************************************************************************)
(* The handler, the notifications and the announcements.                   *)
(***************************************************************************)

\* A deactivation that nobody else asked for has a destroy that waits for it, and its
\* second notification finds no handler.
DestroyWaits ==
  deactivations = 0 /\ deactivation # "none" =>
    /\ \E u \in Destroyers : call[u].pc = "wait"
    /\ deactivation = "deinit" => gStateNotifications = "none"

\* The mark of a deactivation from outside lasts from its first notification to its last.
ExternalMarkLasts ==
  hasConfig /\ (gExternalDestroyApplications => deactivation \in {"handler", "deinit"})

NotifyInv == HandlerIsLive /\ DestroyIsNotExternal /\ DestroyWaits /\ ExternalMarkLasts

\* A destroy waits until the deactivation is complete.
LEMMA WaitersStay ==
  ASSUME TypeOK, [Next]_vars, NEW u \in Destroyers, call[u].pc = "wait", deactivation # "none"
  PROVE  call'[u].pc = "wait"
  <1> CallType
    BY TypeParts
  <1>0. /\ u \in Threads /\ u \notin Launchers /\ u \notin Suspenders
        /\ Launchers \subseteq Threads /\ Suspenders \subseteq Threads /\ Destroyers \subseteq Threads
        /\ {"wait", "destroyEnd", "idle", "lock", "suspend"} \subseteq PCs /\ Idle.pc = "idle"
    BY ThreadsAssumption DEF Threads, PCs, Idle
  <1>1. ASSUME NEW t \in Launchers, Launch(t) PROVE call'[u].pc = "wait"
    BY <1>0, <1>1, LaunchPcs DEF OnlyMoves
  <1>2. ASSUME NEW t \in Suspenders, SuspendBegin(t) \/ SuspendLock(t) \/ Suspend(t)
        PROVE  call'[u].pc = "wait"
    <2>1. t # u /\ t \in Threads
      BY <1>0
    <2>2. QED
      BY <1>0, <1>2, <2>1 DEF SuspendBegin, SuspendLock, Suspend, Begin, Goto, CallType
  <1>3. ASSUME NEW t \in Destroyers, Destroy(t) PROVE call'[u].pc = "wait"
    <2>1. t # u
      BY <1>0, <1>3 DEF Destroy, DestroyBegin, DestroyDeactivate, DestroyWait, DestroyEnd, Begin, Goto
    <2>2. QED
      BY <1>0, <1>3, <2>1 DEF Destroy, DestroyBegin, DestroyDeactivate, DestroyWait, DestroyEnd, Begin, Goto, CallType
  <1>4. CASE ActivateOutside \/ DeactivateOutside \/ Notification \/ StateChange \/ UNCHANGED vars
    BY <1>4 DEF ActivateOutside, DeactivateOutside, Notification, handleDeactivatedFlag,
         handleDeactivatedHandler, handleDeinitialized, StateChange, vars
  <1>5. QED
    BY <1>1, <1>2, <1>3, <1>4 DEF Next

\* What no step of a call does to the plugin and its notifications, a launch's
\* registration and a destroy's deactivation apart.
Undisturbed ==
  /\ UNCHANGED <<deactivation, deactivations, gExternalDestroyApplications, gStateNotifications>>
  /\ hasConfig => hasConfig'

LEMMA CallsDisturbNothing ==
  ASSUME TypeOK, [Next]_vars
  PROVE  \/ Undisturbed
         \/ \E t \in Launchers : LaunchRegister(t)
         \/ \E t \in Destroyers : DestroyDeactivate(t)
         \/ DeactivateOutside \/ Notification
  <1>1. ASSUME NEW t \in Launchers, Launch(t), ~LaunchRegister(t) PROVE Undisturbed
    <2>1. CASE LaunchConfig(t)
      BY <2>1 DEF Undisturbed, LaunchConfig, marks, handler
    <2>2. CASE ~LaunchConfig(t)
      <3>1. UNCHANGED <<hasConfig, deactivation, deactivations, gExternalDestroyApplications,
                        gStateNotifications>>
        BY <1>1, <2>2 DEF Launch, LaunchBegin, LaunchFind, LaunchState, LaunchActivate, LaunchRequest,
             LaunchAnnounce, LaunchEnd, thunder, marks, handler
      <3>2. QED
        BY <3>1, Zenon DEF Undisturbed
    <2>3. QED
      BY <2>1, <2>2
  <1>2. ASSUME NEW t \in Suspenders, SuspendBegin(t) \/ SuspendLock(t) \/ Suspend(t)
        PROVE  Undisturbed
    BY <1>2 DEF Undisturbed, SuspendBegin, SuspendLock, Suspend, thunder, marks, handler
  <1>3. ASSUME NEW t \in Destroyers, Destroy(t), ~DestroyDeactivate(t) PROVE Undisturbed
    BY <1>3 DEF Undisturbed, Destroy, DestroyBegin, DestroyWait, DestroyEnd, thunder, marks, handler
  <1>4. CASE ActivateOutside \/ StateChange \/ UNCHANGED vars
    BY <1>4 DEF Undisturbed, ActivateOutside, StateChange, vars, thunder, marks, handler
  <1>5. QED
    BY <1>1, <1>2, <1>3, <1>4 DEF Next

LEMMA NotifyStep ==
  ASSUME TypeOK, TypeOK', CallsAreMarked, NotifyInv, [Next]_vars
  PROVE  NotifyInv'
  <1> USE DEF NotifyInv, HandlerIsLive, DestroyIsNotExternal, DestroyWaits, ExternalMarkLasts
  <1>0. /\ deactivation \in {"none", "flag", "handler", "deinit"} /\ hasConfig \in BOOLEAN
        /\ gExternalDestroyApplications \in BOOLEAN
        /\ deactivations \in Nat /\ call \in [Threads -> Calls] /\ Destroyers \subseteq Threads
    BY BoundsAssumption DEF TypeOK, Threads
  <1>W. (\E u \in Destroyers : call[u].pc = "wait") /\ deactivation # "none"
          => \E u \in Destroyers : call'[u].pc = "wait"
    BY WaitersStay
  <1>1. CASE Undisturbed
    BY <1>1, <1>W DEF Undisturbed
  <1>2. ASSUME NEW t \in Launchers, LaunchRegister(t) PROVE NotifyInv'
    <2>1. ~(\E u \in Destroyers : call[u].pc = "wait")
      BY <1>2 DEF LaunchRegister, CallsAreMarked, Launching, Destroying
    <2>2. /\ UNCHANGED <<deactivation, deactivations, gExternalDestroyApplications, hasConfig>>
          /\ gStateNotifications' \in {gStateNotifications, "none", "live"}
      BY <1>2 DEF LaunchRegister, thunder, marks
    <2>3. QED
      BY <2>1, <2>2, <1>W
  <1>3. ASSUME NEW t \in Destroyers, DestroyDeactivate(t) PROVE NotifyInv'
    <2>1. UNCHANGED <<deactivations, gExternalDestroyApplications, gStateNotifications, hasConfig>>
      BY <1>3 DEF DestroyDeactivate, marks, handler
    <2>2. CASE state = "activated"
      <3>1. Goto(t, "deactivate", "wait") /\ deactivation' = "flag" /\ deactivation = "none"
        BY <1>3, <2>2 DEF DestroyDeactivate, TypeOK
      <3>2. call'[t].pc = "wait"
        BY <3>1, <1>0, GotoPcs, TypeParts DEF PCs
      <3>3. QED
        BY <2>1, <3>1, <3>2
    <2>3. CASE state # "activated"
      <3>1. UNCHANGED deactivation
        BY <1>3, <2>3 DEF DestroyDeactivate
      <3>2. QED
        BY <2>1, <3>1, <1>W
    <2>4. QED
      BY <2>2, <2>3
  <1>4. CASE DeactivateOutside
    <2>1. /\ deactivations' = deactivations + 1 /\ deactivation = "none"
          /\ UNCHANGED <<hasConfig, gExternalDestroyApplications>>
      BY <1>4 DEF DeactivateOutside, marks, TypeOK
    <2>2. QED
      BY <2>1, <1>0
  <1>5. CASE handleDeactivatedFlag
    <2>1. /\ deactivation = "flag" /\ deactivation' = "handler"
          /\ gExternalDestroyApplications' = (gExternalDestroyApplications \/ ~gDestroyApplications)
          /\ UNCHANGED <<hasConfig, deactivations, gStateNotifications>>
      BY <1>5 DEF handleDeactivatedFlag, handler
    <2>2. deactivations = 0 => gDestroyApplications
      BY <2>1 DEF CallsAreMarked, Destroying
    <2>3. DestroyIsNotExternal'
      BY <2>1, <2>2
    <2>4. QED
      BY <2>1, <2>3, <1>W
  <1>6. CASE handleDeactivatedHandler
    <2>1. /\ deactivation = "handler" /\ deactivation' = "deinit" /\ gStateNotifications' = "none"
          /\ UNCHANGED <<hasConfig, deactivations, gExternalDestroyApplications>>
      BY <1>6 DEF handleDeactivatedHandler, marks
    <2>2. QED
      BY <2>1, <1>W
  <1>7. CASE handleDeinitialized
    <2>1. /\ deactivation = "deinit" /\ deactivation' = "none"
          /\ gExternalDestroyApplications' = (gExternalDestroyApplications /\ ~hasConfig)
          /\ gStateNotifications' = IF gStateNotifications = "live" THEN "orphan" ELSE gStateNotifications
          /\ UNCHANGED <<hasConfig, deactivations>>
      BY <1>7 DEF handleDeinitialized
    <2>2. ~gExternalDestroyApplications'
      BY <2>1
    <2>3. QED
      BY <2>1, <2>2
  <1>8. QED
    BY <1>1, <1>2, <1>3, <1>4, <1>5, <1>6, <1>7, CallsDisturbNothing DEF Notification

\* For a plugin that comes with a configuration line, and with one launcher and one
\* destroyer, RDKShell keeps a sound picture of an application across its destroys and its
\* deactivations from outside, for any number of calls, suspends and deactivations.
THEOREM Notifications ==
  ASSUME Configured, \A t, u \in Launchers : t = u, \A t, u \in Destroyers : t = u
  PROVE  Spec => []NotificationsSound
  <1>1. Init => NotifyInv
    BY DEF Init, NotifyInv, HandlerIsLive, DestroyIsNotExternal, DestroyWaits, ExternalMarkLasts
  <1>2. TypeOK /\ TypeOK' /\ CallsAreMarked /\ NotifyInv /\ [Next]_vars => NotifyInv'
    BY NotifyStep
  <1>3. TypeOK /\ NotifyInv => NotificationsSound
    BY DEF TypeOK, NotifyInv, NotificationsSound, HandlerIsLive, DestroyIsNotExternal,
         ExternalMarkIsTrue, ExternalMarkLasts
  <1>4. Spec => []CallsAreMarked
    BY CallsMarked
  <1>5. QED
    BY <1>1, <1>2, <1>3, <1>4, Typing, PTL DEF Spec

\* The call is going to send onLaunched itself, unless it fails.
Announces(c) ==
  \/ c.pc \in {"find", "config", "state", "activate", "register"}
  \/ c.pc = "request" /\ ~(c.defer /\ c.type = "UNKNOWN")
  \/ c.pc = "launched" /\ ~(c.ask /\ c.defer /\ c.type \in {"SUSPEND", "RESUME"})

\* What a launch knows at each of its steps.
LaunchKnows(c) ==
  /\ c.pc \in {"find", "config", "state", "activate", "register"} => ~c.defer
  /\ c.pc \in {"find", "state"} => c.type = "UNKNOWN"
  /\ c.pc = "config" => c.type \in {"UNKNOWN", "CREATE"}
  /\ c.pc = "activate" => c.type \in {"CREATE", "ACTIVATE"}
  /\ c.pc \in {"register", "request"} => c.type \in {"UNKNOWN", "CREATE", "ACTIVATE"}
  /\ c.type = "UNKNOWN" => c.ask

\* A launch that creates or activates the plugin meets no handler of it that is live.
HandlerIsOld(c) ==
  gStateNotifications = "live" =>
    /\ state \in {"activated", "deactivation"}
    /\ c.pc \in {"config", "activate"} /\ c.type # "UNKNOWN" => state = "deactivation"
    /\ c.pc = "register" => c.type = "UNKNOWN"

Due == IF gStateNotifications = "live" /\ mLaunchEnabled THEN 1 ELSE 0
Own(c) == IF Announces(c) THEN 1 ELSE 0

\* Launches announced, the one that the handler has still to announce and the one that
\* the call has still to announce were all called for.
LaunchesCounted(t) ==
  LaunchKnows(call[t]) /\ HandlerIsOld(call[t]) /\ launched + Due + Own(call[t]) <= calls[t]

AnnounceInv == hasConfig /\ \A t \in Launchers : Launchers = {t} => LaunchesCounted(t)

\* Steps of others than the launcher leave its call alone.
LEMMA OthersStay ==
  ASSUME TypeOK, [Next]_vars, NEW t \in Launchers, Launchers = {t}, ~Launch(t)
  PROVE  UNCHANGED <<call[t], calls[t]>>
  <1> CallType /\ CountType
    BY TypeParts
  <1>0. /\ t \in Threads /\ t \notin Suspenders /\ t \notin Destroyers
        /\ Suspenders \subseteq Threads /\ Destroyers \subseteq Threads
    BY ThreadsAssumption DEF Threads
  <1>1. ASSUME NEW u \in Suspenders, SuspendBegin(u) \/ SuspendLock(u) \/ Suspend(u)
        PROVE  UNCHANGED <<call[t], calls[t]>>
    <2>1. u # t /\ u \in Threads
      BY <1>0
    <2>2. QED
      BY <1>0, <1>1, <2>1 DEF SuspendBegin, SuspendLock, Suspend, Begin, Goto, CallType, CountType
  <1>2. ASSUME NEW u \in Destroyers, Destroy(u) PROVE UNCHANGED <<call[t], calls[t]>>
    <2>1. u # t /\ u \in Threads
      BY <1>0
    <2>2. QED
      BY <1>0, <1>2, <2>1 DEF Destroy, DestroyBegin, DestroyDeactivate, DestroyWait, DestroyEnd, Begin, Goto,
           CallType, CountType
  <1>3. CASE ActivateOutside \/ DeactivateOutside \/ Notification \/ StateChange \/ UNCHANGED vars
    BY <1>3 DEF ActivateOutside, DeactivateOutside, Notification, handleDeactivatedFlag,
         handleDeactivatedHandler, handleDeinitialized, StateChange, vars
  <1>4. QED
    BY <1>1, <1>2, <1>3 DEF Next

\* What steps of others do to the handler: they deactivate the plugin, they drop or orphan
\* its handler, or the handler announces what is due.
LEMMA OthersDue ==
  ASSUME TypeOK, [Next]_vars, NEW t \in Launchers, Launchers = {t}, ~Launch(t)
  PROVE  /\ launched' + Due' <= launched + Due
         /\ gStateNotifications' = "live" =>
              /\ gStateNotifications = "live"
              /\ state' = state \/ state' = "deactivation" \/ state = "deactivated"
  <1> USE DEF Due
  <1>0. launched \in Nat /\ Due \in 0 .. 1 /\ Due' \in 0 .. 1
    BY DEF TypeOK
  <1>1. CASE UNCHANGED <<launched, gStateNotifications, mLaunchEnabled, state>>
    BY <1>0, <1>1
  <1>2. ASSUME NEW u \in Suspenders, SuspendBegin(u) \/ SuspendLock(u) \/ Suspend(u)
        PROVE  UNCHANGED <<launched, gStateNotifications, mLaunchEnabled, state>>
    BY <1>2 DEF SuspendBegin, SuspendLock, Suspend, thunder, handler
  <1>3. ASSUME NEW u \in Destroyers, Destroy(u)
        PROVE  /\ UNCHANGED <<launched, gStateNotifications, mLaunchEnabled>>
               /\ state' = state \/ state' = "deactivation"
    BY <1>3 DEF Destroy, DestroyBegin, DestroyDeactivate, DestroyWait, DestroyEnd, thunder, handler
  <1>4. CASE /\ UNCHANGED <<launched, gStateNotifications, mLaunchEnabled>>
             /\ state' = state \/ state' = "deactivation" \/ state = "deactivated"
    BY <1>0, <1>4
  <1>5. ASSUME ActivateOutside \/ DeactivateOutside
        PROVE  /\ UNCHANGED <<launched, gStateNotifications, mLaunchEnabled>>
               /\ state' = state \/ state' = "deactivation" \/ state = "deactivated"
    BY <1>5 DEF ActivateOutside, DeactivateOutside, handler
  <1>6. CASE handleDeactivatedHandler
    BY <1>0, <1>6 DEF handleDeactivatedHandler
  <1>7. CASE handleDeinitialized
    BY <1>0, <1>7 DEF handleDeinitialized
  <1>8. CASE StateChange
    <2>1. CASE gStateNotifications = "live" /\ mLaunchEnabled
      <3>1. launched' = launched + 1 /\ mLaunchEnabled' = FALSE /\ UNCHANGED <<gStateNotifications, state>>
        BY <1>8, <2>1 DEF StateChange
      <3>2. Due = 1 /\ Due' = 0
        BY <2>1, <3>1, Zenon
      <3>3. QED
        BY <1>0, <2>1, <3>1, <3>2
    <2>2. CASE ~(gStateNotifications = "live" /\ mLaunchEnabled)
      BY <1>1, <1>8, <2>2 DEF StateChange
    <2>3. QED
      BY <2>1, <2>2
  <1>9. CASE handleDeactivatedFlag
    BY <1>1, <1>9 DEF handleDeactivatedFlag, handler
  <1>10. CASE UNCHANGED vars
    BY <1>1, <1>10 DEF vars, thunder, handler
  <1>11. QED
    BY <1>1, <1>2, <1>3, <1>4, <1>5, <1>6, <1>7, <1>8, <1>9, <1>10 DEF Next, Notification

LEMMA OwnCounts ==
  ASSUME NEW c
  PROVE  /\ Own(c) \in 0 .. 1
         /\ c.pc \in {"idle", "launchEnd"} => Own(c) = 0
         /\ c.pc \in {"find", "config", "state", "activate", "register"} => Own(c) = 1
         /\ c.pc = "request" /\ c.defer /\ c.type = "UNKNOWN" => Own(c) = 0
         /\ c.pc = "launched" /\ c.ask /\ c.defer /\ c.type \in {"SUSPEND", "RESUME"} => Own(c) = 0
         /\ c.pc = "request" /\ ~(c.defer /\ c.type = "UNKNOWN") => Own(c) = 1
         /\ c.pc = "launched" /\ ~(c.ask /\ c.defer /\ c.type \in {"SUSPEND", "RESUME"}) => Own(c) = 1
  BY DEF Own, Announces

LEMMA AnnounceStep ==
  ASSUME TypeOK, TypeOK', AnnounceInv, [Next]_vars
  PROVE  AnnounceInv'
  <1>1. hasConfig'
    <2>1. Undisturbed => hasConfig'
      BY DEF AnnounceInv, Undisturbed
    <2>2. ASSUME \/ \E t \in Launchers : LaunchRegister(t)
                 \/ \E t \in Destroyers : DestroyDeactivate(t)
                 \/ DeactivateOutside \/ Notification
          PROVE  hasConfig' = hasConfig
      BY <2>2 DEF LaunchRegister, DestroyDeactivate, DeactivateOutside, Notification, handleDeactivatedFlag,
           handleDeactivatedHandler, handleDeinitialized, thunder
    <2>3. Undisturbed \/ hasConfig' = hasConfig
      BY <2>2, CallsDisturbNothing
    <2>4. hasConfig
      BY DEF AnnounceInv
    <2>5. QED
      BY <2>1, <2>3, <2>4, Zenon
  <1> SUFFICES ASSUME NEW t \in Launchers, Launchers = {t} PROVE LaunchesCounted(t)'
    BY <1>1 DEF AnnounceInv
  <1> DEFINE c == call[t]
             d == call'[t]
  <1>2. /\ LaunchKnows(c) /\ HandlerIsOld(c) /\ launched + Due + Own(c) <= calls[t]
        /\ hasConfig
    BY DEF AnnounceInv, LaunchesCounted
  <1>3. /\ launched \in Nat /\ launched' \in Nat /\ calls[t] \in Nat /\ calls'[t] \in Nat
        /\ Due \in 0 .. 1 /\ Due' \in 0 .. 1 /\ Own(c) \in 0 .. 1 /\ Own(d) \in 0 .. 1
        /\ state \in {"absent", "deactivated", "activated", "deactivation"}
        /\ gStateNotifications \in {"none", "live", "orphan"}
    BY OwnCounts, BoundsAssumption DEF TypeOK, Due, Threads
  <1>4. SUFFICES /\ LaunchKnows(d) /\ HandlerIsOld(c)'
                 /\ launched' + Due' + Own(d) <= calls'[t]
    BY DEF LaunchesCounted, LaunchKnows, Own, Announces
  <1>T. CallType /\ CountType /\ t \in Threads
    BY TypeParts DEF Threads
  <1>5. CASE ~Launch(t)
    <2>1. d = c /\ calls'[t] = calls[t]
      BY <1>5, OthersStay
    <2>2. /\ launched' + Due' <= launched + Due
          /\ gStateNotifications' = "live" =>
               /\ gStateNotifications = "live"
               /\ state' = state \/ state' = "deactivation" \/ state = "deactivated"
      BY <1>5, OthersDue
    <2>3. HandlerIsOld(c)'
      BY <1>2, <2>1, <2>2 DEF HandlerIsOld
    <2>4. LaunchKnows(d)
      BY <1>2, <2>1
    <2>5. Own(d) = Own(c)
      BY <2>1
    <2>6. QED
      BY <1>2, <1>3, <2>1, <2>2, <2>3, <2>4, <2>5
  <1>6. ASSUME ~LaunchBegin(t), Launch(t) PROVE calls'[t] = calls[t]
    BY <1>6 DEF Launch, LaunchFind, LaunchConfig, LaunchState, LaunchActivate, LaunchRegister,
         LaunchRequest, LaunchAnnounce, LaunchEnd
  <1>7. ASSUME UNCHANGED <<gStateNotifications, mLaunchEnabled>> PROVE Due' = Due
    BY <1>7 DEF Due
  <1> USE DEF Becomes, MovesTo, GoesIdle
  <1>8. CASE LaunchBegin(t)
    <2>1. call[t] = Idle /\ (GoesIdle(t) \/ Becomes(t, "find", "UNKNOWN", FALSE, TRUE))
      BY <1>8, <1>T, LaunchSteps
    <2>2. calls'[t] = calls[t] + 1 /\ UNCHANGED <<launched, state, gStateNotifications, mLaunchEnabled>>
      BY <1>8, <1>T, BeginCounts DEF LaunchBegin, thunder, handler
    <2>3. Own(c) = 0
      BY <2>1, OwnCounts DEF Idle
    <2>4. LaunchKnows(d)
      BY <2>1 DEF LaunchKnows
    <2>5. HandlerIsOld(c)'
      BY <1>2, <2>1, <2>2 DEF HandlerIsOld
    <2>6. QED
      BY <1>2, <1>3, <1>7, <2>2, <2>3, <2>4, <2>5
  <1>9. CASE LaunchFind(t)
    <2>1. /\ c.pc = "find"
          /\ \/ MovesTo(t, "config") \/ GoesIdle(t)
             \/ (\E ask \in BOOLEAN : Becomes(t, "config", "CREATE", c.defer, ask)) /\ LaunchClone(t)
      BY <1>9, <1>T, LaunchSteps
    <2>2. /\ UNCHANGED <<launched, gStateNotifications, mLaunchEnabled, calls>>
          /\ gStateNotifications = "live" => UNCHANGED state /\ ~LaunchClone(t)
      BY <1>2, <1>9 DEF LaunchFind, LaunchClone, Listed, HandlerIsOld, handler
    <2>3. Own(c) = 1
      BY <2>1, OwnCounts
    <2>4. LaunchKnows(d)
      BY <1>2, <2>1 DEF LaunchKnows
    <2>5. HandlerIsOld(c)'
      BY <1>2, <2>1, <2>2 DEF HandlerIsOld, LaunchKnows
    <2>6. QED
      BY <1>2, <1>3, <1>7, <2>2, <2>3, <2>4, <2>5
  <1>10. CASE LaunchConfig(t)
    <2>1. c.pc = "config" /\ MovesTo(t, IF c.type = "CREATE" THEN "activate" ELSE "state")
      BY <1>10, <1>T, LaunchSteps
    <2>2. UNCHANGED <<launched, gStateNotifications, mLaunchEnabled, calls, state>>
      BY <1>10 DEF LaunchConfig, handler
    <2>3. Own(c) = 1
      BY <2>1, OwnCounts
    <2>4. LaunchKnows(d)
      BY <1>2, <2>1 DEF LaunchKnows
    <2>5. HandlerIsOld(c)'
      BY <1>2, <2>1, <2>2 DEF HandlerIsOld, LaunchKnows
    <2>6. QED
      BY <1>2, <1>3, <1>7, <2>2, <2>3, <2>4, <2>5
  <1>11. CASE LaunchState(t)
    <2>1. /\ c.pc = "state"
          /\ IF state = "activated" THEN MovesTo(t, "register")
             ELSE Becomes(t, "activate", "ACTIVATE", c.defer, c.ask)
      BY <1>11, <1>T, LaunchSteps
    <2>2. UNCHANGED <<launched, gStateNotifications, mLaunchEnabled, calls, state>>
      BY <1>11 DEF LaunchState, handler, thunder
    <2>3. Own(c) = 1
      BY <2>1, OwnCounts
    <2>4. LaunchKnows(d)
      BY <1>2, <2>1 DEF LaunchKnows
    <2>5. HandlerIsOld(c)'
      BY <1>2, <2>1, <2>2 DEF HandlerIsOld, LaunchKnows
    <2>6. QED
      BY <1>2, <1>3, <1>7, <2>2, <2>3, <2>4, <2>5
  <1>12. CASE LaunchActivate(t)
    <2>1. /\ c.pc = "activate"
          /\ \/ MovesTo(t, "register") /\ state \in {"deactivated", "activated"}
             \/ MovesTo(t, "launchEnd") /\ UNCHANGED state
      BY <1>12, <1>T, LaunchSteps
    <2>2. UNCHANGED <<launched, gStateNotifications, mLaunchEnabled, calls>>
      BY <1>12 DEF LaunchActivate, handler
    <2>3. Own(c) = 1
      BY <2>1, OwnCounts
    <2>4. LaunchKnows(d)
      BY <1>2, <2>1 DEF LaunchKnows
    <2>5. HandlerIsOld(c)'
      BY <1>2, <2>1, <2>2 DEF HandlerIsOld, LaunchKnows
    <2>6. QED
      BY <1>2, <1>3, <1>7, <2>2, <2>3, <2>4, <2>5
  <1>13. CASE LaunchRegister(t)
    <2>1. /\ c.pc = "register"
          /\ IF gStateNotifications = "none" THEN MovesTo(t, "request")
             ELSE Becomes(t, "request", c.type, TRUE, c.ask)
      BY <1>13, <1>T, LaunchSteps
    <2>2. UNCHANGED <<launched, calls, state>> /\ Own(c) = 1
      BY <1>13, <2>1, OwnCounts DEF LaunchRegister, thunder
    <2>3. LaunchKnows(d)
      BY <1>2, <2>1 DEF LaunchKnows
    <2>4. HandlerIsOld(c)'
      BY <1>2, <1>13, <2>1, <2>2 DEF HandlerIsOld, LaunchRegister
    <2>5. Due' + Own(d) <= 1
      <3>1. CASE gStateNotifications = "live"
        <4>1. d.pc = "request" /\ d.defer /\ d.type = "UNKNOWN"
          BY <1>2, <2>1, <3>1 DEF HandlerIsOld
        <4>2. Own(d) = 0
          BY <4>1, OwnCounts
        <4>3. Due' \in 0 .. 1
          BY <1>3
        <4>4. \A x \in 0 .. 1, y \in 0 .. 1 : y = 0 => x + y <= 1
          OBVIOUS
        <4>5. Own(d) \in 0 .. 1
          BY <1>3
        <4>6. QED
          BY <4>2, <4>3, <4>4, <4>5, Zenon
      <3>2. CASE gStateNotifications # "live"
        <4>1. Due' = 0
          BY <1>13, <3>2 DEF LaunchRegister, Due
        <4>2. Own(d) <= 1
          BY <1>3
        <4>3. QED
          BY <1>3, <4>1, <4>2
      <3>3. QED
        BY <3>1, <3>2
    <2>6. QED
      BY <1>2, <1>3, <2>2, <2>3, <2>4, <2>5
  <1>14. CASE LaunchRequest(t)
    <2>1. /\ c.pc = "request"
          /\ \E pc \in {"launched", "launchEnd"}, type \in {"SUSPEND", "RESUME"} :
               Becomes(t, pc, IF c.type # "UNKNOWN" \/ ~c.ask THEN c.type ELSE type, c.defer, c.ask)
      BY <1>14, <1>T, LaunchSteps
    <2>2. UNCHANGED <<launched, gStateNotifications, mLaunchEnabled, calls, state>>
      BY <1>14 DEF LaunchRequest, handler
    <2>3. Own(d) <= Own(c)
      <3>1. CASE c.defer /\ c.type = "UNKNOWN"
        <4>1. d.pc \in {"launched", "launchEnd"} /\ d.ask /\ d.defer /\ d.type \in {"SUSPEND", "RESUME"}
          BY <1>2, <2>1, <3>1 DEF LaunchKnows
        <4>2. Own(d) = 0
          BY <4>1, OwnCounts
        <4>3. QED
          BY <1>3, <4>2
      <3>2. CASE ~(c.defer /\ c.type = "UNKNOWN")
        <4>1. Own(c) = 1
          BY <2>1, <3>2, OwnCounts
        <4>2. QED
          BY <1>3, <4>1
      <3>3. QED
        BY <3>1, <3>2
    <2>4. LaunchKnows(d)
      BY <1>2, <2>1 DEF LaunchKnows
    <2>5. HandlerIsOld(c)'
      BY <1>2, <2>1, <2>2 DEF HandlerIsOld, LaunchKnows
    <2>6. QED
      BY <1>2, <1>3, <1>7, <2>2, <2>3, <2>4, <2>5
  <1>15. CASE LaunchAnnounce(t)
    <2>1. c.pc = "launched" /\ MovesTo(t, "launchEnd")
      BY <1>15, <1>T, LaunchSteps
    <2>2. /\ UNCHANGED <<gStateNotifications, mLaunchEnabled, calls, state>>
          /\ launched' = IF c.ask /\ c.defer /\ c.type \in {"SUSPEND", "RESUME"}
                         THEN launched ELSE launched + 1
      BY <1>15 DEF LaunchAnnounce, handler, thunder
    <2>3. launched' = launched + Own(c)
      BY <1>3, <2>1, <2>2, OwnCounts
    <2>4. LaunchKnows(d) /\ Own(d) = 0
      BY <1>2, <2>1, OwnCounts DEF LaunchKnows
    <2>5. HandlerIsOld(c)'
      BY <1>2, <2>1, <2>2 DEF HandlerIsOld
    <2>6. QED
      BY <1>2, <1>3, <1>7, <2>2, <2>3, <2>4, <2>5
  <1>16. CASE LaunchEnd(t)
    <2>1. c.pc = "launchEnd" /\ GoesIdle(t)
      BY <1>16, <1>T, LaunchSteps
    <2>2. UNCHANGED <<launched, gStateNotifications, mLaunchEnabled, calls, state>>
      BY <1>16 DEF LaunchEnd, handler, thunder
    <2>3. LaunchKnows(d) /\ Own(d) = 0
      BY <1>2, <2>1, OwnCounts DEF LaunchKnows
    <2>4. HandlerIsOld(c)'
      BY <1>2, <2>1, <2>2 DEF HandlerIsOld
    <2>5. QED
      BY <1>2, <1>3, <1>7, <2>2, <2>3, <2>4
  <1>17. QED
    BY <1>5, <1>8, <1>9, <1>10, <1>11, <1>12, <1>13, <1>14, <1>15, <1>16 DEF Launch

\* For a plugin that comes with a configuration line, a launcher's launches are announced at
\* most once each, by the launch itself or by the handler that waits for the state change,
\* for any number of launches, suspends, destroys and deactivations from outside.
THEOREM Announcements ==
  ASSUME Configured
  PROVE  Spec => []LaunchesAnnouncedOnce
  <1>1. Init => AnnounceInv
    <2> SUFFICES ASSUME Init PROVE AnnounceInv
      OBVIOUS
    <2>1. ASSUME NEW t \in Launchers PROVE LaunchesCounted(t)
      <3>1. call[t] = Idle /\ calls[t] = 0 /\ Idle.pc = "idle" /\ Idle.ask = TRUE /\ Idle.type = "UNKNOWN"
        BY DEF Init, Threads, Idle
      <3>2. LaunchKnows(call[t]) /\ HandlerIsOld(call[t])
        BY <3>1 DEF LaunchKnows, HandlerIsOld, Init
      <3>3. Due = 0 /\ Own(call[t]) = 0 /\ launched = 0
        BY <3>1, OwnCounts DEF Init, Due
      <3>4. QED
        BY <3>1, <3>2, <3>3 DEF LaunchesCounted
    <2>2. QED
      BY <2>1 DEF AnnounceInv, Init
  <1>2. TypeOK /\ TypeOK' /\ AnnounceInv /\ [Next]_vars => AnnounceInv'
    BY AnnounceStep
  <1>3. TypeOK /\ AnnounceInv => LaunchesAnnouncedOnce
    <2> SUFFICES ASSUME TypeOK, AnnounceInv, NEW t \in Launchers, Launchers = {t} PROVE launched <= calls[t]
      BY DEF LaunchesAnnouncedOnce
    <2>1. launched + Due + Own(call[t]) <= calls[t]
      BY DEF AnnounceInv, LaunchesCounted
    <2>2. launched \in Nat /\ calls[t] \in Nat /\ Due \in 0 .. 1 /\ Own(call[t]) \in 0 .. 1
      BY OwnCounts, BoundsAssumption DEF TypeOK, Due, Threads
    <2>3. QED
      BY <2>1, <2>2
  <1>4. QED
    BY <1>1, <1>2, <1>3, Typing, PTL DEF Spec

==============================================================================
