-------------------------------- MODULE DacApps --------------------------------
(***************************************************************************)
(* Applications that are not plugins: launchApplication, suspendApplication, *)
(* resumeApplication and kill.  A DAC application is a display, a container *)
(* and a Rialto session, which RialtoConnector changes by asking a server  *)
(* and waiting for its notification; a native application is the           *)
(* compositor's.  The server, the container plugin, the compositor and the *)
(* store the bundle is found in are external; each may fail.               *)
(***************************************************************************)
EXTENDS Naturals

CONSTANTS
  DacThreads,
  Clients,
  Dac,          \* the clients that are DAC applications; the others are native
  MaxDacCalls,
  Slow          \* a wait may time out before the server has answered

VARIABLES
  dcall,        \* each thread's call: its step, its client, the state it waits for,
                \* whether the client is also the application's id, and whether it
                \* found the application alone and settled
  display, mime, visible,   \* compositor: clients with a display, a type, visible
  container,    \* each client's: "none", "running" or "paused"
  session,      \* the server's state of each client
  change,       \* the change of it that is under way, or "none"
  appStateMap,  \* what the server has announced
  woken,        \* the waiting threads that were notified
  dcalls,
  last          \* the last call for a client, if it succeeded and was alone

shown == <<display, mime, visible>>
server == <<session, change, appStateMap>>
vars == <<dcall, shown, container, server, woken, dcalls, last>>

States == {"NOT_RUNNING", "INACTIVE", "ACTIVE"}
Free == [pc |-> "idle", client |-> "none", state |-> "ACTIVE", same |-> TRUE, clean |-> FALSE]
Waits == {"launchwait", "suspendwait", "resumewait"}

\* Every call is of its type, and only threads that wait are woken.
TypeOK ==
  /\ \A t \in DacThreads :
       /\ dcall[t].pc = "idle" => dcall[t] = Free
       /\ dcall[t].pc # "idle" => dcall[t].client \in Clients
       /\ t \in woken => dcall[t].pc \in Waits
  /\ display \subseteq Clients /\ mime \subseteq display /\ visible \subseteq display
  /\ container \in [Clients -> {"none", "running", "paused"}]
  /\ session \in [Clients -> States] /\ change \in [Clients -> States \cup {"none"}]
  /\ appStateMap \in [Clients -> States \cup {"ERROR"}]
  /\ dcalls \in 0 .. MaxDacCalls
  /\ last \in [Clients -> {"none", "launched", "suspended", "resumed", "killed"}]

Init ==
  /\ dcall = [t \in DacThreads |-> Free]
  /\ display = {} /\ mime = {} /\ visible = {}
  /\ container = [c \in Clients |-> "none"]
  /\ session = [c \in Clients |-> "NOT_RUNNING"] /\ change = [c \in Clients |-> "none"]
  /\ appStateMap = [c \in Clients |-> "ERROR"]
  /\ woken = {} /\ dcalls = 0 /\ last = [c \in Clients |-> "none"]

------------------------------------------------------------------------------
Client(t) == dcall[t].client

\* A call begins.  What another call for the client has announced no longer holds.
Begin(t, c, pc) ==
  /\ dcall[t] = Free /\ dcalls < MaxDacCalls /\ dcalls' = dcalls + 1
  /\ LET others == {u \in DacThreads : Client(u) = c}
         alone == others = {} /\ change[c] = "none"
     IN  \E same \in BOOLEAN :
           /\ same \/ pc = "display"
           /\ dcall' = [u \in DacThreads |->
                IF u = t THEN [Free EXCEPT !.pc = pc, !.client = c, !.same = same, !.clean = alone]
                ELSE IF u \in others THEN [dcall[u] EXCEPT !.clean = FALSE] ELSE dcall[u]]
  /\ last' = [last EXCEPT ![c] = "none"]

Goto(t, pc) == dcall' = [dcall EXCEPT ![t].pc = pc]
Return(t) == dcall' = [dcall EXCEPT ![t] = Free]
Succeed(t, what) ==
  /\ Return(t)
  /\ last' = IF dcall[t].clean THEN [last EXCEPT ![Client(t)] = what] ELSE last

\* Ask the server for a state, which it may refuse.
Ask(c, state) == change' \in {change, [change EXCEPT ![c] = state]}

suspendSession(c) == IF appStateMap[c] = "ACTIVE" THEN Ask(c, "INACTIVE") ELSE UNCHANGED change
resumeSession(c) == IF appStateMap[c] = "INACTIVE" THEN Ask(c, "ACTIVE") ELSE UNCHANGED change

deactivateSession(c) ==
  IF appStateMap[c] \in {"ACTIVE", "INACTIVE"} THEN Ask(c, "NOT_RUNNING") ELSE UNCHANGED change

\* The announcement is recorded and one of the threads that wait is woken,
\* whatever it waits for.
stateChanged(c, state) ==
  /\ appStateMap' = [appStateMap EXCEPT ![c] = state]
  /\ LET waiting == {t \in DacThreads : dcall[t].pc \in Waits} \ woken
     IN  IF waiting = {} THEN UNCHANGED woken ELSE \E t \in waiting : woken' = woken \cup {t}

\* The server changes a session's state and announces it.
SessionChanges(c) ==
  /\ change[c] # "none"
  /\ session' = [session EXCEPT ![c] = change[c]] /\ change' = [change EXCEPT ![c] = "none"]
  /\ stateChanged(c, change[c])
  /\ UNCHANGED <<dcall, shown, container, dcalls, last>>

\* The state that a wait looks for, under the name it looks for it.
IsSet(t) == dcall[t].same /\ appStateMap[Client(t)] = dcall[t].state

\* Mutant of WaitFor: the state there is now is good enough.
WaitForAny(t, wait, next, state) == dcall' = [dcall EXCEPT ![t].pc = next, ![t].state = state]

\* The first look of waitForStateChange, which waits if the state is another.
WaitFor(t, wait, next, state) ==
  dcall' = [dcall EXCEPT ![t].state = state,
              ![t].pc = IF dcall[t].same /\ appStateMap'[Client(t)] = state THEN next ELSE wait]

\* A thread that was woken looks again; it goes on or waits again.
Woken(t, wait, next) ==
  /\ dcall[t].pc = wait /\ t \in woken /\ woken' = woken \ {t}
  /\ Goto(t, IF IsSet(t) THEN next ELSE wait)
  /\ UNCHANGED <<shown, container, server, dcalls, last>>

\* The time is over: the call fails, and what it has done so far stays.
TimesOut(t) ==
  /\ dcall[t].pc \in Waits /\ t \notin woken /\ Return(t)
  /\ Slow \/ change[Client(t)] = "none"
  /\ UNCHANGED <<shown, container, server, woken, dcalls, last>>

------------------------------------------------------------------------------
(***************************************************************************)
(* launchApplication.                                                      *)
(***************************************************************************)
LaunchBegin(t, c) ==
  /\ Begin(t, c, IF c \in Dac THEN "display" ELSE "native")
  /\ UNCHANGED <<shown, container, server, woken>>

\* A bundle, a display, and its type, without which it goes on all the same.
LaunchDisplay(t) ==
  /\ dcall[t].pc = "display"
  /\ \/ Return(t) /\ UNCHANGED shown
     \/ /\ Client(t) \notin display /\ Goto(t, "session")
        /\ display' = display \cup {Client(t)} /\ visible' = visible \cup {Client(t)}
        /\ mime' \in {mime, mime \cup {Client(t)}}
  /\ UNCHANGED <<container, server, woken, dcalls, last>>

\* createAppSession under the client's name, and the wait under the application's
\* id.  A failure leaves the display.
LaunchSession(t) ==
  /\ dcall[t].pc = "session" /\ UNCHANGED appStateMap
  /\ \/ Return(t) /\ UNCHANGED change
     \/ /\ session[Client(t)] = "NOT_RUNNING"
        /\ Ask(Client(t), "ACTIVE") /\ WaitFor(t, "launchwait", "container", "ACTIVE")
  /\ UNCHANGED <<shown, container, session, woken, dcalls, last>>

\* startContainer; if that fails the display and the session go, if there is no
\* container plugin only the session does.
LaunchContainer(t) ==
  /\ dcall[t].pc = "container"
  /\ LET c == Client(t) IN
     \/ /\ container[c] = "none" /\ container' = [container EXCEPT ![c] = "running"]
        /\ Succeed(t, "launched") /\ UNCHANGED <<shown, change>>
     \/ /\ Return(t) /\ deactivateSession(c) /\ UNCHANGED <<container, last>>
        /\ \/ UNCHANGED shown
           \/ display' = display \ {c} /\ mime' = mime \ {c} /\ visible' = visible \ {c}
  /\ UNCHANGED <<session, appStateMap, woken, dcalls>>

\* The compositor starts a native application and its display.
LaunchNative(t) ==
  /\ dcall[t].pc = "native"
  /\ LET c == Client(t) IN
     \/ Return(t) /\ UNCHANGED <<shown, container, last>>
     \/ /\ c \notin display /\ display' = display \cup {c} /\ mime' = mime \cup {c}
        /\ visible' = visible \cup {c} /\ container' = [container EXCEPT ![c] = "running"]
        /\ Succeed(t, "launched")
  /\ UNCHANGED <<server, woken, dcalls>>

------------------------------------------------------------------------------
(***************************************************************************)
(* suspendApplication and resumeApplication.                               *)
(***************************************************************************)
SuspendBegin(t, c) ==
  /\ Begin(t, c, "suspend") /\ UNCHANGED <<shown, container, server, woken>>
ResumeBegin(t, c) ==
  /\ Begin(t, c, "resume") /\ UNCHANGED <<shown, container, server, woken>>

\* Whether a native application could be suspended or resumed is forgotten.
NativeStep(t, to) ==
  /\ Client(t) \notin Dac /\ Goto(t, IF to = "paused" THEN "hide" ELSE "show")
  /\ container' \in {container, [container EXCEPT ![Client(t)] = IF @ = "none" THEN @ ELSE to]}

SuspendContainer(t) ==
  /\ dcall[t].pc = "suspend"
  /\ LET c == Client(t) IN
     \/ Return(t) /\ UNCHANGED container
     \/ c \in mime /\ NativeStep(t, "paused")
     \/ /\ c \in mime \cap Dac /\ container[c] = "running" /\ Goto(t, "suspendsession")
        /\ container' = [container EXCEPT ![c] = "paused"]
  /\ UNCHANGED <<shown, server, woken, dcalls, last>>

SuspendSession(t) ==
  /\ dcall[t].pc = "suspendsession" /\ suspendSession(Client(t)) /\ UNCHANGED appStateMap
  /\ WaitFor(t, "suspendwait", "hide", "INACTIVE")
  /\ UNCHANGED <<shown, container, session, woken, dcalls, last>>

ResumeSession(t) ==
  /\ dcall[t].pc = "resume" /\ UNCHANGED appStateMap
  /\ \/ Return(t) /\ UNCHANGED <<container, change>>
     \/ Client(t) \in mime /\ NativeStep(t, "running") /\ UNCHANGED change
     \/ /\ Client(t) \in mime \cap Dac /\ resumeSession(Client(t))
        /\ WaitFor(t, "resumewait", "resumecontainer", "ACTIVE") /\ UNCHANGED container
  /\ UNCHANGED <<shown, session, woken, dcalls, last>>

ResumeContainer(t) ==
  /\ dcall[t].pc = "resumecontainer"
  /\ \/ Return(t) /\ UNCHANGED container
     \/ /\ container[Client(t)] = "paused" /\ Goto(t, "show")
        /\ container' = [container EXCEPT ![Client(t)] = "running"]
  /\ UNCHANGED <<shown, server, woken, dcalls, last>>

setVisibility(c, on) == visible' = IF on THEN visible \cup {c} ELSE visible \ {c}

\* The call succeeds if the client can be hidden or shown.
Hide(t, pc, what) ==
  /\ dcall[t].pc = pc
  /\ \/ Return(t) /\ UNCHANGED <<visible, last>>
     \/ Client(t) \in display /\ setVisibility(Client(t), pc = "show") /\ Succeed(t, what)
  /\ UNCHANGED <<display, mime, container, server, woken, dcalls>>

------------------------------------------------------------------------------
\* kill reads the type while the client still has one, then the display goes.
Kill(t, c) ==
  /\ Begin(t, c, IF c \in mime \cap Dac THEN "stop" ELSE "killed")
  /\ c \in display
  /\ display' = display \ {c} /\ mime' = mime \ {c} /\ visible' = visible \ {c}
  /\ container' = IF c \in Dac THEN container ELSE [container EXCEPT ![c] = "none"]
  /\ UNCHANGED <<server, woken>>

\* Stop a container there is, by force if it is paused, and its session with it;
\* the session goes too if the container could not be stopped.
KillContainer(t) ==
  /\ dcall[t].pc = "stop"
  /\ LET c == Client(t) IN
     \/ Return(t) /\ UNCHANGED <<container, change, last>>
     \/ container[c] = "none" /\ Succeed(t, "killed") /\ UNCHANGED <<container, change>>
     \/ container[c] # "none" /\ Return(t) /\ deactivateSession(c) /\ UNCHANGED <<container, last>>
     \/ /\ container[c] # "none" /\ Succeed(t, "killed") /\ deactivateSession(c)
        /\ container' = [container EXCEPT ![c] = "none"]
  /\ UNCHANGED <<shown, session, appStateMap, woken, dcalls>>

\* A client without a type has no container that kill would know of.
KillReturn(t) ==
  /\ dcall[t].pc = "killed" /\ Return(t)
  /\ UNCHANGED <<shown, container, server, woken, dcalls, last>>

Next ==
  \/ \E c \in Clients : SessionChanges(c)
  \/ \E t \in DacThreads :
       \/ \E c \in Clients : LaunchBegin(t, c) \/ SuspendBegin(t, c) \/ ResumeBegin(t, c) \/ Kill(t, c)
       \/ LaunchDisplay(t) \/ LaunchSession(t) \/ LaunchContainer(t) \/ LaunchNative(t)
       \/ SuspendContainer(t) \/ SuspendSession(t) \/ ResumeSession(t) \/ ResumeContainer(t)
       \/ Hide(t, "hide", "suspended") \/ Hide(t, "show", "resumed")
       \/ Woken(t, "launchwait", "container") \/ Woken(t, "suspendwait", "hide")
       \/ Woken(t, "resumewait", "resumecontainer")
       \/ TimesOut(t) \/ KillContainer(t) \/ KillReturn(t)

Spec == Init /\ [][Next]_vars

------------------------------------------------------------------------------
\* What a successful call says of a DAC application is so, whatever the calls
\* before it have failed at: its container, its session and its display are all
\* in the state asked for, and stay so until the next call.  Excluded are calls
\* for one client at the same time and a call made while the server is still busy
\* with a change that an earlier call gave up waiting for.
AnswerIsTrue ==
  \A c \in Dac :
    /\ last[c] \in {"launched", "resumed"} =>
         container[c] = "running" /\ session[c] = "ACTIVE" /\ c \in display
    /\ last[c] = "resumed" => c \in visible
    /\ last[c] = "suspended" => container[c] = "paused" /\ session[c] = "INACTIVE" /\ c \notin visible
    /\ last[c] = "killed" => container[c] = "none" /\ c \notin display

\* What the comment on waitForStateChange says: it does not fail once the state
\* it waits for is set.
WaitTellsTruth ==
  [][\A t \in DacThreads : dcall[t].pc \in Waits /\ dcall'[t] = Free => ~IsSet(t)]_vars
================================================================================
