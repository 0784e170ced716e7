-------------------------- MODULE ShellServicesProofs --------------------------
(***************************************************************************)
(* Proofs about the services of RDKShell as MCShellServices composes them. *)
(* Whatever callers mix, the screen shows what was asked for last, and a   *)
(* screenshot nothing older than its request (FrameRequests); a device     *)
(* that is awake shows its application (PowerEvents); and the factory      *)
(* application is decided on before graphical plugins may start (Boot).    *)
(***************************************************************************)
EXTENDS MCShellServices, TLAPS

--------------------------------------------------------------------------------
(***************************************************************************)
(* FrameRequests.                                                          *)
(***************************************************************************)


\* What is shown of an item once the next frame is over.
Due(i) == IF pending[i] # 0 THEN pending[i] ELSE shown[i].at

\* A request that waits for a frame is the last call about its item, unless the item
\* was hidden since.
PendingIsLast ==
  \A i \in FR!Items \ overtaken : pending[i] # 0 => last[i] = [on |-> TRUE, at |-> pending[i]]

\* While a screenshot is due, the next frame shows what it has to show.
ScreenshotIsDue == needsScreenshot => \A i \in FR!Items : wanted[i] <= Due(i)

FrameInv == FR!ScreenAsAsked /\ PendingIsLast /\ ScreenshotIsDue

LEMMA FrameInit == ASSUME MaxScreenCalls \in Nat, FR!Init PROVE FrameInv
  <1>1. FR!TypeOK
    <2>1. needsScreenshot \in BOOLEAN
      BY Zenon DEF FR!Init
    <2>2. FR!Nothing \in [FR!Items -> [on : BOOLEAN, at : 0 .. 0]]
      BY DEF FR!Nothing
    <2>3. QED
      BY <2>1, <2>2 DEF FR!Init, FR!TypeOK
  <1>2. FR!ShownAsAsked /\ FR!ScreenshotIsRecent
    BY DEF FR!Init, FR!ShownAsAsked, FR!ScreenshotIsRecent
  <1>3. PendingIsLast /\ ScreenshotIsDue
    BY DEF FR!Init, PendingIsLast, ScreenshotIsDue
  <1>4. QED
    BY <1>1, <1>2, <1>3 DEF FrameInv, FR!ScreenAsAsked

\* A call is counted: what was in 0 .. calls stays so.
LEMMA CalledCounts ==
  ASSUME MaxScreenCalls \in Nat, calls \in 0 .. MaxScreenCalls, FR!Called
  PROVE  /\ calls' \in 0 .. MaxScreenCalls /\ calls' \in Nat /\ calls' # 0
         /\ \A n \in 0 .. calls : n \in 0 .. calls' /\ n <= calls'
         /\ calls' \in 0 .. calls'
  BY DEF FR!Called

\* Functions into 0 .. calls, and what is shown, are still such after a call.
LEMMA TypesGrow ==
  ASSUME MaxScreenCalls \in Nat, calls \in 0 .. MaxScreenCalls, FR!Called
  PROVE  /\ [FR!Items -> 0 .. calls] \subseteq [FR!Items -> 0 .. calls']
         /\ [FR!Items -> [on : BOOLEAN, at : 0 .. calls]] \subseteq [FR!Items -> [on : BOOLEAN, at : 0 .. calls']]
  BY CalledCounts

LEMMA RequestKeeps ==
  ASSUME MaxScreenCalls \in Nat, FrameInv, NEW i \in FR!Items, FR!Request(i)
  PROVE  FrameInv'
  <1> USE DEF FrameInv, FR!ScreenAsAsked
  <1>0. FR!Called
    BY DEF FR!Request
  <1>1. FR!TypeOK'
    <2>1. pending' \in [FR!Items -> 0 .. calls'] /\ last' \in [FR!Items -> [on : BOOLEAN, at : 0 .. calls']]
      BY <1>0, CalledCounts, TypesGrow DEF FR!TypeOK, FR!Request
    <2>2. QED
      BY <1>0, <2>1, CalledCounts, TypesGrow DEF FR!TypeOK, FR!Request
  <1>2. FR!ShownAsAsked' /\ PendingIsLast'
    BY <1>0, CalledCounts DEF FR!Request, FR!TypeOK, FR!ShownAsAsked, PendingIsLast
  <1>3. FR!ScreenshotIsRecent'
    BY DEF FR!Request, FR!ScreenshotIsRecent
  <1>4. ScreenshotIsDue'
    BY <1>0, CalledCounts DEF FR!Request, FR!TypeOK, ScreenshotIsDue, Due
  <1>5. QED
    BY <1>1, <1>2, <1>3, <1>4

LEMMA HideKeeps ==
  ASSUME MaxScreenCalls \in Nat, FrameInv, NEW i \in FR!Items, FR!Hide(i)
  PROVE  FrameInv'
  <1> USE DEF FrameInv, FR!ScreenAsAsked
  <1>0. FR!Called
    BY DEF FR!Hide
  <1>1. FR!TypeOK'
    <2>1. shown' \in [FR!Items -> [on : BOOLEAN, at : 0 .. calls']] /\ last' \in [FR!Items -> [on : BOOLEAN, at : 0 .. calls']]
      BY <1>0, CalledCounts, TypesGrow DEF FR!TypeOK, FR!Hide
    <2>2. QED
      BY <1>0, <2>1, CalledCounts, TypesGrow DEF FR!TypeOK, FR!Hide
  <1>2. FR!ShownAsAsked' /\ PendingIsLast'
    BY <1>0, CalledCounts DEF FR!Hide, FR!TypeOK, FR!ShownAsAsked, PendingIsLast
  <1>3. FR!ScreenshotIsRecent'
    BY DEF FR!Hide, FR!ScreenshotIsRecent
  <1>4. ScreenshotIsDue'
    BY <1>0, CalledCounts DEF FR!Hide, FR!TypeOK, ScreenshotIsDue, Due
  <1>5. QED
    BY <1>1, <1>2, <1>3, <1>4

LEMMA ScreenshotKeeps ==
  ASSUME MaxScreenCalls \in Nat, FrameInv, FR!getScreenshot
  PROVE  FrameInv'
  <1> USE DEF FrameInv, FR!ScreenAsAsked
  <1>0. FR!Called
    BY DEF FR!getScreenshot
  <1>1. FR!TypeOK'
    <2>1. wanted' \in [FR!Items -> 0 .. calls]
      BY DEF FR!TypeOK, FR!getScreenshot
    <2>2. QED
      BY <1>0, <2>1, CalledCounts, TypesGrow DEF FR!TypeOK, FR!getScreenshot
  <1>2. FR!ShownAsAsked' /\ PendingIsLast'
    BY DEF FR!getScreenshot, FR!ShownAsAsked, PendingIsLast
  <1>3. FR!ScreenshotIsRecent' /\ ScreenshotIsDue'
    BY DEF FR!getScreenshot, FR!TypeOK, FR!ScreenshotIsRecent, ScreenshotIsDue, Due
  <1>4. QED
    BY <1>1, <1>2, <1>3

LEMMA FrameKeeps ==
  ASSUME MaxScreenCalls \in Nat, FrameInv, FR!Frame
  PROVE  FrameInv'
  <1> USE DEF FrameInv, FR!ScreenAsAsked
  <1>1. FR!TypeOK'
    <2>1. shown' \in [FR!Items -> [on : BOOLEAN, at : 0 .. calls]]
      BY DEF FR!TypeOK, FR!Frame, FR!Applied
    <2>2. picture' \in [FR!Items -> 0 .. calls] /\ pending' \in [FR!Items -> 0 .. calls]
      BY <2>1 DEF FR!TypeOK, FR!Frame
    <2>3. QED
      BY <2>1, <2>2 DEF FR!TypeOK, FR!Frame
  <1>2. FR!ShownAsAsked' /\ PendingIsLast'
    BY DEF FR!Frame, FR!Applied, FR!ShownAsAsked, PendingIsLast
  <1>3. \A i \in FR!Items : shown'[i].at = Due(i)
    BY DEF FR!Frame, FR!Applied, Due
  <1>4. FR!ScreenshotIsRecent' /\ ScreenshotIsDue'
    <2>1. CASE needsScreenshot
      BY <1>3, <2>1 DEF FR!Frame, FR!TypeOK, Due, FR!ScreenshotIsRecent, ScreenshotIsDue
    <2>2. CASE ~needsScreenshot
      BY <2>2 DEF FR!Frame, FR!ScreenshotIsRecent, ScreenshotIsDue
    <2>3. QED
      BY <2>1, <2>2
  <1>5. QED
    BY <1>1, <1>2, <1>4

LEMMA FramesKeep ==
  ASSUME MaxScreenCalls \in Nat, FrameInv, FR!Next \/ UNCHANGED frameVars
  PROVE  FrameInv'
  <1>0. {"resolution", "image", "watermark", "splash"} = FR!Items
    BY DEF FR!Items
  <1>1. ASSUME NEW i \in FR!Items, FR!Request(i) \/ FR!Hide(i) PROVE FrameInv'
    BY <1>1, RequestKeeps, HideKeeps
  <1>2. ASSUME NEW enable \in BOOLEAN, FR!showWatermark(enable) PROVE FrameInv'
    BY <1>0, <1>1, <1>2 DEF FR!showWatermark
  <1>3. CASE FR!setScreenResolution \/ FR!showFullScreenImage \/ FR!hideFullScreenImage
             \/ FR!showSplashLogo \/ FR!hideSplashLogo
    BY <1>0, <1>1, <1>3
    DEF FR!setScreenResolution, FR!showFullScreenImage, FR!hideFullScreenImage, FR!showSplashLogo,
        FR!hideSplashLogo
  <1>4. ASSUME NEW framerate \in Framerates, FR!setGraphicsFrameRate(framerate) PROVE FrameInv'
    <2> USE DEF FrameInv, FR!ScreenAsAsked
    <2>1. FR!Called
      BY <1>4 DEF FR!setGraphicsFrameRate
    <2>2. FR!TypeOK'
      BY <1>4, <2>1, CalledCounts, TypesGrow DEF FR!TypeOK, FR!setGraphicsFrameRate
    <2>3. QED
      BY <1>4, <2>2 DEF FR!setGraphicsFrameRate, FR!ShownAsAsked, PendingIsLast, FR!ScreenshotIsRecent,
           ScreenshotIsDue, Due
  <1>5. CASE FR!FrameTime
    <2> USE DEF FrameInv, FR!ScreenAsAsked
    <2>1. FR!TypeOK'
      BY <1>5 DEF FR!TypeOK, FR!FrameTime
    <2>2. QED
      BY <1>5, <2>1 DEF FR!FrameTime, FR!ShownAsAsked, PendingIsLast, FR!ScreenshotIsRecent,
           ScreenshotIsDue, Due
  <1>6. CASE UNCHANGED frameVars
    BY <1>6 DEF frameVars, FrameInv, FR!ScreenAsAsked, FR!TypeOK, FR!ShownAsAsked, PendingIsLast,
         FR!ScreenshotIsRecent, ScreenshotIsDue, Due
  <1>7. QED
    BY <1>2, <1>3, <1>4, <1>5, <1>6, ScreenshotKeeps, FrameKeeps DEF FR!Next

\* The screen shows what was asked for last, and a screenshot nothing older than its
\* request, for any number of calls and whatever rates they ask for.
THEOREM ScreenIsAsAsked ==
  ASSUME MaxScreenCalls \in Nat
  PROVE  ServicesSpec => []ScreenAsAsked
  <1>1. ServicesInit => FrameInv
    BY FrameInit DEF ServicesInit
  <1>2. FrameInv /\ [ServicesNext]_<<focus, vars, bootVars, powerVars, frameVars>> => FrameInv'
    <2>1. [ServicesNext]_<<focus, vars, bootVars, powerVars, frameVars>> => FR!Next \/ UNCHANGED frameVars
      BY DEF ServicesNext
    <2>2. QED
      BY <2>1, FramesKeep
  <1>3. FrameInv => ScreenAsAsked
    BY DEF FrameInv, ScreenAsAsked
  <1>4. QED
    BY <1>1, <1>2, <1>3, PTL DEF ServicesSpec

--------------------------------------------------------------------------------
(***************************************************************************)
(* Boot.                                                                   *)
(***************************************************************************)

\* The subsystem is set only when the decision cannot be made any more, and the shell
\* thread is about to request the launch only when it is decided and set.
DecidedInv ==
  /\ BT!TypeOK /\ BT!RequestedOnce
  /\ graphics => bshell \in {"launch", "loop"} /\ (boot.wait => sPersistentStoreWaitProcessed)
  /\ bshell = "start" => ~sFactoryModeStart
  /\ bshell = "launch" => graphics /\ sFactoryModeStart

\* A decision is one for the factory application or not.
LEMMA DecisionType ==
  ASSUME Boots \subseteq BT!AllBoots, boot \in Boots, NEW seen \in BOOLEAN,
         NEW launch \in BT!checkForBootupFactoryAppLaunch(seen)
  PROVE  launch \in BOOLEAN /\ boot.mac \in BOOLEAN
  <1>1. boot.aging \in BOOLEAN /\ boot.mode \in BOOLEAN /\ boot.mac \in BOOLEAN
    BY DEF BT!AllBoots
  <1>2. PICK agingRead \in BOOLEAN, modeRead \in BOOLEAN :
          launch = (seen /\ ((boot.aging /\ agingRead) \/ (boot.mode /\ modeRead)))
    BY DEF BT!checkForBootupFactoryAppLaunch
  <1>3. launch \in BOOLEAN
    BY <1>2, Zenon
  <1>4. QED
    BY <1>1, <1>3

\* Where a decision leads, made while there was none.
LEMMA DecideLeads ==
  ASSUME sFactoryModeStart = FALSE, NEW launch \in BOOLEAN, BT!Decide(launch)
  PROVE  /\ sFactoryModeStart' \in BOOLEAN
         /\ bshell' = "decided" \/ (bshell' = "loop" /\ sFactoryModeStart' = FALSE)
         /\ boot.subSystems => bshell' = "decided"
  <1>1. CASE boot.subSystems
    <2>1. sFactoryModeStart' = (sFactoryModeStart \/ launch) /\ bshell' = "decided"
      BY <1>1 DEF BT!Decide
    <2>2. sFactoryModeStart' \in BOOLEAN
      BY <2>1, Zenon
    <2>3. QED
      BY <2>1, <2>2
  <1>2. CASE ~boot.subSystems
    BY <1>2 DEF BT!Decide
  <1>3. QED
    BY <1>1, <1>2

LEMMA StartKeeps ==
  ASSUME Boots \subseteq BT!AllBoots, DecidedInv, BT!ShellStart
  PROVE  DecidedInv' /\ (graphics => UNCHANGED sFactoryModeStart)
  <1>1. /\ UNCHANGED <<boot, store, sPersistentStoreFirstActivated, sPersistentStoreWaitProcessed,
                       sPersistentStorePreLaunchChecked, graphics, launches>>
        /\ bshell = "start" /\ ~graphics /\ launches = 0
        /\ sFactoryModeStart = FALSE
    BY DEF BT!ShellStart, BT!flags, DecidedInv, BT!TypeOK, BT!RequestedOnce
  <1>2. /\ sFactoryModeStart' \in BOOLEAN
        /\ bshell' = "decided" \/ (bshell' = "loop" /\ sFactoryModeStart' = FALSE)
    <2>1. CASE boot.wait
      BY <1>1, <2>1 DEF BT!ShellStart
    <2>2. CASE ~boot.wait
      <3>1. PICK launch \in BT!checkForBootupFactoryAppLaunch(sPersistentStoreFirstActivated) :
              BT!Decide(boot.mac \/ launch)
        BY <2>2 DEF BT!ShellStart
      <3>2. launch \in BOOLEAN /\ boot.mac \in BOOLEAN
        BY <3>1, DecisionType DEF DecidedInv, BT!TypeOK
      <3>3. (boot.mac \/ launch) \in BOOLEAN
        BY Zenon
      <3>4. QED
        BY <1>1, <3>1, <3>3, DecideLeads
    <2>3. QED
      BY <2>1, <2>2
  <1>3. BT!TypeOK'
    BY <1>1, <1>2 DEF DecidedInv, BT!TypeOK, BT!ShellStates
  <1>4. BT!RequestedOnce'
    BY <1>1, <1>2 DEF BT!RequestedOnce
  <1>5. QED
    BY <1>1, <1>2, <1>3, <1>4 DEF DecidedInv

LEMMA SetGraphicsKeeps ==
  ASSUME DecidedInv, BT!SetGraphics
  PROVE  DecidedInv' /\ UNCHANGED sFactoryModeStart
  <1>1. /\ UNCHANGED <<boot, store, sPersistentStoreFirstActivated, sPersistentStorePreLaunchChecked,
                       sFactoryModeStart, launches>>
        /\ bshell = "decided" /\ graphics' = TRUE /\ launches = 0
        /\ bshell' = IF sFactoryModeStart THEN "launch" ELSE "loop"
    BY DEF BT!SetGraphics, DecidedInv, BT!RequestedOnce
  <1>2. /\ sPersistentStoreWaitProcessed' \in BOOLEAN
        /\ boot.wait => sPersistentStoreWaitProcessed'
    BY Zenon DEF BT!SetGraphics
  <1>3. BT!TypeOK'
    BY <1>1, <1>2 DEF DecidedInv, BT!TypeOK, BT!ShellStates
  <1>4. BT!RequestedOnce'
    BY <1>1 DEF BT!RequestedOnce
  <1>5. QED
    BY <1>1, <1>2, <1>3, <1>4 DEF DecidedInv

LEMMA FrameLooks ==
  ASSUME Boots \subseteq BT!AllBoots, DecidedInv, BT!Frame
  PROVE  DecidedInv' /\ (graphics => UNCHANGED sFactoryModeStart)
  <1>1. bshell = "loop" /\ UNCHANGED <<boot, store, graphics, launches>> /\ BT!PreLaunchCheck
    BY DEF BT!Frame
  <1>2. sPersistentStorePreLaunchChecked' \in BOOLEAN
    BY <1>1, Zenon DEF BT!PreLaunchCheck
  <1>3. sPersistentStoreFirstActivated' \in BOOLEAN
    <2>1. PICK active \in BOOLEAN :
            sPersistentStoreFirstActivated' =
              (sPersistentStoreFirstActivated \/ (~sPersistentStorePreLaunchChecked /\ active))
      <3>1. (IF store = "absent" THEN BOOLEAN ELSE {store # "off"}) \subseteq BOOLEAN
        BY Zenon
      <3>2. QED
        BY <1>1, <3>1, Zenon DEF BT!PreLaunchCheck
    <2>2. QED
      BY <2>1, Zenon
  <1>4. CASE boot.wait /\ ~sPersistentStoreWaitProcessed /\ sPersistentStoreFirstActivated'
    <2>1. ~graphics /\ launches = 0 /\ sFactoryModeStart = FALSE
      BY <1>1, <1>4 DEF DecidedInv, BT!TypeOK, BT!RequestedOnce
    <2>2. PICK launch \in BT!checkForBootupFactoryAppLaunch(TRUE) :
            BT!Decide(launch) /\ sPersistentStoreWaitProcessed' = ~boot.subSystems
      BY <1>4 DEF BT!Frame, BT!WaitOver
    <2>3. launch \in BOOLEAN
      BY <2>2, DecisionType DEF DecidedInv, BT!TypeOK
    <2>4. /\ sFactoryModeStart' \in BOOLEAN
          /\ bshell' = "decided" \/ (bshell' = "loop" /\ sFactoryModeStart' = FALSE)
      BY <2>1, <2>2, <2>3, DecideLeads
    <2>5. sPersistentStoreWaitProcessed' \in BOOLEAN
      BY <2>2, Zenon
    <2>6. BT!TypeOK'
      BY <1>1, <1>2, <1>3, <2>4, <2>5 DEF DecidedInv, BT!TypeOK, BT!ShellStates
    <2>7. BT!RequestedOnce'
      BY <1>1, <2>1, <2>4 DEF BT!RequestedOnce
    <2>8. QED
      BY <1>1, <2>1, <2>4, <2>6, <2>7 DEF DecidedInv
  <1>5. CASE ~(boot.wait /\ ~sPersistentStoreWaitProcessed /\ sPersistentStoreFirstActivated')
    <2>1. UNCHANGED <<bshell, sFactoryModeStart, sPersistentStoreWaitProcessed>>
      BY <1>5 DEF BT!Frame
    <2>2. BT!TypeOK'
      BY <1>1, <1>2, <1>3, <2>1 DEF DecidedInv, BT!TypeOK
    <2>3. QED
      BY <1>1, <2>1, <2>2 DEF DecidedInv, BT!RequestedOnce
  <1>6. QED
    BY <1>4, <1>5

LEMMA BootKeeps ==
  ASSUME Boots \subseteq BT!AllBoots, DecidedInv, BT!Next \/ UNCHANGED bootVars
  PROVE  DecidedInv' /\ (graphics => UNCHANGED sFactoryModeStart)
  <1>1. CASE BT!RequestLaunch
    <2>1. launches = 0 /\ launches' = 1 /\ bshell' = "loop"
      BY <1>1 DEF BT!RequestLaunch, DecidedInv, BT!RequestedOnce
    <2>2. QED
      BY <1>1, <2>1 DEF BT!RequestLaunch, BT!flags, DecidedInv, BT!TypeOK, BT!ShellStates, BT!RequestedOnce
  <1>2. CASE BT!StoreActivates \/ UNCHANGED bootVars
    BY <1>2 DEF BT!StoreActivates, DecidedInv, BT!TypeOK, BT!RequestedOnce, BT!flags, BT!decision, bootVars
  <1>3. CASE BT!HandleActivated
    <2>1. sPersistentStoreFirstActivated' \in BOOLEAN
      BY <1>3, Zenon DEF BT!HandleActivated
    <2>2. QED
      BY <1>3, <2>1 DEF BT!HandleActivated, DecidedInv, BT!TypeOK, BT!RequestedOnce, BT!decision
  <1>4. QED
    BY <1>1, <1>2, <1>3, StartKeeps, SetGraphicsKeeps, FrameLooks DEF BT!Next, BT!Shell

LEMMA BootInit == ASSUME BT!Init, BT!TypeOK PROVE DecidedInv
  BY DEF BT!Init, DecidedInv, BT!RequestedOnce

LEMMA BootInitType == ASSUME Boots \subseteq BT!AllBoots, BT!Init PROVE BT!TypeOK
  <1>1. /\ sPersistentStoreFirstActivated \in BOOLEAN /\ sPersistentStoreWaitProcessed \in BOOLEAN
        /\ sPersistentStorePreLaunchChecked \in BOOLEAN /\ sFactoryModeStart \in BOOLEAN
        /\ graphics \in BOOLEAN
    BY Zenon DEF BT!Init
  <1>2. boot \in Boots /\ store \in {"absent", "off", "on"} /\ bshell = "start" /\ launches = 0
    BY DEF BT!Init, BT!AllBoots
  <1>3. QED
    BY <1>1, <1>2 DEF BT!TypeOK, BT!ShellStates

\* Once the subsystem is set that lets graphical plugins start, the factory mode does not
\* change; and the factory application is requested once, in that mode only and not before
\* the subsystem is set, in every situation a device may start in.
THEOREM Decided ==
  ASSUME Boots \subseteq BT!AllBoots
  PROVE  ServicesSpec => BT!DecidedBeforeGraphics /\ []BT!RequestedOnce
  <1> DEFINE now == <<focus, vars, bootVars, powerVars, frameVars>>
             Fixed == graphics => UNCHANGED sFactoryModeStart
  <1>1. ServicesInit => DecidedInv
    BY BootInit, BootInitType DEF ServicesInit
  <1>2. [ServicesNext]_now => BT!Next \/ UNCHANGED bootVars
    BY DEF ServicesNext
  <1>3. DecidedInv /\ [ServicesNext]_now => DecidedInv'
    BY <1>2, BootKeeps
  <1>4. DecidedInv /\ [ServicesNext]_now => [Fixed]_BT!vars
    BY <1>2, BootKeeps
  <1>5. DecidedInv => BT!RequestedOnce
    BY DEF DecidedInv
  <1>6. QED
    BY <1>1, <1>3, <1>4, <1>5, PTL DEF ServicesSpec, BT!DecidedBeforeGraphics

--------------------------------------------------------------------------------
(***************************************************************************)
(* PowerEvents.                                                            *)
(***************************************************************************)

Requests == {"show", "launchResidentApp"}

\* Once the thread has been in subscribeForSystemEvent, and once anybody has subscribed,
\* somebody listens unless the subscription is lost.
SubscriptionKnown ==
  /\ at["thread"] # "idle" => system
  /\ gSystemServiceEventsSubscribed => lost \/ gSystemServiceConnection = "listening"
  /\ at["thread"] \in {"read", "show", "done"} => lost \/ gSystemServiceConnection = "listening"

\* The last event not yet handled is about the power state that the device has, unless a
\* later change was not seen.
EventsAreFresh ==
  events # <<>> => /\ lost \/ gSystemServiceConnection = "listening"
                   /\ ~unseen => events[Len(events)] = power

\* A device that is on shows the application, or is about to, and nothing hides it.
ShowIsDue ==
  power = "ON" /\ at["thread"] = "done" /\ events = <<>> /\ ~unseen /\ ~praced
    => "launchResidentApp" \notin asked /\ (visible \/ "show" \in asked)

PowerInv == PW!TypeOK /\ SubscriptionKnown /\ EventsAreFresh /\ ShowIsDue

Places == {"idle", "look", "connect", "subscribe", "read", "show", "done"}

\* Asking for something.
LEMMA AskType ==
  ASSUME PW!TypeOK, NEW r \in Requests, PW!Ask(r)
  PROVE  /\ asked' \subseteq Requests /\ praced' \in BOOLEAN
         /\ asked' = asked \cup {r}
         /\ praced' = (praced \/ (r = "show" /\ "launchResidentApp" \in asked))
  <1>1. praced' \in BOOLEAN
    BY Zenon DEF PW!Ask
  <1>2. asked' \subseteq Requests
    BY DEF PW!Ask, PW!TypeOK, Requests
  <1>3. QED
    BY <1>1, <1>2 DEF PW!Ask

\* A change of the power state that the System plugin tells of.
LEMMA ChangeKeeps ==
  ASSUME MaxChanges \in Nat, PowerInv, NEW to \in {"ON", "STANDBY"}, PW!Change(to),
         UNCHANGED <<system, at, m_timer, gSystemServiceConnection, gSystemServiceEventsSubscribed, down,
                     asked, factory, visible, lost, praced>>,
         key' \in {"none", "ON", "STANDBY"}, keys' = keys
  PROVE  PowerInv'
  <1>1. changes' \in 0 .. MaxChanges /\ power' = to
    BY DEF PW!Change, PowerInv, PW!TypeOK
  <1>2. CASE gSystemServiceConnection = "listening"
    <2>1. events' = Append(events, to) /\ events \in Seq({"ON", "STANDBY"}) /\ unseen' = FALSE
      BY <1>2 DEF PW!Change, PowerInv, PW!TypeOK
    <2>2. events' \in Seq({"ON", "STANDBY"}) /\ events' # <<>> /\ events'[Len(events')] = to
      BY <2>1
    <2>3. PW!TypeOK'
      BY <1>1, <2>1, <2>2 DEF PowerInv, PW!TypeOK
    <2>4. QED
      BY <1>1, <1>2, <2>2, <2>3 DEF PowerInv, SubscriptionKnown, EventsAreFresh, ShowIsDue
  <1>3. CASE gSystemServiceConnection # "listening"
    <2>1. events' = events /\ unseen' = (unseen \/ lost)
      BY <1>3 DEF PW!Change
    <2>2. unseen' \in BOOLEAN /\ (lost => unseen')
      BY <2>1, Zenon
    <2>3. PW!TypeOK'
      BY <1>1, <2>1, <2>2 DEF PowerInv, PW!TypeOK
    <2>4. QED
      BY <1>1, <1>3, <2>1, <2>2, <2>3 DEF PowerInv, SubscriptionKnown, EventsAreFresh, ShowIsDue
  <1>4. QED
    BY <1>2, <1>3

\* A caller goes on: the thread to its look at the state, the others not there.
LEMMA Moves ==
  ASSUME PW!TypeOK, NEW c \in PW!Callers, NEW pc \in Places, PW!Goto(c, pc)
  PROVE  /\ at' \in [PW!Callers -> Places]
         /\ at'["thread"] = IF c = "thread" THEN pc ELSE at["thread"]
  BY DEF PW!Goto, PW!TypeOK, PW!Callers, Places

LEMMA Returns ==
  ASSUME PW!TypeOK, NEW c \in PW!Callers, NEW succeeded \in BOOLEAN, PW!Return(c, succeeded)
  PROVE  /\ at' \in [PW!Callers -> Places] /\ m_timer' \in BOOLEAN
         /\ at'["thread"] = IF c = "thread" THEN "read" ELSE at["thread"]
  <1> DEFINE pc == IF c = "thread" THEN "read" ELSE IF c = "timer" THEN "idle" ELSE "done"
  <1>1. PW!Goto(c, pc) /\ pc \in Places
    BY DEF PW!Return, Places
  <1>2. m_timer' \in BOOLEAN
    BY Zenon DEF PW!Return
  <1>3. c = "thread" => pc = "read"
    OBVIOUS
  <1> HIDE DEF pc
  <1>4. QED
    BY <1>1, <1>2, <1>3, Moves

LEMMA Proceeds ==
  ASSUME PW!TypeOK, NEW c \in PW!Callers, PW!Proceed(c)
  PROVE  /\ at' \in [PW!Callers -> Places] /\ m_timer' \in BOOLEAN
         /\ c # "thread" => at'["thread"] = at["thread"]
         /\ c = "thread" => \/ at'["thread"] = "subscribe"
                            \/ at'["thread"] = "read" /\ gSystemServiceEventsSubscribed
  <1>1. CASE gSystemServiceEventsSubscribed
    BY <1>1, Returns DEF PW!Proceed
  <1>2. CASE ~gSystemServiceEventsSubscribed
    BY <1>2, Moves DEF PW!Proceed, Places, PW!TypeOK
  <1>3. QED
    BY <1>1, <1>2

\* The connection that was there is gone.
LEMMA Replaced ==
  ASSUME PW!TypeOK, NEW c \in PW!Callers, NEW new \in {"none", "idle"}, PW!Replace(c, new)
  PROVE  /\ gSystemServiceConnection' = new
         /\ {lost', unseen', down'} \subseteq BOOLEAN
         /\ lost \/ gSystemServiceConnection = "listening" \/ new = "none" => lost'
         /\ events' = events \/ events' = <<>>
         /\ unseen \/ events' # events => unseen'
         /\ events' = events => unseen' = unseen
  <1>1. lost' = (lost \/ new = "none" \/ gSystemServiceConnection = "listening")
        /\ unseen' = (unseen \/ events' # events)
    BY DEF PW!Replace
  <1>2. lost' \in BOOLEAN /\ unseen' \in BOOLEAN
    BY <1>1, Zenon
  <1>3. down' \in BOOLEAN
    <2>1. CASE \E d \in PW!Callers \ {c} : at[d] = "subscribe" /\ gSystemServiceConnection # "none"
      BY <2>1 DEF PW!Replace
    <2>2. CASE ~\E d \in PW!Callers \ {c} : at[d] = "subscribe" /\ gSystemServiceConnection # "none"
      BY <2>2 DEF PW!Replace
    <2>3. QED
      BY <2>1, <2>2
  <1>4. gSystemServiceConnection' = new /\ (events' = events \/ events' = <<>>)
    BY DEF PW!Replace
  <1>5. events' = events => unseen' = unseen
    <2>1. unseen \in BOOLEAN
      BY DEF PW!TypeOK
    <2>2. QED
      BY <1>1, <2>1, Zenon
  <1>6. unseen \/ events' # events => unseen'
    BY <1>1, Zenon
  <1>7. lost \/ gSystemServiceConnection = "listening" \/ new = "none" => lost'
    BY <1>1, Zenon
  <1>8. QED
    BY <1>2, <1>3, <1>4, <1>5, <1>6, <1>7

\* Replacing the connection keeps what the events and the requests are about, wherever
\* the caller goes from there.
LEMMA ReplaceKeeps ==
  ASSUME PowerInv, NEW c \in PW!Callers, NEW new \in {"none", "idle"}, PW!Replace(c, new),
         UNCHANGED <<power, system, gSystemServiceEventsSubscribed, asked, factory, visible, key, keys,
                     changes, praced>>,
         at' \in [PW!Callers -> Places], m_timer' \in BOOLEAN, at["thread"] # "idle" \/ c # "thread",
         c # "thread" => at'["thread"] = at["thread"],
         c = "thread" => \/ at'["thread"] = "subscribe"
                         \/ at'["thread"] = "read" /\ (new = "none" \/ gSystemServiceEventsSubscribed)
  PROVE  PowerInv'
  <1>1. /\ gSystemServiceConnection' = new
        /\ {lost', unseen', down'} \subseteq BOOLEAN
        /\ lost \/ gSystemServiceConnection = "listening" \/ new = "none" => lost'
        /\ events' = events \/ events' = <<>>
        /\ unseen \/ events' # events => unseen'
        /\ events' = events => unseen' = unseen
    BY Replaced DEF PowerInv
  <1>2. events' \in Seq({"ON", "STANDBY"})
    <2>1. events \in Seq({"ON", "STANDBY"}) /\ <<>> \in Seq({"ON", "STANDBY"})
      BY DEF PowerInv, PW!TypeOK
    <2>2. QED
      BY <1>1, <2>1
  <1>3. PW!TypeOK'
    BY <1>1, <1>2 DEF PowerInv, PW!TypeOK, Places
  <1>4. SubscriptionKnown'
    BY <1>1 DEF PowerInv, SubscriptionKnown
  <1>5. EventsAreFresh'
    BY <1>1 DEF PowerInv, EventsAreFresh
  <1>6. ShowIsDue'
    BY <1>1 DEF PowerInv, ShowIsDue
  <1>7. QED
    BY <1>3, <1>4, <1>5, <1>6 DEF PowerInv

\* The three callers on their way through subscribeForSystemEvent.
LEMMA CallersKeep ==
  ASSUME PowerInv, NEW c \in PW!Callers, PW!Look(c) \/ PW!Connect(c) \/ PW!Subscribe(c)
  PROVE  PowerInv'
  <1> USE DEF PW!link
  <1>1. CASE PW!Look(c)
    <2>1. /\ UNCHANGED <<power, system, gSystemServiceConnection, gSystemServiceEventsSubscribed, down,
                         events, asked, factory, visible, key, keys, changes, lost, unseen, praced>>
          /\ at[c] = "look"
      BY <1>1 DEF PW!Look
    <2>2. /\ at' \in [PW!Callers -> Places] /\ m_timer' \in BOOLEAN
          /\ c # "thread" => at'["thread"] = at["thread"]
          /\ c = "thread" => \/ at'["thread"] \in {"subscribe", "connect"}
                             \/ at'["thread"] = "read" /\ gSystemServiceEventsSubscribed
      <3>1. CASE gSystemServiceConnection # "none"
        BY <1>1, <3>1, Proceeds DEF PW!Look, PowerInv
      <3>2. CASE gSystemServiceConnection = "none" /\ system
        <4>1. PW!Goto(c, "connect") /\ UNCHANGED m_timer
          BY <1>1, <3>2 DEF PW!Look
        <4>2. QED
          BY <4>1, Moves DEF PowerInv, PW!TypeOK, Places
      <3>3. CASE gSystemServiceConnection = "none" /\ ~system
        <4>1. PW!Return(c, FALSE) /\ c # "thread"
          BY <1>1, <2>1, <3>3 DEF PW!Look, PowerInv, SubscriptionKnown
        <4>2. QED
          BY <4>1, Returns DEF PowerInv
      <3>4. QED
        BY <3>1, <3>2, <3>3
    <2>3. PW!TypeOK'
      BY <2>1, <2>2 DEF PowerInv, PW!TypeOK, Places
    <2>4. QED
      BY <2>1, <2>2, <2>3 DEF PowerInv, SubscriptionKnown, EventsAreFresh, ShowIsDue
  <1>2. CASE PW!Connect(c)
    <2>1. /\ PW!Replace(c, "idle") /\ PW!Proceed(c) /\ at[c] = "connect"
          /\ UNCHANGED <<power, system, gSystemServiceEventsSubscribed, asked, factory, visible, key, keys,
                         changes, praced>>
      BY <1>2 DEF PW!Connect
    <2>2. /\ at' \in [PW!Callers -> Places] /\ m_timer' \in BOOLEAN
          /\ c # "thread" => at'["thread"] = at["thread"]
          /\ c = "thread" => \/ at'["thread"] = "subscribe"
                             \/ at'["thread"] = "read" /\ gSystemServiceEventsSubscribed
      BY <2>1, Proceeds DEF PowerInv
    <2>3. QED
      BY <2>1, <2>2, ReplaceKeeps
  <1>3. CASE PW!Subscribe(c)
    <2>1. /\ at[c] = "subscribe"
          /\ UNCHANGED <<power, system, asked, factory, visible, key, keys, changes, praced>>
      BY <1>3 DEF PW!Subscribe
    <2>2. CASE /\ PW!Return(c, TRUE)
               /\ gSystemServiceConnection' = "listening" /\ gSystemServiceEventsSubscribed' = TRUE
               /\ lost' = FALSE /\ UNCHANGED <<down, events, unseen>>
      <3>1. /\ at' \in [PW!Callers -> Places] /\ m_timer' \in BOOLEAN
            /\ at'["thread"] = IF c = "thread" THEN "read" ELSE at["thread"]
        BY <2>2, Returns DEF PowerInv
      <3>2. gSystemServiceEventsSubscribed' \in BOOLEAN /\ lost' \in BOOLEAN
            /\ gSystemServiceEventsSubscribed'
        BY <2>2, Zenon
      <3>3. PW!TypeOK'
        BY <2>1, <2>2, <3>1, <3>2 DEF PowerInv, PW!TypeOK, Places
      <3>4. QED
        BY <2>1, <2>2, <3>1, <3>3 DEF PowerInv, SubscriptionKnown, EventsAreFresh, ShowIsDue
    <2>3. CASE PW!Return(c, FALSE) /\ PW!Replace(c, "none") /\ UNCHANGED gSystemServiceEventsSubscribed
      <3>1. /\ at' \in [PW!Callers -> Places] /\ m_timer' \in BOOLEAN
            /\ at'["thread"] = IF c = "thread" THEN "read" ELSE at["thread"]
        BY <2>3, Returns DEF PowerInv
      <3>2. QED
        BY <2>1, <2>3, <3>1, ReplaceKeeps
    <2>4. CASE down' = TRUE /\ UNCHANGED <<at, m_timer, gSystemServiceConnection,
                                          gSystemServiceEventsSubscribed, events, lost, unseen>>
      <3>1. down' \in BOOLEAN
        BY <2>4, Zenon
      <3>2. PW!TypeOK'
        BY <2>1, <2>4, <3>1 DEF PowerInv, PW!TypeOK
      <3>3. QED
        BY <2>1, <2>4, <3>2 DEF PowerInv, SubscriptionKnown, EventsAreFresh, ShowIsDue
    <2>5. QED
      BY <1>3, <2>2, <2>3, <2>4 DEF PW!Subscribe
  <1>4. QED
    BY <1>1, <1>2, <1>3

\* What starts the callers, the thread's look at the state and the request that follows.
LEMMA SubscriberKeeps ==
  ASSUME PowerInv,
         \/ PW!HandleActivated \/ PW!onTimer \/ PW!launchFactoryApp \/ PW!ReadPower \/ PW!ShowOn
  PROVE  PowerInv'
  <1> USE DEF PW!link
  <1>0. "thread" \in PW!Callers /\ "timer" \in PW!Callers /\ "factory" \in PW!Callers
    BY DEF PW!Callers
  <1>1. CASE PW!HandleActivated
    <2>1. system' \in BOOLEAN /\ system'
      BY <1>1, Zenon DEF PW!HandleActivated
    <2>2. at' \in [PW!Callers -> Places] /\ at'["thread"] = "look"
      BY <1>0, <1>1, Moves DEF PW!HandleActivated, PowerInv, Places
    <2>3. PW!TypeOK'
      BY <1>1, <2>1, <2>2 DEF PW!HandleActivated, PowerInv, PW!TypeOK, Places
    <2>4. QED
      BY <1>1, <2>1, <2>2, <2>3
      DEF PW!HandleActivated, PowerInv, SubscriptionKnown, EventsAreFresh, ShowIsDue
  <1>2. CASE PW!onTimer \/ PW!launchFactoryApp
    <2>1. /\ UNCHANGED <<power, system, gSystemServiceConnection, gSystemServiceEventsSubscribed, down,
                         events, asked, factory, visible, key, keys, changes, lost, unseen, praced>>
          /\ m_timer' \in BOOLEAN
      <3>1. CASE PW!onTimer
        <4>1. m_timer' = FALSE \/ m_timer' = m_timer
          BY <3>1 DEF PW!onTimer
        <4>2. m_timer' \in BOOLEAN
          BY <4>1 DEF PowerInv, PW!TypeOK
        <4>3. QED
          BY <3>1, <4>2 DEF PW!onTimer
      <3>2. CASE PW!launchFactoryApp
        BY <3>2 DEF PW!launchFactoryApp, PowerInv, PW!TypeOK
      <3>3. QED
        BY <1>2, <3>1, <3>2
    <2>2. at' \in [PW!Callers -> Places] /\ at'["thread"] = at["thread"]
      <3>1. ASSUME NEW c \in {"timer", "factory"}, PW!Goto(c, "look")
            PROVE  at' \in [PW!Callers -> Places] /\ at'["thread"] = at["thread"]
        BY <1>0, <3>1, Moves DEF PowerInv, Places
      <3>2. PW!Goto("timer", "look") \/ PW!Goto("factory", "look") \/ at' = at
        BY <1>2 DEF PW!onTimer, PW!launchFactoryApp
      <3>3. QED
        BY <3>1, <3>2 DEF PowerInv, PW!TypeOK, Places
    <2>3. PW!TypeOK'
      BY <2>1, <2>2 DEF PowerInv, PW!TypeOK, Places
    <2>4. QED
      BY <2>1, <2>2, <2>3 DEF PowerInv, SubscriptionKnown, EventsAreFresh, ShowIsDue
  <1>3. CASE PW!ReadPower
    <2>1. /\ UNCHANGED <<power, system, m_timer, gSystemServiceConnection, gSystemServiceEventsSubscribed,
                         down, events, asked, factory, visible, key, keys, changes, lost, praced>>
          /\ at["thread"] = "read"
      BY <1>3 DEF PW!ReadPower
    <2>2. /\ unseen' \in BOOLEAN
          /\ \/ /\ unseen /\ events # <<>> => unseen'
                /\ PW!Goto("thread", IF power = "ON" THEN "show" ELSE "done")
             \/ unseen' /\ PW!Goto("thread", "done")
      <3>1. CASE unseen' = (unseen /\ events # <<>>)
                 /\ PW!Goto("thread", IF power = "ON" THEN "show" ELSE "done")
        <4>1. unseen' \in BOOLEAN
          BY <3>1, Zenon
        <4>2. unseen /\ events # <<>> => unseen'
          BY <3>1, Zenon
        <4>3. QED
          BY <3>1, <4>1, <4>2, Zenon
      <3>2. CASE unseen' = TRUE /\ PW!Goto("thread", "done")
        BY <3>2
      <3>3. QED
        BY <1>3, <3>1, <3>2 DEF PW!ReadPower
    <2>3. /\ at' \in [PW!Callers -> Places] /\ at'["thread"] \in {"show", "done"}
          /\ at'["thread"] = "done" /\ ~unseen' => power # "ON"
      <3>1. CASE PW!Goto("thread", IF power = "ON" THEN "show" ELSE "done")
        BY <1>0, <3>1, Moves DEF PowerInv, Places
      <3>2. CASE unseen' /\ PW!Goto("thread", "done")
        BY <1>0, <3>2, Moves DEF PowerInv, Places
      <3>3. QED
        BY <2>2, <3>1, <3>2
    <2>4. unseen /\ events # <<>> => unseen'
      BY <2>2
    <2>5. PW!TypeOK'
      BY <2>1, <2>2, <2>3 DEF PowerInv, PW!TypeOK, Places
    <2>6. SubscriptionKnown'
      BY <2>1, <2>3 DEF PowerInv, SubscriptionKnown
    <2>7. EventsAreFresh' /\ ShowIsDue'
      BY <2>1, <2>3, <2>4 DEF PowerInv, EventsAreFresh, ShowIsDue
    <2>8. QED
      BY <2>5, <2>6, <2>7 DEF PowerInv
  <1>4. CASE PW!ShowOn
    <2>1. /\ asked' \subseteq Requests /\ praced' \in BOOLEAN /\ asked' = asked \cup {"show"}
          /\ praced' = (praced \/ "launchResidentApp" \in asked)
      BY <1>4, AskType DEF PW!ShowOn, PowerInv, Requests
    <2>2. at' \in [PW!Callers -> Places] /\ at'["thread"] = "done"
      BY <1>0, <1>4, Moves DEF PW!ShowOn, PowerInv, Places
    <2>3. PW!TypeOK'
      BY <1>4, <2>1, <2>2 DEF PW!ShowOn, PowerInv, PW!TypeOK, Requests, Places
    <2>4. QED
      BY <1>4, <2>1, <2>2, <2>3 DEF PW!ShowOn, PowerInv, SubscriptionKnown, EventsAreFresh, ShowIsDue
  <1>5. QED
    BY <1>1, <1>2, <1>3, <1>4

\* An event: when it is the last one, it is about the state that the device has.
LEMMA HandlerKeeps ==
  ASSUME PowerInv, PW!pluginEventHandler
  PROVE  PowerInv'
  <1>1. events \in Seq({"ON", "STANDBY"}) /\ events # <<>> /\ events' = Tail(events)
    BY DEF PW!pluginEventHandler, PowerInv, PW!TypeOK
  <1>2. /\ events' \in Seq({"ON", "STANDBY"}) /\ events[1] \in {"ON", "STANDBY"}
        /\ events' # <<>> => events'[Len(events')] = events[Len(events)]
        /\ events' = <<>> => events[Len(events)] = events[1]
    BY <1>1
  <1> DEFINE r == IF Head(events) = "ON" THEN "show" ELSE "launchResidentApp"
  <1>3. r \in Requests /\ PW!Ask(r)
    BY DEF PW!pluginEventHandler, Requests
  <1>4. /\ asked' \subseteq Requests /\ praced' \in BOOLEAN /\ asked' = asked \cup {r}
        /\ praced' = (praced \/ (r = "show" /\ "launchResidentApp" \in asked))
    <2> HIDE DEF r
    <2>1. QED
      BY <1>3, AskType DEF PowerInv
  <1>5. UNCHANGED <<power, system, at, m_timer, gSystemServiceConnection, gSystemServiceEventsSubscribed,
                    down, factory, visible, key, keys, changes, lost, unseen>>
    BY DEF PW!pluginEventHandler, PW!link
  <1>6. PW!TypeOK'
    BY <1>2, <1>4, <1>5 DEF PowerInv, PW!TypeOK, Requests
  <1>7. SubscriptionKnown' /\ EventsAreFresh'
    BY <1>1, <1>2, <1>5 DEF PowerInv, SubscriptionKnown, EventsAreFresh
  <1>8. ShowIsDue'
    <2> SUFFICES ASSUME power = "ON", events' = <<>>, ~unseen, ~praced'
                 PROVE  "launchResidentApp" \notin asked' /\ "show" \in asked'
      BY <1>5 DEF ShowIsDue
    <2>1. Head(events) = "ON"
      BY <1>1, <1>2 DEF PowerInv, EventsAreFresh
    <2>2. QED
      BY <1>4, <2>1
  <1>9. QED
    BY <1>6, <1>7, <1>8 DEF PowerInv

LEMMA ExecuteKeeps ==
  ASSUME PowerInv, NEW r \in Requests, PW!Execute(r)
  PROVE  PowerInv'
  <1>1. asked' = asked \ {r} /\ r \in asked
    BY DEF PW!Execute
  <1>2. UNCHANGED <<power, system, at, m_timer, gSystemServiceConnection, gSystemServiceEventsSubscribed,
                    down, events, key, keys, changes, lost, unseen, praced>>
    BY DEF PW!Execute, PW!link
  <1>3. visible' \in BOOLEAN /\ factory' \in BOOLEAN
    <2>0. visible \in BOOLEAN /\ factory \in BOOLEAN
      BY DEF PowerInv, PW!TypeOK
    <2>1. CASE visible' = TRUE /\ UNCHANGED factory
      BY <2>0, <2>1, Zenon
    <2>2. CASE factory' = FALSE /\ visible' = (visible /\ ~factory)
      BY <2>0, <2>2, Zenon
    <2>3. CASE UNCHANGED <<factory, visible>>
      BY <2>0, <2>3
    <2>4. QED
      BY <2>1, <2>2, <2>3 DEF PW!Execute
  <1>4. PW!TypeOK'
    BY <1>1, <1>2, <1>3 DEF PowerInv, PW!TypeOK
  <1>5. SubscriptionKnown' /\ EventsAreFresh'
    BY <1>2 DEF PowerInv, SubscriptionKnown, EventsAreFresh
  <1>6. ShowIsDue'
    <2> SUFFICES ASSUME power = "ON", at["thread"] = "done", events = <<>>, ~unseen, ~praced
                 PROVE  "launchResidentApp" \notin asked' /\ (visible' \/ "show" \in asked')
      BY <1>2 DEF ShowIsDue
    <2>1. "launchResidentApp" \notin asked
      BY DEF PowerInv, ShowIsDue
    <2>2. r = "show"
      BY <1>1, <2>1 DEF Requests
    <2>3. QED
      BY <1>1, <2>1, <2>2 DEF PW!Execute
  <1>7. QED
    BY <1>4, <1>5, <1>6 DEF PowerInv

LEMMA KeyKeeps ==
  ASSUME MaxChanges \in Nat, MaxKeys \in Nat, PowerInv, PW!onPowerKey \/ PW!PowerKeySets
  PROVE  PowerInv'
  <1>1. CASE PW!onPowerKey
    <2>1. keys' \in 0 .. MaxKeys /\ key' \in {"none", "ON", "STANDBY"}
      BY <1>1 DEF PW!onPowerKey, PowerInv, PW!TypeOK
    <2>2. PW!TypeOK'
      BY <1>1, <2>1 DEF PW!onPowerKey, PW!link, PowerInv, PW!TypeOK
    <2>3. QED
      BY <1>1, <2>2 DEF PW!onPowerKey, PW!link, PowerInv, SubscriptionKnown, EventsAreFresh, ShowIsDue
  <1>2. CASE PW!PowerKeySets
    <2> DEFINE to == IF key = "ON" THEN "STANDBY" ELSE "ON"
    <2>1. to \in {"ON", "STANDBY"}
      OBVIOUS
    <2>2. /\ UNCHANGED <<system, at, m_timer, gSystemServiceConnection, gSystemServiceEventsSubscribed,
                         down, asked, factory, visible, keys, lost, praced>>
          /\ key' = "none"
          /\ PW!Change(to) \/ UNCHANGED <<power, events, changes, unseen>>
      BY <1>2 DEF PW!PowerKeySets, PW!link
    <2>3. CASE PW!Change(to)
      <3> HIDE DEF to
      <3>1. QED
        BY <2>1, <2>2, <2>3, ChangeKeeps
    <2>4. CASE UNCHANGED <<power, events, changes, unseen>>
      <3>1. PW!TypeOK'
        BY <2>2, <2>4 DEF PowerInv, PW!TypeOK
      <3>2. QED
        BY <2>2, <2>4, <3>1 DEF PowerInv, SubscriptionKnown, EventsAreFresh, ShowIsDue
    <2>5. QED
      BY <2>2, <2>3, <2>4
  <1>3. QED
    BY <1>1, <1>2

LEMMA PowerKeeps ==
  ASSUME MaxChanges \in Nat, MaxKeys \in Nat, PowerInv, PW!Next \/ UNCHANGED powerVars
  PROVE  PowerInv'
  <1>1. CASE PW!PowerChanges
    <2>1. PICK to \in {"ON", "STANDBY"} : PW!Change(to)
      BY <1>1 DEF PW!PowerChanges
    <2>2. key' \in {"none", "ON", "STANDBY"}
      BY <1>1 DEF PW!PowerChanges, PowerInv, PW!TypeOK
    <2>3. QED
      BY <1>1, <2>1, <2>2, ChangeKeeps DEF PW!PowerChanges, PW!link
  <1>2. CASE UNCHANGED powerVars
    <2>1. PW!TypeOK'
      BY <1>2 DEF powerVars, PowerInv, PW!TypeOK
    <2>2. QED
      BY <1>2, <2>1 DEF powerVars, PowerInv, SubscriptionKnown, EventsAreFresh, ShowIsDue
  <1>3. QED
    BY <1>1, <1>2, SubscriberKeeps, CallersKeep, HandlerKeeps, ExecuteKeeps, KeyKeeps
    DEF PW!Next, Requests

LEMMA PowerInit ==
  ASSUME MaxChanges \in Nat, MaxKeys \in Nat, PW!Init
  PROVE  PowerInv
  <1>1. {system, factory, m_timer, gSystemServiceEventsSubscribed, down, lost, unseen, praced}
          \subseteq BOOLEAN
    BY Zenon DEF PW!Init
  <1>2. visible \in BOOLEAN /\ ~gSystemServiceEventsSubscribed
    BY Zenon DEF PW!Init
  <1>3. at \in [PW!Callers -> Places] /\ at["thread"] = "idle"
    BY DEF PW!Init, PW!Callers, Places
  <1>4. PW!TypeOK
    BY <1>1, <1>2, <1>3 DEF PW!Init, PW!TypeOK, Places
  <1>5. QED
    BY <1>2, <1>3, <1>4 DEF PW!Init, PowerInv, SubscriptionKnown, EventsAreFresh, ShowIsDue

\* When nothing is under way a device that is on shows its application, for any number of
\* changes of the power state and presses of the power key, whichever of them fall between
\* the activation of the System plugin, RDKShell's subscription and its look at the state,
\* and however the thread, the timer and launchFactoryApp meet in subscribeForSystemEvent;
\* but for a last change that came when a subscription had failed or been dropped, or that
\* the look failed to see, and a wake-up overtaken by the request to hide.
THEOREM AwakeShown ==
  ASSUME MaxChanges \in Nat, MaxKeys \in Nat, Boots \subseteq BT!AllBoots
  PROVE  ServicesSpec => []AwakeIsShown
  <1> DEFINE now == <<focus, vars, bootVars, powerVars, frameVars>>
  <1>1. ServicesInit => PowerInv /\ DecidedInv
    BY PowerInit, BootInit, BootInitType DEF ServicesInit
  <1>2. PowerInv /\ DecidedInv /\ [ServicesNext]_now => PowerInv' /\ DecidedInv'
    <2>1. [ServicesNext]_now => PW!Next \/ UNCHANGED powerVars
      BY DEF ServicesNext
    <2>2. [ServicesNext]_now => BT!Next \/ UNCHANGED bootVars
      BY DEF ServicesNext
    <2>3. QED
      BY <2>1, <2>2, PowerKeeps, BootKeeps
  <1>3. PowerInv /\ DecidedInv => AwakeIsShown
    BY DEF PowerInv, ShowIsDue, DecidedInv, AwakeIsShown, PW!AwakeIsShown
  <1>4. QED
    BY <1>1, <1>2, <1>3, PTL DEF ServicesSpec

================================================================================
