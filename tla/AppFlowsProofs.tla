---------------------------- MODULE AppFlowsProofs ----------------------------
(***************************************************************************)
(* Proofs about the flows of applications as MCAppFlows composes them: the *)
(* geometry of clients (Geometry), for any number of callers, clients and  *)
(* calls, focus and hibernation (Hibernation), for any threads and         *)
(* applications, the answers about applications that are not plugins       *)
(* (DacApps), for any threads, clients and calls, and the factory and the  *)
(* resident application (FactoryMode), for any threads, calls and          *)
(* activations.                                                            *)
(***************************************************************************)
EXTENDS MCAppFlows, Integers, FiniteSetTheorems, SequenceTheorems, TLAPS

-------------------------------------------------------------------------------
(***************************************************************************)
(* Geometry.                                                               *)
(***************************************************************************)


\* A call between its two sections.
Changes ==
  [pc : GE!Kinds, client : Displays, halves : SUBSET GE!Halves, seen : [GE!Halves -> -1 .. made],
   values : [GE!Halves -> -1 .. made]]

\* The values that a call was given are numbers of calls.
ChangeType ==
  /\ alter \in [Callers -> Changes \cup {GE!NoChange}]
  /\ \A t \in Callers : alter[t] # GE!NoChange =>
       \A h \in alter[t].halves : alter[t].values[h] \in 0 .. made

Changing(t, c, k) == alter[t].pc = k /\ alter[t].client = c

\* Of values that are not contended, one call is under way at most, and the values
\* that it was not given are those of the client.
OneChanges ==
  \A c \in live, k \in GE!Kinds : <<c, k>> \notin contended =>
    \A t \in Callers : Changing(t, c, k) =>
      /\ \A u \in Callers : Changing(u, c, k) => t = u
      /\ \A h \in GE!Halves \ alter[t].halves : alter[t].values[h] = given[c][k][h]

GeometryInv == GE!TypeOK /\ ChangeType /\ GE!GeometryAsGiven /\ OneChanges

LEMMA GeometryInit == ASSUME MaxGeometryCalls \in Nat, GE!Init PROVE GeometryInv
  <1> GE!NoChange.pc = "idle"
    BY DEF GE!NoChange
  <1>1. GE!TypeOK
    <2>1. GE!Fresh \in [GE!Kinds -> [GE!Halves -> 0 .. 0]] /\ GE!Fresh \in [GE!Kinds -> [GE!Halves -> -1 .. 0]]
      BY DEF GE!Fresh
    <2>2. QED
      BY <2>1 DEF GE!Init, GE!TypeOK
  <1>2. ChangeType
    BY DEF GE!Init, ChangeType
  <1>3. GE!GeometryAsGiven /\ OneChanges
    BY DEF GE!Init, GE!GeometryAsGiven, OneChanges
  <1>4. QED
    BY <1>1, <1>2, <1>3 DEF GeometryInv

\* The values a method goes on with have their type, and are the client's if it is there.
LEMMA GetType ==
  ASSUME GE!TypeOK, NEW c \in Displays, NEW k \in GE!Kinds
  PROVE  GE!Get(c, k) \in [GE!Halves -> -1 .. made] /\ (c \in live => GE!Get(c, k) = geometry[c][k])
  BY DEF GE!TypeOK, GE!Get, GE!Unread

LEMMA LookKeeps ==
  ASSUME MaxGeometryCalls \in Nat, GeometryInv, NEW t \in Callers, NEW c \in Displays, NEW k \in GE!Kinds,
         NEW halves \in SUBSET GE!Halves, GE!Look(t, c, k, halves)
  PROVE  GeometryInv'
  <1> DEFINE new == [pc |-> k, client |-> c, halves |-> halves, seen |-> GE!Get(c, k),
                     values |-> [h \in GE!Halves |-> IF h \in halves THEN made' ELSE GE!Get(c, k)[h]]]
  <1>1. /\ made \in Nat /\ made' = made + 1 /\ made' \in 0 .. MaxGeometryCalls
        /\ alter[t] = GE!NoChange /\ alter' = [alter EXCEPT ![t] = new]
        /\ UNCHANGED <<live, geometry, given>>
        /\ contended' = IF GE!UnderWay(c, k) THEN contended \cup {<<c, k>>} ELSE contended
    BY DEF GE!Look, GeometryInv, GE!TypeOK
  <1>2. -1 .. made \subseteq -1 .. made' /\ 0 .. made \subseteq 0 .. made' /\ made' \in 0 .. made'
    BY <1>1
  <1>3. GE!Get(c, k) \in [GE!Halves -> -1 .. made] /\ (c \in live => GE!Get(c, k) = geometry[c][k])
    BY GetType DEF GeometryInv
  <1>4. new \in Changes' /\ new # GE!NoChange
    <2>1. new.values \in [GE!Halves -> -1 .. made']
      BY <1>1, <1>2, <1>3
    <2>2. new.seen \in [GE!Halves -> -1 .. made']
      BY <1>2, <1>3
    <2>3. k # "idle"
      BY DEF GE!Kinds
    <2>4. new.pc # GE!NoChange.pc
      BY <2>3 DEF GE!NoChange
    <2>5. QED
      BY <2>1, <2>2, <2>4 DEF Changes
  <1>5. alter \in [Callers -> Changes \cup {GE!NoChange}]
    BY DEF GeometryInv, ChangeType
  <1>6. Changes \subseteq Changes'
    BY <1>2 DEF Changes
  <1>7. alter' \in [Callers -> Changes' \cup {GE!NoChange}]
    BY <1>1, <1>4, <1>5, <1>6
  <1>8. ChangeType'
    <2>1. ASSUME NEW u \in Callers, alter'[u] # GE!NoChange, NEW h \in alter'[u].halves
          PROVE  alter'[u].values[h] \in 0 .. made'
      <3>1. CASE u = t
        BY <1>1, <1>2, <1>5, <2>1, <3>1
      <3>2. CASE u # t
        BY <1>1, <1>2, <1>5, <2>1, <3>2 DEF GeometryInv, ChangeType
      <3>3. QED
        BY <3>1, <3>2
    <2>2. QED
      BY <1>7, <2>1 DEF ChangeType, GE!NoChange
  <1>9. GE!TypeOK'
    <2>1. \A u \in Callers : alter'[u] = GE!NoChange \/ alter'[u].pc \in GE!Kinds
      BY <1>7 DEF Changes
    <2>2. contended' \subseteq Displays \X GE!Kinds
      BY <1>1 DEF GeometryInv, GE!TypeOK
    <2>3. geometry' \in [Displays -> [GE!Kinds -> [GE!Halves -> -1 .. made']]]
      BY <1>1, <1>2 DEF GeometryInv, GE!TypeOK
    <2>4. given' \in [Displays -> [GE!Kinds -> [GE!Halves -> 0 .. made']]]
      BY <1>1, <1>2 DEF GeometryInv, GE!TypeOK
    <2>5. QED
      BY <1>1, <2>1, <2>2, <2>3, <2>4 DEF GeometryInv, GE!TypeOK, GE!NoChange
  <1>10. GE!GeometryAsGiven'
    BY <1>1 DEF GeometryInv, GE!GeometryAsGiven
  <1>11. OneChanges'
    <2> SUFFICES ASSUME NEW d \in live, NEW l \in GE!Kinds, <<d, l>> \notin contended',
                        NEW u \in Callers, alter'[u].pc = l, alter'[u].client = d
                 PROVE  /\ \A v \in Callers : alter'[v].pc = l /\ alter'[v].client = d => u = v
                        /\ \A h \in GE!Halves \ alter'[u].halves : alter'[u].values[h] = given[d][l][h]
      BY <1>1 DEF OneChanges, Changing
    <2>1. <<d, l>> \notin contended /\ geometry[d][l] = given[d][l]
      BY <1>1 DEF GeometryInv, GE!GeometryAsGiven
    <2>2. \A v \in Callers \ {t} : alter'[v] = alter[v]
      BY <1>1, <1>5
    <2>3. alter'[t] = new /\ alter[t].pc # l
      BY <1>1, <1>5 DEF GE!NoChange, GE!Kinds
    <2>4. CASE d = c /\ l = k
      <3>1. \A v \in Callers : ~Changing(v, d, l)
        BY <1>1, <2>4 DEF GE!UnderWay, Changing
      <3>2. u = t
        BY <2>2, <3>1 DEF Changing
      <3>3. QED
        BY <1>3, <2>1, <2>2, <2>3, <2>4, <3>1, <3>2 DEF Changing
    <2>5. CASE ~(d = c /\ l = k)
      <3>1. ~(alter'[t].pc = l /\ alter'[t].client = d)
        BY <2>3, <2>5
      <3>2. QED
        BY <2>1, <2>2, <3>1 DEF GeometryInv, OneChanges, Changing
    <2>6. QED
      BY <2>4, <2>5
  <1>12. QED
    BY <1>8, <1>9, <1>10, <1>11 DEF GeometryInv

\* A call ends without writing: its value cannot be parsed, or its client is gone.
LEMMA EndKeeps ==
  ASSUME GeometryInv, NEW t \in Callers, alter' = [alter EXCEPT ![t] = GE!NoChange],
         UNCHANGED <<live, geometry, given, contended, made>>
  PROVE  GeometryInv'
  <1>1. GE!NoChange.pc \notin GE!Kinds
    BY DEF GE!NoChange, GE!Kinds
  <1>2. \A u \in Callers : alter'[u] = IF u = t THEN GE!NoChange ELSE alter[u]
    BY DEF GeometryInv, ChangeType
  <1>3. GE!TypeOK' /\ ChangeType'
    BY <1>2 DEF GeometryInv, GE!TypeOK, ChangeType, Changes
  <1>4. GE!GeometryAsGiven'
    BY DEF GeometryInv, GE!GeometryAsGiven
  <1>5. OneChanges'
    BY <1>1, <1>2 DEF GeometryInv, OneChanges, Changing
  <1>6. QED
    BY <1>3, <1>4, <1>5 DEF GeometryInv

LEMMA WriteKeeps ==
  ASSUME GeometryInv, NEW t \in Callers, NEW k \in GE!Kinds, GE!Write(t, k)
  PROVE  GeometryInv'
  <1> DEFINE w == alter[t]
             c == w.client
             new == [h \in GE!Halves |-> IF h \in w.halves THEN w.values[h] ELSE given[c][k][h]]
  <1>1. w.pc = k /\ alter' = [alter EXCEPT ![t] = GE!NoChange] /\ UNCHANGED <<live, made, contended>>
    BY DEF GE!Write
  <1>2. w \in Changes
    <2>1. w \in Changes \cup {GE!NoChange}
      BY DEF GeometryInv, ChangeType
    <2>2. k # "idle"
      BY DEF GE!Kinds
    <2>3. QED
      BY <1>1, <2>1, <2>2 DEF GE!NoChange
  <1>3. CASE c \notin live
    BY <1>1, <1>3, EndKeeps DEF GE!Write
  <1>4. CASE c \in live
    <2>1. geometry' = [geometry EXCEPT ![c][k] = w.values] /\ given' = [given EXCEPT ![c][k] = new]
      BY <1>4 DEF GE!Write
    <2>2. c \in Displays /\ w.values \in [GE!Halves -> -1 .. made] /\ w.halves \subseteq GE!Halves
      BY <1>2 DEF Changes
    <2>3. new \in [GE!Halves -> 0 .. made]
      <3>1. \A h \in w.halves : w.values[h] \in 0 .. made
        BY <1>1 DEF GeometryInv, ChangeType, GE!NoChange, GE!Kinds
      <3>2. given[c][k] \in [GE!Halves -> 0 .. made]
        BY <2>2 DEF GeometryInv, GE!TypeOK
      <3>3. QED
        BY <3>1, <3>2
    <2>4. \A d \in Displays, l \in GE!Kinds :
            /\ geometry'[d][l] = IF d = c /\ l = k THEN w.values ELSE geometry[d][l]
            /\ given'[d][l] = IF d = c /\ l = k THEN new ELSE given[d][l]
      BY <2>1, <2>2 DEF GeometryInv, GE!TypeOK
    <2>5. \A u \in Callers : alter'[u] = IF u = t THEN GE!NoChange ELSE alter[u]
      BY <1>1 DEF GeometryInv, ChangeType
    <2>6. ChangeType' /\ Changes' = Changes
      BY <1>1, <2>5 DEF GeometryInv, ChangeType, Changes
    <2>7. GE!TypeOK'
      <3>1. geometry' \in [Displays -> [GE!Kinds -> [GE!Halves -> -1 .. made]]]
        BY <2>1, <2>2 DEF GeometryInv, GE!TypeOK
      <3>2. given' \in [Displays -> [GE!Kinds -> [GE!Halves -> 0 .. made]]]
        BY <2>1, <2>2, <2>3 DEF GeometryInv, GE!TypeOK
      <3>3. QED
        BY <1>1, <2>5, <3>1, <3>2 DEF GeometryInv, GE!TypeOK
    <2>8. <<c, k>> \notin contended => w.values = new
      BY <1>1, <1>4, <2>2 DEF GeometryInv, OneChanges, Changing
    <2>9. live \subseteq Displays
      BY DEF GeometryInv, GE!TypeOK
    <2>10. GE!GeometryAsGiven'
      BY <1>1, <2>4, <2>8, <2>9 DEF GeometryInv, GE!GeometryAsGiven
    <2>11. OneChanges'
      <3> SUFFICES ASSUME NEW d \in live, NEW l \in GE!Kinds, <<d, l>> \notin contended,
                          NEW u \in Callers, alter'[u].pc = l, alter'[u].client = d
                   PROVE  /\ \A v \in Callers : alter'[v].pc = l /\ alter'[v].client = d => u = v
                          /\ \A h \in GE!Halves \ alter'[u].halves : alter'[u].values[h] = given'[d][l][h]
        BY <1>1 DEF OneChanges, Changing
      <3>1. GE!NoChange.pc \notin GE!Kinds
        BY DEF GE!NoChange, GE!Kinds
      <3>2. u # t /\ alter[u].pc = l /\ alter[u].client = d /\ alter'[u] = alter[u]
        BY <2>5, <3>1
      <3>3. ~(d = c /\ l = k)
        BY <1>1, <3>2 DEF GeometryInv, OneChanges, Changing
      <3>4. given'[d][l] = given[d][l]
        BY <2>4, <2>9, <3>3
      <3>5. QED
        BY <2>5, <3>1, <3>2, <3>4 DEF GeometryInv, OneChanges, Changing
    <2>12. QED
      BY <2>6, <2>7, <2>10, <2>11 DEF GeometryInv
  <1>5. QED
    BY <1>3, <1>4

LEMMA ClientComesKeeps ==
  ASSUME GeometryInv, NEW c \in Displays, GE!ClientComes(c)
  PROVE  GeometryInv'
  <1>1. /\ live' = live \cup {c} /\ UNCHANGED <<alter, made>>
        /\ geometry' = [geometry EXCEPT ![c] = GE!Fresh] /\ given' = [given EXCEPT ![c] = GE!Fresh]
        /\ contended' = {p \in contended : p[1] # c} \cup {<<c, k>> : k \in {l \in GE!Kinds : GE!UnderWay(c, l)}}
    BY DEF GE!ClientComes
  <1>2. \A k \in GE!Kinds : <<c, k>> \in contended' <=> GE!UnderWay(c, k)
    BY <1>1
  <1>3. \A d \in Displays, k \in GE!Kinds : d # c => (<<d, k>> \in contended' <=> <<d, k>> \in contended)
    BY <1>1
  <1>4. \A d \in Displays : /\ geometry'[d] = IF d = c THEN GE!Fresh ELSE geometry[d]
                            /\ given'[d] = IF d = c THEN GE!Fresh ELSE given[d]
    BY <1>1 DEF GeometryInv, GE!TypeOK
  <1>5. GE!TypeOK' /\ ChangeType'
    <2>1. made \in Nat
      BY DEF GeometryInv, GE!TypeOK
    <2>2. GE!Fresh \in [GE!Kinds -> [GE!Halves -> 0 .. made]] /\ GE!Fresh \in [GE!Kinds -> [GE!Halves -> -1 .. made]]
      BY <2>1 DEF GE!Fresh
    <2>3. contended' \subseteq Displays \X GE!Kinds
      BY <1>1 DEF GeometryInv, GE!TypeOK
    <2>4. live' \subseteq Displays
      BY <1>1 DEF GeometryInv, GE!TypeOK
    <2>5. geometry' \in [Displays -> [GE!Kinds -> [GE!Halves -> -1 .. made]]]
      BY <1>1, <2>2 DEF GeometryInv, GE!TypeOK
    <2>6. given' \in [Displays -> [GE!Kinds -> [GE!Halves -> 0 .. made]]]
      BY <1>1, <2>2 DEF GeometryInv, GE!TypeOK
    <2>7. GE!TypeOK'
      BY <1>1, <2>3, <2>4, <2>5, <2>6 DEF GeometryInv, GE!TypeOK
    <2>8. ChangeType'
      BY <1>1 DEF GeometryInv, ChangeType, Changes
    <2>9. QED
      BY <2>7, <2>8
  <1>6. GE!GeometryAsGiven' /\ OneChanges'
    <2>1. live \subseteq Displays
      BY DEF GeometryInv, GE!TypeOK
    <2>2. GE!GeometryAsGiven'
      BY <1>1, <1>3, <1>4, <2>1 DEF GeometryInv, GE!GeometryAsGiven
    <2>3. OneChanges'
      <3> SUFFICES ASSUME NEW d \in live \cup {c}, NEW k \in GE!Kinds, <<d, k>> \notin contended',
                          NEW t \in Callers, Changing(t, d, k)
                   PROVE  /\ \A u \in Callers : Changing(u, d, k) => t = u
                          /\ \A h \in GE!Halves \ alter[t].halves : alter[t].values[h] = given'[d][k][h]
        BY <1>1 DEF OneChanges, Changing
      <3>1. d # c
        BY <1>2 DEF GE!UnderWay, Changing
      <3>2. QED
        BY <1>3, <1>4, <2>1, <3>1 DEF GeometryInv, OneChanges
    <2>4. QED
      BY <2>2, <2>3
  <1>7. QED
    BY <1>5, <1>6 DEF GeometryInv

\* Every step of the methods and of the compositor keeps the invariant.
LEMMA GeometryKeeps ==
  ASSUME MaxGeometryCalls \in Nat, GeometryInv, GE!Next \/ UNCHANGED geometryVars
  PROVE  GeometryInv'
  <1>0. GE!Kinds = {"bounds", "scale", "virtual"}
    BY DEF GE!Kinds
  <1>1. ASSUME NEW t \in Callers, NEW c \in Displays,
               GE!setBoundsWrapper(t, c) \/ GE!setScaleWrapper(t, c) \/ GE!setVirtualResolutionWrapper(t, c)
        PROVE  GeometryInv'
    BY <1>0, <1>1, LookKeeps DEF GE!setBoundsWrapper, GE!setScaleWrapper, GE!setVirtualResolutionWrapper
  <1>2. ASSUME NEW t \in Callers, GE!setBounds(t) \/ GE!setScale(t) \/ GE!setVirtualResolution(t)
        PROVE  GeometryInv'
    BY <1>0, <1>2, WriteKeeps, EndKeeps DEF GE!setBounds, GE!setScale, GE!setVirtualResolution
  <1>3. ASSUME NEW c \in Displays, GE!ClientGoes(c) PROVE GeometryInv'
    <2>1. live' \subseteq live /\ UNCHANGED <<geometry, alter, given, contended, made>>
      BY <1>3 DEF GE!ClientGoes
    <2>2. GE!TypeOK' /\ ChangeType'
      BY <2>1 DEF GeometryInv, GE!TypeOK, ChangeType, Changes
    <2>3. GE!GeometryAsGiven' /\ OneChanges'
      BY <2>1 DEF GeometryInv, GE!GeometryAsGiven, OneChanges, Changing
    <2>4. QED
      BY <2>2, <2>3 DEF GeometryInv
  <1>4. CASE UNCHANGED geometryVars
    <2>1. GE!TypeOK' /\ ChangeType'
      BY <1>4 DEF GeometryInv, GE!TypeOK, ChangeType, Changes, geometryVars
    <2>2. GE!GeometryAsGiven' /\ OneChanges'
      BY <1>4 DEF GeometryInv, GE!GeometryAsGiven, OneChanges, Changing, geometryVars
    <2>3. QED
      BY <2>1, <2>2 DEF GeometryInv
  <1>5. CASE GE!Next
    BY <1>1, <1>2, <1>3, <1>5, ClientComesKeeps DEF GE!Next
  <1>6. QED
    BY <1>4, <1>5

\* A value of a client is the one that was last given for it, although a method lets go
\* of gRdkShellMutex between reading the values and writing them, for any number of
\* callers, clients and calls.
THEOREM GeometryIsAsGiven ==
  ASSUME MaxGeometryCalls \in Nat
  PROVE  FlowsSpec => []GeometryAsGiven
  <1>1. FlowsInit => GeometryInv
    BY GeometryInit DEF FlowsInit
  <1>2. GeometryInv /\ [FlowsNext]_flowVars => GeometryInv'
    <2>1. [FlowsNext]_flowVars => GE!Next \/ UNCHANGED geometryVars
      BY DEF FlowsNext, flowVars
    <2>2. QED
      BY <2>1, GeometryKeeps
  <1>3. GeometryInv => GeometryAsGiven
    BY DEF GeometryInv, GeometryAsGiven
  <1>4. QED
    BY <1>1, <1>2, <1>3, PTL DEF FlowsSpec

-------------------------------------------------------------------------------
(***************************************************************************)
(* Hibernation.                                                            *)
(***************************************************************************)

HibPcs == HB!FocusSteps \cup {"idle", "wait", "invoke", "mark"}
HibCalls ==
  [pc : HibPcs, app : HibApps \cup {NoApp}, prev : HibApps \cup {NoApp}, listed : BOOLEAN]

\* Calls are records, and hibernate is for an application.
HibCallType ==
  /\ hcall \in [HB!HibThreads -> HibCalls]
  /\ \A t \in HB!HibThreads : hcall[t].pc \in {"wait", "invoke", "mark"} => hcall[t].app \in HibApps

\* Only applications that run believe to have the focus, and the mark of one that runs
\* is true but for the ones excepted.
MarksAreTrue ==
  /\ \A a \in told : hstate[a] = "resumed"
  /\ \A a \in HibApps \ restored :
       gSuspendedOrHibernatedApplications[a] = "yes" => hstate[a] = "suspended"

\* As long as calls of setFocus do not overlap: the application of one has the focus, or was
\* refused it, and until the one that had it is told, or need not be, no third believes to
\* have it.
OneFocuses ==
  ~hoverlap =>
    /\ \A t, u \in HB!Focusing : t = u
    /\ \A t \in HB!Focusing :
         /\ focused = hcall[t].app \/ hcall[t].app \in misled
         /\ \A a \in told \ (restored \cup misled) :
              a = focused \/ (hcall[t].pc \in {"unfocus", "focusoff"} /\ a = hcall[t].prev)

\* The threads that hold hibernations back.
Blocking == {t \in HB!HibThreads : hcall[t].pc \in {"focusoff", "unblock"}}

\* Moving one thread's call from one record to another.
LEMMA CallMoves ==
  ASSUME HibCallType, NEW t \in HB!HibThreads, NEW c \in HibCalls,
         c.pc \in {"wait", "invoke", "mark"} => c.app \in HibApps,
         hcall' = [hcall EXCEPT ![t] = c]
  PROVE  /\ HibCallType'
         /\ hcall'[t] = c
         /\ \A u \in HB!HibThreads : u # t => hcall'[u] = hcall[u]
         /\ HB!Focusing' = IF c.pc \in HB!FocusSteps THEN HB!Focusing \cup {t} ELSE HB!Focusing \ {t}
         /\ Blocking' = IF c.pc \in {"focusoff", "unblock"} THEN Blocking \cup {t} ELSE Blocking \ {t}
  <1>1. HibCallType' /\ hcall'[t] = c /\ \A u \in HB!HibThreads : u # t => hcall'[u] = hcall[u]
    BY DEF HibCallType
  <1>2. HB!Focusing' = IF c.pc \in HB!FocusSteps THEN HB!Focusing \cup {t} ELSE HB!Focusing \ {t}
    BY <1>1 DEF HB!Focusing
  <1>3. Blocking' = IF c.pc \in {"focusoff", "unblock"} THEN Blocking \cup {t} ELSE Blocking \ {t}
    BY <1>1 DEF Blocking
  <1>4. QED
    BY <1>1, <1>2, <1>3

\* gHibernateBlocked counts the blocking threads.
LEMMA BlockingCounts ==
  ASSUME IsFiniteSet(HB!HibThreads), NEW t \in HB!HibThreads,
         gHibernateBlocked = Cardinality(Blocking), Blocking' \subseteq HB!HibThreads
  PROVE  /\ t \notin Blocking /\ Blocking' = Blocking \cup {t} => Cardinality(Blocking') = gHibernateBlocked + 1
         /\ t \in Blocking /\ Blocking' = Blocking \ {t} => Cardinality(Blocking') = gHibernateBlocked - 1
         /\ Blocking' = Blocking => Cardinality(Blocking') = gHibernateBlocked
  <1>1. IsFiniteSet(Blocking)
    BY FS_Subset DEF Blocking
  <1>2. t \notin Blocking => Cardinality(Blocking \cup {t}) = Cardinality(Blocking) + 1
    BY <1>1, FS_AddElement
  <1>3. t \in Blocking => Cardinality(Blocking \ {t}) = Cardinality(Blocking) - 1
    BY <1>1, FS_RemoveElement
  <1>4. QED
    BY <1>2, <1>3

\* The typing, call by call and variable by variable.
HibTypes ==
  /\ HibCallType
  /\ focused \in HibApps \cup {NoApp} /\ hstate \in [HibApps -> {"off", "resumed", "suspended"}]
  /\ hibernated \subseteq HB!Active /\ told \subseteq HB!Active
  /\ restored \subseteq HibApps /\ misled \subseteq HibApps
  /\ gSuspendedOrHibernatedApplications \in [HibApps -> {"none", "yes", "no"}]
  /\ gHibernateBlocked = Cardinality(Blocking)
  /\ hcalls \in 0 .. MaxHibCalls /\ hoverlap \in BOOLEAN

FocusInv == HibTypes /\ MarksAreTrue /\ OneFocuses /\ HB!OnlyFocusedTold

LEMMA HibTyping == ASSUME HibTypes PROVE HB!TypeOK
  <1>1. \A t \in HB!HibThreads :
          /\ hcall[t].pc \in HB!FocusSteps \cup {"idle", "wait", "invoke", "mark"}
          /\ hcall[t].app \in HibApps \cup {NoApp} /\ hcall[t].prev \in HibApps \cup {NoApp}
          /\ hcall[t].listed \in BOOLEAN
    BY DEF HibTypes, HibCallType, HibCalls, HibPcs
  <1>2. HB!Cardinality(Blocking) = Cardinality(Blocking)
    BY Zenon DEF HB!Cardinality, Cardinality
  <1>3. gHibernateBlocked = HB!Cardinality({t \in HB!HibThreads : hcall[t].pc \in {"focusoff", "unblock"}})
    BY <1>2, Zenon DEF HibTypes, Blocking
  <1>4. QED
    BY <1>1, <1>3, Zenon DEF HibTypes, HB!TypeOK

\* The beginning of a call: to idle again, or to another step.
LEMMA BeginsCall ==
  ASSUME HibTypes, MaxHibCalls \in Nat, NEW t \in HB!HibThreads,
         NEW pc \in {"idle", "unfocus", "wait"}, NEW a \in HibApps, NEW prev \in HibApps \cup {NoApp},
         HB!Begin(t, pc, a, prev)
  PROVE  /\ HibCallType' /\ hcalls' \in 0 .. MaxHibCalls
         /\ \A u \in HB!HibThreads : u # t => hcall'[u] = hcall[u]
         /\ pc # "idle" => hcall'[t] = [pc |-> pc, app |-> a, prev |-> prev, listed |-> FALSE]
         /\ HB!Focusing' = IF pc = "unfocus" THEN HB!Focusing \cup {t} ELSE HB!Focusing
         /\ Blocking' = Blocking
  <1> DEFINE c == IF pc = "idle" THEN HB!Idle ELSE [pc |-> pc, app |-> a, prev |-> prev, listed |-> FALSE]
  <1>1. c \in HibCalls /\ (c.pc \in {"wait", "invoke", "mark"} => c.app \in HibApps) /\ c.pc = pc
    BY DEF HB!Idle, HibCalls, HibPcs, HB!FocusSteps
  <1>2. hcall' = [hcall EXCEPT ![t] = c] /\ hcall[t].pc = "idle"
    BY DEF HB!Begin
  <1>3. hcalls' \in 0 .. MaxHibCalls
    BY DEF HB!Begin, HibTypes
  <1>4. pc # "idle" => c = [pc |-> pc, app |-> a, prev |-> prev, listed |-> FALSE]
    OBVIOUS
  <1> HIDE DEF c
  <1>5. /\ HibCallType' /\ hcall'[t] = c
        /\ \A u \in HB!HibThreads : u # t => hcall'[u] = hcall[u]
        /\ HB!Focusing' = IF c.pc \in HB!FocusSteps THEN HB!Focusing \cup {t} ELSE HB!Focusing \ {t}
        /\ Blocking' = IF c.pc \in {"focusoff", "unblock"} THEN Blocking \cup {t} ELSE Blocking \ {t}
    BY <1>1, <1>2, CallMoves DEF HibTypes
  <1>6. t \notin HB!Focusing /\ t \notin Blocking
    BY <1>2 DEF HB!Focusing, Blocking, HB!FocusSteps
  <1>7. QED
    BY <1>1, <1>3, <1>4, <1>5, <1>6 DEF HB!FocusSteps

\* setFocus takes the focus for its application.
LEMMA SetFocusKeeps ==
  ASSUME FocusInv, MaxHibCalls \in Nat, NoApp \notin HibApps,
         NEW t \in Focusers, NEW a \in HibApps, HB!SetFocus(t, a)
  PROVE  FocusInv'
  <1> DEFINE pc == IF focused = a THEN "idle" ELSE "unfocus"
  <1>1. /\ HB!Begin(t, pc, a, focused)
        /\ \/ focused' = a /\ misled' = misled \ {a}
           \/ focused # a /\ focused' = focused /\ misled' = misled \cup {a}
        /\ hoverlap' = (hoverlap \/ (HB!Focusing # {}))
        /\ UNCHANGED <<hstate, hibernated, told, gSuspendedOrHibernatedApplications,
                       gHibernateBlocked, restored>>
    BY DEF HB!SetFocus, HB!apps
  <1>2. pc \in {"idle", "unfocus", "wait"} /\ t \in HB!HibThreads /\ focused \in HibApps \cup {NoApp}
    BY DEF HB!HibThreads, FocusInv, HibTypes
  <1>3. pc = "idle" <=> focused = a
    OBVIOUS
  <1> HIDE DEF pc
  <1>4. /\ HibCallType' /\ hcalls' \in 0 .. MaxHibCalls
        /\ \A u \in HB!HibThreads : u # t => hcall'[u] = hcall[u]
        /\ pc # "idle" => hcall'[t] = [pc |-> pc, app |-> a, prev |-> focused, listed |-> FALSE]
        /\ HB!Focusing' = IF pc = "unfocus" THEN HB!Focusing \cup {t} ELSE HB!Focusing
        /\ Blocking' = Blocking
    BY <1>1, <1>2, BeginsCall DEF FocusInv
  <1>5. hoverlap' \in BOOLEAN
    BY <1>1, Zenon
  <1>6. HibTypes'
    BY <1>1, <1>4, <1>5 DEF FocusInv, HibTypes, HB!Active
  <1>7. MarksAreTrue'
    BY <1>1 DEF FocusInv, MarksAreTrue
  <1>8. OneFocuses' /\ HB!OnlyFocusedTold'
    <2> SUFFICES ASSUME ~hoverlap' PROVE OneFocuses' /\ HB!OnlyFocusedTold'
      BY DEF OneFocuses, HB!OnlyFocusedTold
    <2>1. ~hoverlap /\ HB!Focusing = {} /\ \A b \in told \ (restored \cup misled) : focused = b
      BY <1>1 DEF FocusInv, HB!OnlyFocusedTold
    <2>2. CASE pc = "idle"
      BY <1>1, <1>3, <1>4, <2>1, <2>2 DEF OneFocuses, HB!OnlyFocusedTold
    <2>3. CASE pc = "unfocus"
      <3>1. HB!Focusing' = {t} /\ hcall'[t] = [pc |-> "unfocus", app |-> a, prev |-> focused, listed |-> FALSE]
        BY <1>4, <2>1, <2>3
      <3>2. QED
        BY <1>1, <2>1, <3>1 DEF OneFocuses, HB!OnlyFocusedTold
    <2>4. QED
      BY <1>2, <1>3, <2>2, <2>3 DEF pc
  <1>9. QED
    BY <1>6, <1>7, <1>8 DEF FocusInv

\* setFocus looks at the mark of the one that had the focus: one that is not told does not
\* believe to have it.
LEMMA UnfocusKeeps ==
  ASSUME FocusInv, IsFiniteSet(HB!HibThreads), NoApp \notin HibApps,
         NEW t \in HB!HibThreads, HB!Unfocus(t)
  PROVE  FocusInv'
  <1> DEFINE tells == hcall[t].prev \in HB!Active /\ ~HB!SkipFocus(hcall[t].prev)
             known == hcall[t].app \in HB!Active
             pc == IF tells THEN "focusoff" ELSE "tell"
             c == [pc |-> pc, app |-> hcall[t].app, prev |-> hcall[t].prev, listed |-> known]
  <1>1. /\ hcall[t].pc = "unfocus" /\ hcall[t] \in HibCalls
        /\ UNCHANGED <<focused, hstate, hibernated, told, gSuspendedOrHibernatedApplications, hcalls,
                       hoverlap, restored, misled>>
        /\ IF tells THEN gHibernateBlocked' = gHibernateBlocked + 1 ELSE UNCHANGED gHibernateBlocked
    BY DEF HB!Unfocus, HB!apps, HB!setHibernateBlocked, FocusInv, HibTypes, HibCallType
  <1>2. hcall' = [hcall EXCEPT ![t].listed = known, ![t].pc = pc]
    BY DEF HB!Unfocus
  <1>3. tells => hcall[t].prev \in HB!Active
    OBVIOUS
  <1>4. ~tells => hcall[t].prev \notin told \ restored
    <2> SUFFICES ASSUME ~tells, hcall[t].prev \in told \ restored PROVE FALSE
      OBVIOUS
    <2>1. hcall[t].prev \in HB!Active
      BY DEF FocusInv, HibTypes
    <2>2. gSuspendedOrHibernatedApplications[hcall[t].prev] = "yes"
      BY <2>1 DEF HB!SkipFocus
    <2>3. QED
      BY <2>1, <2>2 DEF FocusInv, MarksAreTrue, HB!Active
  <1>5. known \in BOOLEAN /\ (tells <=> pc = "focusoff") /\ (~tells <=> pc = "tell")
    <2>1. known \in BOOLEAN
      OBVIOUS
    <2>2. QED
      BY <2>1
  <1> HIDE DEF tells, known, pc
  <1>6. c \in HibCalls /\ c.pc = pc /\ (c.pc \in {"wait", "invoke", "mark"} => c.app \in HibApps)
    BY <1>1, <1>5 DEF HibCalls, HibPcs, HB!FocusSteps
  <1>7. hcall' = [hcall EXCEPT ![t] = c]
    <2>1. hcall \in [HB!HibThreads -> HibCalls]
      BY DEF FocusInv, HibTypes, HibCallType
    <2>2. DOMAIN hcall' = HB!HibThreads /\ \A u \in HB!HibThreads : u # t => hcall'[u] = hcall[u]
      BY <1>2, <2>1
    <2>3. hcall'[t] = [[hcall[t] EXCEPT !.listed = known] EXCEPT !.pc = pc]
      BY <1>2, <2>1 DEF HibCalls
    <2>4. hcall'[t] = c
      BY <1>1, <2>3 DEF HibCalls
    <2>5. hcall' = [u \in HB!HibThreads |-> hcall'[u]]
      BY <1>2, <2>1
    <2> HIDE DEF c
    <2>6. QED
      BY <2>1, <2>2, <2>4, <2>5
  <1>8. c.app = hcall[t].app /\ c.prev = hcall[t].prev
    OBVIOUS
  <1> HIDE DEF c
  <1>9. /\ HibCallType' /\ hcall'[t] = c
        /\ \A u \in HB!HibThreads : u # t => hcall'[u] = hcall[u]
        /\ HB!Focusing' = IF c.pc \in HB!FocusSteps THEN HB!Focusing \cup {t} ELSE HB!Focusing \ {t}
        /\ Blocking' = IF c.pc \in {"focusoff", "unblock"} THEN Blocking \cup {t} ELSE Blocking \ {t}
    BY <1>6, <1>7, CallMoves DEF FocusInv, HibTypes
  <1>10. /\ t \in HB!Focusing /\ t \notin Blocking /\ HB!Focusing' = HB!Focusing
         /\ Blocking' = IF tells THEN Blocking \cup {t} ELSE Blocking
    BY <1>1, <1>5, <1>6, <1>9 DEF HB!Focusing, Blocking, HB!FocusSteps
  <1>11. gHibernateBlocked' = Cardinality(Blocking')
    <2>1. Blocking' \subseteq HB!HibThreads
      BY DEF Blocking
    <2>2. QED
      BY <1>1, <1>10, <2>1, BlockingCounts DEF FocusInv, HibTypes
  <1>12. HibTypes'
    BY <1>1, <1>9, <1>11 DEF FocusInv, HibTypes, HB!Active
  <1>13. MarksAreTrue'
    BY <1>1 DEF FocusInv, MarksAreTrue
  <1>14. OneFocuses'
    <2> SUFFICES ASSUME ~hoverlap PROVE OneFocuses'
      BY <1>1 DEF OneFocuses
    <2>1. HB!Focusing = {t}
      BY <1>10 DEF FocusInv, OneFocuses
    <2>2. /\ focused = hcall[t].app \/ hcall[t].app \in misled
          /\ \A a \in told \ (restored \cup misled) : a = focused \/ a = hcall[t].prev
      BY <1>10 DEF FocusInv, OneFocuses
    <2>3. QED
      BY <1>1, <1>4, <1>5, <1>6, <1>8, <1>9, <1>10, <2>1, <2>2 DEF OneFocuses
  <1>15. HB!OnlyFocusedTold'
    BY <1>10 DEF HB!OnlyFocusedTold
  <1>16. QED
    BY <1>12, <1>13, <1>14, <1>15 DEF FocusInv

\* The one that had the focus is told; others may hibernate again; the one that has it is told.
LEMMA TellingKeeps ==
  ASSUME FocusInv, IsFiniteSet(HB!HibThreads), NoApp \notin HibApps,
         NEW t \in HB!HibThreads, HB!UnfocusCall(t) \/ HB!Unblock(t) \/ HB!Tell(t)
  PROVE  FocusInv'
  <1>0. hcall[t] \in HibCalls
    BY DEF FocusInv, HibTypes, HibCallType
  <1>1. CASE HB!UnfocusCall(t)
    <2> DEFINE c == [hcall[t] EXCEPT !.pc = "unblock"]
    <2>1. /\ hcall[t].pc = "focusoff" /\ hcall' = [hcall EXCEPT ![t] = c]
          /\ told' = told \ {hcall[t].prev} /\ hibernated' = hibernated \ {hcall[t].prev}
          /\ UNCHANGED <<focused, hstate, gSuspendedOrHibernatedApplications, gHibernateBlocked, hcalls,
                         hoverlap, restored, misled>>
      BY <1>1 DEF HB!UnfocusCall, HB!Goto, FocusInv, HibTypes, HibCallType
    <2>2. c \in HibCalls /\ c.pc = "unblock" /\ c.app = hcall[t].app
      BY <1>0 DEF HibCalls, HibPcs, HB!FocusSteps
    <2> HIDE DEF c
    <2>3. /\ HibCallType' /\ hcall'[t] = c
          /\ \A u \in HB!HibThreads : u # t => hcall'[u] = hcall[u]
          /\ HB!Focusing' = HB!Focusing \cup {t} /\ Blocking' = Blocking \cup {t}
      BY <2>1, <2>2, CallMoves DEF FocusInv, HibTypes, HB!FocusSteps
    <2>4. t \in HB!Focusing /\ HB!Focusing' = HB!Focusing /\ Blocking' = Blocking
      BY <2>1, <2>3 DEF HB!Focusing, Blocking, HB!FocusSteps
    <2>5. HibTypes'
      BY <2>1, <2>3, <2>4 DEF FocusInv, HibTypes, HB!Active
    <2>6. MarksAreTrue'
      BY <2>1 DEF FocusInv, MarksAreTrue
    <2>7. OneFocuses'
      <3> SUFFICES ASSUME ~hoverlap PROVE OneFocuses'
        BY <2>1 DEF OneFocuses
      <3>1. /\ HB!Focusing = {t} /\ (focused = hcall[t].app \/ hcall[t].app \in misled)
            /\ \A a \in told \ (restored \cup misled) : a = focused \/ a = hcall[t].prev
        BY <2>4 DEF FocusInv, OneFocuses
      <3>2. QED
        BY <2>1, <2>2, <2>3, <2>4, <3>1 DEF OneFocuses
    <2>8. QED
      BY <2>4, <2>5, <2>6, <2>7 DEF FocusInv, HB!OnlyFocusedTold
  <1>2. CASE HB!Unblock(t)
    <2> DEFINE c == [hcall[t] EXCEPT !.pc = "tell", !.prev = NoApp]
    <2>1. /\ hcall[t].pc = "unblock" /\ hcall' = [hcall EXCEPT ![t] = c]
          /\ gHibernateBlocked' = gHibernateBlocked - 1
          /\ UNCHANGED <<focused, hstate, hibernated, told, gSuspendedOrHibernatedApplications, hcalls,
                         hoverlap, restored, misled>>
      BY <1>2 DEF HB!Unblock, HB!setHibernateBlocked, HB!apps, FocusInv, HibTypes, HibCallType
    <2>2. c \in HibCalls /\ c.pc = "tell" /\ c.app = hcall[t].app
      BY <1>0 DEF HibCalls, HibPcs, HB!FocusSteps
    <2> HIDE DEF c
    <2>3. /\ HibCallType' /\ hcall'[t] = c
          /\ \A u \in HB!HibThreads : u # t => hcall'[u] = hcall[u]
          /\ HB!Focusing' = HB!Focusing \cup {t} /\ Blocking' = Blocking \ {t}
      BY <2>1, <2>2, CallMoves DEF FocusInv, HibTypes, HB!FocusSteps
    <2>4. t \in HB!Focusing /\ HB!Focusing' = HB!Focusing /\ t \in Blocking
      BY <2>1, <2>3 DEF HB!Focusing, Blocking, HB!FocusSteps
    <2>5. gHibernateBlocked' = Cardinality(Blocking')
      <3>1. Blocking' \subseteq HB!HibThreads
        BY DEF Blocking
      <3>2. QED
        BY <2>1, <2>3, <2>4, <3>1, BlockingCounts DEF FocusInv, HibTypes
    <2>6. HibTypes'
      BY <2>1, <2>3, <2>5 DEF FocusInv, HibTypes, HB!Active
    <2>7. MarksAreTrue'
      BY <2>1 DEF FocusInv, MarksAreTrue
    <2>8. OneFocuses'
      <3> SUFFICES ASSUME ~hoverlap PROVE OneFocuses'
        BY <2>1 DEF OneFocuses
      <3>1. /\ HB!Focusing = {t} /\ (focused = hcall[t].app \/ hcall[t].app \in misled)
            /\ \A a \in told \ (restored \cup misled) : a = focused
        BY <2>1, <2>4 DEF FocusInv, OneFocuses
      <3>2. QED
        BY <2>1, <2>2, <2>3, <2>4, <3>1 DEF OneFocuses
    <2>9. QED
      BY <2>4, <2>6, <2>7, <2>8 DEF FocusInv, HB!OnlyFocusedTold
  <1>3. CASE HB!Tell(t)
    <2> DEFINE reached == {a \in HB!Active : a = hcall[t].app /\ hcall[t].listed}
    <2>1. /\ hcall[t].pc = "tell" /\ hcall' = [hcall EXCEPT ![t] = HB!Idle]
          /\ told' = told \cup {a \in reached : hstate[a] = "resumed"}
          /\ hibernated' = hibernated \ reached
          /\ UNCHANGED <<focused, hstate, gSuspendedOrHibernatedApplications, gHibernateBlocked, hcalls,
                         hoverlap, restored, misled>>
      BY <1>3 DEF HB!Tell
    <2>2. HB!Idle \in HibCalls /\ HB!Idle.pc = "idle"
      BY DEF HB!Idle, HibCalls, HibPcs
    <2>3. /\ HibCallType' /\ hcall'[t] = HB!Idle
          /\ \A u \in HB!HibThreads : u # t => hcall'[u] = hcall[u]
          /\ HB!Focusing' = HB!Focusing \ {t} /\ Blocking' = Blocking \ {t}
      BY <2>1, <2>2, CallMoves DEF FocusInv, HibTypes, HB!FocusSteps
    <2>4. t \in HB!Focusing /\ Blocking' = Blocking
      BY <2>1, <2>3 DEF HB!Focusing, Blocking, HB!FocusSteps
    <2>5. HibTypes'
      BY <2>1, <2>3, <2>4 DEF FocusInv, HibTypes, HB!Active
    <2>6. MarksAreTrue'
      BY <2>1 DEF FocusInv, MarksAreTrue
    <2>7. ~hoverlap => /\ HB!Focusing' = {} /\ \A a \in told' \ (restored' \cup misled') : focused' = a
      BY <2>1, <2>3, <2>4 DEF FocusInv, OneFocuses
    <2>8. QED
      BY <2>1, <2>5, <2>6, <2>7 DEF FocusInv, OneFocuses, HB!OnlyFocusedTold
  <1>4. QED
    BY <1>1, <1>2, <1>3

\* A call that moves without touching the focus: what such a step leaves to show.
LEMMA AsideKeeps ==
  ASSUME FocusInv, NEW t \in HB!HibThreads, NEW c \in HibCalls,
         c.pc \notin HB!FocusSteps, hcall[t].pc \notin HB!FocusSteps,
         c.pc \in {"wait", "invoke", "mark"} => c.app \in HibApps,
         hcall' = [hcall EXCEPT ![t] = c],
         UNCHANGED <<focused, hstate, told, gHibernateBlocked, hoverlap, misled>>,
         hcalls' \in 0 .. MaxHibCalls, hibernated' \subseteq HB!Active,
         restored \subseteq restored', restored' \subseteq HibApps,
         gSuspendedOrHibernatedApplications' \in [HibApps -> {"none", "yes", "no"}],
         MarksAreTrue'
  PROVE  FocusInv'
  <1>1. /\ HibCallType' /\ hcall'[t] = c
        /\ \A u \in HB!HibThreads : u # t => hcall'[u] = hcall[u]
        /\ HB!Focusing' = HB!Focusing \ {t} /\ Blocking' = Blocking \ {t}
    BY CallMoves DEF FocusInv, HibTypes, HB!FocusSteps
  <1>2. HB!Focusing' = HB!Focusing /\ Blocking' = Blocking
    BY <1>1 DEF HB!Focusing, Blocking, HB!FocusSteps
  <1>3. HibTypes'
    BY <1>1, <1>2 DEF FocusInv, HibTypes, HB!Active
  <1>4. OneFocuses'
    <2>1. \A u \in HB!Focusing : hcall'[u] = hcall[u]
      BY <1>1 DEF HB!Focusing
    <2>2. QED
      BY <1>2, <2>1 DEF FocusInv, OneFocuses
  <1>5. HB!OnlyFocusedTold'
    BY <1>2 DEF FocusInv, HB!OnlyFocusedTold
  <1>6. QED
    BY <1>3, <1>4, <1>5 DEF FocusInv

\* hibernate and its thread.
LEMMA HibernateKeeps ==
  ASSUME FocusInv, MaxHibCalls \in Nat, NEW t \in Hibernators,
         \/ \E a \in HibApps : HB!Hibernate(t, a)
         \/ HB!HibernateWait(t) \/ HB!HibernateInvoke(t) \/ HB!HibernateMark(t)
  PROVE  FocusInv'
  <1>0. /\ t \in HB!HibThreads /\ hcall \in [HB!HibThreads -> HibCalls] /\ hcall[t] \in HibCalls
        /\ hibernated \subseteq HB!Active /\ restored \subseteq HibApps /\ hcalls \in 0 .. MaxHibCalls
        /\ gSuspendedOrHibernatedApplications \in [HibApps -> {"none", "yes", "no"}]
        /\ hcall[t].pc \in {"wait", "invoke", "mark"} => hcall[t].app \in HibApps
    BY DEF FocusInv, HibTypes, HibCallType, HB!HibThreads
  <1>i. HB!Idle \in HibCalls /\ HB!Idle.pc = "idle"
    BY DEF HB!Idle, HibCalls, HibPcs
  <1>1. ASSUME NEW a \in HibApps, HB!Hibernate(t, a) PROVE FocusInv'
    <2> DEFINE c == [pc |-> "wait", app |-> a, prev |-> NoApp, listed |-> FALSE]
    <2>1. /\ hcall[t].pc = "idle" /\ hcall' = [hcall EXCEPT ![t] = c] /\ hcalls' \in 0 .. MaxHibCalls
          /\ UNCHANGED <<focused, hstate, hibernated, told, gSuspendedOrHibernatedApplications,
                         gHibernateBlocked, hoverlap, restored, misled>>
      BY <1>0, <1>1 DEF HB!Hibernate, HB!Begin, HB!apps
    <2>2. c \in HibCalls /\ c.pc = "wait" /\ c.app = a
      BY DEF HibCalls, HibPcs
    <2> HIDE DEF c
    <2>3. MarksAreTrue'
      BY <2>1 DEF FocusInv, MarksAreTrue
    <2>4. QED
      BY <1>0, <2>1, <2>2, <2>3, AsideKeeps DEF HB!FocusSteps
  <1>2. ASSUME NEW c \in HibCalls, c.pc \in {"idle", "invoke", "mark"}, hcall' = [hcall EXCEPT ![t] = c],
               c.pc # "idle" => c.app \in HibApps, hcall[t].pc \in {"wait", "invoke"},
               hibernated' \subseteq HB!Active,
               UNCHANGED <<focused, hstate, told, gSuspendedOrHibernatedApplications,
                           gHibernateBlocked, hcalls, hoverlap, restored, misled>>
        PROVE  FocusInv'
    <2>1. MarksAreTrue'
      BY <1>2 DEF FocusInv, MarksAreTrue
    <2>2. QED
      BY <1>0, <1>2, <2>1, AsideKeeps DEF HB!FocusSteps
  <1>3. ASSUME NEW pc \in {"invoke", "mark"}
        PROVE  /\ [hcall[t] EXCEPT !.pc = pc] \in HibCalls
               /\ [hcall[t] EXCEPT !.pc = pc].pc = pc /\ [hcall[t] EXCEPT !.pc = pc].app = hcall[t].app
               /\ HB!Goto(t, pc) => hcall' = [hcall EXCEPT ![t] = [hcall[t] EXCEPT !.pc = pc]]
    BY <1>0 DEF HibCalls, HibPcs, HB!Goto
  <1>4. CASE HB!HibernateWait(t)
    <2>1. /\ hcall[t].pc = "wait"
          /\ HB!Goto(t, "invoke") \/ hcall' = [hcall EXCEPT ![t] = HB!Idle]
          /\ UNCHANGED <<focused, hstate, hibernated, told, gSuspendedOrHibernatedApplications,
                         gHibernateBlocked, hcalls, hoverlap, restored, misled>>
      BY <1>4 DEF HB!HibernateWait, HB!waitForHibernateUnblocked, HB!apps
    <2>2. hibernated' \subseteq HB!Active
      BY <1>0, <2>1
    <2>3. CASE HB!Goto(t, "invoke")
      <3> DEFINE c == [hcall[t] EXCEPT !.pc = "invoke"]
      <3>1. c \in HibCalls /\ c.pc = "invoke" /\ c.app = hcall[t].app /\ hcall' = [hcall EXCEPT ![t] = c]
        BY <1>3, <2>3
      <3> HIDE DEF c
      <3>2. QED
        BY <1>0, <1>2, <2>1, <2>2, <3>1
    <2>4. CASE hcall' = [hcall EXCEPT ![t] = HB!Idle]
      BY <1>2, <1>i, <2>1, <2>2, <2>4
    <2>5. QED
      BY <2>1, <2>3, <2>4
  <1>5. CASE HB!HibernateInvoke(t)
    <2>1. /\ hcall[t].pc = "invoke"
          /\ \/ /\ hcall[t].app \in HB!Active /\ HB!Goto(t, "mark")
                /\ hibernated' = hibernated \cup {hcall[t].app}
             \/ hcall' = [hcall EXCEPT ![t] = HB!Idle] /\ UNCHANGED hibernated
          /\ UNCHANGED <<focused, hstate, told, gSuspendedOrHibernatedApplications,
                         gHibernateBlocked, hcalls, hoverlap, restored, misled>>
      BY <1>5 DEF HB!HibernateInvoke
    <2>2. hibernated' \subseteq HB!Active
      BY <1>0, <2>1
    <2>3. CASE HB!Goto(t, "mark")
      <3> DEFINE c == [hcall[t] EXCEPT !.pc = "mark"]
      <3>1. c \in HibCalls /\ c.pc = "mark" /\ c.app = hcall[t].app /\ hcall' = [hcall EXCEPT ![t] = c]
        BY <1>3, <2>3
      <3> HIDE DEF c
      <3>2. QED
        BY <1>0, <1>2, <2>1, <2>2, <3>1
    <2>4. CASE hcall' = [hcall EXCEPT ![t] = HB!Idle]
      BY <1>2, <1>i, <2>1, <2>2, <2>4
    <2>5. QED
      BY <2>1, <2>3, <2>4
  <1>6. CASE HB!HibernateMark(t)
    <2> DEFINE a == hcall[t].app
    <2>1. /\ hcall[t].pc = "mark" /\ hcall' = [hcall EXCEPT ![t] = HB!Idle]
          /\ gSuspendedOrHibernatedApplications' = [gSuspendedOrHibernatedApplications EXCEPT ![a] = "yes"]
          /\ restored' = IF hstate[a] = "suspended" THEN restored ELSE restored \cup {a}
          /\ UNCHANGED <<focused, hstate, hibernated, told, gHibernateBlocked, hcalls, hoverlap, misled>>
      BY <1>6 DEF HB!HibernateMark, HB!apps
    <2>2. a \in HibApps
      BY <1>0, <2>1
    <2> HIDE DEF a
    <2>3. restored \subseteq restored' /\ restored' \subseteq HibApps
      BY <1>0, <2>1, <2>2
    <2>4. gSuspendedOrHibernatedApplications' \in [HibApps -> {"none", "yes", "no"}]
      BY <1>0, <2>1
    <2>5. MarksAreTrue'
      BY <1>0, <2>1, <2>2 DEF FocusInv, MarksAreTrue
    <2>6. hibernated' \subseteq HB!Active /\ hcalls' \in 0 .. MaxHibCalls
      BY <1>0, <2>1
    <2>7. QED
      BY <1>0, <1>i, <2>1, <2>3, <2>4, <2>5, <2>6, AsideKeeps DEF HB!FocusSteps
  <1>7. QED
    BY <1>1, <1>4, <1>5, <1>6

\* The framework, the applications, launch and setTopmost: no call moves.
LEMMA OutsideKeeps ==
  ASSUME FocusInv, MaxHibCalls \in Nat, NEW a \in HibApps,
         HB!SetTopmost(a) \/ HB!Restore(a) \/ HB!AppChanges(a) \/ HB!LaunchErase(a) \/ HB!HandleDeactivated(a)
  PROVE  FocusInv'
  <1>0. hcalls' \in 0 .. MaxHibCalls
    BY DEF HB!SetTopmost, HB!Restore, HB!AppChanges, HB!LaunchErase, HB!HandleDeactivated, HB!apps, FocusInv, HibTypes
  <1>1. /\ UNCHANGED <<hcall, gHibernateBlocked, restored>>
        /\ hstate \in [HibApps -> {"off", "resumed", "suspended"}]
        /\ hibernated \subseteq HB!Active /\ told \subseteq HB!Active /\ misled \subseteq HibApps
        /\ gSuspendedOrHibernatedApplications \in [HibApps -> {"none", "yes", "no"}]
    BY DEF HB!SetTopmost, HB!Restore, HB!AppChanges, HB!LaunchErase, HB!HandleDeactivated, HB!apps, FocusInv, HibTypes
  <1>2. /\ HB!Focusing' = HB!Focusing /\ Blocking' = Blocking /\ HibCallType'
        /\ \A t \in HB!HibThreads : hcall'[t] = hcall[t]
    BY <1>1 DEF HB!Focusing, Blocking, FocusInv, HibTypes, HibCallType
  <1>3. CASE HB!Restore(a) \/ HB!AppChanges(a) \/ HB!LaunchErase(a)
    <2>1. UNCHANGED <<focused, hoverlap, misled>> /\ told' \subseteq told
      BY <1>3 DEF HB!Restore, HB!AppChanges, HB!LaunchErase, HB!apps
    <2>2. /\ hstate' \in [HibApps -> {"off", "resumed", "suspended"}]
          /\ gSuspendedOrHibernatedApplications' \in [HibApps -> {"none", "yes", "no"}]
      BY <1>1, <1>3
      DEF HB!Restore, HB!AppChanges, HB!LaunchErase, HB!apps, HB!StateChange, HB!Erase
    <2>3. hibernated' \subseteq HB!Active' /\ told' \subseteq HB!Active'
      BY <1>1, <1>3, <2>2 DEF HB!Restore, HB!AppChanges, HB!LaunchErase, HB!apps, HB!Active
    <2>4. MarksAreTrue'
      <3>1. CASE HB!Restore(a)
        BY <1>1, <3>1 DEF HB!Restore, FocusInv, MarksAreTrue
      <3>2. CASE HB!AppChanges(a)
        BY <1>1, <3>2 DEF HB!AppChanges, HB!StateChange, FocusInv, MarksAreTrue
      <3>3. CASE HB!LaunchErase(a)
        BY <1>1, <3>3 DEF HB!LaunchErase, HB!apps, HB!Erase, FocusInv, MarksAreTrue
      <3>4. QED
        BY <1>3, <3>1, <3>2, <3>3
    <2>5. HibTypes'
      BY <1>0, <1>1, <1>2, <2>1, <2>2, <2>3 DEF FocusInv, HibTypes
    <2>6. OneFocuses' /\ HB!OnlyFocusedTold'
      BY <1>1, <1>2, <2>1 DEF FocusInv, OneFocuses, HB!OnlyFocusedTold, HB!Focusing
    <2>7. QED
      BY <2>4, <2>5, <2>6 DEF FocusInv
  <1>4. CASE HB!HandleDeactivated(a)
    <2>1. /\ hstate' = [hstate EXCEPT ![a] = "off"] /\ misled' = misled
          /\ hibernated' = hibernated \ {a} /\ told' = told \ {a}
          /\ gSuspendedOrHibernatedApplications' = [gSuspendedOrHibernatedApplications EXCEPT ![a] = "none"]
          /\ focused' = IF focused = a THEN NoApp ELSE focused
          /\ hoverlap' = (hoverlap \/ (HB!Focusing # {}))
      BY <1>4 DEF HB!HandleDeactivated, HB!Erase
    <2>2. hoverlap' \in BOOLEAN
      BY <2>1, Zenon
    <2>3. /\ hstate' \in [HibApps -> {"off", "resumed", "suspended"}]
          /\ gSuspendedOrHibernatedApplications' \in [HibApps -> {"none", "yes", "no"}]
          /\ hibernated' \subseteq HB!Active' /\ told' \subseteq HB!Active'
      BY <1>1, <2>1 DEF HB!Active
    <2>4. HibTypes'
      BY <1>0, <1>1, <1>2, <2>1, <2>2, <2>3 DEF FocusInv, HibTypes
    <2>5. MarksAreTrue'
      BY <1>1, <2>1 DEF FocusInv, MarksAreTrue
    <2>6. OneFocuses' /\ HB!OnlyFocusedTold'
      <3> SUFFICES ASSUME ~hoverlap' PROVE OneFocuses' /\ HB!OnlyFocusedTold'
        BY DEF OneFocuses, HB!OnlyFocusedTold
      <3>1. ~hoverlap /\ HB!Focusing = {} /\ \A b \in told \ (restored \cup misled) : focused = b
        BY <2>1 DEF FocusInv, HB!OnlyFocusedTold
      <3>2. QED
        BY <1>1, <1>2, <2>1, <3>1 DEF OneFocuses, HB!OnlyFocusedTold
    <2>7. QED
      BY <2>4, <2>5, <2>6 DEF FocusInv
  <1>5. CASE HB!SetTopmost(a)
    <2>1. /\ UNCHANGED <<hstate, hibernated, told, gSuspendedOrHibernatedApplications>>
          /\ focused' = a /\ misled' = (misled \cup ({focused} \cap HibApps)) \ {a}
          /\ hoverlap' = (hoverlap \/ (HB!Focusing # {}))
      BY <1>5 DEF HB!SetTopmost, HB!apps
    <2>2. hoverlap' \in BOOLEAN
      BY <2>1, Zenon
    <2>3. HibTypes'
      BY <1>0, <1>1, <1>2, <2>1, <2>2 DEF FocusInv, HibTypes, HB!Active
    <2>4. MarksAreTrue'
      BY <1>1, <2>1 DEF FocusInv, MarksAreTrue
    <2>5. OneFocuses' /\ HB!OnlyFocusedTold'
      <3> SUFFICES ASSUME ~hoverlap' PROVE OneFocuses' /\ HB!OnlyFocusedTold'
        BY DEF OneFocuses, HB!OnlyFocusedTold
      <3>1. ~hoverlap /\ HB!Focusing = {} /\ \A b \in told \ (restored \cup misled) : focused = b
        BY <2>1 DEF FocusInv, HB!OnlyFocusedTold
      <3>2. \A b \in told' \ (restored' \cup misled') : b = a
        <4> SUFFICES ASSUME NEW b \in told, b \notin restored, b \notin misled', b # a PROVE FALSE
          BY <1>1, <2>1
        <4>1. b \in HibApps /\ b \notin misled
          BY <1>1, <2>1 DEF HB!Active
        <4>2. QED
          BY <2>1, <3>1, <4>1
      <3>3. QED
        BY <1>2, <2>1, <3>1, <3>2 DEF OneFocuses, HB!OnlyFocusedTold
    <2>6. QED
      BY <2>3, <2>4, <2>5 DEF FocusInv
  <1>6. QED
    BY <1>3, <1>4, <1>5

LEMMA FocusKeeps ==
  ASSUME FocusInv, MaxHibCalls \in Nat, IsFiniteSet(Focusers), IsFiniteSet(Hibernators),
         NoApp \notin HibApps, HB!Next \/ UNCHANGED hibVars
  PROVE  FocusInv'
  <1>1. IsFiniteSet(HB!HibThreads) /\ Focusers \subseteq HB!HibThreads
    BY FS_Union DEF HB!HibThreads
  <1>2. CASE UNCHANGED hibVars
    <2>1. /\ HB!Focusing' = HB!Focusing /\ Blocking' = Blocking /\ HB!Active' = HB!Active
          /\ HibCallType' /\ hcall' = hcall
      BY <1>2 DEF hibVars, HB!Focusing, Blocking, HB!Active, FocusInv, HibTypes, HibCallType
    <2>2. HibTypes'
      BY <1>2, <2>1 DEF hibVars, FocusInv, HibTypes
    <2>3. MarksAreTrue' /\ OneFocuses' /\ HB!OnlyFocusedTold'
      BY <1>2, <2>1 DEF hibVars, FocusInv, MarksAreTrue, OneFocuses, HB!OnlyFocusedTold
    <2>4. QED
      BY <2>2, <2>3 DEF FocusInv
  <1>3. CASE HB!Next
    BY <1>1, <1>3, SetFocusKeeps, UnfocusKeeps, TellingKeeps, HibernateKeeps, OutsideKeeps DEF HB!Next
  <1>4. QED
    BY <1>2, <1>3

LEMMA FocusInit ==
  ASSUME MaxHibCalls \in Nat, IsFiniteSet(Focusers), IsFiniteSet(Hibernators), HB!Init
  PROVE  FocusInv
  <1>1. \A t \in HB!HibThreads : hcall[t] = HB!Idle
    BY DEF HB!Init
  <1>2. HB!Idle \in HibCalls /\ HB!Idle.pc = "idle"
    BY DEF HB!Idle, HibCalls, HibPcs
  <1>3. HibCallType /\ HB!Focusing = {} /\ Blocking = {}
    BY <1>1, <1>2 DEF HB!Init, HibCallType, HB!Focusing, Blocking, HB!FocusSteps
  <1>4. gHibernateBlocked = Cardinality(Blocking)
    BY <1>3, FS_EmptySet DEF HB!Init
  <1>5. hoverlap \in BOOLEAN /\ hoverlap = FALSE
    BY Zenon DEF HB!Init
  <1>6. HibTypes
    BY <1>3, <1>4, <1>5 DEF HB!Init, HibTypes, HB!Active
  <1>7. MarksAreTrue /\ OneFocuses /\ HB!OnlyFocusedTold
    BY <1>3 DEF HB!Init, MarksAreTrue, OneFocuses, HB!OnlyFocusedTold
  <1>8. QED
    BY <1>6, <1>7 DEF FocusInv

\* When no call of setFocus is under way, an application that runs does not believe to have
\* a focus that is another's, although setFocus does not tell suspended and hibernated ones:
\* for any number of calls of setFocus and hibernate, of restorations, deactivations and
\* changes of the applications' states (the exceptions are named with Hibernation's property).
THEOREM OnlyTheFocusedTold ==
  ASSUME MaxHibCalls \in Nat, IsFiniteSet(Focusers), IsFiniteSet(Hibernators), NoApp \notin HibApps
  PROVE  FlowsSpec => []OnlyFocusedTold
  <1>1. FlowsInit => FocusInv
    BY FocusInit DEF FlowsInit
  <1>2. FocusInv /\ [FlowsNext]_flowVars => FocusInv'
    <2>1. [FlowsNext]_flowVars => HB!Next \/ UNCHANGED hibVars
      BY DEF FlowsNext, flowVars
    <2>2. QED
      BY <2>1, FocusKeeps
  <1>3. FocusInv => OnlyFocusedTold
    BY HibTyping DEF FocusInv, OnlyFocusedTold
  <1>4. QED
    BY <1>1, <1>2, <1>3, PTL DEF FlowsSpec

-------------------------------------------------------------------------------
(***************************************************************************)
(* DacApps.                                                                *)
(***************************************************************************)

DacPcs ==
  {"idle", "display", "session", "container", "native", "suspend", "suspendsession", "resume",
   "resumecontainer", "hide", "show", "stop", "killed"} \cup DA!Waits

DacCalls ==
  [pc : DacPcs, client : Clients \cup {"none"}, state : DA!States, same : BOOLEAN, clean : BOOLEAN]

\* What the server has announced is so: it announces a change when it makes it.
Announced ==
  \A c \in Clients : appStateMap[c] # "ERROR" => appStateMap[c] = session[c]

Serves(t, c) == dcall[t].pc # "idle" /\ dcall[t].client = c

\* A session has the state that a call has waited for and keeps it: if anything is under
\* way it is a change to that state.
Settled(c, s) == session[c] = s /\ change[c] \in {"none", s}

\* What the steps so far of a call that is alone have established.
Prepared(d) ==
  LET c == d.client IN
    /\ d.pc \in {"session", "launchwait", "container"} => c \in display
    /\ d.pc \in {"display", "session", "suspend", "suspendsession", "resume"} => change[c] = "none"
    /\ d.pc \in {"launchwait", "resumewait"} => d.state = "ACTIVE" /\ change[c] \in {"none", "ACTIVE"}
    /\ d.pc \in {"container", "resumecontainer", "show"} => Settled(c, "ACTIVE")
    /\ d.pc = "suspendwait" => d.state = "INACTIVE" /\ change[c] \in {"none", "INACTIVE"}
    /\ d.pc = "hide" => Settled(c, "INACTIVE")
    /\ d.pc \in {"suspendsession", "suspendwait", "hide"} => container[c] = "paused"
    /\ d.pc = "show" => container[c] = "running"
    /\ d.pc \in {"stop", "killed"} => c \notin display
    /\ d.pc # "native"

CleanCalls ==
  \A t \in DacThreads : dcall[t].pc # "idle" /\ dcall[t].clean /\ dcall[t].client \in Dac =>
    /\ \A u \in DacThreads \ {t} : ~Serves(u, dcall[t].client)
    /\ Prepared(dcall[t])

\* A call that said so was the last one for its client, and nothing that is still under
\* way takes it back.
LastIsSo(c, what) ==
  /\ what \in {"launched", "resumed"} =>
       container[c] = "running" /\ Settled(c, "ACTIVE") /\ c \in display
  /\ what = "resumed" => c \in visible
  /\ what = "suspended" => container[c] = "paused" /\ Settled(c, "INACTIVE") /\ c \notin visible
  /\ what = "killed" => container[c] = "none" /\ c \notin display

LastCalls ==
  \A c \in Dac : last[c] # "none" => (\A t \in DacThreads : ~Serves(t, c)) /\ LastIsSo(c, last[c])

DacInv == DA!TypeOK /\ dcall \in [DacThreads -> DacCalls] /\ Announced /\ CleanCalls /\ LastCalls

\* The sets and functions of the clients have their types.
DacTypes ==
  /\ display \subseteq Clients /\ mime \subseteq display /\ visible \subseteq display
  /\ container \in [Clients -> {"none", "running", "paused"}]
  /\ session \in [Clients -> DA!States] /\ change \in [Clients -> DA!States \cup {"none"}]
  /\ appStateMap \in [Clients -> DA!States \cup {"ERROR"}]
  /\ dcalls \in 0 .. MaxDacCalls
  /\ last \in [Clients -> {"none", "launched", "suspended", "resumed", "killed"}]

LEMMA DacInit == ASSUME MaxDacCalls \in Nat, Dac \subseteq Clients, DA!Init PROVE DacInv
  <1>1. DA!Free \in DacCalls /\ DA!Free.pc = "idle"
    BY DEF DA!Free, DacCalls, DacPcs, DA!States
  <1>2. DA!TypeOK /\ dcall \in [DacThreads -> DacCalls]
    BY <1>1 DEF DA!Init, DA!TypeOK, DA!States
  <1>3. Announced /\ CleanCalls /\ LastCalls
    BY <1>1 DEF DA!Init, Announced, CleanCalls, LastCalls
  <1>4. QED
    BY <1>2, <1>3 DEF DacInv

\* Nothing that a step did to another client concerns this one.
SameClient(c) ==
  /\ c \in display' <=> c \in display
  /\ c \in visible' <=> c \in visible
  /\ container'[c] = container[c] /\ change'[c] = change[c] /\ session'[c] = session[c]

\* A step of a call that goes on or returns.
LEMMA StepKeeps ==
  ASSUME DacInv, Dac \subseteq Clients, NEW t \in DacThreads, NEW new \in DacCalls, NEW c,
         dcall[t].client = c, dcall[t].pc # "idle", dcall' = [dcall EXCEPT ![t] = new],
         new = DA!Free \/ (/\ new.pc # "idle" /\ new.client = c
                           /\ new.clean = dcall[t].clean),
         woken' \subseteq woken, t \in woken' => new.pc \in DA!Waits,
         DacTypes', UNCHANGED <<session, appStateMap>>,
         \A d \in Clients \ {c} : SameClient(d) /\ last'[d] = last[d],
         dcall[t].clean /\ c \in Dac /\ new # DA!Free => Prepared(new)',
         last'[c] = last[c] \/ (dcall[t].clean /\ new = DA!Free /\ (c \in Dac => LastIsSo(c, last[c])'))
  PROVE  DacInv'
  <1>1. /\ c \in Clients /\ DA!Free.pc = "idle"
        /\ \A u \in DacThreads : dcall'[u] = IF u = t THEN new ELSE dcall[u]
        /\ dcall' \in [DacThreads -> DacCalls]
    BY DEF DacInv, DA!TypeOK, DA!Free
  <1>2. DA!TypeOK'
    <2>1. \A u \in DacThreads :
            /\ dcall'[u].pc = "idle" => dcall'[u] = DA!Free
            /\ dcall'[u].pc # "idle" => dcall'[u].client \in Clients
            /\ u \in woken' => dcall'[u].pc \in DA!Waits
      BY <1>1 DEF DacInv, DA!TypeOK
    <2>2. QED
      BY <2>1 DEF DacTypes, DA!TypeOK
  <1>3. Announced'
    BY DEF DacInv, Announced
  <1>4. \A u \in DacThreads, d \in Clients : Serves(u, d)' => Serves(u, d)
    BY <1>1 DEF Serves
  <1>5. CleanCalls'
    <2> SUFFICES ASSUME NEW u \in DacThreads, dcall'[u].pc # "idle", dcall'[u].clean, dcall'[u].client \in Dac
                 PROVE  /\ \A v \in DacThreads \ {u} : ~Serves(v, dcall[u].client)'
                        /\ Prepared(dcall[u])'
      BY DEF CleanCalls
    <2>1. CASE u = t
      <3>1. new # DA!Free /\ dcall[t].clean /\ dcall'[u].client = c /\ dcall'[u] = new
        BY <1>1, <2>1
      <3>2. \A v \in DacThreads \ {u} : ~Serves(v, c)
        BY <1>1, <2>1, <3>1 DEF DacInv, CleanCalls
      <3>3. QED
        BY <1>1, <1>4, <2>1, <3>1, <3>2
    <2>2. CASE u # t
      <3>1. dcall'[u] = dcall[u] /\ \A v \in DacThreads \ {u} : ~Serves(v, dcall[u].client)
        BY <1>1, <2>2 DEF DacInv, CleanCalls
      <3>2. dcall[u].client # c
        BY <2>2, <3>1 DEF Serves
      <3>3. Prepared(dcall[u]) /\ dcall[u].client \in Clients
        BY <1>1, <2>2 DEF DacInv, CleanCalls
      <3>4. SameClient(dcall[u].client)
        BY <3>2, <3>3
      <3>5. Prepared(dcall[u])'
        BY <3>1, <3>3, <3>4 DEF Prepared, SameClient, Settled
      <3>6. QED
        BY <1>4, <3>1, <3>3, <3>5
    <2>3. QED
      BY <2>1, <2>2
  <1>6. LastCalls'
    <2> SUFFICES ASSUME NEW d \in Dac, last'[d] # "none"
                 PROVE  (\A u \in DacThreads : ~Serves(u, d)') /\ LastIsSo(d, last[d])'
      BY DEF LastCalls
    <2>1. CASE d = c
      <3>1. last[c] = "none"
        BY <2>1 DEF DacInv, LastCalls, Serves
      <3>2. dcall[t].clean /\ new = DA!Free /\ LastIsSo(d, last[d])'
        BY <2>1, <3>1
      <3>3. \A u \in DacThreads \ {t} : ~Serves(u, c)
        BY <2>1, <3>2 DEF DacInv, CleanCalls
      <3>4. \A u \in DacThreads : ~Serves(u, d)'
        BY <1>1, <1>4, <2>1, <3>2, <3>3 DEF Serves
      <3>5. QED
        BY <3>2, <3>4
    <2>2. CASE d # c
      <3>1. SameClient(d) /\ last'[d] = last[d]
        BY <2>2
      <3>2. (\A u \in DacThreads : ~Serves(u, d)) /\ LastIsSo(d, last[d])
        BY <3>1 DEF DacInv, LastCalls
      <3>3. LastIsSo(d, last[d])'
        BY <3>1, <3>2 DEF LastIsSo, SameClient, Settled
      <3>4. QED
        BY <1>4, <3>2, <3>3
    <2>3. QED
      BY <2>1, <2>2
  <1>7. QED
    BY <1>1, <1>2, <1>3, <1>5, <1>6 DEF DacInv

\* A call begins, and may take the display from its client.
LEMMA BeginKeeps ==
  ASSUME DacInv, MaxDacCalls \in Nat, Dac \subseteq Clients, NEW t \in DacThreads, NEW c \in Clients, NEW pc \in DacPcs,
         DA!Begin(t, c, pc), pc \notin DA!Waits, pc # "idle",
         display' \subseteq Clients, mime' \subseteq display', visible' \subseteq display',
         container' \in [Clients -> {"none", "running", "paused"}],
         UNCHANGED <<session, change, appStateMap, woken>>,
         \A d \in Clients \ {c} : SameClient(d),
         \* what the beginning establishes
         c \in Dac => /\ pc \in {"display", "suspend", "resume", "stop", "killed"}
                      /\ pc \in {"stop", "killed"} => c \notin display'
  PROVE  DacInv'
  <1>1. PICK same \in BOOLEAN :
          dcall' = [u \in DacThreads |->
            IF u = t THEN [DA!Free EXCEPT !.pc = pc, !.client = c, !.same = same,
                                          !.clean = {v \in DacThreads : DA!Client(v) = c} = {} /\ change[c] = "none"]
            ELSE IF u \in {v \in DacThreads : DA!Client(v) = c} THEN [dcall[u] EXCEPT !.clean = FALSE]
            ELSE dcall[u]]
    BY DEF DA!Begin
  <1>2. /\ dcall[t] = DA!Free /\ dcalls < MaxDacCalls /\ dcalls' = dcalls + 1
        /\ last' = [last EXCEPT ![c] = "none"]
    BY DEF DA!Begin
  <1> DEFINE alone == {v \in DacThreads : DA!Client(v) = c} = {} /\ change[c] = "none"
             new == [pc |-> pc, client |-> c, state |-> "ACTIVE", same |-> same, clean |-> alone]
  <1>3. alone \in BOOLEAN
    BY Zenon
  <1>4. alone <=> (\A v \in DacThreads : dcall[v].client # c) /\ change[c] = "none"
    BY DEF DA!Client
  <1> HIDE DEF alone
  <1>5. new \in DacCalls
    BY <1>3 DEF DacCalls, DA!States
  <1>6. dcall'[t] = new
    BY <1>1 DEF DA!Free, alone
  <1>7. \A u \in DacThreads \ {t} :
          /\ dcall'[u] \in DacCalls /\ dcall'[u].pc = dcall[u].pc /\ dcall'[u].client = dcall[u].client
          /\ dcall[u].client = c => dcall'[u].clean = FALSE
          /\ dcall[u].client # c => dcall'[u] = dcall[u]
          /\ dcall'[u].pc = "idle" => dcall'[u] = DA!Free
    <2> SUFFICES ASSUME NEW u \in DacThreads \ {t}
                 PROVE  /\ dcall'[u] \in DacCalls /\ dcall'[u].pc = dcall[u].pc /\ dcall'[u].client = dcall[u].client
                        /\ dcall[u].client = c => dcall'[u].clean = FALSE
                        /\ dcall[u].client # c => dcall'[u] = dcall[u]
                        /\ dcall'[u].pc = "idle" => dcall'[u] = DA!Free
      OBVIOUS
    <2>1. dcall[u] \in DacCalls /\ (dcall[u].pc = "idle" => dcall[u] = DA!Free)
      BY DEF DacInv, DA!TypeOK
    <2>2. CASE dcall[u].client = c
      <3>1. dcall'[u] = [dcall[u] EXCEPT !.clean = FALSE]
        BY <1>1, <2>2 DEF DA!Client
      <3>2. /\ dcall'[u] \in DacCalls /\ dcall'[u].pc = dcall[u].pc /\ dcall'[u].client = dcall[u].client
            /\ dcall'[u].clean = FALSE
        BY <2>1, <2>2, <3>1 DEF DacCalls
      <3>3. dcall[u].pc = "idle" => dcall'[u] = DA!Free
        <4>1. /\ dcall'[u].state = dcall[u].state /\ dcall'[u].same = dcall[u].same
          BY <2>1, <3>1 DEF DacCalls
        <4>2. dcall[u].pc = "idle" =>
                dcall'[u] = [pc |-> "idle", client |-> "none", state |-> "ACTIVE", same |-> TRUE, clean |-> FALSE]
          BY <2>1, <3>2, <4>1 DEF DacCalls, DA!Free
        <4>3. QED
          BY <2>1, <3>2, <4>2 DEF DA!Free
      <3>4. QED
        BY <2>2, <3>2, <3>3
    <2>3. CASE dcall[u].client # c
      BY <1>1, <2>1, <2>3 DEF DA!Client
    <2>4. QED
      BY <2>2, <2>3
  <1>8. dcall' \in [DacThreads -> DacCalls]
    <2>1. DOMAIN dcall' = DacThreads /\ dcall' = [u \in DacThreads |-> dcall'[u]]
      BY <1>1
    <2>2. QED
      BY <1>5, <1>6, <1>7, <2>1
  <1>9. DA!TypeOK'
    <2>1. \A u \in DacThreads :
            /\ dcall'[u].pc = "idle" => dcall'[u] = DA!Free
            /\ dcall'[u].pc # "idle" => dcall'[u].client \in Clients
            /\ u \in woken' => dcall'[u].pc \in DA!Waits
      BY <1>2, <1>6, <1>7 DEF DacInv, DA!TypeOK, DA!Free, DA!Waits
    <2>2. /\ dcalls' \in 0 .. MaxDacCalls
          /\ last' \in [Clients -> {"none", "launched", "suspended", "resumed", "killed"}]
      BY <1>2 DEF DacInv, DA!TypeOK
    <2>3. QED
      BY <2>1, <2>2 DEF DacInv, DA!TypeOK
  <1>10. Announced'
    BY DEF DacInv, Announced
  <1>11. \A u \in DacThreads \ {t}, d \in Clients : Serves(u, d)' <=> Serves(u, d)
    BY <1>7 DEF Serves
  <1>12. \A d \in Clients \ {c} : ~Serves(t, d)'
    BY <1>6 DEF Serves
  <1>13. CleanCalls'
    <2> SUFFICES ASSUME NEW u \in DacThreads, dcall'[u].pc # "idle", dcall'[u].clean, dcall'[u].client \in Dac
                 PROVE  /\ \A v \in DacThreads \ {u} : ~Serves(v, dcall[u].client)'
                        /\ Prepared(dcall[u])'
      BY DEF CleanCalls
    <2>1. CASE u = t
      <3>1. alone /\ dcall'[u] = new
        BY <1>6, <2>1
      <3>2. \A v \in DacThreads \ {u} : ~Serves(v, c)'
        BY <1>4, <1>11, <2>1, <3>1 DEF Serves
      <3>3. change'[c] = "none" /\ c \in Dac
        BY <1>4, <3>1
      <3>4. Prepared(dcall[u])'
        BY <3>1, <3>3 DEF Prepared
      <3>5. QED
        BY <3>1, <3>2, <3>4
    <2>2. CASE u # t
      <3>1. dcall'[u] = dcall[u] /\ dcall[u].client \in Clients \ {c}
        BY <1>7, <2>2
      <3>2. (\A v \in DacThreads \ {u} : ~Serves(v, dcall[u].client)) /\ Prepared(dcall[u])
        BY <3>1 DEF DacInv, CleanCalls
      <3>3. SameClient(dcall[u].client)
        BY <3>1
      <3>4. Prepared(dcall[u])'
        BY <3>1, <3>2, <3>3 DEF Prepared, SameClient, Settled
      <3>5. QED
        BY <1>11, <1>12, <3>1, <3>2, <3>4
    <2>3. QED
      BY <2>1, <2>2
  <1>14. LastCalls'
    <2> SUFFICES ASSUME NEW d \in Dac, last'[d] # "none"
                 PROVE  (\A u \in DacThreads : ~Serves(u, d)') /\ LastIsSo(d, last[d])'
      BY DEF LastCalls
    <2>1. d # c /\ last'[d] = last[d] /\ d \in Clients
      BY <1>2 DEF DacInv, DA!TypeOK
    <2>2. (\A u \in DacThreads : ~Serves(u, d)) /\ LastIsSo(d, last[d])
      BY <2>1 DEF DacInv, LastCalls
    <2>3. LastIsSo(d, last[d])'
      BY <2>1, <2>2 DEF LastIsSo, SameClient, Settled
    <2>4. QED
      BY <1>11, <1>12, <2>1, <2>2, <2>3
  <1>15. QED
    BY <1>8, <1>9, <1>10, <1>13, <1>14 DEF DacInv

\* The server changes a session and announces it.
LEMMA SessionKeeps ==
  ASSUME DacInv, Dac \subseteq Clients, NEW c \in Clients, DA!SessionChanges(c)
  PROVE  DacInv'
  <1>1. /\ change[c] # "none" /\ session' = [session EXCEPT ![c] = change[c]]
        /\ change' = [change EXCEPT ![c] = "none"] /\ appStateMap' = [appStateMap EXCEPT ![c] = change[c]]
        /\ UNCHANGED <<dcall, display, mime, visible, container, dcalls, last>>
        /\ \A t \in woken' : t \in woken \/ dcall[t].pc \in DA!Waits
    BY DEF DA!SessionChanges, DA!stateChanged, DA!shown
  <1>2. /\ session \in [Clients -> DA!States] /\ change \in [Clients -> DA!States \cup {"none"}]
        /\ appStateMap \in [Clients -> DA!States \cup {"ERROR"}]
    BY DEF DacInv, DA!TypeOK
  <1>3. change[c] \in DA!States
    BY <1>1, <1>2
  <1>4. DA!TypeOK'
    <2>1. /\ session' \in [Clients -> DA!States] /\ change' \in [Clients -> DA!States \cup {"none"}]
          /\ appStateMap' \in [Clients -> DA!States \cup {"ERROR"}]
      BY <1>1, <1>2, <1>3
    <2>2. \A t \in DacThreads : t \in woken' => dcall'[t].pc \in DA!Waits
      BY <1>1 DEF DacInv, DA!TypeOK
    <2>3. QED
      BY <1>1, <2>1, <2>2 DEF DacInv, DA!TypeOK
  <1>5. \A d \in Clients :
          /\ session'[d] = IF d = c THEN change[c] ELSE session[d]
          /\ change'[d] = IF d = c THEN "none" ELSE change[d]
          /\ appStateMap'[d] = IF d = c THEN change[c] ELSE appStateMap[d]
    BY <1>1, <1>2
  <1>6. Announced'
    BY <1>5 DEF DacInv, Announced
  <1>7. \A d \in Clients, s \in DA!States : Settled(d, s) => Settled(d, s)'
    BY <1>1, <1>5 DEF Settled
  <1>8. CleanCalls'
    <2> SUFFICES ASSUME NEW t \in DacThreads, dcall[t].pc # "idle", dcall[t].clean, dcall[t].client \in Dac
                 PROVE  /\ \A u \in DacThreads \ {t} : ~Serves(u, dcall[t].client)'
                        /\ Prepared(dcall[t])'
      BY <1>1 DEF CleanCalls
    <2>1. (\A u \in DacThreads \ {t} : ~Serves(u, dcall[t].client)) /\ Prepared(dcall[t])
      BY DEF DacInv, CleanCalls
    <2>2. Prepared(dcall[t])'
      BY <1>1, <1>5, <1>7, <2>1 DEF Prepared, DA!States
    <2>3. QED
      BY <1>1, <2>1, <2>2 DEF Serves
  <1>9. LastCalls'
    <2> SUFFICES ASSUME NEW d \in Dac, last[d] # "none"
                 PROVE  (\A t \in DacThreads : ~Serves(t, d)') /\ LastIsSo(d, last[d])'
      BY <1>1 DEF LastCalls
    <2>1. (\A t \in DacThreads : ~Serves(t, d)) /\ LastIsSo(d, last[d])
      BY DEF DacInv, LastCalls
    <2>2. LastIsSo(d, last[d])'
      BY <1>1, <1>7, <2>1 DEF LastIsSo, DA!States
    <2>3. QED
      BY <1>1, <2>1, <2>2 DEF Serves
  <1>10. QED
    BY <1>1, <1>4, <1>6, <1>8, <1>9 DEF DacInv

LEMMA BeginningsKeep ==
  ASSUME DacInv, MaxDacCalls \in Nat, Dac \subseteq Clients, NEW t \in DacThreads, NEW c \in Clients,
         DA!LaunchBegin(t, c) \/ DA!SuspendBegin(t, c) \/ DA!ResumeBegin(t, c) \/ DA!Kill(t, c)
  PROVE  DacInv'
  <1>1. DacTypes
    BY DEF DacInv, DA!TypeOK, DacTypes
  <1>2. CASE DA!LaunchBegin(t, c) \/ DA!SuspendBegin(t, c) \/ DA!ResumeBegin(t, c)
    <2>1. PICK pc \in {"display", "native", "suspend", "resume"} :
            DA!Begin(t, c, pc) /\ (c \in Dac => pc # "native")
      BY <1>2 DEF DA!LaunchBegin, DA!SuspendBegin, DA!ResumeBegin
    <2>2. UNCHANGED <<display, mime, visible, container, session, change, appStateMap, woken>>
      BY <1>2 DEF DA!LaunchBegin, DA!SuspendBegin, DA!ResumeBegin, DA!shown, DA!server
    <2>3. pc \in DacPcs /\ pc \notin DA!Waits /\ pc # "idle"
      BY DEF DacPcs, DA!Waits
    <2>4. \A d \in Clients \ {c} : SameClient(d)
      BY <2>2 DEF SameClient
    <2>5. /\ display' \subseteq Clients /\ mime' \subseteq display' /\ visible' \subseteq display'
          /\ container' \in [Clients -> {"none", "running", "paused"}]
      BY <1>1, <2>2 DEF DacTypes
    <2>6. QED
      BY <2>1, <2>2, <2>3, <2>4, <2>5, BeginKeeps
  <1>3. CASE DA!Kill(t, c)
    <2>1. PICK pc \in {"stop", "killed"} : DA!Begin(t, c, pc)
      BY <1>3 DEF DA!Kill
    <2>2. /\ display' = display \ {c} /\ mime' = mime \ {c} /\ visible' = visible \ {c}
          /\ container' = IF c \in Dac THEN container ELSE [container EXCEPT ![c] = "none"]
          /\ UNCHANGED <<session, change, appStateMap, woken>>
      BY <1>3 DEF DA!Kill, DA!server
    <2>3. pc \in DacPcs /\ pc \notin DA!Waits /\ pc # "idle"
      BY DEF DacPcs, DA!Waits
    <2>4. \A d \in Clients \ {c} : SameClient(d)
      BY <1>1, <2>2 DEF SameClient, DacTypes
    <2>5. /\ display' \subseteq Clients /\ mime' \subseteq display' /\ visible' \subseteq display'
          /\ container' \in [Clients -> {"none", "running", "paused"}]
      BY <1>1, <2>2 DEF DacTypes
    <2>6. c \notin display'
      BY <2>2
    <2>7. QED
      BY <2>1, <2>2, <2>3, <2>4, <2>5, <2>6, BeginKeeps
  <1>4. QED
    BY <1>2, <1>3

\* What a step may ask the server for, and what a wait begins with.
LEMMA AskType ==
  ASSUME DacTypes, NEW c \in Clients, NEW s \in DA!States, DA!Ask(c, s)
  PROVE  /\ change' \in [Clients -> DA!States \cup {"none"}]
         /\ change'[c] \in {change[c], s}
         /\ \A d \in Clients \ {c} : change'[d] = change[d]
  BY DEF DacTypes, DA!Ask

\* A step that leaves the compositor, the container and the answers alone.
LEMMA QuietStep ==
  ASSUME DacInv, NEW t \in DacThreads, dcall[t].pc # "idle",
         UNCHANGED <<display, mime, visible, container, session, appStateMap, dcalls, last>>,
         change' \in [Clients -> DA!States \cup {"none"}],
         NEW c, \A d \in Clients \ {c} : change'[d] = change[d]
  PROVE  /\ DacTypes'
         /\ \A d \in Clients \ {c} : SameClient(d) /\ last'[d] = last[d]
  <1>1. DacTypes'
    BY DEF DacInv, DA!TypeOK, DacTypes
  <1>2. QED
    BY <1>1 DEF SameClient

\* What is known of the call that makes a step.
LEMMA StepBegins ==
  ASSUME DacInv, NEW t \in DacThreads, dcall[t].pc # "idle"
  PROVE  /\ DacTypes /\ dcall[t] \in DacCalls /\ dcall[t].client \in Clients
         /\ dcall[t].clean /\ dcall[t].client \in Dac => Prepared(dcall[t])
         /\ t \in woken => dcall[t].pc \in DA!Waits
         /\ DA!Free \in DacCalls /\ DA!Free.pc = "idle"
  BY DEF DacInv, DA!TypeOK, DacTypes, CleanCalls, DA!Free, DacCalls, DacPcs, DA!States

\* A call that returns without saying that it succeeded.
LEMMA ReturnKeeps ==
  ASSUME DacInv, Dac \subseteq Clients, NEW t \in DacThreads, DA!Return(t),
         dcall[t].pc # "idle", t \notin woken', woken' \subseteq woken,
         DacTypes', UNCHANGED <<session, appStateMap, last>>,
         \A d \in Clients \ {dcall[t].client} : SameClient(d)
  PROVE  DacInv'
  BY StepBegins, StepKeeps DEF DA!Return

\* A call that succeeded.
LEMMA SucceedKeeps ==
  ASSUME DacInv, Dac \subseteq Clients, NEW t \in DacThreads,
         NEW what \in {"launched", "suspended", "resumed", "killed"}, DA!Succeed(t, what),
         dcall[t].pc \notin DA!Waits \cup {"idle"}, UNCHANGED <<session, appStateMap, woken>>,
         NEW c, c = dcall[t].client,
         last' \in [Clients -> {"none", "launched", "suspended", "resumed", "killed"}] => DacTypes',
         \A d \in Clients \ {c} : SameClient(d),
         dcall[t].clean /\ c \in Dac => LastIsSo(c, what)'
  PROVE  DacInv'
  <1>1. /\ DacTypes /\ dcall[t] \in DacCalls /\ c \in Clients /\ DA!Free \in DacCalls
        /\ t \notin woken
    BY StepBegins
  <1>2. /\ dcall' = [dcall EXCEPT ![t] = DA!Free]
        /\ last' = IF dcall[t].clean THEN [last EXCEPT ![c] = what] ELSE last
    BY DEF DA!Succeed, DA!Return, DA!Client
  <1>3. DacTypes'
    BY <1>1, <1>2 DEF DacTypes
  <1>4. /\ \A d \in Clients \ {c} : last'[d] = last[d]
        /\ dcall[t].clean => last'[c] = what
    BY <1>1, <1>2 DEF DacTypes
  <1>5. last'[c] = last[c] \/ (dcall[t].clean /\ (c \in Dac => LastIsSo(c, last[c])'))
    BY <1>2, <1>4
  <1>6. QED
    BY <1>1, <1>2, <1>3, <1>4, <1>5, StepKeeps

\* A call that goes on: it stands at pc and waits for s if it waits.
GoesTo(t, pc, s) ==
  \/ dcall' = [dcall EXCEPT ![t].pc = pc] /\ s = dcall[t].state
  \/ dcall' = [dcall EXCEPT ![t].state = s, ![t].pc = pc]

LEMMA GoesOn ==
  ASSUME DacInv, NEW t \in DacThreads, NEW pc \in DacPcs, NEW s \in DA!States, GoesTo(t, pc, s)
  PROVE  \E new \in DacCalls :
           /\ dcall' = [dcall EXCEPT ![t] = new]
           /\ new.pc = pc /\ new.client = dcall[t].client /\ new.state = s /\ new.clean = dcall[t].clean
  <1>1. dcall[t] \in DacCalls /\ DOMAIN dcall = DacThreads
    BY DEF DacInv
  <1>2. PICK new \in DacCalls :
          new = [pc |-> pc, client |-> dcall[t].client, state |-> s, same |-> dcall[t].same,
                 clean |-> dcall[t].clean]
    BY <1>1 DEF DacCalls
  <1>3. dcall'[t] = new
    <2> USE DEF GoesTo
    <2>1. CASE dcall' = [dcall EXCEPT ![t].pc = pc] /\ s = dcall[t].state
      BY <1>1, <1>2, <2>1 DEF DacCalls
    <2>2. CASE dcall' = [dcall EXCEPT ![t].state = s, ![t].pc = pc]
      BY <1>1, <1>2, <2>2 DEF DacCalls
    <2>3. QED
      BY <2>1, <2>2
  <1>4. dcall' = [dcall EXCEPT ![t] = new]
    <2>1. /\ DOMAIN dcall' = DacThreads /\ dcall' = [u \in DacThreads |-> dcall'[u]]
          /\ \A u \in DacThreads \ {t} : dcall'[u] = dcall[u]
      BY <1>1 DEF GoesTo
    <2>2. QED
      BY <1>1, <1>3, <2>1
  <1>5. QED
    BY <1>2, <1>4

\* Such a step, whose call keeps its promises.
LEMMA GoKeeps ==
  ASSUME DacInv, Dac \subseteq Clients, NEW t \in DacThreads, NEW new \in DacCalls,
         dcall[t].pc # "idle", new.pc # "idle", dcall' = [dcall EXCEPT ![t] = new],
         new.client = dcall[t].client, new.clean = dcall[t].clean,
         woken' \subseteq woken, t \in woken' => new.pc \in DA!Waits,
         DacTypes', UNCHANGED <<session, appStateMap, last>>,
         \A d \in Clients \ {new.client} : SameClient(d),
         new.clean /\ new.client \in Dac => Prepared(new)'
  PROVE  DacInv'
  <1>1. PICK c : c = dcall[t].client
    OBVIOUS
  <1>2. \A d \in Clients \ {c} : SameClient(d) /\ last'[d] = last[d]
    BY <1>1
  <1>3. QED
    BY <1>1, <1>2, StepKeeps

LEMMA LaunchSteps ==
  ASSUME DacInv, Dac \subseteq Clients, NEW t \in DacThreads,
         DA!LaunchDisplay(t) \/ DA!LaunchSession(t) \/ DA!LaunchContainer(t) \/ DA!LaunchNative(t)
  PROVE  DacInv'
  <1>1. PICK c \in Clients : c = dcall[t].client
    BY DEF DacInv, DA!TypeOK, DA!LaunchDisplay, DA!LaunchSession, DA!LaunchContainer, DA!LaunchNative
  <1>2. dcall[t].pc \in {"display", "session", "container", "native"} /\ UNCHANGED <<woken, dcalls>>
    BY DEF DA!LaunchDisplay, DA!LaunchSession, DA!LaunchContainer, DA!LaunchNative
  <1>3. /\ DacTypes /\ dcall[t] \in DacCalls /\ t \notin woken /\ DA!Client(t) = c
        /\ dcall[t].clean /\ c \in Dac => Prepared(dcall[t])
    BY <1>1, <1>2, StepBegins DEF DA!Waits, DA!Client
  <1>4. "session" \in DacPcs \ {"idle"} /\ "launchwait" \in DacPcs \ {"idle"} /\ dcall[t].state \in DA!States
        /\ "ACTIVE" \in DA!States /\ "NOT_RUNNING" \in DA!States
    BY <1>3 DEF DacPcs, DA!Waits, DacCalls, DA!States
  <1>5. CASE DA!LaunchDisplay(t)
    <2>1. CASE DA!Return(t) /\ UNCHANGED DA!shown
      <3>1. UNCHANGED <<display, mime, visible, container, session, change, appStateMap, last>>
        BY <1>5, <2>1 DEF DA!LaunchDisplay, DA!shown, DA!server
      <3>2. DacTypes' /\ \A d \in Clients \ {c} : SameClient(d)
        BY <1>2, <1>3, <3>1 DEF DacTypes, SameClient
      <3>3. QED
        BY <1>1, <1>2, <1>3, <2>1, <3>1, <3>2, ReturnKeeps
    <2>2. CASE ~(DA!Return(t) /\ UNCHANGED DA!shown)
      <3>1. /\ display' = display \cup {c} /\ visible' = visible \cup {c} /\ mime' \in {mime, mime \cup {c}}
            /\ dcall' = [dcall EXCEPT ![t].pc = "session"]
            /\ UNCHANGED <<container, session, change, appStateMap, last>> /\ dcall[t].pc = "display"
        BY <1>3, <1>5, <2>2 DEF DA!LaunchDisplay, DA!Goto, DA!server
      <3>2. DacTypes' /\ \A d \in Clients \ {c} : SameClient(d)
        BY <1>2, <1>3, <3>1 DEF DacTypes, SameClient
      <3>3. dcall[t].clean /\ c \in Dac => change[c] = "none"
        BY <1>1, <1>3, <3>1 DEF Prepared
      <3>4. PICK new \in DacCalls :
              /\ dcall' = [dcall EXCEPT ![t] = new]
              /\ new.pc = "session" /\ new.client = c /\ new.clean = dcall[t].clean
        <4>1. GoesTo(t, "session", dcall[t].state)
          BY <3>1 DEF GoesTo
        <4>2. QED
          BY <1>1, <1>4, <4>1, GoesOn
      <3>5. new.clean /\ new.client \in Dac => Prepared(new)'
        BY <3>1, <3>3, <3>4 DEF Prepared
      <3>6. QED
        BY <1>1, <1>2, <1>3, <3>1, <3>2, <3>4, <3>5, GoKeeps
    <2>3. QED
      BY <2>1, <2>2
  <1>6. CASE DA!LaunchSession(t)
    <2>1. UNCHANGED <<display, mime, visible, container, session, appStateMap, last>> /\ dcall[t].pc = "session"
      BY <1>6 DEF DA!LaunchSession, DA!shown
    <2>2. CASE DA!Return(t) /\ UNCHANGED change
      <3>1. DacTypes' /\ \A d \in Clients \ {c} : SameClient(d)
        BY <1>2, <1>3, <2>1, <2>2 DEF DacTypes, SameClient
      <3>2. QED
        BY <1>1, <1>2, <1>3, <2>1, <2>2, <3>1, ReturnKeeps
    <2>3. CASE ~(DA!Return(t) /\ UNCHANGED change)
      <3>1. session[c] = "NOT_RUNNING" /\ DA!Ask(c, "ACTIVE") /\ DA!WaitFor(t, "launchwait", "container", "ACTIVE")
        BY <1>3, <1>6, <2>3 DEF DA!LaunchSession
      <3>2. appStateMap[c] # "ACTIVE"
        BY <3>1 DEF DacInv, Announced
      <3>3. dcall' = [dcall EXCEPT ![t].state = "ACTIVE", ![t].pc = "launchwait"]
        BY <1>3, <2>1, <3>1, <3>2 DEF DA!WaitFor
      <3>4. /\ change' \in [Clients -> DA!States \cup {"none"}] /\ change'[c] \in {change[c], "ACTIVE"}
            /\ \A d \in Clients \ {c} : change'[d] = change[d]
        BY <1>3, <1>4, <3>1, AskType
      <3>5. DacTypes' /\ \A d \in Clients \ {c} : SameClient(d)
        BY <1>2, <1>3, <2>1, <3>4 DEF DacTypes, SameClient
      <3>6. dcall[t].clean /\ c \in Dac => change'[c] \in {"none", "ACTIVE"} /\ c \in display
        BY <1>1, <1>3, <2>1, <3>4 DEF Prepared
      <3>7. PICK new \in DacCalls :
              /\ dcall' = [dcall EXCEPT ![t] = new] /\ new.state = "ACTIVE"
              /\ new.pc = "launchwait" /\ new.client = c /\ new.clean = dcall[t].clean
        <4>1. GoesTo(t, "launchwait", "ACTIVE")
          BY <3>3 DEF GoesTo
        <4>2. QED
          BY <1>1, <1>4, <4>1, GoesOn
      <3>8. new.clean /\ new.client \in Dac => Prepared(new)'
        BY <2>1, <3>6, <3>7 DEF Prepared
      <3>9. QED
        BY <1>1, <1>2, <1>3, <2>1, <3>5, <3>7, <3>8, GoKeeps
    <2>4. QED
      BY <2>2, <2>3
  <1>7. CASE DA!LaunchContainer(t)
    <2>1. UNCHANGED <<session, appStateMap>> /\ dcall[t].pc = "container"
      BY <1>7 DEF DA!LaunchContainer
    <2>2. CASE container[c] = "none" /\ container' = [container EXCEPT ![c] = "running"]
               /\ DA!Succeed(t, "launched") /\ UNCHANGED <<DA!shown, change>>
      <3>1. \A d \in Clients \ {c} : SameClient(d)
        BY <1>3, <2>1, <2>2 DEF DacTypes, SameClient, DA!shown
      <3>2. /\ container' \in [Clients -> {"none", "running", "paused"}] /\ container'[c] = "running"
            /\ UNCHANGED <<display, mime, visible, change>>
        BY <1>3, <2>2 DEF DacTypes, DA!shown
      <3>3. last' \in [Clients -> {"none", "launched", "suspended", "resumed", "killed"}] => DacTypes'
        BY <1>2, <1>3, <2>1, <3>2 DEF DacTypes
      <3>4. dcall[t].clean /\ c \in Dac => LastIsSo(c, "launched")'
        BY <1>1, <1>3, <2>1, <3>2 DEF Prepared, LastIsSo, Settled
      <3>5. dcall[t].pc \notin DA!Waits \cup {"idle"}
        BY <2>1 DEF DA!Waits
      <3>6. QED
        BY <1>1, <1>2, <2>1, <2>2, <3>1, <3>3, <3>4, <3>5, SucceedKeeps
    <2>3. CASE /\ DA!Return(t) /\ DA!deactivateSession(c) /\ UNCHANGED <<container, last>>
               /\ \/ UNCHANGED DA!shown
                  \/ display' = display \ {c} /\ mime' = mime \ {c} /\ visible' = visible \ {c}
      <3>1. /\ change' \in [Clients -> DA!States \cup {"none"}]
            /\ \A d \in Clients \ {c} : change'[d] = change[d]
        BY <1>3, <1>4, <2>3, AskType DEF DA!deactivateSession, DacTypes
      <3>2. DacTypes' /\ \A d \in Clients \ {c} : SameClient(d)
        BY <1>2, <1>3, <2>1, <2>3, <3>1 DEF DacTypes, SameClient, DA!shown
      <3>3. QED
        BY <1>1, <1>2, <1>3, <2>1, <2>3, <3>2, ReturnKeeps
    <2>4. QED
      BY <1>3, <1>7, <2>2, <2>3 DEF DA!LaunchContainer
  <1>8. CASE DA!LaunchNative(t)
    <2>1. UNCHANGED <<session, change, appStateMap>> /\ dcall[t].pc = "native" /\ ~(dcall[t].clean /\ c \in Dac)
      BY <1>3, <1>8 DEF DA!LaunchNative, DA!server, Prepared
    <2>2. CASE DA!Return(t) /\ UNCHANGED <<DA!shown, container, last>>
      <3>1. DacTypes' /\ \A d \in Clients \ {c} : SameClient(d)
        BY <1>2, <1>3, <2>1, <2>2 DEF DacTypes, SameClient, DA!shown
      <3>2. QED
        BY <1>1, <1>2, <1>3, <2>1, <2>2, <3>1, ReturnKeeps
    <2>3. CASE ~(DA!Return(t) /\ UNCHANGED <<DA!shown, container, last>>)
      <3>1. /\ display' = display \cup {c} /\ mime' = mime \cup {c} /\ visible' = visible \cup {c}
            /\ container' = [container EXCEPT ![c] = "running"] /\ DA!Succeed(t, "launched")
        BY <1>3, <1>8, <2>3 DEF DA!LaunchNative
      <3>2. \A d \in Clients \ {c} : SameClient(d)
        BY <1>3, <2>1, <3>1 DEF DacTypes, SameClient
      <3>3. last' \in [Clients -> {"none", "launched", "suspended", "resumed", "killed"}] => DacTypes'
        BY <1>2, <1>3, <2>1, <3>1 DEF DacTypes
      <3>4. dcall[t].pc \notin DA!Waits \cup {"idle"}
        BY <2>1 DEF DA!Waits
      <3>5. QED
        BY <1>1, <1>2, <2>1, <3>1, <3>2, <3>3, <3>4, SucceedKeeps
    <2>4. QED
      BY <2>2, <2>3
  <1>9. QED
    BY <1>5, <1>6, <1>7, <1>8

\* The suspension and the resumption of a native application say nothing of DAC ones.
LEMMA NativeKeeps ==
  ASSUME DacInv, Dac \subseteq Clients, NEW t \in DacThreads, NEW to \in {"paused", "running"},
         dcall[t].pc \notin DA!Waits \cup {"idle"}, DA!NativeStep(t, to),
         UNCHANGED <<display, mime, visible, session, change, appStateMap, woken, dcalls, last>>
  PROVE  DacInv'
  <1>1. PICK c \in Clients : c = dcall[t].client
    BY DEF DacInv, DA!TypeOK
  <1>2. PICK pc \in {"hide", "show"} :
          /\ dcall' = [dcall EXCEPT ![t].pc = pc] /\ c \notin Dac
          /\ container' \in {container, [container EXCEPT ![c] = IF @ = "none" THEN @ ELSE to]}
    BY <1>1 DEF DA!NativeStep, DA!Goto, DA!Client
  <1>3. DacTypes /\ dcall[t] \in DacCalls /\ t \notin woken
    BY StepBegins
  <1>4. pc \in DacPcs /\ pc # "idle" /\ dcall[t].state \in DA!States /\ GoesTo(t, pc, dcall[t].state)
    BY <1>2, <1>3 DEF DacPcs, DacCalls, GoesTo
  <1>5. PICK new \in DacCalls :
          /\ dcall' = [dcall EXCEPT ![t] = new]
          /\ new.pc = pc /\ new.client = c /\ new.clean = dcall[t].clean
    BY <1>1, <1>4, GoesOn
  <1>6. DacTypes' /\ \A d \in Clients \ {c} : SameClient(d)
    BY <1>2, <1>3 DEF DacTypes, SameClient
  <1>7. /\ dcall[t].pc # "idle" /\ new.pc # "idle" /\ new.client \notin Dac /\ t \notin woken'
        /\ woken' \subseteq woken
    BY <1>2, <1>3, <1>4, <1>5
  <1>8. QED
    BY <1>1, <1>5, <1>6, <1>7, GoKeeps

LEMMA SuspendSteps ==
  ASSUME DacInv, Dac \subseteq Clients, NEW t \in DacThreads,
         DA!SuspendContainer(t) \/ DA!SuspendSession(t)
  PROVE  DacInv'
  <1>1. PICK c \in Clients : c = dcall[t].client
    BY DEF DacInv, DA!TypeOK, DA!SuspendContainer, DA!SuspendSession
  <1>2. /\ dcall[t].pc \in {"suspend", "suspendsession"}
        /\ UNCHANGED <<display, mime, visible, session, appStateMap, woken, dcalls, last>>
    BY DEF DA!SuspendContainer, DA!SuspendSession, DA!shown, DA!server
  <1>3. /\ DacTypes /\ dcall[t] \in DacCalls /\ t \notin woken /\ DA!Client(t) = c
        /\ dcall[t].clean /\ c \in Dac => Prepared(dcall[t])
    BY <1>1, <1>2, StepBegins DEF DA!Waits, DA!Client
  <1>4. /\ "suspendsession" \in DacPcs /\ "suspendwait" \in DacPcs /\ "hide" \in DacPcs
        /\ dcall[t].state \in DA!States /\ "INACTIVE" \in DA!States
    BY <1>3 DEF DacPcs, DA!Waits, DacCalls, DA!States
  <1>5. CASE DA!SuspendContainer(t)
    <2>1. UNCHANGED change /\ dcall[t].pc = "suspend"
      BY <1>5 DEF DA!SuspendContainer, DA!server
    <2>2. CASE DA!Return(t) /\ UNCHANGED container
      <3>1. DacTypes' /\ \A d \in Clients \ {c} : SameClient(d)
        BY <1>2, <1>3, <2>1, <2>2 DEF DacTypes, SameClient
      <3>2. QED
        BY <1>1, <1>2, <1>3, <2>1, <2>2, <3>1, ReturnKeeps
    <2>3. CASE DA!NativeStep(t, "paused")
      <3>1. dcall[t].pc \notin DA!Waits \cup {"idle"}
        BY <2>1 DEF DA!Waits
      <3>2. QED
        BY <1>2, <2>1, <2>3, <3>1, NativeKeeps
    <2>4. CASE container[c] = "running" /\ DA!Goto(t, "suspendsession") /\ container' = [container EXCEPT ![c] = "paused"]
      <3>1. GoesTo(t, "suspendsession", dcall[t].state)
        BY <2>4 DEF DA!Goto, GoesTo
      <3>2. PICK new \in DacCalls :
              /\ dcall' = [dcall EXCEPT ![t] = new]
              /\ new.pc = "suspendsession" /\ new.client = c /\ new.clean = dcall[t].clean
        BY <1>1, <1>4, <3>1, GoesOn
      <3>3. DacTypes' /\ container'[c] = "paused" /\ \A d \in Clients \ {c} : SameClient(d)
        BY <1>2, <1>3, <2>1, <2>4 DEF DacTypes, SameClient
      <3>4. dcall[t].clean /\ c \in Dac => change[c] = "none"
        BY <1>1, <1>3, <2>1 DEF Prepared
      <3>5. new.clean /\ new.client \in Dac => Prepared(new)'
        BY <2>1, <3>2, <3>3, <3>4 DEF Prepared
      <3>6. QED
        BY <1>1, <1>2, <1>3, <3>2, <3>3, <3>5, GoKeeps
    <2>5. QED
      BY <1>3, <1>5, <2>2, <2>3, <2>4 DEF DA!SuspendContainer
  <1>6. CASE DA!SuspendSession(t)
    <2>1. /\ UNCHANGED container /\ dcall[t].pc = "suspendsession"
          /\ DA!suspendSession(c) /\ DA!WaitFor(t, "suspendwait", "hide", "INACTIVE")
      BY <1>3, <1>6 DEF DA!SuspendSession
    <2>2. PICK pc \in {"suspendwait", "hide"} :
            /\ dcall' = [dcall EXCEPT ![t].state = "INACTIVE", ![t].pc = pc]
            /\ pc = "hide" => appStateMap[c] = "INACTIVE"
      BY <1>2, <1>3, <2>1 DEF DA!WaitFor
    <2>3. /\ change' \in [Clients -> DA!States \cup {"none"}] /\ change'[c] \in {change[c], "INACTIVE"}
          /\ \A d \in Clients \ {c} : change'[d] = change[d]
      BY <1>3, <1>4, <2>1, AskType DEF DA!suspendSession, DacTypes
    <2>4. DacTypes' /\ \A d \in Clients \ {c} : SameClient(d)
      BY <1>2, <1>3, <2>1, <2>3 DEF DacTypes, SameClient
    <2>5. GoesTo(t, pc, "INACTIVE")
      BY <2>2 DEF GoesTo
    <2>6. PICK new \in DacCalls :
            /\ dcall' = [dcall EXCEPT ![t] = new] /\ new.state = "INACTIVE"
            /\ new.pc = pc /\ new.client = c /\ new.clean = dcall[t].clean
      BY <1>1, <1>4, <2>5, GoesOn
    <2>7. dcall[t].clean /\ c \in Dac => change'[c] \in {"none", "INACTIVE"} /\ container[c] = "paused"
      BY <1>1, <1>3, <2>1, <2>3 DEF Prepared
    <2>8. pc = "hide" => session[c] = "INACTIVE"
      BY <2>2 DEF DacInv, Announced
    <2>9. new.clean /\ new.client \in Dac => Prepared(new)'
      BY <1>2, <2>1, <2>6, <2>7, <2>8 DEF Prepared, Settled
    <2>10. QED
      BY <1>1, <1>2, <1>3, <2>4, <2>6, <2>9, GoKeeps
  <1>7. QED
    BY <1>5, <1>6

LEMMA ResumeSteps ==
  ASSUME DacInv, Dac \subseteq Clients, NEW t \in DacThreads,
         DA!ResumeSession(t) \/ DA!ResumeContainer(t)
  PROVE  DacInv'
  <1>1. PICK c \in Clients : c = dcall[t].client
    BY DEF DacInv, DA!TypeOK, DA!ResumeSession, DA!ResumeContainer
  <1>2. /\ dcall[t].pc \in {"resume", "resumecontainer"}
        /\ UNCHANGED <<display, mime, visible, session, appStateMap, woken, dcalls, last>>
    BY DEF DA!ResumeSession, DA!ResumeContainer, DA!shown, DA!server
  <1>3. /\ DacTypes /\ dcall[t] \in DacCalls /\ t \notin woken /\ DA!Client(t) = c
        /\ dcall[t].clean /\ c \in Dac => Prepared(dcall[t])
    BY <1>1, <1>2, StepBegins DEF DA!Waits, DA!Client
  <1>4. /\ "resumewait" \in DacPcs /\ "resumecontainer" \in DacPcs /\ "show" \in DacPcs
        /\ dcall[t].state \in DA!States /\ "ACTIVE" \in DA!States
    BY <1>3 DEF DacPcs, DA!Waits, DacCalls, DA!States
  <1>5. CASE DA!Return(t) /\ UNCHANGED <<container, change>>
    <2>1. DacTypes' /\ \A d \in Clients \ {c} : SameClient(d)
      BY <1>2, <1>3, <1>5 DEF DacTypes, SameClient
    <2>2. QED
      BY <1>1, <1>2, <1>3, <1>5, <2>1, ReturnKeeps
  <1>6. CASE DA!ResumeSession(t) /\ ~(DA!Return(t) /\ UNCHANGED <<container, change>>)
    <2>1. dcall[t].pc = "resume"
      BY <1>6 DEF DA!ResumeSession
    <2>2. CASE DA!NativeStep(t, "running") /\ UNCHANGED change
      <3>1. dcall[t].pc \notin DA!Waits \cup {"idle"}
        BY <2>1 DEF DA!Waits
      <3>2. QED
        BY <1>2, <2>1, <2>2, <3>1, NativeKeeps
    <2>3. CASE ~(DA!NativeStep(t, "running") /\ UNCHANGED change)
      <3>1. DA!resumeSession(c) /\ DA!WaitFor(t, "resumewait", "resumecontainer", "ACTIVE") /\ UNCHANGED container
        BY <1>3, <1>6, <2>3 DEF DA!ResumeSession
      <3>2. PICK pc \in {"resumewait", "resumecontainer"} :
              /\ dcall' = [dcall EXCEPT ![t].state = "ACTIVE", ![t].pc = pc]
              /\ pc = "resumecontainer" => appStateMap[c] = "ACTIVE"
        BY <1>2, <1>3, <3>1 DEF DA!WaitFor
      <3>3. /\ change' \in [Clients -> DA!States \cup {"none"}] /\ change'[c] \in {change[c], "ACTIVE"}
            /\ \A d \in Clients \ {c} : change'[d] = change[d]
        BY <1>3, <1>4, <3>1, AskType DEF DA!resumeSession, DacTypes
      <3>4. DacTypes' /\ \A d \in Clients \ {c} : SameClient(d)
        BY <1>2, <1>3, <3>1, <3>3 DEF DacTypes, SameClient
      <3>5. GoesTo(t, pc, "ACTIVE")
        BY <3>2 DEF GoesTo
      <3>6. PICK new \in DacCalls :
              /\ dcall' = [dcall EXCEPT ![t] = new] /\ new.state = "ACTIVE"
              /\ new.pc = pc /\ new.client = c /\ new.clean = dcall[t].clean
        BY <1>1, <1>4, <3>5, GoesOn
      <3>7. dcall[t].clean /\ c \in Dac => change'[c] \in {"none", "ACTIVE"}
        BY <1>1, <1>3, <2>1, <3>3 DEF Prepared
      <3>8. pc = "resumecontainer" => session[c] = "ACTIVE"
        BY <3>2 DEF DacInv, Announced
      <3>9. new.clean /\ new.client \in Dac => Prepared(new)'
        BY <1>2, <3>6, <3>7, <3>8 DEF Prepared, Settled
      <3>10. QED
        BY <1>1, <1>2, <1>3, <3>4, <3>6, <3>9, GoKeeps
    <2>4. QED
      BY <2>2, <2>3
  <1>7. CASE DA!ResumeContainer(t) /\ ~(DA!Return(t) /\ UNCHANGED <<container, change>>)
    <2>1. /\ container' = [container EXCEPT ![c] = "running"] /\ UNCHANGED change
          /\ dcall' = [dcall EXCEPT ![t].pc = "show"] /\ dcall[t].pc = "resumecontainer"
      BY <1>3, <1>7 DEF DA!ResumeContainer, DA!Goto, DA!server
    <2>2. GoesTo(t, "show", dcall[t].state)
      BY <2>1 DEF GoesTo
    <2>3. PICK new \in DacCalls :
            /\ dcall' = [dcall EXCEPT ![t] = new]
            /\ new.pc = "show" /\ new.client = c /\ new.clean = dcall[t].clean
      BY <1>1, <1>4, <2>2, GoesOn
    <2>4. DacTypes' /\ container'[c] = "running" /\ \A d \in Clients \ {c} : SameClient(d)
      BY <1>2, <1>3, <2>1 DEF DacTypes, SameClient
    <2>5. dcall[t].clean /\ c \in Dac => Settled(c, "ACTIVE")
      BY <1>1, <1>3, <2>1 DEF Prepared
    <2>6. new.clean /\ new.client \in Dac => Prepared(new)'
      BY <1>2, <2>1, <2>3, <2>4, <2>5 DEF Prepared, Settled
    <2>7. QED
      BY <1>1, <1>2, <1>3, <2>3, <2>4, <2>6, GoKeeps
  <1>8. QED
    BY <1>5, <1>6, <1>7

LEMMA HideKeeps ==
  ASSUME DacInv, Dac \subseteq Clients, NEW t \in DacThreads,
         DA!Hide(t, "hide", "suspended") \/ DA!Hide(t, "show", "resumed")
  PROVE  DacInv'
  <1>1. PICK c \in Clients : c = dcall[t].client
    BY DEF DacInv, DA!TypeOK, DA!Hide
  <1>2. /\ dcall[t].pc \in {"hide", "show"}
        /\ UNCHANGED <<display, mime, container, session, change, appStateMap, woken, dcalls>>
    BY DEF DA!Hide, DA!server
  <1>3. /\ DacTypes /\ dcall[t] \in DacCalls /\ t \notin woken /\ DA!Client(t) = c
        /\ dcall[t].clean /\ c \in Dac => Prepared(dcall[t])
    BY <1>1, <1>2, StepBegins DEF DA!Waits, DA!Client
  <1>4. CASE DA!Return(t) /\ UNCHANGED <<visible, last>>
    <2>1. DacTypes' /\ \A d \in Clients \ {c} : SameClient(d)
      BY <1>2, <1>3, <1>4 DEF DacTypes, SameClient
    <2>2. QED
      BY <1>1, <1>2, <1>3, <1>4, <2>1, ReturnKeeps
  <1>5. CASE ~(DA!Return(t) /\ UNCHANGED <<visible, last>>)
    <2>1. PICK what \in {"suspended", "resumed"} :
            /\ dcall[t].pc = IF what = "resumed" THEN "show" ELSE "hide"
            /\ c \in display /\ DA!Succeed(t, what)
            /\ visible' = IF what = "resumed" THEN visible \cup {c} ELSE visible \ {c}
      BY <1>3, <1>5 DEF DA!Hide, DA!setVisibility
    <2>2. \A d \in Clients \ {c} : SameClient(d)
      BY <1>2, <2>1 DEF SameClient
    <2>3. last' \in [Clients -> {"none", "launched", "suspended", "resumed", "killed"}] => DacTypes'
      BY <1>2, <1>3, <2>1 DEF DacTypes
    <2>4. dcall[t].clean /\ c \in Dac => LastIsSo(c, what)'
      BY <1>1, <1>2, <1>3, <2>1 DEF Prepared, LastIsSo, Settled
    <2>5. dcall[t].pc \notin DA!Waits \cup {"idle"}
      BY <1>2 DEF DA!Waits
    <2>6. QED
      BY <1>1, <1>2, <2>1, <2>2, <2>3, <2>4, <2>5, SucceedKeeps
  <1>6. QED
    BY <1>4, <1>5

\* A wait goes on only with the state it waits for.
LEMMA WaitSteps ==
  ASSUME DacInv, Dac \subseteq Clients, NEW t \in DacThreads,
         \/ DA!Woken(t, "launchwait", "container") \/ DA!Woken(t, "suspendwait", "hide")
         \/ DA!Woken(t, "resumewait", "resumecontainer") \/ DA!TimesOut(t)
  PROVE  DacInv'
  <1>1. PICK c \in Clients : c = dcall[t].client
    BY DEF DacInv, DA!TypeOK, DA!Woken, DA!TimesOut, DA!Waits
  <1>2. /\ dcall[t].pc \in DA!Waits /\ woken' \subseteq woken /\ t \notin woken'
        /\ UNCHANGED <<display, mime, visible, container, session, change, appStateMap, dcalls, last>>
    BY DEF DA!Woken, DA!TimesOut, DA!Waits, DA!shown, DA!server
  <1>3. /\ DacTypes /\ dcall[t] \in DacCalls /\ DA!Client(t) = c /\ dcall[t].pc # "idle"
        /\ dcall[t].clean /\ c \in Dac => Prepared(dcall[t])
    BY <1>1, <1>2, StepBegins DEF DA!Waits, DA!Client
  <1>4. DacTypes' /\ \A d \in Clients \ {c} : SameClient(d)
    BY <1>2, <1>3 DEF DacTypes, SameClient
  <1>5. CASE DA!TimesOut(t)
    BY <1>1, <1>2, <1>3, <1>4, <1>5, ReturnKeeps DEF DA!TimesOut
  <1>6. ASSUME NEW wait, NEW next, DA!Woken(t, wait, next),
               <<wait, next>> \in {<<"launchwait", "container">>, <<"suspendwait", "hide">>,
                                  <<"resumewait", "resumecontainer">>}
        PROVE  DacInv'
    <2>1. PICK pc \in {wait, next} :
            /\ dcall[t].pc = wait /\ dcall' = [dcall EXCEPT ![t].pc = pc]
            /\ pc # wait => appStateMap[c] = dcall[t].state
      BY <1>3, <1>6 DEF DA!Woken, DA!Goto, DA!IsSet
    <2>2. pc \in DacPcs /\ pc # "idle" /\ dcall[t].state \in DA!States /\ GoesTo(t, pc, dcall[t].state)
      BY <1>3, <1>6, <2>1 DEF DacPcs, DA!Waits, DacCalls, GoesTo
    <2>3. PICK new \in DacCalls :
            /\ dcall' = [dcall EXCEPT ![t] = new] /\ new.state = dcall[t].state
            /\ new.pc = pc /\ new.client = c /\ new.clean = dcall[t].clean
      BY <1>1, <2>2, GoesOn
    <2>4. pc # wait => session[c] = dcall[t].state
      BY <2>1, <2>2 DEF DacInv, Announced, DA!States
    <2>5. new.clean /\ new.client \in Dac => Prepared(new)'
      BY <1>1, <1>2, <1>3, <1>6, <2>1, <2>3, <2>4 DEF Prepared, Settled
    <2>6. QED
      BY <1>1, <1>2, <1>3, <1>4, <2>2, <2>3, <2>5, GoKeeps
  <1>7. QED
    BY <1>5, <1>6

LEMMA KillSteps ==
  ASSUME DacInv, Dac \subseteq Clients, NEW t \in DacThreads, DA!KillContainer(t) \/ DA!KillReturn(t)
  PROVE  DacInv'
  <1>1. PICK c \in Clients : c = dcall[t].client
    BY DEF DacInv, DA!TypeOK, DA!KillContainer, DA!KillReturn
  <1>2. /\ dcall[t].pc \in {"stop", "killed"}
        /\ UNCHANGED <<display, mime, visible, session, appStateMap, woken, dcalls>>
    BY DEF DA!KillContainer, DA!KillReturn, DA!shown, DA!server
  <1>3. /\ DacTypes /\ dcall[t] \in DacCalls /\ t \notin woken /\ DA!Client(t) = c
        /\ dcall[t].clean /\ c \in Dac => Prepared(dcall[t])
    BY <1>1, <1>2, StepBegins DEF DA!Waits, DA!Client
  <1>4. /\ change' \in [Clients -> DA!States \cup {"none"}]
        /\ \A d \in Clients \ {c} : change'[d] = change[d]
    <2>1. "NOT_RUNNING" \in DA!States
      BY DEF DA!States
    <2>2. UNCHANGED change \/ DA!Ask(c, "NOT_RUNNING")
      BY <1>3 DEF DA!KillContainer, DA!KillReturn, DA!server, DA!deactivateSession
    <2>3. QED
      BY <1>3, <2>1, <2>2, AskType DEF DacTypes
  <1>5. CASE DA!Return(t) /\ UNCHANGED <<container, last>>
    <2>1. DacTypes' /\ \A d \in Clients \ {c} : SameClient(d)
      BY <1>2, <1>3, <1>4, <1>5 DEF DacTypes, SameClient
    <2>2. QED
      BY <1>1, <1>2, <1>3, <1>5, <2>1, ReturnKeeps
  <1>6. CASE DA!Succeed(t, "killed") /\ dcall[t].pc = "stop" /\
             \/ container[c] = "none" /\ UNCHANGED container
             \/ container' = [container EXCEPT ![c] = "none"]
    <2>1. container' \in [Clients -> {"none", "running", "paused"}] /\ container'[c] = "none"
      BY <1>3, <1>6 DEF DacTypes
    <2>2. \A d \in Clients \ {c} : SameClient(d)
      BY <1>2, <1>3, <1>4, <1>6 DEF DacTypes, SameClient
    <2>3. last' \in [Clients -> {"none", "launched", "suspended", "resumed", "killed"}] => DacTypes'
      BY <1>2, <1>3, <1>4, <2>1 DEF DacTypes
    <2>4. dcall[t].clean /\ c \in Dac => LastIsSo(c, "killed")'
      BY <1>1, <1>2, <1>3, <1>6, <2>1 DEF Prepared, LastIsSo
    <2>5. dcall[t].pc \notin DA!Waits \cup {"idle"}
      BY <1>2 DEF DA!Waits
    <2>6. QED
      BY <1>1, <1>2, <1>6, <2>2, <2>3, <2>4, <2>5, SucceedKeeps
  <1>7. QED
    BY <1>3, <1>5, <1>6 DEF DA!KillContainer, DA!KillReturn

LEMMA DacKeeps ==
  ASSUME DacInv, MaxDacCalls \in Nat, Dac \subseteq Clients, DA!Next \/ UNCHANGED dacVars
  PROVE  DacInv'
  <1>1. CASE UNCHANGED dacVars
    BY <1>1 DEF dacVars, DacInv, DA!TypeOK, Announced, CleanCalls, LastCalls, Prepared, LastIsSo,
                Settled, Serves
  <1>2. CASE DA!Next
    <2>1. ASSUME NEW c \in Clients, DA!SessionChanges(c) PROVE DacInv'
      BY <2>1, SessionKeeps
    <2>2. ASSUME NEW t \in DacThreads, NEW c \in Clients,
                 DA!LaunchBegin(t, c) \/ DA!SuspendBegin(t, c) \/ DA!ResumeBegin(t, c) \/ DA!Kill(t, c)
          PROVE  DacInv'
      BY <2>2, BeginningsKeep
    <2>3. ASSUME NEW t \in DacThreads,
                 \/ DA!LaunchDisplay(t) \/ DA!LaunchSession(t) \/ DA!LaunchContainer(t) \/ DA!LaunchNative(t)
                 \/ DA!SuspendContainer(t) \/ DA!SuspendSession(t) \/ DA!ResumeSession(t) \/ DA!ResumeContainer(t)
                 \/ DA!Hide(t, "hide", "suspended") \/ DA!Hide(t, "show", "resumed")
          PROVE  DacInv'
      BY <2>3, LaunchSteps, SuspendSteps, ResumeSteps, HideKeeps
    <2>4. ASSUME NEW t \in DacThreads,
                 \/ DA!Woken(t, "launchwait", "container") \/ DA!Woken(t, "suspendwait", "hide")
                 \/ DA!Woken(t, "resumewait", "resumecontainer") \/ DA!TimesOut(t)
                 \/ DA!KillContainer(t) \/ DA!KillReturn(t)
          PROVE  DacInv'
      BY <2>4, WaitSteps, KillSteps
    <2>5. QED
      BY <1>2, <2>1, <2>2, <2>3, <2>4 DEF DA!Next
  <1>3. QED
    BY <1>1, <1>2

\* What the last launchApplication, suspendApplication, resumeApplication or kill has said of
\* a DAC application is so, for any number of threads, clients and calls that the server
\* answers late, refuses or is asked to take back (the exceptions are named with DacApps'
\* property).
THEOREM AnswersAreTrue ==
  ASSUME MaxDacCalls \in Nat, Dac \subseteq Clients
  PROVE  FlowsSpec => []AnswerIsTrue
  <1>1. FlowsInit => DacInv
    BY DacInit DEF FlowsInit
  <1>2. DacInv /\ [FlowsNext]_flowVars => DacInv'
    <2>1. [FlowsNext]_flowVars => DA!Next \/ UNCHANGED dacVars
      BY DEF FlowsNext, flowVars
    <2>2. QED
      BY <2>1, DacKeeps
  <1>3. DacInv => AnswerIsTrue
    <2>1. DacInv => DA!AnswerIsTrue
      BY DEF DacInv, LastCalls, LastIsSo, Settled, DA!AnswerIsTrue
    <2>2. QED
      BY <2>1 DEF DacInv, AnswerIsTrue
  <1>4. QED
    BY <1>1, <1>2, <1>3, PTL DEF FlowsSpec
-------------------------------------------------------------------------------
(***************************************************************************)
(* FactoryMode.                                                            *)
(***************************************************************************)

FactoryPcs ==
  {"idle", "launchFactoryApp", "launchFactoryAppShortcut", "launchResidentApp", "toggleFactoryApp",
   "exitAgingMode", "deactivateresidentapp", "destroy", "destroyed", "started", "check", "launch",
   "launching", "done", "force", "activate", "activating"}

FactoryCalls ==
  [pc : FactoryPcs, nokill : BOOLEAN, startup : BOOLEAN, toggled : BOOLEAN, todo : Seq(FM!Apps),
   then : {"idle", "launch", "force"}]

Destroys(c) == c.pc \in {"destroy", "destroyed"}

\* A call has applications to destroy while it does, and goes on after that only from the
\* middle of a launch.
CallShape(c) ==
  /\ c.pc = "idle" => c = FM!Idle
  /\ Destroys(c) <=> c.todo # <<>>
  /\ c.then # "idle" => Destroys(c)
  /\ Destroys(c) /\ c.then = "idle" => c.todo \in {<<"factory">>, <<"resident">>}
  /\ c.toggled => c.pc \in {"launchResidentApp", "force", "activate", "activating"} \/ c.then = "force"

\* The variables other than the calls.
ModeTypes ==
  /\ app \in [FM!Apps -> {"off", "starting", "on"}] /\ app["factory"] # "starting"
  /\ sFactoryAppLaunchStatus \in {"NOTLAUNCHED", "STARTED", "COMPLETED"}
  /\ sFactoryModeStart \in BOOLEAN /\ sResidentAppFirstActivated \in BOOLEAN
  /\ sForceResidentAppLaunch \in BOOLEAN /\ eggs \in BOOLEAN
  /\ foverlap \in BOOLEAN /\ failed \in BOOLEAN /\ exempt \in BOOLEAN
  /\ store \in [AgingState : BOOLEAN, FactoryMode : BOOLEAN, AllowExit : BOOLEAN, ToFacFlag : BOOLEAN]
  /\ spawned \in [FM!Requests -> Nat]
  /\ fcalls \in 0 .. MaxFactoryCalls /\ activations \in 0 .. MaxActivations

\* A call that works on STARTED, and one that will take the force back.
Starts(c) == c.pc \in {"check", "launch", "launching", "done"} \/ c.then = "launch"
Forces(c) == c.toggled \/ c.pc \in {"activate", "activating"}

\* A request to destroy the resident application runs beside any other call.
Aside(c) == c.todo = <<"resident">> /\ c.then = "idle"
Main(c) == c # FM!Idle /\ ~Aside(c)

Has(s, a) == \E i \in 1 .. Len(s) : s[i] = a

\* The factory application is off, being launched, or on, and the status, the easter eggs
\* and the mode say so.
FactoryIs(on, status) ==
  app["factory"] = on /\ (eggs <=> status = "COMPLETED") /\ sFactoryAppLaunchStatus = status
IsOff == FactoryIs("off", "NOTLAUNCHED")
IsOn == FactoryIs("on", "COMPLETED") /\ store.FactoryMode
IsSettled == IsOff \/ IsOn

\* What a call that is alone finds, step by step.
MainState(c) ==
  /\ c.pc \in {"launchFactoryApp", "launchFactoryAppShortcut", "launchResidentApp", "toggleFactoryApp",
               "exitAgingMode", "deactivateresidentapp"} => IsSettled
  /\ c.pc \in {"started", "force", "activate", "activating"} => IsOff
  /\ c.pc \in {"check", "launch", "launching"} \/ c.then = "launch" =>
       FactoryIs("off", "STARTED") /\ ~Has(c.todo, "factory")
  /\ c.pc = "done" => FactoryIs("on", "STARTED")
  /\ c.pc = "destroy" /\ c.then # "launch" => IsOff \/ (IsOn /\ Has(c.todo, "factory"))
  /\ c.pc = "destroyed" /\ c.then # "launch" =>
       IF Head(c.todo) = "factory" THEN app["factory"] = "off"
                                   ELSE IsOff \/ (IsOn /\ Has(c.todo, "factory"))

\* A call that is about to destroy the resident application.
Dooms(c) ==
  \/ c.pc = "check"
  \/ c.pc = "destroy" /\ Has(c.todo, "resident")
  \/ c.pc = "destroyed" /\ Has(Tail(c.todo), "resident")

OneMain ==
  ~foverlap => \A t, u \in FactoryThreads : Main(fcall[t]) /\ Main(fcall[u]) => t = u

ModeFollows ==
  ~foverlap /\ ~failed =>
    /\ \A t \in FactoryThreads : Main(fcall[t]) => MainState(fcall[t])
    /\ (\A t \in FactoryThreads : ~Main(fcall[t])) => IsSettled

\* A resident application that is on although the factory application has been launched
\* will be destroyed.
ResidentGoes ==
  (/\ ~foverlap /\ ~failed /\ ~exempt /\ sFactoryModeBlockResidentApp
   /\ app["resident"] = "on" /\ sFactoryAppLaunchStatus # "NOTLAUNCHED")
    => spawned["destroyResident"] > 0 \/ \E t \in FactoryThreads : Dooms(fcall[t])

StartedAndForced ==
  /\ sFactoryAppLaunchStatus = "STARTED" => \E t \in FactoryThreads : Starts(fcall[t])
  /\ sForceResidentAppLaunch => \E t \in FactoryThreads : Forces(fcall[t])

CallTypes ==
  fcall \in [FactoryThreads -> FactoryCalls] /\ \A t \in FactoryThreads : CallShape(fcall[t])

FactoryInv ==
  CallTypes /\ ModeTypes /\ StartedAndForced /\ OneMain /\ ModeFollows /\ ResidentGoes

FactoryConstants ==
  /\ sFactoryModeBlockResidentApp \in BOOLEAN /\ Failures \subseteq BOOLEAN
  /\ MaxFactoryCalls \in Nat /\ MaxActivations \in Nat

LEMMA ModesHold == ASSUME FactoryInv PROVE FactoryModesHold
  <1>1. FM!TypeOK
    BY DEF FactoryInv, CallTypes, CallShape, FactoryCalls, ModeTypes, Destroys, FM!TypeOK
  <1>2. FM!StartedHasCall /\ FM!ForceHasCall
    BY DEF FactoryInv, StartedAndForced, Starts, Forces, FM!StartedHasCall, FM!ForceHasCall
  <1>3. ASSUME FM!Quiet, ~foverlap, ~failed
        PROVE  IsSettled /\ (sFactoryModeBlockResidentApp /\ ~exempt /\ app["resident"] = "on" =>
                               sFactoryAppLaunchStatus = "NOTLAUNCHED")
    <2>1. \A t \in FactoryThreads : fcall[t] = FM!Idle
      BY <1>3 DEF FM!Quiet
    <2>2. spawned["destroyResident"] = 0
      BY <1>3 DEF FM!Quiet, FM!Requests
    <2>3. \A t \in FactoryThreads : ~Main(fcall[t]) /\ ~Dooms(fcall[t])
      BY <2>1 DEF Main, Dooms, FM!Idle
    <2>4. IsSettled
      BY <1>3, <2>3 DEF FactoryInv, ModeFollows
    <2>5. QED
      BY <1>3, <2>2, <2>3, <2>4 DEF FactoryInv, ResidentGoes
  <1>4. FM!FactoryExcludesResident
    BY <1>3 DEF FM!FactoryExcludesResident, IsSettled, IsOff, IsOn, FactoryIs
  <1>5. FM!FactoryModeAgrees
    BY <1>3 DEF FM!FactoryModeAgrees, IsSettled, IsOff, IsOn, FactoryIs
  <1>6. QED
    BY <1>1, <1>2, <1>4, <1>5 DEF FactoryModesHold

LEMMA StoreType ==
  ASSUME NEW a \in BOOLEAN, NEW b \in BOOLEAN, NEW c \in BOOLEAN, NEW d \in BOOLEAN
  PROVE  [AgingState |-> a, FactoryMode |-> b, AllowExit |-> c, ToFacFlag |-> d]
           \in [AgingState : BOOLEAN, FactoryMode : BOOLEAN, AllowExit : BOOLEAN, ToFacFlag : BOOLEAN]
  OBVIOUS

LEMMA FactoryInit ==
  ASSUME FactoryConstants, FM!Init
  PROVE  FactoryInv
  <1>1. FM!Idle \in FactoryCalls /\ CallShape(FM!Idle) /\ FM!Idle.pc = "idle" /\ ~Starts(FM!Idle) /\ ~Forces(FM!Idle)
    BY DEF FM!Idle, FactoryCalls, FactoryPcs, CallShape, Destroys, Starts, Forces
  <1>2. CallTypes /\ \A t \in FactoryThreads : fcall[t] = FM!Idle
    BY <1>1 DEF FM!Init, CallTypes
  <1>3. app["factory"] = "off" /\ app["resident"] = "off"
    BY DEF FM!Init, FM!Apps
  <1>4. /\ sFactoryAppLaunchStatus = "NOTLAUNCHED" /\ eggs = FALSE /\ sForceResidentAppLaunch = FALSE
        /\ sFactoryModeStart \in BOOLEAN /\ sResidentAppFirstActivated \in BOOLEAN
        /\ foverlap = FALSE /\ failed = FALSE /\ exempt = FALSE
    BY DEF FM!Init
  <1>5. store \in [AgingState : BOOLEAN, FactoryMode : BOOLEAN, AllowExit : BOOLEAN, ToFacFlag : BOOLEAN]
    <2>1. PICK aging \in {FALSE, sFactoryModeStart} :
            store = [AgingState |-> aging, FactoryMode |-> sFactoryModeStart, AllowExit |-> TRUE,
                     ToFacFlag |-> TRUE]
      BY Zenon DEF FM!Init
    <2>2. aging \in BOOLEAN /\ sFactoryModeStart \in BOOLEAN
      BY Zenon, <1>4
    <2>3. QED
      BY <2>1, <2>2, StoreType, TRUE \in BOOLEAN, Zenon
  <1>6. /\ spawned \in [FM!Requests -> Nat] /\ app \in [FM!Apps -> {"off", "starting", "on"}]
        /\ fcalls \in 0 .. MaxFactoryCalls /\ activations \in 0 .. MaxActivations
    BY DEF FM!Init, FM!Requests, FactoryConstants
  <1>7. ModeTypes
    BY <1>3, <1>4, <1>5, <1>6 DEF ModeTypes
  <1>8. StartedAndForced /\ ResidentGoes
    BY <1>3, <1>4 DEF StartedAndForced, ResidentGoes
  <1>9. OneMain /\ ModeFollows
    BY <1>2, <1>3, <1>4 DEF OneMain, ModeFollows, Main, IsSettled, IsOff, FactoryIs
  <1>10. QED
    BY <1>2, <1>7, <1>8, <1>9 DEF FactoryInv

-------------------------------------------------------------------------------
(* What a step of a call has to keep. *)

CallStep(t, new) ==
  /\ fcall' = [fcall EXCEPT ![t] = new] /\ CallShape(new) /\ ModeTypes'
  /\ UNCHANGED <<spawned, foverlap, exempt>> /\ (failed => failed')
  /\ sFactoryAppLaunchStatus' = "STARTED" =>
       Starts(new) \/ (sFactoryAppLaunchStatus = "STARTED" /\ ~Starts(fcall[t]))
  /\ sForceResidentAppLaunch' => Forces(new) \/ (sForceResidentAppLaunch /\ ~Forces(fcall[t]))
  /\ Aside(fcall[t]) => /\ ~Main(new) /\ app'["factory"] = app["factory"]
                        /\ UNCHANGED <<eggs, sFactoryAppLaunchStatus, store>>
  /\ Main(fcall[t]) /\ ~foverlap /\ ~failed' =>
       IF new = FM!Idle THEN IsSettled' ELSE Main(new) /\ MainState(new)'
  /\ ~foverlap /\ ~failed' /\ app'["resident"] = "on" /\ sFactoryAppLaunchStatus' # "NOTLAUNCHED" =>
       Dooms(new) \/ (/\ app["resident"] = "on" /\ sFactoryAppLaunchStatus # "NOTLAUNCHED"
                      /\ ~Dooms(fcall[t]))

LEMMA CallStepKeeps ==
  ASSUME FactoryInv, NEW t \in FactoryThreads, NEW new \in FactoryCalls, fcall[t] # FM!Idle, CallStep(t, new)
  PROVE  FactoryInv'
  <1>1. /\ fcall' \in [FactoryThreads -> FactoryCalls]
        /\ fcall'[t] = new /\ \A u \in FactoryThreads \ {t} : fcall'[u] = fcall[u]
        /\ UNCHANGED <<spawned, foverlap, exempt>> /\ (failed => failed')
    BY DEF CallStep, FactoryInv, CallTypes
  <1>2. CallTypes' /\ ModeTypes'
    BY <1>1 DEF CallStep, FactoryInv, CallTypes
  <1>3. StartedAndForced'
    <2>1. ASSUME sFactoryAppLaunchStatus' = "STARTED" PROVE \E u \in FactoryThreads : Starts(fcall'[u])
      BY <1>1, <2>1 DEF CallStep, FactoryInv, StartedAndForced
    <2>2. ASSUME sForceResidentAppLaunch' PROVE \E u \in FactoryThreads : Forces(fcall'[u])
      BY <1>1, <2>2 DEF CallStep, FactoryInv, StartedAndForced
    <2>3. QED
      BY <2>1, <2>2 DEF StartedAndForced, Starts, Forces
  <1>4. Main(fcall[t]) \/ Aside(fcall[t])
    BY DEF Main
  <1>5. ASSUME ~foverlap, NEW u \in FactoryThreads \ {t}, Main(fcall[t]) PROVE ~Main(fcall[u])
    BY <1>5 DEF FactoryInv, OneMain
  <1>6. Aside(fcall[t]) => ~Main(new)
    BY DEF CallStep
  <1>7. OneMain'
    <2> SUFFICES ASSUME ~foverlap, NEW v \in FactoryThreads, NEW u \in FactoryThreads,
                        Main(fcall'[v]), Main(fcall'[u])
                 PROVE  v = u
      BY <1>1 DEF OneMain, Main, Aside
    <2>1. CASE v = t \/ u = t
      BY <1>1, <1>4, <1>5, <1>6, <2>1
    <2>2. CASE v # t /\ u # t
      BY <1>1, <2>2 DEF FactoryInv, OneMain
    <2>3. QED
      BY <2>1, <2>2
  <1>8. ModeFollows'
    <2> SUFFICES ASSUME ~foverlap, ~failed'
                 PROVE  /\ \A u \in FactoryThreads : Main(fcall[u])' => MainState(fcall[u])'
                        /\ (\A u \in FactoryThreads : ~Main(fcall[u])') => IsSettled'
      BY <1>1 DEF ModeFollows
    <2>1. ~failed
      BY <1>1
    <2>2. CASE Main(fcall[t])
      <3>1. \A u \in FactoryThreads \ {t} : ~Main(fcall[u])'
        BY <1>1, <1>5, <2>2 DEF Main, Aside
      <3>2. IF new = FM!Idle THEN IsSettled' ELSE Main(new) /\ MainState(new)'
        BY <2>2 DEF CallStep
      <3>3. (Main(fcall[t])' <=> Main(new)) /\ (MainState(fcall[t])' <=> MainState(new)')
        BY <1>1 DEF Main, Aside, MainState
      <3>4. QED
        BY <3>1, <3>2, <3>3 DEF Main
    <2>3. CASE Aside(fcall[t])
      <3>1. /\ ~Main(new) /\ app'["factory"] = app["factory"]
            /\ UNCHANGED <<eggs, sFactoryAppLaunchStatus, store>>
        BY <2>3 DEF CallStep
      <3>2. ~Main(fcall[t])' /\ ~Main(fcall[t])
        BY <1>1, <2>3, <3>1 DEF Main, Aside
      <3>3. \A u \in FactoryThreads \ {t} :
              (Main(fcall[u])' <=> Main(fcall[u])) /\ (MainState(fcall[u])' <=> MainState(fcall[u]))
        BY <1>1, <3>1 DEF Main, Aside, MainState, IsSettled, IsOff, IsOn, FactoryIs
      <3>4. IsSettled' <=> IsSettled
        BY <3>1 DEF IsSettled, IsOff, IsOn, FactoryIs
      <3>5. QED
        BY <2>1, <3>2, <3>3, <3>4 DEF FactoryInv, ModeFollows
    <2>4. QED
      BY <1>4, <2>2, <2>3
  <1>9. ResidentGoes'
    <2> SUFFICES ASSUME ~foverlap, ~failed', ~exempt, sFactoryModeBlockResidentApp, app'["resident"] = "on",
                        sFactoryAppLaunchStatus' # "NOTLAUNCHED"
                 PROVE  spawned["destroyResident"] > 0 \/ \E u \in FactoryThreads : Dooms(fcall'[u])
      BY <1>1 DEF ResidentGoes, Dooms, Has
    <2>1. CASE Dooms(new)
      BY <1>1, <2>1
    <2>2. CASE ~Dooms(new)
      <3>1. /\ app["resident"] = "on" /\ sFactoryAppLaunchStatus # "NOTLAUNCHED" /\ ~Dooms(fcall[t])
            /\ ~failed
        BY <1>1, <2>2 DEF CallStep
      <3>2. spawned["destroyResident"] > 0 \/ \E u \in FactoryThreads \ {t} : Dooms(fcall[u])
        BY <3>1 DEF FactoryInv, ResidentGoes
      <3>3. QED
        BY <1>1, <3>2
    <2>3. QED
      BY <2>1, <2>2
  <1>10. QED
    BY <1>2, <1>3, <1>7, <1>8, <1>9 DEF FactoryInv
-------------------------------------------------------------------------------
LEMMA HasTail ==
  ASSUME NEW s \in Seq(FM!Apps), s # <<>>, NEW a
  PROVE  Has(s, a) <=> Head(s) = a \/ Has(Tail(s), a)
  <1>1. Len(s) \in Nat \ {0} /\ Len(Tail(s)) = Len(s) - 1 /\ \A i \in 1 .. Len(s) - 1 : Tail(s)[i] = s[i + 1]
    BY DEF Has
  <1>2. Head(s) = s[1]
    OBVIOUS
  <1>3. ASSUME NEW i \in 1 .. Len(s), s[i] = a PROVE Head(s) = a \/ Has(Tail(s), a)
    <2>1. CASE i = 1
      BY <1>2, <1>3, <2>1
    <2>2. CASE i # 1
      <3>1. i - 1 \in 1 .. Len(s) - 1 /\ Tail(s)[i - 1] = a
        BY <1>1, <1>3, <2>2
      <3>2. QED
        BY <1>1, <3>1 DEF Has
    <2>3. QED
      BY <2>1, <2>2
  <1>4. ASSUME NEW i \in 1 .. Len(Tail(s)), Tail(s)[i] = a PROVE Has(s, a)
    <2>1. i + 1 \in 1 .. Len(s) /\ s[i + 1] = a
      BY <1>1, <1>4
    <2>2. QED
      BY <2>1 DEF Has
  <1>5. Head(s) = a => Has(s, a)
    BY <1>1, <1>2 DEF Has
  <1>6. QED
    BY <1>3, <1>4, <1>5 DEF Has

LEMMA HasConcat ==
  ASSUME NEW s \in Seq(FM!Apps), NEW r \in Seq(FM!Apps), NEW a
  PROVE  s \o r \in Seq(FM!Apps) /\ (Has(s \o r, a) <=> Has(s, a) \/ Has(r, a))
  <1>1. /\ s \o r \in Seq(FM!Apps) /\ Len(s) \in Nat /\ Len(r) \in Nat
        /\ Len(s \o r) = Len(s) + Len(r)
    OBVIOUS
  <1>2. \A i \in 1 .. Len(s) + Len(r) : (s \o r)[i] = IF i <= Len(s) THEN s[i] ELSE r[i - Len(s)]
    OBVIOUS
  <1>3. ASSUME NEW i \in 1 .. Len(s) + Len(r), (s \o r)[i] = a PROVE Has(s, a) \/ Has(r, a)
    <2>1. CASE i <= Len(s)
      BY <1>1, <1>2, <1>3, <2>1 DEF Has
    <2>2. CASE ~(i <= Len(s))
      <3>1. i - Len(s) \in 1 .. Len(r) /\ r[i - Len(s)] = a
        BY <1>1, <1>2, <1>3, <2>2
      <3>2. QED
        BY <3>1 DEF Has
    <2>3. QED
      BY <2>1, <2>2
  <1>4. ASSUME NEW i \in 1 .. Len(s), s[i] = a PROVE Has(s \o r, a)
    <2>1. i \in 1 .. Len(s \o r) /\ (s \o r)[i] = a
      BY <1>1, <1>2, <1>4
    <2>2. QED
      BY <2>1 DEF Has
  <1>5. ASSUME NEW i \in 1 .. Len(r), r[i] = a PROVE Has(s \o r, a)
    <2>1. i + Len(s) \in 1 .. Len(s \o r) /\ (s \o r)[i + Len(s)] = a
      BY <1>1, <1>2, <1>5
    <2>2. QED
      BY <2>1 DEF Has
  <1>6. QED
    BY <1>1, <1>3, <1>4, <1>5 DEF Has

LEMMA FailsMeans ==
  ASSUME FactoryConstants, failed \in BOOLEAN, NEW bad \in BOOLEAN, FM!Fails(bad)
  PROVE  failed' \in BOOLEAN /\ (failed => failed') /\ (bad => failed')
  BY Zenon DEF FM!Fails

-------------------------------------------------------------------------------
(* A step of a call that is not destroying, to another place or to its end. *)

Entering ==
  {"idle", "launchFactoryApp", "launchFactoryAppShortcut", "launchResidentApp", "toggleFactoryApp",
   "exitAgingMode", "deactivateresidentapp"}

PlaceState(pc) ==
  /\ pc \in Entering => IsSettled
  /\ pc \in {"started", "force", "activate", "activating"} => IsOff
  /\ pc \in {"check", "launch", "launching"} => FactoryIs("off", "STARTED")
  /\ pc = "done" => FactoryIs("on", "STARTED")

StartPlaces == {"check", "launch", "launching", "done"}
ForcePlaces == {"launchResidentApp", "force", "activate", "activating"}

Move(t, from, to) ==
  /\ FM!Goto(t, from, to) /\ ModeTypes'
  /\ UNCHANGED <<spawned, foverlap, exempt>> /\ (failed => failed')
  /\ from \in ForcePlaces => to \in ForcePlaces \cup {"idle"}
  /\ sFactoryAppLaunchStatus' = "STARTED" =>
       to \in StartPlaces \/ (sFactoryAppLaunchStatus = "STARTED" /\ from \notin StartPlaces)
  /\ sForceResidentAppLaunch' =>
       \/ to \in {"activate", "activating"}
       \/ /\ sForceResidentAppLaunch /\ from \notin {"activate", "activating"}
          /\ from \in ForcePlaces /\ fcall[t].toggled => to # "idle"
  /\ ~foverlap /\ ~failed' /\ PlaceState(from) => PlaceState(to)'
  /\ (/\ ~foverlap /\ ~failed' /\ PlaceState(from)
      /\ app'["resident"] = "on" /\ sFactoryAppLaunchStatus' # "NOTLAUNCHED")
       => to = "check" \/ (app["resident"] = "on" /\ sFactoryAppLaunchStatus # "NOTLAUNCHED" /\ from # "check")

Plain(c) == c.todo = <<>> /\ c.then = "idle"

LEMMA CallStepMove ==
  ASSUME FactoryInv, NEW t \in FactoryThreads, NEW from \in FactoryPcs \ {"idle", "destroy", "destroyed"},
         NEW to \in FactoryPcs \ {"destroy", "destroyed"}, Move(t, from, to)
  PROVE  FactoryInv'
  <1>1. /\ fcall \in [FactoryThreads -> FactoryCalls] /\ fcall[t] \in FactoryCalls
        /\ fcall[t].pc = from /\ CallShape(fcall[t])
        /\ fcall' = [fcall EXCEPT ![t] = IF to = "idle" THEN FM!Idle ELSE [@ EXCEPT !.pc = to]]
    BY DEF FactoryInv, CallTypes, Move, FM!Goto
  <1>2. Plain(fcall[t]) /\ fcall[t] # FM!Idle /\ fcall[t].toggled \in BOOLEAN
    BY <1>1 DEF CallShape, Destroys, Plain, FM!Idle, FactoryCalls
  <1>3. PICK new \in FactoryCalls :
          /\ fcall' = [fcall EXCEPT ![t] = new]
          /\ to = "idle" => new = FM!Idle
          /\ to # "idle" => new.pc = to /\ Plain(new) /\ new.toggled = fcall[t].toggled
    <2>1. CASE to = "idle"
      <3>1. FM!Idle \in FactoryCalls
        BY DEF FM!Idle, FactoryCalls, FactoryPcs
      <3>2. QED
        BY <1>1, <2>1, <3>1
    <2>2. CASE to # "idle"
      <3>1. [fcall[t] EXCEPT !.pc = to] \in FactoryCalls
        BY <1>1 DEF FactoryCalls
      <3>2. fcall' = [fcall EXCEPT ![t] = [fcall[t] EXCEPT !.pc = to]]
        BY <1>1, <2>2
      <3>3. /\ [fcall[t] EXCEPT !.pc = to].pc = to
            /\ [fcall[t] EXCEPT !.pc = to].toggled = fcall[t].toggled
            /\ Plain([fcall[t] EXCEPT !.pc = to])
        BY <1>1, <1>2 DEF FactoryCalls, Plain
      <3>4. QED
        BY <2>2, <3>1, <3>2, <3>3
    <2>3. QED
      BY <2>1, <2>2
  <1>4. to = "idle" => new = FM!Idle /\ new.pc = "idle" /\ Plain(new) /\ new.toggled = FALSE /\ ~Main(new)
    BY <1>3 DEF FM!Idle, Plain, Main
  <1>5. new.pc = to /\ Plain(new) /\ (to # "idle" => new.toggled = fcall[t].toggled /\ new # FM!Idle /\ Main(new))
    BY <1>3, <1>4 DEF FM!Idle, Plain, Main, Aside
  <1>0. fcall[t].toggled => from \in ForcePlaces
    BY <1>1, <1>2 DEF CallShape, Plain, ForcePlaces
  <1>6. CallShape(new)
    <2>2. to # "idle" /\ fcall[t].toggled => to \in ForcePlaces
      BY <1>0 DEF Move, ForcePlaces
    <2>3. QED
      BY <1>3, <1>4, <1>5, <2>2 DEF CallShape, Destroys, Plain, ForcePlaces
  <1>7. \A c \in FactoryCalls : Plain(c) =>
          /\ Starts(c) <=> c.pc \in StartPlaces
          /\ c.pc \notin {"destroy", "destroyed"} => (Dooms(c) <=> c.pc = "check")
          /\ ~Aside(c)
    BY DEF Plain, Starts, StartPlaces, Dooms, Aside
  <1>8. /\ Starts(new) <=> to \in StartPlaces
        /\ Starts(fcall[t]) <=> from \in StartPlaces
        /\ Dooms(new) <=> to = "check"
        /\ Dooms(fcall[t]) <=> from = "check"
        /\ Main(fcall[t]) /\ ~Aside(fcall[t])
    BY <1>1, <1>2, <1>5, <1>7 DEF Main
  <1>9. /\ Forces(new) <=> (to # "idle" /\ fcall[t].toggled) \/ to \in {"activate", "activating"}
        /\ Forces(fcall[t]) <=> fcall[t].toggled \/ from \in {"activate", "activating"}
    BY <1>1, <1>4, <1>5 DEF Forces
  <1>10. MainState(fcall[t]) => PlaceState(from)
    BY <1>1 DEF MainState, PlaceState, Entering
  <1>11. PlaceState(to)' => IF to = "idle" THEN IsSettled' ELSE MainState(new)'
    <2>1. ~Has(new.todo, "factory")
      BY <1>5 DEF Plain, Has
    <2>2. CASE to = "idle"
      BY <2>2 DEF PlaceState, Entering
    <2>3. CASE to # "idle"
      BY <1>5, <2>1, <2>3 DEF PlaceState, MainState, Plain, Entering, IsSettled, IsOff, IsOn, FactoryIs, Has
    <2>4. QED
      BY <2>2, <2>3
  <1>12. ~foverlap /\ ~failed' => MainState(fcall[t])
    BY <1>8 DEF FactoryInv, ModeFollows, Move
  <1>13. CallStep(t, new)
    <2>1. /\ fcall' = [fcall EXCEPT ![t] = new] /\ CallShape(new) /\ ModeTypes'
          /\ UNCHANGED <<spawned, foverlap, exempt>> /\ (failed => failed')
      BY <1>3, <1>6 DEF Move
    <2>2. sFactoryAppLaunchStatus' = "STARTED" =>
            Starts(new) \/ (sFactoryAppLaunchStatus = "STARTED" /\ ~Starts(fcall[t]))
      BY <1>8 DEF Move
    <2>3. sForceResidentAppLaunch' => Forces(new) \/ (sForceResidentAppLaunch /\ ~Forces(fcall[t]))
      BY <1>0, <1>9 DEF Move
    <2>4. ~foverlap /\ ~failed' => IF new = FM!Idle THEN IsSettled' ELSE Main(new) /\ MainState(new)'
      BY <1>3, <1>4, <1>5, <1>10, <1>11, <1>12 DEF Move
    <2>5. ~foverlap /\ ~failed' /\ app'["resident"] = "on" /\ sFactoryAppLaunchStatus' # "NOTLAUNCHED" =>
            Dooms(new) \/ (/\ app["resident"] = "on" /\ sFactoryAppLaunchStatus # "NOTLAUNCHED"
                           /\ ~Dooms(fcall[t]))
      BY <1>8, <1>10, <1>12 DEF Move
    <2>6. QED
      BY <1>8, <2>1, <2>2, <2>3, <2>4, <2>5 DEF CallStep
  <1>14. QED
    BY <1>2, <1>13, CallStepKeeps
-------------------------------------------------------------------------------
LEMMA FactoryMoves ==
  ASSUME FactoryConstants, FactoryInv, NEW t \in FactoryThreads,
         \/ FM!FactoryCheck(t) \/ FM!FactoryStarted(t) \/ FM!FactoryLaunch(t) \/ FM!FactoryLaunched(t)
         \/ FM!FactoryDone(t) \/ FM!launchFactoryAppShortcut(t)
  PROVE  FactoryInv'
  <1> USE DEF PlaceState, Entering, IsSettled, IsOff, IsOn, FactoryIs, StartPlaces, ForcePlaces
  <1>1. ModeTypes
    BY DEF FactoryInv
  <1>2. {"launchFactoryApp", "started", "launch", "launching", "done", "launchFactoryAppShortcut"}
          \subseteq FactoryPcs \ {"idle", "destroy", "destroyed"}
        /\ {"idle", "started", "check", "launching", "done", "launchFactoryApp"}
              \subseteq FactoryPcs \ {"destroy", "destroyed"}
    BY DEF FactoryPcs
  <1>3. ASSUME FM!FactoryCheck(t) PROVE FactoryInv'
    <2>1. PICK to \in {"started", "idle"} :
            to = IF sFactoryAppLaunchStatus = "NOTLAUNCHED" THEN "started" ELSE "idle"
      OBVIOUS
    <2>2. UNCHANGED <<app, FM!modes, store, eggs, spawned, FM!bounds, failed>>
      BY <1>3 DEF FM!FactoryCheck
    <2>3. ModeTypes'
      BY <1>1, <2>2 DEF ModeTypes, FM!modes, FM!decided, FM!bounds
    <2>4. Move(t, "launchFactoryApp", to)
      BY <1>1, <1>3, <2>1, <2>2, <2>3 DEF Move, FM!FactoryCheck, FM!modes, FM!decided, FM!bounds, ModeTypes
    <2>5. QED
      BY <1>2, <2>4, CallStepMove
  <1>4. ASSUME FM!FactoryStarted(t) PROVE FactoryInv'
    <2>1. ModeTypes'
      BY <1>1, <1>4 DEF ModeTypes, FM!FactoryStarted, FM!decided, FM!bounds
    <2>2. Move(t, "started", "check")
      BY <1>1, <1>4, <2>1 DEF Move, FM!FactoryStarted, FM!decided, FM!bounds
    <2>3. QED
      BY <1>2, <2>2, CallStepMove
  <1>5. ASSUME FM!FactoryLaunch(t) PROVE FactoryInv'
    <2>1. UNCHANGED <<app, FM!decided, sForceResidentAppLaunch, store, eggs, spawned, FM!bounds, failed>>
      BY <1>5 DEF FM!FactoryLaunch
    <2>2. CASE FM!FactoryFails(t, "launch")
      <3>1. ModeTypes'
        BY <1>1, <2>1, <2>2 DEF ModeTypes, FM!FactoryFails, FM!decided, FM!bounds
      <3>4. Move(t, "launch", "idle")
        BY <1>1, <2>1, <2>2, <3>1 DEF Move, FM!FactoryFails, FM!decided, FM!bounds
      <3>5. QED
        BY <1>2, <3>4, CallStepMove
    <2>3. CASE FM!Goto(t, "launch", "launching") /\ UNCHANGED sFactoryAppLaunchStatus
      <3>1. ModeTypes'
        BY <1>1, <2>1, <2>3 DEF ModeTypes, FM!decided, FM!bounds
      <3>2. Move(t, "launch", "launching")
        BY <1>1, <2>1, <2>3, <3>1 DEF Move, FM!decided, FM!bounds
      <3>3. QED
        BY <1>2, <3>2, CallStepMove
    <2>4. QED
      BY <1>5, <2>2, <2>3 DEF FM!FactoryLaunch
  <1>6. ASSUME FM!FactoryLaunched(t) PROVE FactoryInv'
    <2>1. UNCHANGED <<FM!decided, sForceResidentAppLaunch, store, eggs, spawned, FM!bounds>>
      BY <1>6 DEF FM!FactoryLaunched
    <2>2. CASE /\ FM!Goto(t, "launching", "done") /\ app' = [app EXCEPT !["factory"] = "on"]
               /\ UNCHANGED <<sFactoryAppLaunchStatus, failed>>
      <3>1. app' \in [FM!Apps -> {"off", "starting", "on"}] /\ app'["factory"] = "on"
            /\ app'["resident"] = app["resident"]
        BY <1>1, <2>2 DEF ModeTypes, FM!Apps
      <3>2. ModeTypes'
        BY <1>1, <2>1, <2>2, <3>1 DEF ModeTypes, FM!decided, FM!bounds
      <3>3. Move(t, "launching", "done")
        BY <1>1, <2>1, <2>2, <3>1, <3>2 DEF Move, FM!decided, FM!bounds
      <3>4. QED
        BY <1>2, <3>3, CallStepMove
    <2>3. CASE FM!FactoryFails(t, "launching") /\ FM!Fails(TRUE) /\ UNCHANGED app
      <3>1. failed' = TRUE
        BY <2>3, Zenon DEF FM!Fails
      <3>2. ModeTypes'
        BY <1>1, <2>1, <2>3, <3>1 DEF ModeTypes, FM!FactoryFails, FM!decided, FM!bounds
      <3>4. Move(t, "launching", "idle")
        BY <1>1, <2>1, <2>3, <3>1, <3>2 DEF Move, FM!FactoryFails, FM!decided, FM!bounds
      <3>5. QED
        BY <1>2, <3>4, CallStepMove
    <2>4. QED
      BY <1>6, <2>2, <2>3 DEF FM!FactoryLaunched
  <1>7. ASSUME FM!FactoryDone(t) PROVE FactoryInv'
    <2>1. /\ FM!Goto(t, "done", "idle") /\ eggs' = TRUE /\ sFactoryAppLaunchStatus' = "COMPLETED"
          /\ UNCHANGED <<app, FM!decided, sForceResidentAppLaunch, spawned, FM!bounds>>
      BY <1>7 DEF FM!FactoryDone
    <2>2. PICK mode \in Failures, allow \in Failures :
            /\ FM!Fails(mode \/ allow)
            /\ store' = [store EXCEPT !.FactoryMode = @ \/ ~mode, !.AllowExit = @ \/ ~allow]
      BY <1>7 DEF FM!FactoryDone
    <2>3. failed' \in BOOLEAN /\ (failed => failed') /\ (mode => failed')
      <3>1. (mode \/ allow) \in BOOLEAN /\ failed \in BOOLEAN
        BY <1>1 DEF FactoryConstants, ModeTypes
      <3>2. QED
        BY <2>2, <3>1, FailsMeans
    <2>4. /\ store' \in [AgingState : BOOLEAN, FactoryMode : BOOLEAN, AllowExit : BOOLEAN, ToFacFlag : BOOLEAN]
          /\ ~mode => store'.FactoryMode
      <3>1. /\ (store.FactoryMode \/ ~mode) \in BOOLEAN /\ (store.AllowExit \/ ~allow) \in BOOLEAN
            /\ store.AgingState \in BOOLEAN /\ store.ToFacFlag \in BOOLEAN
        BY <1>1 DEF ModeTypes
      <3>2. /\ store'.FactoryMode = (store.FactoryMode \/ ~mode)
            /\ store' = [AgingState |-> store.AgingState, FactoryMode |-> store.FactoryMode \/ ~mode,
                         AllowExit |-> store.AllowExit \/ ~allow, ToFacFlag |-> store.ToFacFlag]
        BY <1>1, <2>2 DEF ModeTypes
      <3>3. QED
        BY <3>1, <3>2, StoreType, Zenon
    <2>5. ModeTypes'
      BY <1>1, <2>1, <2>3, <2>4 DEF ModeTypes, FM!decided, FM!bounds
    <2>7. Move(t, "done", "idle")
      BY <1>1, <2>1, <2>3, <2>4, <2>5 DEF Move, FM!decided, FM!bounds
    <2>8. QED
      BY <1>2, <2>7, CallStepMove
  <1>8. ASSUME FM!launchFactoryAppShortcut(t) PROVE FactoryInv'
    <2>1. UNCHANGED <<app, FM!modes, store, eggs, spawned, FM!bounds>>
      BY <1>8 DEF FM!launchFactoryAppShortcut
    <2>2. PICK bad \in Failures, to \in {"launchFactoryApp", "idle"} :
            FM!Goto(t, "launchFactoryAppShortcut", to) /\ FM!Fails(bad)
      BY <1>8 DEF FM!launchFactoryAppShortcut
    <2>3. failed' \in BOOLEAN /\ (failed => failed')
      BY <1>1, <2>2, FailsMeans DEF FactoryConstants, ModeTypes
    <2>4. ModeTypes'
      BY <1>1, <2>1, <2>3 DEF ModeTypes, FM!modes, FM!decided, FM!bounds
    <2>6. Move(t, "launchFactoryAppShortcut", to)
      BY <1>1, <2>1, <2>2, <2>3, <2>4 DEF Move, FM!modes, FM!decided, FM!bounds
    <2>7. QED
      BY <1>2, <2>6, CallStepMove
  <1>9. QED
    BY <1>3, <1>4, <1>5, <1>6, <1>7, <1>8
-------------------------------------------------------------------------------
LEMMA ResidentMoves ==
  ASSUME FactoryConstants, FactoryInv, NEW t \in FactoryThreads,
         \/ FM!ResidentForce(t) \/ FM!ResidentActivate(t) \/ FM!ResidentDone(t)
         \/ FM!exitAgingMode(t) \/ FM!deactivateresidentapp(t)
  PROVE  FactoryInv'
  <1> USE DEF PlaceState, Entering, IsSettled, IsOff, IsOn, FactoryIs, StartPlaces, ForcePlaces
  <1>1. ModeTypes
    BY DEF FactoryInv
  <1>2. {"force", "activate", "activating", "exitAgingMode", "deactivateresidentapp"}
          \subseteq FactoryPcs \ {"idle", "destroy", "destroyed"}
        /\ {"idle", "activate", "activating", "launchResidentApp"} \subseteq FactoryPcs \ {"destroy", "destroyed"}
    BY DEF FactoryPcs
  <1>3. ASSUME FM!ResidentForce(t) PROVE FactoryInv'
    <2>1. ModeTypes'
      BY <1>1, <1>3 DEF ModeTypes, FM!ResidentForce, FM!decided, FM!bounds
    <2>2. Move(t, "force", "activate")
      BY <1>1, <1>3, <2>1 DEF Move, FM!ResidentForce, FM!decided, FM!bounds
    <2>3. QED
      BY <1>2, <2>2, CallStepMove
  <1>4. ASSUME FM!ResidentActivate(t) PROVE FactoryInv'
    <2>1. FM!Goto(t, "activate", "activating") /\ UNCHANGED <<FM!modes, store, eggs, spawned, FM!bounds>>
      BY <1>4 DEF FM!ResidentActivate
    <2>2. /\ failed' \in BOOLEAN /\ (failed => failed') /\ app' \in [FM!Apps -> {"off", "starting", "on"}]
          /\ app'["factory"] = app["factory"] /\ (app'["resident"] = "on" => app["resident"] = "on")
      <3>1. CASE UNCHANGED <<app, failed>>
        BY <1>1, <3>1 DEF ModeTypes
      <3>2. CASE FM!Fails(TRUE) /\ UNCHANGED app
        <4>1. failed' = TRUE
          BY <3>2, Zenon DEF FM!Fails
        <4>2. QED
          BY <1>1, <3>2, <4>1 DEF ModeTypes
      <3>3. CASE FM!HandleInitialize /\ UNCHANGED failed
        BY <1>1, <3>3 DEF ModeTypes, FM!HandleInitialize, FM!Apps
      <3>4. QED
        BY <1>4, <3>1, <3>2, <3>3 DEF FM!ResidentActivate
    <2>3. ModeTypes'
      BY <1>1, <2>1, <2>2 DEF ModeTypes, FM!modes, FM!decided, FM!bounds
    <2>4. Move(t, "activate", "activating")
      BY <1>1, <2>1, <2>2, <2>3 DEF Move, FM!modes, FM!decided, FM!bounds
    <2>5. QED
      BY <1>2, <2>4, CallStepMove
  <1>5. ASSUME FM!ResidentDone(t) PROVE FactoryInv'
    <2>1. /\ FM!Goto(t, "activating", "idle") /\ sForceResidentAppLaunch' = FALSE
          /\ UNCHANGED <<app, sFactoryAppLaunchStatus, FM!decided, eggs, spawned, FM!bounds>>
      BY <1>5 DEF FM!ResidentDone
    <2>2. PICK bad \in Failures : FM!Fails(bad) /\ store' = [store EXCEPT !.FactoryMode = @ /\ bad]
      BY <1>5 DEF FM!ResidentDone
    <2>3. failed' \in BOOLEAN /\ (failed => failed')
      BY <1>1, <2>2, FailsMeans DEF FactoryConstants, ModeTypes
    <2>4. store' \in [AgingState : BOOLEAN, FactoryMode : BOOLEAN, AllowExit : BOOLEAN, ToFacFlag : BOOLEAN]
      <3>1. /\ (store.FactoryMode /\ bad) \in BOOLEAN /\ store.AllowExit \in BOOLEAN
            /\ store.AgingState \in BOOLEAN /\ store.ToFacFlag \in BOOLEAN
        BY <1>1 DEF ModeTypes
      <3>2. store' = [AgingState |-> store.AgingState, FactoryMode |-> store.FactoryMode /\ bad,
                      AllowExit |-> store.AllowExit, ToFacFlag |-> store.ToFacFlag]
        BY <1>1, <2>2 DEF ModeTypes
      <3>3. QED
        BY <3>1, <3>2, StoreType, Zenon
    <2>5. ModeTypes'
      BY <1>1, <2>1, <2>3, <2>4 DEF ModeTypes, FM!decided, FM!bounds
    <2>6. Move(t, "activating", "idle")
      BY <1>1, <2>1, <2>3, <2>4, <2>5 DEF Move, FM!decided, FM!bounds
    <2>7. QED
      BY <1>2, <2>6, CallStepMove
  <1>6. ASSUME FM!exitAgingMode(t) PROVE FactoryInv'
    <2>1. UNCHANGED <<app, FM!modes, eggs, spawned, FM!bounds>>
      BY <1>6 DEF FM!exitAgingMode
    <2>2. PICK bad \in Failures, unset \in Failures, to \in {"launchResidentApp", "idle"} :
            /\ FM!Goto(t, "exitAgingMode", to)
            /\ store' = [store EXCEPT !.AgingState = @ /\ (bad \/ unset)]
            /\ FM!Fails(bad \/ unset)
      BY <1>6 DEF FM!exitAgingMode
    <2>3. failed' \in BOOLEAN /\ (failed => failed')
      <3>1. (bad \/ unset) \in BOOLEAN /\ failed \in BOOLEAN
        BY <1>1 DEF FactoryConstants, ModeTypes
      <3>2. QED
        BY <2>2, <3>1, FailsMeans
    <2>4. /\ store' \in [AgingState : BOOLEAN, FactoryMode : BOOLEAN, AllowExit : BOOLEAN, ToFacFlag : BOOLEAN]
          /\ store'.FactoryMode = store.FactoryMode
      <3>1. /\ (store.AgingState /\ (bad \/ unset)) \in BOOLEAN /\ store.AllowExit \in BOOLEAN
            /\ store.FactoryMode \in BOOLEAN /\ store.ToFacFlag \in BOOLEAN
        BY <1>1 DEF ModeTypes
      <3>2. /\ store'.FactoryMode = store.FactoryMode
            /\ store' = [AgingState |-> store.AgingState /\ (bad \/ unset), FactoryMode |-> store.FactoryMode,
                         AllowExit |-> store.AllowExit, ToFacFlag |-> store.ToFacFlag]
        BY <1>1, <2>2 DEF ModeTypes
      <3>3. QED
        BY <3>1, <3>2, StoreType, Zenon
    <2>5. ModeTypes'
      BY <1>1, <2>1, <2>3, <2>4 DEF ModeTypes, FM!modes, FM!decided, FM!bounds
    <2>6. Move(t, "exitAgingMode", to)
      BY <1>1, <2>1, <2>2, <2>3, <2>4, <2>5 DEF Move, FM!modes, FM!decided, FM!bounds
    <2>7. QED
      BY <1>2, <2>6, CallStepMove
  <1>7. ASSUME FM!deactivateresidentapp(t) PROVE FactoryInv'
    <2>1. /\ FM!Goto(t, "deactivateresidentapp", "idle")
          /\ UNCHANGED <<FM!modes, store, eggs, spawned, FM!bounds>>
      BY <1>7 DEF FM!deactivateresidentapp
    <2>2. /\ failed' \in BOOLEAN /\ (failed => failed') /\ app' \in [FM!Apps -> {"off", "starting", "on"}]
          /\ app'["factory"] = app["factory"] /\ (app'["resident"] = "on" => app["resident"] = "on")
      <3>1. CASE app' = [app EXCEPT !["resident"] = "off"] /\ UNCHANGED failed
        BY <1>1, <3>1 DEF ModeTypes, FM!Apps
      <3>2. CASE FM!Fails(TRUE) /\ UNCHANGED app
        <4>1. failed' = TRUE
          BY <3>2, Zenon DEF FM!Fails
        <4>2. QED
          BY <1>1, <3>2, <4>1 DEF ModeTypes
      <3>3. QED
        BY <1>7, <3>1, <3>2 DEF FM!deactivateresidentapp
    <2>3. ModeTypes'
      BY <1>1, <2>1, <2>2 DEF ModeTypes, FM!modes, FM!decided, FM!bounds
    <2>4. Move(t, "deactivateresidentapp", "idle")
      BY <1>1, <2>1, <2>2, <2>3 DEF Move, FM!modes, FM!decided, FM!bounds
    <2>5. QED
      BY <1>2, <2>4, CallStepMove
  <1>8. QED
    BY <1>3, <1>4, <1>5, <1>6, <1>7

-------------------------------------------------------------------------------
(* The steps of a call that destroys, or begins to. *)

\* What DestroyNext makes of the call.
Onward(c, todo, then, new) ==
  IF todo # <<>> THEN new.pc = "destroy" /\ new.todo = todo /\ new.then = then /\ new.toggled = c.toggled
  ELSE IF then = "idle" THEN new = FM!Idle
  ELSE new.pc = then /\ Plain(new) /\ new.toggled = c.toggled

LEMMA DestroyNextMeans ==
  ASSUME FactoryInv, NEW t \in FactoryThreads, NEW todo \in Seq(FM!Apps), NEW then \in {"idle", "launch", "force"},
         FM!DestroyNext(t, todo, then)
  PROVE  \E new \in FactoryCalls :
           fcall' = [fcall EXCEPT ![t] = new] /\ Onward(fcall[t], todo, then, new)
  <1> DEFINE c == fcall[t]
  <1>1. fcall \in [FactoryThreads -> FactoryCalls] /\ c \in FactoryCalls
    BY DEF FactoryInv, CallTypes
  <1>2. fcall' = [fcall EXCEPT ![t] =
                    IF todo # <<>> THEN [@ EXCEPT !.pc = "destroy", !.todo = todo, !.then = then]
                    ELSE IF then = "idle" THEN FM!Idle
                    ELSE [@ EXCEPT !.pc = then, !.todo = <<>>, !.then = "idle"]]
    BY DEF FM!DestroyNext
  <1>3. CASE todo # <<>>
    <2>1. [c EXCEPT !.pc = "destroy", !.todo = todo, !.then = then] \in FactoryCalls
      BY <1>1 DEF FactoryCalls, FactoryPcs
    <2>2. fcall' = [fcall EXCEPT ![t] = [c EXCEPT !.pc = "destroy", !.todo = todo, !.then = then]]
      BY <1>1, <1>2, <1>3
    <2>3. Onward(c, todo, then, [c EXCEPT !.pc = "destroy", !.todo = todo, !.then = then])
      BY <1>1, <1>3 DEF Onward, FactoryCalls
    <2>4. QED
      BY <2>1, <2>2, <2>3
  <1>4. CASE todo = <<>> /\ then = "idle"
    <2>1. FM!Idle \in FactoryCalls
      BY DEF FM!Idle, FactoryCalls, FactoryPcs
    <2>2. QED
      BY <1>1, <1>2, <1>4, <2>1 DEF Onward
  <1>5. CASE todo = <<>> /\ then # "idle"
    <2>1. [c EXCEPT !.pc = then, !.todo = <<>>, !.then = "idle"] \in FactoryCalls
      BY <1>1, <1>5 DEF FactoryCalls, FactoryPcs
    <2>2. fcall' = [fcall EXCEPT ![t] = [c EXCEPT !.pc = then, !.todo = <<>>, !.then = "idle"]]
      BY <1>1, <1>2, <1>5
    <2>3. Onward(c, todo, then, [c EXCEPT !.pc = then, !.todo = <<>>, !.then = "idle"])
      BY <1>1, <1>5 DEF Onward, FactoryCalls, Plain
    <2>4. QED
      BY <2>1, <2>2, <2>3
  <1>6. QED
    BY <1>3, <1>4, <1>5
-------------------------------------------------------------------------------
\* The application at the head of a call's list is dealt with.
SkipOf(t) ==
  LET c == fcall[t] IN
  /\ FM!Skip(t) /\ Destroys(c) /\ ModeTypes'
  /\ UNCHANGED <<app, sForceResidentAppLaunch, store, spawned, foverlap, exempt>> /\ (failed => failed')
  /\ sFactoryAppLaunchStatus' \in {sFactoryAppLaunchStatus, "NOTLAUNCHED"}
  /\ Head(c.todo) = "resident" => UNCHANGED <<eggs, sFactoryAppLaunchStatus>>
  /\ Head(c.todo) = "factory" /\ c.then # "launch" /\ Main(c) /\ MainState(c) /\ ~foverlap /\ ~failed' => IsOff'
  /\ c.pc = "destroy" /\ Head(c.todo) = "resident" /\ ~failed' => app["resident"] # "on"

LEMMA CallStepSkip ==
  ASSUME FactoryInv, NEW t \in FactoryThreads, SkipOf(t)
  PROVE  FactoryInv'
  <1> DEFINE c == fcall[t]
  <1>1. /\ c \in FactoryCalls /\ CallShape(c) /\ Destroys(c) /\ c.todo \in Seq(FM!Apps) /\ c.todo # <<>>
        /\ c.then \in {"idle", "launch", "force"} /\ c # FM!Idle /\ c.toggled \in BOOLEAN
    BY DEF FactoryInv, CallTypes, SkipOf, CallShape, FactoryCalls, FM!Idle, Destroys
  <1>2. Head(c.todo) \in {"factory", "resident"} /\ Tail(c.todo) \in Seq(FM!Apps)
    BY <1>1 DEF FM!Apps
  <1>3. PICK todo \in Seq(FM!Apps), then \in {"idle", "launch", "force"} :
          todo = Tail(c.todo) /\ then = c.then
    BY <1>1, <1>2
  <1>4. PICK new \in FactoryCalls :
          fcall' = [fcall EXCEPT ![t] = new] /\ Onward(c, Tail(c.todo), c.then, new)
    <2>1. FM!DestroyNext(t, todo, then)
      BY <1>3 DEF SkipOf, FM!Skip, FM!DestroyNext
    <2>2. \E new \in FactoryCalls : fcall' = [fcall EXCEPT ![t] = new] /\ Onward(fcall[t], todo, then, new)
      BY <2>1, DestroyNextMeans
    <2>3. QED
      BY <1>3, <2>2
  <1>5. \A a : Has(c.todo, a) <=> Head(c.todo) = a \/ Has(Tail(c.todo), a)
    BY <1>1, HasTail
  <1>6. \A a : ~Has(<<>>, a)
    BY DEF Has
  <1>7. c.then = "idle" => Tail(c.todo) = <<>> /\ ~c.toggled
    <2>1. Tail(<<"factory">>) = <<>> /\ Tail(<<"resident">>) = <<>>
      OBVIOUS
    <2>2. QED
      BY <1>1, <2>1 DEF CallShape, Destroys
  <1>8. CASE Tail(c.todo) # <<>>
    <2>1. /\ new.pc = "destroy" /\ new.todo = Tail(c.todo) /\ new.then = c.then /\ new.toggled = c.toggled
          /\ c.then \in {"launch", "force"}
      BY <1>1, <1>4, <1>7, <1>8 DEF Onward
    <2>2. CallShape(new) /\ new # FM!Idle /\ ~Aside(c) /\ Main(c) /\ Main(new)
      BY <1>1, <1>8, <2>1 DEF CallShape, Destroys, Main, Aside, FM!Idle
    <2>3. (Starts(new) <=> c.then = "launch") /\ (Starts(c) <=> c.then = "launch") /\ (Forces(new) <=> Forces(c))
      BY <1>1, <2>1 DEF Starts, Forces, Destroys
    <2>4. ~foverlap /\ ~failed' => MainState(c)
      BY <2>2 DEF FactoryInv, ModeFollows, SkipOf
    <2>5. ASSUME ~foverlap, ~failed' PROVE MainState(new)'
      <3>1. CASE c.then = "launch"
        <4>1. FactoryIs("off", "STARTED") /\ ~Has(c.todo, "factory")
          BY <2>4, <2>5, <3>1 DEF MainState
        <4>2. FactoryIs("off", "STARTED")' /\ ~Has(new.todo, "factory")
          BY <1>2, <1>5, <2>1, <4>1 DEF SkipOf, FactoryIs
        <4>3. QED
          BY <2>1, <3>1, <4>2 DEF MainState
      <3>2. CASE c.then = "force"
        <4>1. CASE Head(c.todo) = "factory"
          <5>1. IsOff'
            BY <2>2, <2>4, <2>5, <3>2, <4>1 DEF SkipOf
          <5>2. QED
            BY <2>1, <3>2, <5>1 DEF MainState
        <4>2. CASE Head(c.todo) = "resident"
          <5>1. IsOff \/ (IsOn /\ Has(c.todo, "factory"))
            BY <1>1, <2>4, <2>5, <3>2, <4>2 DEF MainState, Destroys
          <5>2. UNCHANGED <<app, eggs, sFactoryAppLaunchStatus, store>>
            BY <4>2 DEF SkipOf
          <5>3. IsOff' \/ (IsOn' /\ Has(new.todo, "factory"))
            BY <1>5, <2>1, <4>2, <5>1, <5>2 DEF IsOff, IsOn, FactoryIs
          <5>4. QED
            BY <2>1, <3>2, <5>3 DEF MainState
        <4>3. QED
          BY <1>2, <4>1, <4>2
      <3>3. QED
        BY <2>1, <3>1, <3>2
    <2>6. ~failed' /\ app'["resident"] = "on" /\ sFactoryAppLaunchStatus' # "NOTLAUNCHED" =>
            Dooms(new) \/ (app["resident"] = "on" /\ sFactoryAppLaunchStatus # "NOTLAUNCHED" /\ ~Dooms(c))
      BY <1>1, <1>5, <2>1 DEF SkipOf, Dooms, Destroys
    <2>7. CallStep(t, new)
      BY <1>4, <2>2, <2>3, <2>5, <2>6 DEF CallStep, SkipOf
    <2>8. QED
      BY <1>1, <2>7, CallStepKeeps
  <1>9. CASE Tail(c.todo) = <<>> /\ c.then = "idle"
    <2>1. new = FM!Idle /\ CallShape(new) /\ ~Main(new) /\ ~Forces(c) /\ ~Starts(c)
      BY <1>1, <1>4, <1>7, <1>9 DEF Onward, CallShape, Destroys, Main, Forces, Starts, FM!Idle
    <2>2. Main(c) /\ ~foverlap /\ ~failed' => MainState(c)
      BY DEF FactoryInv, ModeFollows, SkipOf
    <2>3. ASSUME Main(c), ~foverlap, ~failed' PROVE IsSettled'
      <3>1. CASE Head(c.todo) = "factory"
        <4>1. IsOff'
          BY <1>9, <2>2, <2>3, <3>1 DEF SkipOf
        <4>2. QED
          BY <4>1 DEF IsSettled
      <3>2. CASE Head(c.todo) = "resident"
        <4>1. ~Has(c.todo, "factory")
          BY <1>5, <1>6, <1>9, <3>2
        <4>2. IsOff
          BY <1>1, <1>9, <2>2, <2>3, <3>2, <4>1 DEF MainState, Destroys
        <4>3. IsOff'
          BY <3>2, <4>2 DEF SkipOf, IsOff, FactoryIs
        <4>4. QED
          BY <4>3 DEF IsSettled
      <3>3. QED
        BY <1>2, <3>1, <3>2
    <2>4. ~failed' /\ app'["resident"] = "on" /\ sFactoryAppLaunchStatus' # "NOTLAUNCHED" =>
            app["resident"] = "on" /\ sFactoryAppLaunchStatus # "NOTLAUNCHED" /\ ~Dooms(c)
      BY <1>1, <1>2, <1>5, <1>6, <1>9 DEF SkipOf, Dooms, Destroys
    <2>5. Aside(c) => app'["factory"] = app["factory"] /\ UNCHANGED <<eggs, sFactoryAppLaunchStatus, store>>
      <3>1. Head(<<"resident">>) = "resident"
        OBVIOUS
      <3>2. QED
        BY <3>1 DEF SkipOf, Aside
    <2>6. CallStep(t, new)
      BY <1>4, <2>1, <2>3, <2>4, <2>5 DEF CallStep, SkipOf
    <2>7. QED
      BY <1>1, <2>6, CallStepKeeps
  <1>10. CASE Tail(c.todo) = <<>> /\ c.then # "idle"
    <2>1. /\ new.pc = c.then /\ new.todo = <<>> /\ new.then = "idle" /\ new.toggled = c.toggled
          /\ c.then \in {"launch", "force"}
      BY <1>1, <1>4, <1>10 DEF Onward, Plain
    <2>2. CallShape(new) /\ new # FM!Idle /\ ~Aside(c) /\ Main(c) /\ Main(new)
      BY <1>1, <2>1 DEF CallShape, Destroys, Main, Aside, FM!Idle
    <2>3. (Starts(new) <=> c.then = "launch") /\ (Starts(c) <=> c.then = "launch") /\ (Forces(new) <=> Forces(c))
      BY <1>1, <2>1 DEF Starts, Forces, Destroys
    <2>4. ~foverlap /\ ~failed' => MainState(c)
      BY <2>2 DEF FactoryInv, ModeFollows, SkipOf
    <2>5. ASSUME ~foverlap, ~failed' PROVE MainState(new)'
      <3>1. CASE c.then = "launch"
        <4>1. FactoryIs("off", "STARTED") /\ ~Has(c.todo, "factory")
          BY <2>4, <2>5, <3>1 DEF MainState
        <4>2. FactoryIs("off", "STARTED")' /\ ~Has(new.todo, "factory")
          BY <1>2, <1>5, <1>6, <2>1, <4>1 DEF SkipOf, FactoryIs
        <4>3. QED
          BY <2>1, <3>1, <4>2 DEF MainState
      <3>2. CASE c.then = "force"
        <4>1. IsOff'
          <5>1. CASE Head(c.todo) = "factory"
            BY <2>2, <2>4, <2>5, <3>2, <5>1 DEF SkipOf
          <5>2. CASE Head(c.todo) = "resident"
            <6>1. ~Has(c.todo, "factory")
              BY <1>5, <1>6, <1>10, <5>2
            <6>2. IsOff
              BY <1>1, <2>4, <2>5, <3>2, <5>2, <6>1 DEF MainState, Destroys
            <6>3. QED
              BY <5>2, <6>2 DEF SkipOf, IsOff, FactoryIs
          <5>3. QED
            BY <1>2, <5>1, <5>2
        <4>2. QED
          BY <2>1, <3>2, <4>1 DEF MainState
      <3>3. QED
        BY <2>1, <3>1, <3>2
    <2>6. ~failed' /\ app'["resident"] = "on" /\ sFactoryAppLaunchStatus' # "NOTLAUNCHED" =>
            app["resident"] = "on" /\ sFactoryAppLaunchStatus # "NOTLAUNCHED" /\ ~Dooms(c)
      BY <1>1, <1>2, <1>5, <1>6, <1>10 DEF SkipOf, Dooms, Destroys
    <2>7. CallStep(t, new)
      BY <1>4, <2>2, <2>3, <2>5, <2>6 DEF CallStep, SkipOf
    <2>8. QED
      BY <1>1, <2>7, CallStepKeeps
  <1>11. QED
    BY <1>8, <1>9, <1>10

LEMMA DestroyKeeps ==
  ASSUME FactoryConstants, FactoryInv, NEW t \in FactoryThreads, FM!DestroyDeactivate(t) \/ FM!DestroyDone(t)
  PROVE  FactoryInv'
  <1> DEFINE c == fcall[t]
             a == Head(c.todo)
  <1>1. ModeTypes /\ fcall \in [FactoryThreads -> FactoryCalls] /\ c \in FactoryCalls /\ CallShape(c)
    BY DEF FactoryInv, CallTypes
  <1>2. Destroys(c) /\ c.todo # <<>> /\ c.todo \in Seq(FM!Apps) /\ c # FM!Idle
    <2>1. c.pc \in {"destroy", "destroyed"}
      <3>1. CASE FM!DestroyDeactivate(t)
        BY <3>1 DEF FM!DestroyDeactivate
      <3>2. CASE FM!DestroyDone(t)
        BY <3>2 DEF FM!DestroyDone
      <3>3. QED
        BY <3>1, <3>2
    <2>2. QED
      BY <1>1, <2>1 DEF CallShape, Destroys, FactoryCalls, FM!Idle
  <1>3. a \in FM!Apps /\ a \in {"factory", "resident"}
    BY <1>2 DEF FM!Apps
  <1>4. ASSUME FM!DestroyDeactivate(t) PROVE FactoryInv'
    <2>1. c.pc = "destroy" /\ UNCHANGED <<FM!modes, store, eggs, spawned, FM!bounds>>
      BY <1>4 DEF FM!DestroyDeactivate
    <2>2. ASSUME FM!Skip(t), failed' \in BOOLEAN, failed => failed', UNCHANGED app,
                 a = "factory" => app["factory"] = "off" \/ failed' \/ FM!BeingLaunched("factory"),
                 a = "resident" => app["resident"] # "on" \/ failed'
          PROVE  FactoryInv'
      <3>1. ModeTypes'
        BY <1>1, <2>1, <2>2 DEF ModeTypes, FM!modes, FM!decided, FM!bounds
      <3>2. ASSUME a = "factory", c.then # "launch", Main(c), MainState(c), ~foverlap, ~failed' PROVE IsOff'
        <4>1. ~FM!BeingLaunched("factory")
          <5> SUFFICES ASSUME NEW u \in FactoryThreads, fcall[u].pc = "launching" PROVE FALSE
            BY DEF FM!BeingLaunched
          <5>1. fcall[u] # FM!Idle /\ CallShape(fcall[u])
            BY DEF FM!Idle, FactoryInv, CallTypes
          <5>2. fcall[u].todo = <<>>
            BY <5>1 DEF CallShape, Destroys
          <5>3. Main(fcall[u]) /\ u # t
            BY <2>1, <5>1, <5>2 DEF Main, Aside
          <5>4. QED
            BY <3>2, <5>3 DEF FactoryInv, OneMain
        <4>2. app["factory"] = "off"
          BY <2>2, <3>2, <4>1
        <4>3. IsOff
          BY <2>1, <3>2, <4>2 DEF MainState, IsOn, FactoryIs
        <4>4. QED
          BY <2>1, <2>2, <4>3 DEF IsOff, FactoryIs, FM!modes
      <3>3. SkipOf(t)
        BY <1>2, <2>1, <2>2, <3>1, <3>2 DEF SkipOf, FM!modes, FM!bounds
      <3>4. QED
        BY <3>3, CallStepSkip
    <2>3. CASE FM!BeingLaunched(a) /\ FM!Skip(t) /\ UNCHANGED <<app, failed>>
      <3>1. a = "factory"
        BY <2>3 DEF FM!BeingLaunched
      <3>2. QED
        BY <1>1, <2>2, <2>3, <3>1 DEF ModeTypes
    <2>4. CASE app[a] = "off" /\ FM!Skip(t) /\ UNCHANGED <<app, failed>>
      BY <1>1, <2>2, <2>4 DEF ModeTypes
    <2>5. CASE FM!Skip(t) /\ FM!Fails(TRUE) /\ UNCHANGED app
      <3>1. failed' = TRUE
        BY <2>5, Zenon DEF FM!Fails
      <3>2. QED
        BY <1>1, <2>2, <2>5, <3>1 DEF ModeTypes
    <2>6. CASE /\ app' = [app EXCEPT ![a] = "off"]
               /\ fcall' = [fcall EXCEPT ![t].pc = "destroyed"] /\ UNCHANGED failed
      <3>1. PICK new \in FactoryCalls :
              /\ fcall' = [fcall EXCEPT ![t] = new] /\ new.pc = "destroyed"
              /\ new.todo = c.todo /\ new.then = c.then /\ new.toggled = c.toggled
        <4>1. [c EXCEPT !.pc = "destroyed"] \in FactoryCalls
          BY <1>1 DEF FactoryCalls, FactoryPcs
        <4>2. fcall' = [fcall EXCEPT ![t] = [c EXCEPT !.pc = "destroyed"]]
          BY <1>1, <2>6
        <4>3. QED
          BY <1>1, <4>1, <4>2 DEF FactoryCalls
      <3>2. /\ CallShape(new) /\ new # FM!Idle /\ (Main(new) <=> Main(c)) /\ (Starts(new) <=> Starts(c))
            /\ (Forces(new) <=> Forces(c)) /\ (Aside(c) => a = "resident")
        <4>1. Head(<<"resident">>) = "resident"
          OBVIOUS
        <4>2. QED
          BY <1>1, <1>2, <2>1, <3>1, <4>1 DEF CallShape, Destroys, Main, Aside, Starts, Forces, FM!Idle
      <3>3. /\ app' \in [FM!Apps -> {"off", "starting", "on"}] /\ app'["factory"] # "starting"
            /\ (a = "resident" => app'["factory"] = app["factory"])
            /\ (a = "factory" => app'["factory"] = "off" /\ app'["resident"] = app["resident"])
            /\ (a = "resident" => app'["resident"] = "off")
            /\ (app["factory"] = "off" => app'["factory"] = "off")
        BY <1>1, <1>3, <2>6 DEF ModeTypes, FM!Apps
      <3>4. ModeTypes'
        BY <1>1, <2>1, <2>6, <3>3 DEF ModeTypes, FM!modes, FM!decided, FM!bounds
      <3>5. ASSUME Main(c), ~foverlap, ~failed' PROVE MainState(new)'
        <4>1. MainState(c)
          BY <2>6, <3>5 DEF FactoryInv, ModeFollows
        <4>2. UNCHANGED <<sFactoryAppLaunchStatus, eggs, store>>
          BY <2>1 DEF FM!modes
        <4>3. CASE c.then = "launch"
          <5>1. FactoryIs("off", "STARTED") /\ ~Has(c.todo, "factory")
            BY <4>1, <4>3 DEF MainState
          <5>2. FactoryIs("off", "STARTED")'
            BY <3>3, <4>2, <5>1 DEF FactoryIs
          <5>3. QED
            BY <3>1, <4>3, <5>1, <5>2 DEF MainState
        <4>4. CASE c.then # "launch"
          <5>1. IsOff \/ (IsOn /\ Has(c.todo, "factory"))
            BY <2>1, <4>1, <4>4 DEF MainState
          <5>2. CASE a = "factory"
            BY <3>1, <3>3, <4>4, <5>2 DEF MainState
          <5>3. CASE a = "resident"
            <6>1. IsOff' \/ (IsOn' /\ Has(c.todo, "factory"))
              BY <3>3, <4>2, <5>1, <5>3 DEF IsOff, IsOn, FactoryIs
            <6>2. QED
              BY <3>1, <4>4, <5>3, <6>1 DEF MainState
          <5>4. QED
            BY <1>3, <5>2, <5>3
        <4>5. QED
          BY <4>3, <4>4
      <3>6. app'["resident"] = "on" /\ sFactoryAppLaunchStatus' # "NOTLAUNCHED" =>
              Dooms(new) \/ (app["resident"] = "on" /\ sFactoryAppLaunchStatus # "NOTLAUNCHED" /\ ~Dooms(c))
        <4>1. Has(c.todo, "resident") <=> a = "resident" \/ Has(Tail(c.todo), "resident")
          BY <1>2, HasTail
        <4>2. QED
          BY <1>3, <2>1, <3>1, <3>3, <4>1 DEF Dooms, FM!modes
      <3>7. CallStep(t, new)
        BY <2>1, <2>6, <3>1, <3>2, <3>3, <3>4, <3>5, <3>6 DEF CallStep, FM!modes, FM!bounds, Aside, Main
      <3>8. QED
        BY <1>2, <3>7, CallStepKeeps
    <2>7. QED
      BY <1>4, <2>3, <2>4, <2>5, <2>6 DEF FM!DestroyDeactivate
  <1>5. ASSUME FM!DestroyDone(t) PROVE FactoryInv'
    <2>1. /\ c.pc = "destroyed" /\ FM!Skip(t)
          /\ UNCHANGED <<app, sResidentAppFirstActivated, sForceResidentAppLaunch, store, spawned, FM!bounds,
                         failed>>
          /\ IF a = "factory"
             THEN eggs' = FALSE /\ sFactoryModeStart' = FALSE /\ sFactoryAppLaunchStatus' = "NOTLAUNCHED"
             ELSE UNCHANGED <<eggs, sFactoryModeStart, sFactoryAppLaunchStatus>>
      BY <1>5 DEF FM!DestroyDone
    <2>2. ModeTypes'
      <3>1. /\ eggs' \in BOOLEAN /\ sFactoryModeStart' \in BOOLEAN
            /\ sFactoryAppLaunchStatus' \in {"NOTLAUNCHED", "STARTED", "COMPLETED"}
        <4>1. CASE a = "factory"
          BY <2>1, <4>1
        <4>2. CASE a # "factory"
          BY <1>1, <2>1, <4>2 DEF ModeTypes
        <4>3. QED
          BY <4>1, <4>2
      <3>2. QED
        BY <1>1, <2>1, <3>1 DEF ModeTypes, FM!bounds
    <2>3. ASSUME a = "factory", c.then # "launch", MainState(c) PROVE IsOff'
      <3>1. app["factory"] = "off"
        BY <2>1, <2>3 DEF MainState
      <3>2. QED
        BY <2>1, <2>3, <3>1 DEF IsOff, FactoryIs
    <2>4. SkipOf(t)
      BY <1>2, <2>1, <2>2, <2>3 DEF SkipOf, FM!bounds
    <2>5. QED
      BY <2>4, CallStepSkip
  <1>6. QED
    BY <1>4, <1>5
-------------------------------------------------------------------------------
\* The applications that killAllApps goes on to destroy.
Kills(t, more, then, todo) ==
  /\ FM!DestroyNext(t, todo, then) /\ failed' \in BOOLEAN /\ (failed => failed')
  /\ ~failed' /\ app["resident"] = "on" => Has(todo, "resident")
  /\ Has(todo, "factory") => app["factory"] = "on" \/ more = <<"factory">>
  /\ more = <<"factory">> => Has(todo, "factory")

LEMMA KillMeans ==
  ASSUME FactoryConstants, ModeTypes, NEW t \in FactoryThreads,
         NEW more \in {<<>>, <<"resident">>, <<"factory">>}, NEW then \in {"idle", "launch", "force"},
         NEW bad \in BOOLEAN, FM!killAllApps(t, more, then, bad)
  PROVE  \E todo \in Seq(FM!Apps) : Kills(t, more, then, todo)
  <1> DEFINE active == {a \in FM!Apps : app[a] = "on"}
             listed(l) == {l[i] : i \in DOMAIN l}
  <1>1. PICK these \in {<<>>, <<"resident">>, <<"factory">>, <<"resident", "factory">>} :
          /\ listed(these) \subseteq active /\ FM!Fails(bad \/ listed(these) # active)
          /\ FM!DestroyNext(t, these \o more, then)
    BY DEF FM!killAllApps
  <1>2. these \in Seq(FM!Apps) /\ more \in Seq(FM!Apps) /\ DOMAIN these = 1 .. Len(these)
    <2>1. /\ <<>> \in Seq(FM!Apps) /\ <<"resident">> \in Seq(FM!Apps) /\ <<"factory">> \in Seq(FM!Apps)
          /\ <<"resident", "factory">> \in Seq(FM!Apps)
      BY DEF FM!Apps
    <2>2. these \in Seq(FM!Apps) /\ more \in Seq(FM!Apps)
      BY <2>1
    <2>3. QED
      BY <2>2
  <1>3. \A a : Has(these, a) <=> a \in listed(these)
    BY <1>2 DEF Has
  <1>4. /\ failed' \in BOOLEAN /\ (failed => failed')
        /\ ~failed' => listed(these) = active
    <2>1. (bad \/ listed(these) # active) \in BOOLEAN
      OBVIOUS
    <2>2. PICK b \in BOOLEAN : b = (bad \/ listed(these) # active)
      BY <2>1
    <2>3. FM!Fails(b)
      BY <1>1, <2>2 DEF FM!Fails
    <2>4. failed' \in BOOLEAN /\ (failed => failed') /\ (b => failed')
      BY <2>3, FailsMeans DEF ModeTypes
    <2>5. QED
      BY <2>2, <2>4
  <1>5. PICK todo \in Seq(FM!Apps) : todo = these \o more
    BY <1>2, HasConcat
  <1>6. \A a : Has(todo, a) <=> Has(these, a) \/ Has(more, a)
    BY <1>2, <1>5, HasConcat
  <1>7. Has(more, "factory") <=> more = <<"factory">>
    <2>1. Has(<<"factory">>, "factory") /\ ~Has(<<"resident">>, "factory") /\ ~Has(<<>>, "factory")
      BY DEF Has
    <2>2. QED
      BY <2>1
  <1>8. "resident" \in FM!Apps
    BY DEF FM!Apps
  <1>9. FM!DestroyNext(t, todo, then)
    BY <1>1, <1>5 DEF FM!DestroyNext
  <1>10. QED
    BY <1>1, <1>3, <1>4, <1>6, <1>7, <1>8, <1>9 DEF Kills

\* A call that has begun to kill all applications goes on with the launch.
LEMMA KillKeeps ==
  ASSUME FactoryInv, NEW t \in FactoryThreads, NEW more, NEW then \in {"launch", "force"},
         NEW todo \in Seq(FM!Apps), Kills(t, more, then, todo),
         fcall[t].pc = IF then = "launch" THEN "check" ELSE "launchResidentApp",
         IF then = "force" THEN more = <<"factory">> ELSE more \in {<<>>, <<"resident">>},
         UNCHANGED <<app, sFactoryAppLaunchStatus, FM!decided, sForceResidentAppLaunch, store, eggs, spawned,
                     FM!bounds>>
  PROVE  FactoryInv'
  <1> DEFINE c == fcall[t]
  <1>1. /\ ModeTypes /\ c \in FactoryCalls /\ CallShape(c) /\ c.todo = <<>> /\ c.then = "idle" /\ c # FM!Idle
        /\ c.toggled \in BOOLEAN /\ Main(c)
    <2>1. ModeTypes /\ c \in FactoryCalls /\ CallShape(c)
      BY DEF FactoryInv, CallTypes
    <2>2. c.pc \in {"check", "launchResidentApp"} /\ c.toggled \in BOOLEAN
      BY <2>1 DEF FactoryCalls
    <2>3. c.todo = <<>> /\ c.then = "idle" /\ c # FM!Idle
      BY <2>1, <2>2 DEF CallShape, Destroys, FM!Idle
    <2>4. QED
      BY <2>1, <2>2, <2>3 DEF Main, Aside
  <1>2. FM!DestroyNext(t, todo, then) /\ failed' \in BOOLEAN /\ (failed => failed')
    BY DEF Kills
  <1>3. PICK new \in FactoryCalls : fcall' = [fcall EXCEPT ![t] = new] /\ Onward(c, todo, then, new)
    BY <1>2, DestroyNextMeans
  <1>4. /\ new.toggled = c.toggled /\ (then = "launch" => c.toggled = FALSE)
        /\ \/ new.pc = "destroy" /\ new.todo = todo /\ new.then = then /\ todo # <<>>
           \/ new.pc = then /\ new.todo = <<>> /\ new.then = "idle" /\ todo = <<>>
    BY <1>1, <1>3 DEF Onward, Plain, CallShape
  <1>5. CallShape(new) /\ new # FM!Idle /\ Main(new)
    BY <1>4 DEF CallShape, Destroys, FM!Idle, Main, Aside
  <1>6. /\ (Starts(new) <=> then = "launch") /\ (Starts(c) <=> then = "launch")
        /\ (Forces(new) <=> Forces(c))
    BY <1>1, <1>4 DEF Starts, Forces
  <1>7. \A a : ~Has(<<>>, a)
    BY DEF Has
  <1>8. ModeTypes'
    BY <1>1, <1>2 DEF ModeTypes, FM!decided, FM!bounds
  <1>9. ASSUME ~foverlap, ~failed' PROVE MainState(new)'
    <2>1. MainState(c)
      BY <1>1, <1>2, <1>9 DEF FactoryInv, ModeFollows
    <2>2. CASE then = "launch"
      <3>1. FactoryIs("off", "STARTED")
        BY <2>1, <2>2 DEF MainState
      <3>2. FactoryIs("off", "STARTED")' /\ ~Has(todo, "factory")
        <4>1. more \in {<<>>, <<"resident">>} /\ more # <<"factory">>
          BY <2>2
        <4>2. ~Has(todo, "factory")
          BY <3>1, <4>1 DEF FactoryIs, Kills
        <4>3. QED
          BY <3>1, <4>2 DEF FactoryIs
      <3>3. QED
        BY <1>4, <1>7, <2>2, <3>2 DEF MainState
    <2>3. CASE then = "force"
      <3>1. IsSettled
        BY <2>1, <2>3 DEF MainState
      <3>2. IsSettled' /\ Has(todo, "factory") /\ todo # <<>>
        BY <1>7, <2>3, <3>1 DEF IsSettled, IsOff, IsOn, FactoryIs, Kills
      <3>3. QED
        BY <1>4, <2>3, <3>2 DEF MainState, IsSettled
    <2>4. QED
      BY <2>2, <2>3
  <1>10. ~failed' /\ app'["resident"] = "on" /\ sFactoryAppLaunchStatus' # "NOTLAUNCHED" =>
           Dooms(new) \/ (app["resident"] = "on" /\ sFactoryAppLaunchStatus # "NOTLAUNCHED" /\ ~Dooms(c))
    BY <1>1, <1>4, <1>7 DEF Dooms, Kills
  <1>11. CallStep(t, new)
    BY <1>1, <1>2, <1>3, <1>5, <1>6, <1>8, <1>9, <1>10 DEF CallStep, FM!bounds, Main
  <1>12. QED
    BY <1>1, <1>11, CallStepKeeps

LEMMA KillersKeep ==
  ASSUME FactoryConstants, FactoryInv, NEW t \in FactoryThreads,
         FM!FactoryKill(t) \/ FM!ResidentKill(t) \/ FM!toggleFactoryApp(t)
  PROVE  FactoryInv'
  <1> USE DEF PlaceState, Entering, IsSettled, IsOff, IsOn, FactoryIs, StartPlaces, ForcePlaces
  <1>1. ModeTypes
    BY DEF FactoryInv
  <1>2. {"check", "launchResidentApp", "toggleFactoryApp"} \subseteq FactoryPcs \ {"idle", "destroy", "destroyed"}
        /\ {"idle", "launchFactoryApp"} \subseteq FactoryPcs \ {"destroy", "destroyed"}
    BY DEF FactoryPcs
  <1>3. ASSUME FM!FactoryKill(t) PROVE FactoryInv'
    <2>1. fcall[t].pc = "check"
          /\ UNCHANGED <<app, FM!decided, sForceResidentAppLaunch, store, eggs, spawned, FM!bounds>>
      BY <1>3 DEF FM!FactoryKill
    <2>2. PICK bad \in Failures :
            IF FM!FactoryMayGo(t, bad)
            THEN /\ FM!killAllApps(t, IF fcall[t].nokill THEN <<>> ELSE <<"resident">>, "launch", FALSE)
                 /\ UNCHANGED sFactoryAppLaunchStatus
            ELSE FM!FactoryFails(t, "check") /\ FM!Fails(bad)
      BY <1>3 DEF FM!FactoryKill
    <2>3. CASE FM!FactoryMayGo(t, bad)
      <3>1. PICK more \in {<<>>, <<"resident">>} : more = IF fcall[t].nokill THEN <<>> ELSE <<"resident">>
        OBVIOUS
      <3>2. FM!killAllApps(t, more, "launch", FALSE) /\ UNCHANGED sFactoryAppLaunchStatus
        BY <2>2, <2>3, <3>1 DEF FM!killAllApps, FM!DestroyNext
      <3>3. PICK todo \in Seq(FM!Apps) : Kills(t, more, "launch", todo)
        BY <1>1, <3>2, KillMeans
      <3>4. UNCHANGED <<app, sFactoryAppLaunchStatus, FM!decided, sForceResidentAppLaunch, store, eggs, spawned,
                        FM!bounds>>
        BY <2>1, <3>2
      <3>5. QED
        BY <2>1, <3>3, <3>4, KillKeeps
    <2>4. CASE ~FM!FactoryMayGo(t, bad)
      <3>1. FM!FactoryFails(t, "check") /\ FM!Fails(bad)
        BY <2>2, <2>4
      <3>2. failed' \in BOOLEAN /\ (failed => failed')
        BY <1>1, <3>1, FailsMeans DEF FactoryConstants, ModeTypes
      <3>3. ModeTypes'
        BY <1>1, <2>1, <3>1, <3>2 DEF ModeTypes, FM!FactoryFails, FM!decided, FM!bounds
      <3>4. Move(t, "check", "idle")
        BY <1>1, <2>1, <3>1, <3>2, <3>3 DEF Move, FM!FactoryFails, FM!decided, FM!bounds
      <3>5. QED
        BY <1>2, <3>4, CallStepMove
    <2>5. QED
      BY <2>3, <2>4
  <1>4. ASSUME FM!ResidentKill(t) PROVE FactoryInv'
    <2>1. fcall[t].pc = "launchResidentApp"
          /\ UNCHANGED <<app, sFactoryAppLaunchStatus, FM!decided, store, eggs, spawned, FM!bounds>>
      BY <1>4 DEF FM!ResidentKill
    <2>2. PICK bad \in BOOLEAN :
            \/ FM!killAllApps(t, <<"factory">>, "force", bad) /\ UNCHANGED sForceResidentAppLaunch
            \/ FM!ResidentReturn(t, "launchResidentApp") /\ FM!Fails(bad)
      <3>1. PICK aging \in BOOLEAN, allow \in BOOLEAN :
              LET bad == aging # store.AgingState \/ allow # store.AllowExit
              IN  IF FM!Listed("factory") /\ ~aging /\ allow
                  THEN FM!killAllApps(t, <<"factory">>, "force", bad) /\ UNCHANGED sForceResidentAppLaunch
                  ELSE FM!ResidentReturn(t, "launchResidentApp") /\ FM!Fails(bad)
        BY <1>4 DEF FM!ResidentKill
      <3>2. PICK bad \in BOOLEAN : bad = (aging # store.AgingState \/ allow # store.AllowExit)
        OBVIOUS
      <3>3. QED
        BY <3>1, <3>2 DEF FM!killAllApps, FM!Fails, FM!DestroyNext
    <2>3. CASE FM!killAllApps(t, <<"factory">>, "force", bad) /\ UNCHANGED sForceResidentAppLaunch
      <3>1. PICK todo \in Seq(FM!Apps) : Kills(t, <<"factory">>, "force", todo)
        BY <1>1, <2>3, KillMeans
      <3>2. UNCHANGED <<app, sFactoryAppLaunchStatus, FM!decided, sForceResidentAppLaunch, store, eggs, spawned,
                        FM!bounds>>
        BY <2>1, <2>3
      <3>3. QED
        BY <2>1, <3>1, <3>2, KillKeeps
    <2>4. CASE FM!ResidentReturn(t, "launchResidentApp") /\ FM!Fails(bad)
      <3>1. failed' \in BOOLEAN /\ (failed => failed')
        BY <1>1, <2>4, FailsMeans DEF ModeTypes
      <3>2. /\ FM!Goto(t, "launchResidentApp", "idle") /\ sForceResidentAppLaunch' \in BOOLEAN
            /\ sForceResidentAppLaunch' => sForceResidentAppLaunch /\ ~fcall[t].toggled
        BY <2>4, Zenon DEF FM!ResidentReturn
      <3>3. ModeTypes'
        BY <1>1, <2>1, <3>1, <3>2 DEF ModeTypes, FM!decided, FM!bounds
      <3>4. Move(t, "launchResidentApp", "idle")
        BY <1>1, <2>1, <3>1, <3>2, <3>3 DEF Move, FM!decided, FM!bounds
      <3>5. QED
        BY <1>2, <3>4, CallStepMove
    <2>5. QED
      BY <2>2, <2>3, <2>4
  <1>5. ASSUME FM!toggleFactoryApp(t) PROVE FactoryInv'
    <2>1. /\ fcall[t].pc = "toggleFactoryApp"
          /\ UNCHANGED <<app, sFactoryAppLaunchStatus, FM!decided, store, eggs, spawned, FM!bounds, failed>>
      BY <1>5 DEF FM!toggleFactoryApp
    <2>2. CASE FM!Listed("factory")
      <3> DEFINE c == fcall[t]
      <3>1. /\ fcall' = [fcall EXCEPT ![t].pc = "launchResidentApp", ![t].toggled = TRUE]
            /\ sForceResidentAppLaunch' = TRUE
        BY <1>5, <2>2 DEF FM!toggleFactoryApp
      <3>2. /\ fcall \in [FactoryThreads -> FactoryCalls] /\ c \in FactoryCalls /\ CallShape(c) /\ c.todo = <<>>
            /\ c.then = "idle" /\ c # FM!Idle /\ Main(c)
        BY <2>1 DEF FactoryInv, CallTypes, CallShape, Destroys, FM!Idle, Main, Aside
      <3>3. PICK new \in FactoryCalls :
              /\ fcall' = [fcall EXCEPT ![t] = new] /\ new.pc = "launchResidentApp" /\ new.toggled = TRUE
              /\ new.todo = <<>> /\ new.then = "idle"
        <4>1. [c EXCEPT !.pc = "launchResidentApp", !.toggled = TRUE] \in FactoryCalls
          BY <3>2 DEF FactoryCalls, FactoryPcs
        <4>2. fcall' = [fcall EXCEPT ![t] = [c EXCEPT !.pc = "launchResidentApp", !.toggled = TRUE]]
          BY <3>1, <3>2
        <4>3. QED
          BY <3>2, <4>1, <4>2 DEF FactoryCalls
      <3>4. CallShape(new) /\ new # FM!Idle /\ Main(new) /\ Forces(new) /\ ~Starts(c) /\ ~Dooms(c)
        BY <2>1, <3>2, <3>3 DEF CallShape, Destroys, FM!Idle, Main, Aside, Forces, Starts, Dooms
      <3>5. ModeTypes'
        BY <1>1, <2>1, <3>1 DEF ModeTypes, FM!decided, FM!bounds
      <3>6. ASSUME ~foverlap, ~failed' PROVE MainState(new)'
        <4>1. IsSettled
          BY <2>1, <3>2, <3>6 DEF FactoryInv, ModeFollows, MainState
        <4>2. IsSettled'
          BY <2>1, <4>1
        <4>3. QED
          BY <3>3, <4>2 DEF MainState
      <3>7. CallStep(t, new)
        BY <2>1, <3>2, <3>3, <3>4, <3>5, <3>6 DEF CallStep, FM!bounds, Main
      <3>8. QED
        BY <3>2, <3>7, CallStepKeeps
    <2>3. CASE ~FM!Listed("factory")
      <3>1. FM!Goto(t, "toggleFactoryApp", "launchFactoryApp") /\ UNCHANGED sForceResidentAppLaunch
        BY <1>5, <2>3 DEF FM!toggleFactoryApp
      <3>2. ModeTypes'
        BY <1>1, <2>1, <3>1 DEF ModeTypes, FM!decided, FM!bounds
      <3>3. Move(t, "toggleFactoryApp", "launchFactoryApp")
        BY <1>1, <2>1, <3>1, <3>2 DEF Move, FM!decided, FM!bounds
      <3>4. QED
        BY <1>2, <3>3, CallStepMove
    <2>4. QED
      BY <2>2, <2>3
  <1>6. QED
    BY <1>3, <1>4, <1>5
-------------------------------------------------------------------------------
(* A call begins, and the steps that are not of a call. *)

Begins(t, new) ==
  /\ fcall' = [fcall EXCEPT ![t] = new] /\ ModeTypes'
  /\ UNCHANGED <<app, sFactoryAppLaunchStatus, sForceResidentAppLaunch, eggs, failed, exempt>>
  /\ store'.FactoryMode = store.FactoryMode /\ (foverlap => foverlap')
  /\ ~foverlap' /\ Main(new) => \A u \in FactoryThreads : ~Main(fcall[u])
  /\ spawned["destroyResident"] > 0 => spawned'["destroyResident"] > 0 \/ Dooms(new)

\* A call that has just begun.
Newborn(c) ==
  /\ c # FM!Idle /\ CallShape(c) /\ c.then = "idle" /\ c.pc # "idle"
  /\ c.pc \in Entering \/ (c.pc = "destroy" /\ c.todo \in {<<"factory">>, <<"resident">>})

LEMMA NewbornKeeps ==
  ASSUME FactoryInv, NEW t \in FactoryThreads, fcall[t] = FM!Idle, NEW new \in FactoryCalls, Newborn(new),
         Begins(t, new)
  PROVE  FactoryInv'
  <1>1. /\ fcall' \in [FactoryThreads -> FactoryCalls]
        /\ fcall'[t] = new /\ \A u \in FactoryThreads \ {t} : fcall'[u] = fcall[u]
    BY DEF Begins, FactoryInv, CallTypes
  <1>2. CallTypes' /\ ModeTypes'
    BY <1>1 DEF Begins, Newborn, FactoryInv, CallTypes
  <1>3. ~Starts(fcall[t]) /\ ~Forces(fcall[t]) /\ ~Main(fcall[t]) /\ ~Dooms(fcall[t])
    BY DEF Starts, Forces, Main, Dooms, FM!Idle
  <1>4. StartedAndForced'
    <2>1. ASSUME sFactoryAppLaunchStatus' = "STARTED" PROVE \E u \in FactoryThreads : Starts(fcall'[u])
      BY <1>1, <1>3, <2>1 DEF Begins, FactoryInv, StartedAndForced
    <2>2. ASSUME sForceResidentAppLaunch' PROVE \E u \in FactoryThreads : Forces(fcall'[u])
      BY <1>1, <1>3, <2>2 DEF Begins, FactoryInv, StartedAndForced
    <2>3. QED
      BY <2>1, <2>2 DEF StartedAndForced, Starts, Forces
  <1>5. ASSUME ~foverlap', Main(new) PROVE \A u \in FactoryThreads : ~Main(fcall[u])
    BY <1>5 DEF Begins
  <1>6. OneMain'
    <2> SUFFICES ASSUME ~foverlap', NEW v \in FactoryThreads, NEW u \in FactoryThreads,
                        Main(fcall'[v]), Main(fcall'[u])
                 PROVE  v = u
      BY <1>1 DEF OneMain, Main, Aside
    <2>1. CASE v = t \/ u = t
      BY <1>1, <1>5, <2>1
    <2>2. CASE v # t /\ u # t
      BY <1>1, <2>2 DEF FactoryInv, OneMain, Begins
    <2>3. QED
      BY <2>1, <2>2
  <1>7. UNCHANGED <<app, sFactoryAppLaunchStatus, eggs>> /\ store'.FactoryMode = store.FactoryMode
    BY DEF Begins
  <1>8. IsSettled' <=> IsSettled
    BY <1>7 DEF IsSettled, IsOff, IsOn, FactoryIs
  <1>9. ASSUME IsSettled, Main(new) PROVE MainState(new)'
    <2>1. IsSettled'
      BY <1>8, <1>9
    <2>2. CASE new.pc \in Entering
      BY <2>1, <2>2 DEF Newborn, MainState, Entering
    <2>3. CASE new.pc = "destroy"
      <3>1. new.todo = <<"factory">>
        BY <1>9, <2>3 DEF Main, Aside, Newborn, Entering
      <3>2. Has(new.todo, "factory")
        BY <3>1 DEF Has
      <3>3. QED
        BY <2>1, <2>3, <3>2 DEF MainState, Newborn, IsSettled
    <2>4. QED
      BY <2>2, <2>3 DEF Newborn
  <1>10. ModeFollows'
    <2> SUFFICES ASSUME ~foverlap', ~failed'
                 PROVE  /\ \A u \in FactoryThreads : Main(fcall[u])' => MainState(fcall[u])'
                        /\ (\A u \in FactoryThreads : ~Main(fcall[u])') => IsSettled'
      BY DEF ModeFollows
    <2>1. ~failed /\ ~foverlap
      BY DEF Begins
    <2>2. \A u \in FactoryThreads \ {t} :
            (Main(fcall[u])' <=> Main(fcall[u])) /\ (MainState(fcall[u])' <=> MainState(fcall[u]))
      BY <1>1, <1>7 DEF Main, Aside, MainState, IsSettled, IsOff, IsOn, FactoryIs
    <2>3. (Main(fcall[t])' <=> Main(new)) /\ (MainState(fcall[t])' <=> MainState(new)')
      BY <1>1 DEF Main, Aside, MainState
    <2>4. CASE Main(new)
      <3>1. \A u \in FactoryThreads : ~Main(fcall[u])
        BY <1>5, <2>4
      <3>2. IsSettled
        BY <2>1, <3>1 DEF FactoryInv, ModeFollows
      <3>3. QED
        BY <1>9, <2>2, <2>3, <2>4, <3>1, <3>2
    <2>5. CASE ~Main(new)
      BY <1>3, <1>8, <2>1, <2>2, <2>3, <2>5 DEF FactoryInv, ModeFollows
    <2>6. QED
      BY <2>4, <2>5
  <1>11. ResidentGoes'
    <2> SUFFICES ASSUME ~foverlap', ~failed', ~exempt', sFactoryModeBlockResidentApp, app'["resident"] = "on",
                        sFactoryAppLaunchStatus' # "NOTLAUNCHED"
                 PROVE  spawned'["destroyResident"] > 0 \/ \E u \in FactoryThreads : Dooms(fcall'[u])
      BY <1>1 DEF ResidentGoes, Dooms, Has
    <2>1. spawned["destroyResident"] > 0 \/ \E u \in FactoryThreads : Dooms(fcall[u])
      BY DEF FactoryInv, ResidentGoes, Begins
    <2>2. CASE spawned["destroyResident"] > 0
      BY <1>1, <2>2 DEF Begins
    <2>3. CASE \E u \in FactoryThreads : Dooms(fcall[u])
      BY <1>1, <1>3, <2>3
    <2>4. QED
      BY <2>1, <2>2, <2>3
  <1>12. QED
    BY <1>2, <1>4, <1>6, <1>10, <1>11 DEF FactoryInv

LEMMA NewbornFields ==
  ASSUME NEW c, c.then = "idle", c.toggled = FALSE,
         \/ c.pc \in Entering \ {"idle"} /\ c.todo = <<>>
         \/ c.pc = "destroy" /\ c.todo \in {<<"factory">>, <<"resident">>}
  PROVE  Newborn(c)
  <1>1. c.pc # "idle" /\ c # FM!Idle
    BY DEF FM!Idle
  <1>2. c.pc \in Entering => ~Destroys(c)
    BY DEF Entering, Destroys
  <1>3. <<"factory">> # <<>> /\ <<"resident">> # <<>>
    OBVIOUS
  <1>4. QED
    BY <1>1, <1>2, <1>3 DEF Newborn, CallShape, Destroys, Entering

LEMMA EntryMeans ==
  ASSUME NEW r \in FM!Entries \cup FM!Requests, sFactoryModeBlockResidentApp \in BOOLEAN
  PROVE  /\ FM!Entry(r) \in FactoryCalls /\ Newborn(FM!Entry(r))
         /\ \A startup \in BOOLEAN : /\ [FM!Entry(r) EXCEPT !.startup = startup] \in FactoryCalls
                                     /\ Newborn([FM!Entry(r) EXCEPT !.startup = startup])
         /\ r = "destroyResident" => ~Main(FM!Entry(r)) /\ Dooms(FM!Entry(r))
  <1> DEFINE e == FM!Entry(r)
  <1>1. r \in {"launchFactoryApp", "launchFactoryAppShortcut", "launchResidentApp", "toggleFactoryApp",
               "exitAgingMode", "deactivateresidentapp", "destroyFactory", "destroyResident", "bootFactory"}
    BY DEF FM!Entries, FM!Requests
  <1>2. <<"factory">> \in Seq(FM!Apps) /\ <<"resident">> \in Seq(FM!Apps) /\ <<>> \in Seq(FM!Apps)
    BY DEF FM!Apps
  <1>3. PICK pc \in FactoryPcs, nokill \in BOOLEAN, todo \in Seq(FM!Apps) :
          /\ e = [pc |-> pc, nokill |-> nokill, startup |-> FALSE, toggled |-> FALSE, todo |-> todo,
                  then |-> "idle"]
          /\ \/ pc \in Entering \ {"idle"} /\ todo = <<>> /\ r \notin {"destroyFactory", "destroyResident"}
             \/ pc = "destroy" /\ todo = <<"factory">> /\ r = "destroyFactory"
             \/ pc = "destroy" /\ todo = <<"resident">> /\ r = "destroyResident"
    <2>1. CASE r = "destroyFactory"
      <3>1. e = [pc |-> "destroy", nokill |-> FALSE, startup |-> FALSE, toggled |-> FALSE,
                 todo |-> <<"factory">>, then |-> "idle"]
        BY <2>1 DEF FM!Entry, FM!Idle
      <3>2. "destroy" \in FactoryPcs
        BY DEF FactoryPcs
      <3>3. QED
        BY <1>2, <2>1, <3>1, <3>2
    <2>2. CASE r = "destroyResident"
      <3>1. e = [pc |-> "destroy", nokill |-> FALSE, startup |-> FALSE, toggled |-> FALSE,
                 todo |-> <<"resident">>, then |-> "idle"]
        BY <2>2 DEF FM!Entry, FM!Idle
      <3>2. "destroy" \in FactoryPcs
        BY DEF FactoryPcs
      <3>3. QED
        BY <1>2, <2>2, <3>1, <3>2
    <2>3. CASE r = "bootFactory"
      <3>1. e = [pc |-> "launchFactoryApp", nokill |-> sFactoryModeBlockResidentApp, startup |-> FALSE,
                 toggled |-> FALSE, todo |-> <<>>, then |-> "idle"]
        BY <2>3 DEF FM!Entry, FM!Idle
      <3>2. "launchFactoryApp" \in FactoryPcs /\ "launchFactoryApp" \in Entering \ {"idle"}
        BY DEF FactoryPcs, Entering
      <3>3. QED
        BY <1>2, <2>3, <3>1, <3>2
    <2>4. CASE r \notin {"destroyFactory", "destroyResident", "bootFactory"}
      <3>1. e = [pc |-> r, nokill |-> FALSE, startup |-> FALSE, toggled |-> FALSE, todo |-> <<>>,
                 then |-> "idle"]
        BY <2>4 DEF FM!Entry, FM!Idle
      <3>2. r \in FactoryPcs /\ r \in Entering \ {"idle"}
        BY <1>1, <2>4 DEF FactoryPcs, Entering
      <3>3. QED
        BY <1>2, <2>4, <3>1, <3>2
    <2>5. QED
      BY <2>1, <2>2, <2>3, <2>4
  <1>4. e.pc = pc /\ e.todo = todo /\ e.then = "idle" /\ e.toggled = FALSE /\ e \in FactoryCalls
    BY <1>3 DEF FactoryCalls
  <1>5. Newborn(e)
    BY <1>3, <1>4, NewbornFields
  <1>6. ASSUME NEW startup \in BOOLEAN
        PROVE  [e EXCEPT !.startup = startup] \in FactoryCalls /\ Newborn([e EXCEPT !.startup = startup])
    <2> DEFINE n == [e EXCEPT !.startup = startup]
    <2>1. n.pc = pc /\ n.todo = todo /\ n.then = "idle" /\ n.toggled = FALSE /\ n \in FactoryCalls
      BY <1>4 DEF FactoryCalls
    <2>2. Newborn(n)
      BY <1>3, <2>1, NewbornFields
    <2>3. QED
      BY <2>1, <2>2
  <1>7. ASSUME r = "destroyResident" PROVE ~Main(e) /\ Dooms(e)
    <2>1. e.pc = "destroy" /\ e.todo = <<"resident">> /\ e.then = "idle"
      BY <1>3, <1>4, <1>7
    <2>2. Has(<<"resident">>, "resident")
      BY DEF Has
    <2>3. QED
      BY <2>1, <2>2 DEF Main, Aside, Dooms
  <1>8. QED
    BY <1>4, <1>5, <1>6, <1>7

LEMMA BeginnersKeep ==
  ASSUME FactoryConstants, FactoryInv, NEW t \in FactoryThreads,
         \/ FM!CallBegin(t) \/ FM!onEasterEgg(t) \/ \E r \in FM!Requests : FM!launchRequestThread(t, r)
  PROVE  FactoryInv'
  <1>1. ModeTypes /\ sFactoryModeBlockResidentApp \in BOOLEAN /\ MaxFactoryCalls \in Nat
    BY DEF FactoryInv, FactoryConstants
  <1>2. FM!Quiet => \A u \in FactoryThreads : ~Main(fcall[u])
    BY DEF FM!Quiet, Main
  <1>3. ASSUME FM!CallBegin(t) PROVE FactoryInv'
    <2>1. /\ fcall[t] = FM!Idle /\ fcalls' \in 0 .. MaxFactoryCalls
          /\ UNCHANGED <<app, FM!modes, store, eggs, spawned, activations, exempt, failed>>
      BY <1>1, <1>3 DEF FM!CallBegin, ModeTypes
    <2>2. foverlap' \in BOOLEAN /\ (foverlap => foverlap') /\ (~foverlap' => FM!Quiet)
      BY <1>3, Zenon DEF FM!CallBegin
    <2>3. PICK r \in FM!Entries, startup \in BOOLEAN :
            fcall' = [fcall EXCEPT ![t] = [FM!Entry(r) EXCEPT !.startup = startup]]
      BY <1>3 DEF FM!CallBegin
    <2>4. PICK new \in FactoryCalls : fcall' = [fcall EXCEPT ![t] = new] /\ Newborn(new)
      BY <1>1, <2>3, EntryMeans
    <2>5. ModeTypes'
      BY <1>1, <2>1, <2>2 DEF ModeTypes, FM!modes, FM!decided
    <2>6. Begins(t, new)
      BY <1>2, <2>1, <2>2, <2>4, <2>5 DEF Begins, FM!modes
    <2>7. QED
      BY <2>1, <2>4, <2>6, NewbornKeeps
  <1>4. ASSUME FM!onEasterEgg(t) PROVE FactoryInv'
    <2>1. /\ fcall[t] = FM!Idle /\ fcalls' \in 0 .. MaxFactoryCalls
          /\ UNCHANGED <<app, FM!modes, eggs, spawned, activations, exempt, failed>>
      BY <1>1, <1>4 DEF FM!onEasterEgg, ModeTypes
    <2>2. foverlap' \in BOOLEAN /\ (foverlap => foverlap') /\ (~foverlap' => FM!Quiet)
      BY <1>4, Zenon DEF FM!onEasterEgg
    <2>3. PICK r \in FM!Entries : fcall' = [fcall EXCEPT ![t] = FM!Entry(r)]
      BY <1>4 DEF FM!onEasterEgg
    <2>4. PICK new \in FactoryCalls : fcall' = [fcall EXCEPT ![t] = new] /\ Newborn(new)
      BY <1>1, <2>3, EntryMeans
    <2>5. PICK aging \in BOOLEAN : store' = [store EXCEPT !.AgingState = aging]
      BY <1>4 DEF FM!onEasterEgg
    <2>6. /\ store'.FactoryMode = store.FactoryMode
          /\ store' \in [AgingState : BOOLEAN, FactoryMode : BOOLEAN, AllowExit : BOOLEAN, ToFacFlag : BOOLEAN]
      BY <1>1, <2>5 DEF ModeTypes
    <2>7. ModeTypes'
      BY <1>1, <2>1, <2>2, <2>6 DEF ModeTypes, FM!modes, FM!decided
    <2>8. Begins(t, new)
      BY <1>2, <2>1, <2>2, <2>4, <2>6, <2>7 DEF Begins, FM!modes
    <2>9. QED
      BY <2>1, <2>4, <2>8, NewbornKeeps
  <1>5. ASSUME NEW r \in FM!Requests, FM!launchRequestThread(t, r) PROVE FactoryInv'
    <2>1. /\ fcall[t] = FM!Idle /\ spawned[r] > 0 /\ spawned' = [spawned EXCEPT ![r] = @ - 1]
          /\ fcall' = [fcall EXCEPT ![t] = FM!Entry(r)]
          /\ UNCHANGED <<app, FM!modes, store, eggs, fcalls, activations, exempt, failed>>
      BY <1>5 DEF FM!launchRequestThread
    <2>2. /\ foverlap' \in BOOLEAN /\ (foverlap => foverlap')
          /\ ~foverlap' => r # "bootFactory" \/ \A u \in FactoryThreads : fcall[u] = FM!Idle
      BY <1>5, Zenon DEF FM!launchRequestThread
    <2>3. PICK new \in FactoryCalls :
            fcall' = [fcall EXCEPT ![t] = new] /\ Newborn(new)
            /\ (r = "destroyResident" => ~Main(new) /\ Dooms(new))
      BY <1>1, <2>1, EntryMeans
    <2>4. /\ spawned' \in [FM!Requests -> Nat]
          /\ r # "destroyResident" => spawned'["destroyResident"] = spawned["destroyResident"]
      BY <1>1, <2>1 DEF ModeTypes, FM!Requests
    <2>5. r \in {"destroyResident", "bootFactory"}
      BY DEF FM!Requests
    <2>6. ModeTypes'
      BY <1>1, <2>1, <2>2, <2>4 DEF ModeTypes, FM!modes, FM!decided
    <2>7. ~foverlap' /\ Main(new) => \A u \in FactoryThreads : ~Main(fcall[u])
      BY <2>2, <2>3, <2>5 DEF Main
    <2>8. Begins(t, new)
      BY <2>1, <2>2, <2>3, <2>4, <2>5, <2>6, <2>7 DEF Begins, FM!modes
    <2>9. QED
      BY <2>1, <2>3, <2>8, NewbornKeeps
  <1>6. QED
    BY <1>3, <1>4, <1>5

-------------------------------------------------------------------------------
\* Steps that leave the calls alone.
Beside ==
  /\ ModeTypes' /\ UNCHANGED <<fcall, sFactoryAppLaunchStatus, sForceResidentAppLaunch, eggs, store, foverlap>>
  /\ (failed => failed') /\ (~failed' => app'["factory"] = app["factory"])
  /\ spawned["destroyResident"] > 0 => spawned'["destroyResident"] > 0
  /\ (exempt => exempt')
  /\ (/\ ~failed' /\ ~exempt' /\ sFactoryModeBlockResidentApp /\ app'["resident"] = "on"
      /\ sFactoryAppLaunchStatus # "NOTLAUNCHED")
       => app["resident"] = "on" \/ spawned'["destroyResident"] > 0

LEMMA BesideKeeps == ASSUME FactoryInv, Beside PROVE FactoryInv'
  <1>1. CallTypes' /\ StartedAndForced' /\ OneMain' /\ ModeTypes'
    BY DEF Beside, FactoryInv, CallTypes, StartedAndForced, OneMain
  <1>2. ModeFollows'
    <2> SUFFICES ASSUME ~foverlap, ~failed'
                 PROVE  /\ \A u \in FactoryThreads : Main(fcall[u])' => MainState(fcall[u])'
                        /\ (\A u \in FactoryThreads : ~Main(fcall[u])') => IsSettled'
      BY DEF ModeFollows, Beside
    <2>1. UNCHANGED <<fcall, sFactoryAppLaunchStatus, eggs, store>> /\ app'["factory"] = app["factory"]
      BY DEF Beside
    <2>2. \A u \in FactoryThreads :
            (Main(fcall[u])' <=> Main(fcall[u])) /\ (MainState(fcall[u])' <=> MainState(fcall[u]))
      BY <2>1 DEF Main, Aside, MainState, IsSettled, IsOff, IsOn, FactoryIs
    <2>3. IsSettled' <=> IsSettled
      BY <2>1 DEF IsSettled, IsOff, IsOn, FactoryIs
    <2>4. QED
      BY <2>2, <2>3 DEF FactoryInv, ModeFollows, Beside
  <1>3. ResidentGoes'
    <2>1. \A u \in FactoryThreads : Dooms(fcall[u])' <=> Dooms(fcall[u])
      BY DEF Beside, Dooms, Has
    <2>2. QED
      BY <2>1 DEF FactoryInv, ResidentGoes, Beside
  <1>4. QED
    BY <1>1, <1>2, <1>3 DEF FactoryInv

LEMMA BesideCallsKeeps ==
  ASSUME FactoryConstants, FactoryInv,
         \/ FM!HandleActivated \/ FM!ActivateOutside \/ \E a \in FM!Apps : FM!DeactivateOutside(a)
         \/ UNCHANGED factoryVars
  PROVE  FactoryInv'
  <1>1. ModeTypes /\ MaxActivations \in Nat /\ sFactoryModeBlockResidentApp \in BOOLEAN
    BY DEF FactoryInv, FactoryConstants
  <1>2. ASSUME FM!HandleActivated PROVE FactoryInv'
    <2>1. /\ app["resident"] = "starting" /\ app' = [app EXCEPT !["resident"] = "on"]
          /\ spawned' = IF FM!ignoreResidentAppLaunch THEN [spawned EXCEPT !["destroyResident"] = @ + 1]
                                                      ELSE spawned
          /\ UNCHANGED <<sFactoryAppLaunchStatus, sFactoryModeStart, sForceResidentAppLaunch, store, eggs,
                         fcall, fcalls, activations, foverlap, failed>>
      BY <1>2 DEF FM!HandleActivated
    <2>2. sResidentAppFirstActivated' \in BOOLEAN /\ exempt' \in BOOLEAN /\ (exempt => exempt')
      BY <1>2, Zenon DEF FM!HandleActivated
    <2>3. app' \in [FM!Apps -> {"off", "starting", "on"}] /\ app'["factory"] = app["factory"]
      BY <1>1, <2>1 DEF ModeTypes, FM!Apps
    <2>4. /\ spawned' \in [FM!Requests -> Nat]
          /\ spawned["destroyResident"] > 0 => spawned'["destroyResident"] > 0
          /\ FM!ignoreResidentAppLaunch => spawned'["destroyResident"] > 0
      BY <1>1, <2>1 DEF ModeTypes, FM!Requests
    <2>5. ASSUME ~exempt', sFactoryModeBlockResidentApp, sFactoryAppLaunchStatus # "NOTLAUNCHED"
          PROVE  FM!ignoreResidentAppLaunch
      <3>1. ~(sForceResidentAppLaunch \/ (~sResidentAppFirstActivated /\ ~sFactoryModeStart))
        BY <1>2, <2>5, Zenon DEF FM!HandleActivated
      <3>2. QED
        BY <2>5, <3>1 DEF FM!ignoreResidentAppLaunch
    <2>6. ModeTypes'
      BY <1>1, <2>1, <2>2, <2>3, <2>4 DEF ModeTypes
    <2>7. Beside
      BY <2>1, <2>2, <2>3, <2>4, <2>5, <2>6 DEF Beside
    <2>8. QED
      BY <2>7, BesideKeeps
  <1>3. ASSUME FM!ActivateOutside PROVE FactoryInv'
    <2>1. /\ activations' \in 0 .. MaxActivations /\ app' = [app EXCEPT !["resident"] = "starting"]
          /\ UNCHANGED <<FM!modes, store, eggs, spawned, fcall, fcalls, foverlap, exempt, failed>>
      BY <1>1, <1>3 DEF FM!ActivateOutside, FM!HandleInitialize, ModeTypes
    <2>2. /\ app' \in [FM!Apps -> {"off", "starting", "on"}] /\ app'["factory"] = app["factory"]
          /\ app'["resident"] = "starting"
      BY <1>1, <2>1 DEF ModeTypes, FM!Apps
    <2>3. ModeTypes'
      BY <1>1, <2>1, <2>2 DEF ModeTypes, FM!modes, FM!decided
    <2>4. Beside
      BY <2>1, <2>2, <2>3 DEF Beside, FM!modes
    <2>5. QED
      BY <2>4, BesideKeeps
  <1>4. ASSUME NEW a \in FM!Apps, FM!DeactivateOutside(a) PROVE FactoryInv'
    <2>1. failed' = TRUE
      BY <1>4, Zenon DEF FM!DeactivateOutside, FM!Fails
    <2>2. /\ app' = [app EXCEPT ![a] = "off"]
          /\ UNCHANGED <<FM!modes, store, eggs, spawned, fcall, FM!bounds>>
      BY <1>4 DEF FM!DeactivateOutside
    <2>3. app' \in [FM!Apps -> {"off", "starting", "on"}] /\ app'["factory"] # "starting"
      BY <1>1, <2>2 DEF ModeTypes, FM!Apps
    <2>4. ModeTypes'
      BY <1>1, <2>1, <2>2, <2>3 DEF ModeTypes, FM!modes, FM!decided, FM!bounds
    <2>5. Beside
      BY <2>1, <2>2, <2>4 DEF Beside, FM!modes, FM!bounds
    <2>6. QED
      BY <2>5, BesideKeeps
  <1>5. ASSUME UNCHANGED factoryVars PROVE FactoryInv'
    <2>1. ModeTypes'
      BY <1>1, <1>5 DEF ModeTypes, factoryVars
    <2>2. Beside
      BY <1>5, <2>1 DEF Beside, factoryVars
    <2>3. QED
      BY <2>2, BesideKeeps
  <1>6. QED
    BY <1>2, <1>3, <1>4, <1>5

\* For any number of threads, calls and activations, with or without failures, the status
\* STARTED and the forced launch of the resident application have a call that works on
\* them; and without overlapping calls and failures the factory and the resident
\* application do not end up side by side, and the status, the easter eggs and the mode
\* kept for the next boot agree.
THEOREM FactoryModesAreHeld ==
  ASSUME FactoryConstants
  PROVE  FlowsSpec => []FactoryModesHold
  <1>1. FlowsInit => FactoryInv
    BY FactoryInit DEF FlowsInit
  <1>2. FactoryInv /\ [FlowsNext]_flowVars => FactoryInv'
    <2> SUFFICES ASSUME FactoryInv, [FlowsNext]_flowVars PROVE FactoryInv'
      OBVIOUS
    <2>1. FM!Next \/ UNCHANGED factoryVars
      BY DEF FlowsNext, flowVars
    <2>2. CASE \E t \in FactoryThreads :
                 \/ FM!CallBegin(t) \/ FM!onEasterEgg(t) \/ \E r \in FM!Requests : FM!launchRequestThread(t, r)
      BY <2>2, BeginnersKeep
    <2>3. CASE \E t \in FactoryThreads : FM!DestroyDeactivate(t) \/ FM!DestroyDone(t)
      BY <2>3, DestroyKeeps
    <2>4. CASE \E t \in FactoryThreads :
                 \/ FM!FactoryCheck(t) \/ FM!FactoryStarted(t) \/ FM!FactoryLaunch(t) \/ FM!FactoryLaunched(t)
                 \/ FM!FactoryDone(t) \/ FM!launchFactoryAppShortcut(t)
      BY <2>4, FactoryMoves
    <2>5. CASE \E t \in FactoryThreads :
                 \/ FM!ResidentForce(t) \/ FM!ResidentActivate(t) \/ FM!ResidentDone(t)
                 \/ FM!exitAgingMode(t) \/ FM!deactivateresidentapp(t)
      BY <2>5, ResidentMoves
    <2>6. CASE \E t \in FactoryThreads : FM!FactoryKill(t) \/ FM!ResidentKill(t) \/ FM!toggleFactoryApp(t)
      BY <2>6, KillersKeep
    <2>7. CASE \/ FM!HandleActivated \/ FM!ActivateOutside \/ \E a \in FM!Apps : FM!DeactivateOutside(a)
               \/ UNCHANGED factoryVars
      BY <2>7, BesideCallsKeeps
    <2>8. QED
      BY <2>1, <2>2, <2>3, <2>4, <2>5, <2>6, <2>7 DEF FM!Next, FM!Request
  <1>3. FactoryInv => FactoryModesHold
    BY ModesHold
  <1>4. QED
    BY <1>1, <1>2, <1>3, PTL DEF FlowsSpec
===============================================================================
