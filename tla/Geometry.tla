-------------------------------- MODULE Geometry --------------------------------
(***************************************************************************)
(* The methods of RDKShell that change the geometry of a client: bounds,   *)
(* scale and virtual resolution.  A caller names some of the values; the   *)
(* method reads the others, lets go of gRdkShellMutex, and writes all of   *)
(* them in a second section.                                               *)
(*                                                                         *)
(* The compositor is external: it stores what it is given, and its clients *)
(* come and go (ShellRequests).  A value is the number of the call that    *)
(* gave it.                                                                *)
(***************************************************************************)
EXTENDS Integers

CONSTANTS
  Callers,    \* threads that call the methods
  Displays,   \* clients of the compositor
  MaxGeometryCalls \* bound on the calls

VARIABLES
  live,      \* the compositor's clients
  geometry,  \* their values
  change,    \* what each caller is changing
  made,      \* calls so far
  given,     \* history: who gave each value of a client last
  contended  \* history: values that two calls, or a call and a new client, changed at once

vars == <<live, geometry, change, made, given, contended>>

Kinds == {"bounds", "scale", "virtual"}
Halves == {1, 2}  \* x, w and y, h; sx and sy; width and height
Unread == [h \in Halves |-> -1]  \* the defaults, if there is no such client
Fresh == [k \in Kinds |-> [h \in Halves |-> 0]]
NoChange == [pc |-> "idle"]

TypeOK ==
  /\ live \subseteq Displays /\ contended \subseteq Displays \X Kinds
  /\ geometry \in [Displays -> [Kinds -> [Halves -> -1 .. made]]]
  /\ given \in [Displays -> [Kinds -> [Halves -> 0 .. made]]]
  /\ \A t \in Callers : change[t] = NoChange \/ change[t].pc \in Kinds
  /\ made \in 0 .. MaxGeometryCalls

Init ==
  /\ live = {} /\ geometry = [c \in Displays |-> Fresh] /\ given = [c \in Displays |-> Fresh]
  /\ change = [t \in Callers |-> NoChange] /\ contended = {} /\ made = 0

\* A call is between its two sections.
UnderWay(c, k) == \E t \in Callers : change[t].pc = k /\ change[t].client = c

\* Mutant of Get: the compositor is not asked.
GetDefaults(c, k) == Unread

\* The values a method goes on with: what the compositor has, or the defaults.
Get(c, k) == IF c \in live THEN geometry[c][k] ELSE Unread

\* The first half of a method that changes values of kind k: look, and replace the
\* ones that were given.
Look(t, c, k, halves) ==
  /\ change[t] = NoChange /\ made < MaxGeometryCalls /\ made' = made + 1
  /\ change' = [change EXCEPT ![t] =
       [pc |-> k, client |-> c, halves |-> halves, seen |-> Get(c, k),
        values |-> [h \in Halves |-> IF h \in halves THEN made' ELSE Get(c, k)[h]]]]
  /\ contended' = IF UnderWay(c, k) THEN contended \cup {<<c, k>>} ELSE contended
  /\ UNCHANGED <<live, geometry, given>>

\* Bounds and virtual resolution take any of their values, a scale at least one.
setBoundsWrapper(t, c) == \E halves \in SUBSET Halves : Look(t, c, "bounds", halves)
setScaleWrapper(t, c) == \E halves \in SUBSET Halves \ {{}} : Look(t, c, "scale", halves)
setVirtualResolutionWrapper(t, c) == \E halves \in SUBSET Halves : Look(t, c, "virtual", halves)

\* The second half: the compositor is given all of the values, if it has the client.
Write(t, k) ==
  LET w == change[t] IN
    /\ w.pc = k
    /\ IF w.client \in live
       THEN /\ geometry' = [geometry EXCEPT ![w.client][k] = w.values]
            /\ given' = [given EXCEPT ![w.client][k] = [h \in Halves |-> IF h \in w.halves THEN w.values[h] ELSE @[h]]]
       ELSE UNCHANGED <<geometry, given>>
    /\ change' = [change EXCEPT ![t] = NoChange]
    /\ UNCHANGED <<live, made, contended>>

\* setBounds first sets bounds of a single pixel, to force the compositor to resize,
\* in the same section.
setBounds(t) == Write(t, "bounds")
setVirtualResolution(t) == Write(t, "virtual")

\* setScale: a value that cannot be parsed ends the call.
setScale(t) ==
  \/ Write(t, "scale")
  \/ /\ change[t].pc = "scale"
     /\ change' = [change EXCEPT ![t] = NoChange]
     /\ UNCHANGED <<live, geometry, given, contended, made>>

\* A client comes, with values of its own, or goes (ShellRequests).
ClientComes(c) ==
  /\ c \notin live /\ live' = live \cup {c}
  /\ geometry' = [geometry EXCEPT ![c] = Fresh] /\ given' = [given EXCEPT ![c] = Fresh]
  /\ contended' = {p \in contended : p[1] # c} \cup {<<c, k>> : k \in {l \in Kinds : UnderWay(c, l)}}
  /\ UNCHANGED <<change, made>>

ClientGoes(c) ==
  /\ c \in live /\ live' = live \ {c}
  /\ UNCHANGED <<geometry, change, given, contended, made>>

Next ==
  \/ \E t \in Callers :
       \/ \E c \in Displays : setBoundsWrapper(t, c) \/ setScaleWrapper(t, c) \/ setVirtualResolutionWrapper(t, c)
       \/ setBounds(t) \/ setScale(t) \/ setVirtualResolution(t)
  \/ \E c \in Displays : ClientComes(c) \/ ClientGoes(c)

Spec == Init /\ [][Next]_vars

------------------------------------------------------------------------------
\* A value of a client is the one that was last given for it: a method that names
\* one value keeps the others.  Excepted are values of which two calls were under
\* way at once, the second of which may undo the first, and clients that came while
\* a call for their name was under way, which get values of another.
GeometryAsGiven ==
  \A c \in live, k \in Kinds : <<c, k>> \notin contended => geometry[c][k] = given[c][k]
================================================================================
