-------------------------------- MODULE NativeJS --------------------------------
(***************************************************************************)
(* NativeJSImplementation: a render thread that makes the renderer, runs   *)
(* it and drops it, and the calls that look at mNativeJSRenderer from      *)
(* other threads.  The renderer is external: run() returns after           *)
(* terminate(), also when that came first.                                 *)
(***************************************************************************)
EXTENDS Naturals

CONSTANTS
  Applications,
  MaxJsCalls   \* bound on the calls

VARIABLES
  js,          \* the plugin: "none", "active", "join" or "done"
  render,      \* the render thread: "none", "starting", "made", "running", "returned", "ended"
  terminated,  \* terminate() was called
  created, running,  \* applications in the renderer
  gPendingIdOptionsRequest, gPendingUrl,  \* what calls left for a renderer that was not there
  joined,      \* Deinitialize found the renderer
  jsCalls

applications == <<created, running>>
pending == <<gPendingIdOptionsRequest, gPendingUrl>>
vars == <<js, render, terminated, applications, pending, joined, jsCalls>>

\* mNativeJSRenderer is set.
mNativeJSRenderer == render \in {"made", "running", "returned"}

TypeOK ==
  /\ js \in {"none", "active", "join", "done"}
  /\ render \in {"none", "starting", "made", "running", "returned", "ended"}
  /\ terminated \in BOOLEAN /\ joined \in BOOLEAN /\ jsCalls \in 0 .. MaxJsCalls
  /\ created \subseteq Applications /\ running \subseteq created
  /\ gPendingIdOptionsRequest \in BOOLEAN /\ gPendingUrl \subseteq Applications
  /\ js = "none" <=> render = "none"
  /\ js = "join" => joined

Init ==
  /\ js = "none" /\ render = "none" /\ terminated = FALSE
  /\ created = {} /\ running = {} /\ gPendingIdOptionsRequest = FALSE /\ gPendingUrl = {}
  /\ joined = FALSE /\ jsCalls = 0

Initialize ==
  /\ js = "none" /\ js' = "active" /\ render' = "starting"
  /\ UNCHANGED <<terminated, applications, pending, joined, jsCalls>>

\* The render thread: the renderer is made, run until it is terminated, and dropped.
MakeRenderer ==
  /\ render = "starting" /\ render' = "made"
  /\ UNCHANGED <<js, terminated, applications, pending, joined, jsCalls>>

Run ==
  /\ \/ render = "made" /\ render' = "running"
     \/ render = "running" /\ terminated /\ render' = "returned"
  /\ UNCHANGED <<js, terminated, applications, pending, joined, jsCalls>>

Reset ==
  /\ render = "returned" /\ render' = "ended" /\ created' = {} /\ running' = {}
  /\ UNCHANGED <<js, terminated, pending, joined, jsCalls>>

Call == js = "active" /\ jsCalls < MaxJsCalls /\ jsCalls' = jsCalls + 1

\* The renderer is told if it is there; otherwise the options, or the url, are
\* kept, which nothing looks at again.
CreateApplication(a) ==
  /\ Call /\ UNCHANGED <<js, render, terminated, running, gPendingUrl, joined>>
  /\ created' = IF mNativeJSRenderer THEN created \cup {a} ELSE created
  /\ gPendingIdOptionsRequest' = (gPendingIdOptionsRequest \/ ~mNativeJSRenderer)

RunApplication(a) ==
  /\ Call /\ UNCHANGED <<js, render, terminated, created, gPendingIdOptionsRequest, joined>>
  /\ running' = IF mNativeJSRenderer THEN running \cup ({a} \cap created) ELSE running
  /\ gPendingUrl' = IF mNativeJSRenderer THEN gPendingUrl ELSE {a}

TerminateApplication(a) ==
  /\ Call /\ UNCHANGED <<js, render, terminated, pending, joined>>
  /\ created' = IF mNativeJSRenderer THEN created \ {a} ELSE created
  /\ running' = IF mNativeJSRenderer THEN running \ {a} ELSE running

\* Mutant of Deinitialize: the thread is joined without being told to end.
DeinitializeQuietly ==
  /\ js = "active"
  /\ js' = IF mNativeJSRenderer THEN "join" ELSE "done"
  /\ joined' = mNativeJSRenderer /\ UNCHANGED terminated
  /\ UNCHANGED <<render, applications, pending, jsCalls>>

\* Deinitialize terminates the renderer and joins, if there is a renderer; a
\* thread that has not made it yet is left to run.
Deinitialize ==
  /\ js = "active"
  /\ js' = IF mNativeJSRenderer THEN "join" ELSE "done"
  /\ joined' = mNativeJSRenderer /\ terminated' = mNativeJSRenderer
  /\ UNCHANGED <<render, applications, pending, jsCalls>>

Joined ==
  /\ js = "join" /\ render = "ended" /\ js' = "done"
  /\ UNCHANGED <<render, terminated, applications, pending, joined, jsCalls>>

Next ==
  \/ Initialize \/ MakeRenderer \/ Run \/ Reset \/ Deinitialize \/ Joined
  \/ \E a \in Applications : CreateApplication(a) \/ RunApplication(a) \/ TerminateApplication(a)

Spec == Init /\ [][Next]_vars

------------------------------------------------------------------------------
\* A Deinitialize that finds the renderer returns, whether run() had begun or not,
\* with the render thread ended and no application left in it.
RenderThreadEnds == joined ~> (js = "done" /\ render = "ended" /\ running = {})
================================================================================
