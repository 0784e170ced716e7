------------------------------ MODULE FrameRequests ------------------------------
(***************************************************************************)
(* What RDKShell's methods leave for the next frame of the shell thread.   *)
(*                                                                         *)
(* Things that need the graphics context (a resolution, a full-screen      *)
(* image, the watermark, the splash logo, a screenshot) are left as flags  *)
(* with their values; hiding them is done at once by the calling thread.   *)
(* A section under gRdkShellMutex is one step, the part of a frame that    *)
(* looks at the flags included (ShellRequests has the rest).  The          *)
(* compositor is external: it shows and hides what it is told.  A value is *)
(* the number of the call that gave it.                                    *)
(***************************************************************************)
EXTENDS Naturals

CONSTANTS
  Framerates, \* the frame rates a caller may ask for
  MaxScreenCalls \* bound on the calls

VARIABLES
  pending,   \* the request flags, each with its value: 0 if none
  needsScreenshot, gCurrentFramerate,
  shown,     \* what the compositor shows, and since which call
  picture,   \* the last screenshot: since which call it shows each item
  thread,    \* the shell thread: in its "sleep", "ready" for a frame, or "crashed"
  calls,     \* calls so far
  last,      \* history: the last call about each item
  overtaken, \* history: items hidden while a request to show them was pending
  wanted     \* history: what a screenshot was asked to show at least

vars == <<pending, needsScreenshot, gCurrentFramerate, shown, picture, thread, calls, last,
          overtaken, wanted>>

Items == {"resolution", "image", "watermark", "splash"}
Nothing == [i \in Items |-> [on |-> FALSE, at |-> 0]]

TypeOK ==
  /\ {pending, wanted, picture} \subseteq [Items -> 0 .. calls]
  /\ {shown, last} \subseteq [Items -> [on : BOOLEAN, at : 0 .. calls]]
  /\ needsScreenshot \in BOOLEAN /\ thread \in {"sleep", "ready", "crashed"}
  /\ gCurrentFramerate \in Framerates /\ overtaken \subseteq Items
  /\ calls \in 0 .. MaxScreenCalls

Init ==
  /\ pending = [i \in Items |-> 0] /\ needsScreenshot = FALSE
  /\ gCurrentFramerate \in Framerates \ {0} /\ thread = "sleep"
  /\ shown = Nothing /\ last = Nothing /\ overtaken = {}
  /\ picture = [i \in Items |-> 0] /\ wanted = [i \in Items |-> 0] /\ calls = 0

Called == thread # "crashed" /\ calls < MaxScreenCalls /\ calls' = calls + 1

\* Leave the item's flag and its value, over one that is pending.
Request(i) ==
  /\ Called
  /\ pending' = [pending EXCEPT ![i] = calls']
  /\ last' = [last EXCEPT ![i] = [on |-> TRUE, at |-> calls']]
  /\ overtaken' = overtaken \ {i}
  /\ UNCHANGED <<needsScreenshot, gCurrentFramerate, shown, picture, thread, wanted>>

\* Have the compositor hide the item, now.  The flag stays.
Hide(i) ==
  /\ Called
  /\ shown' = [shown EXCEPT ![i] = [on |-> FALSE, at |-> calls']]
  /\ last' = [last EXCEPT ![i] = shown'[i]]
  /\ overtaken' = IF pending[i] # 0 THEN overtaken \cup {i} ELSE overtaken \ {i}
  /\ UNCHANGED <<pending, needsScreenshot, gCurrentFramerate, picture, thread, wanted>>

setScreenResolution == Request("resolution")
showFullScreenImage == Request("image")
hideFullScreenImage == Hide("image")
showWatermark(enable) == IF enable THEN Request("watermark") ELSE Hide("watermark")
showSplashLogo == Request("splash")
hideSplashLogo == Hide("splash")

getScreenshot ==
  /\ Called
  /\ needsScreenshot' = TRUE
  /\ wanted' = [i \in Items |-> IF pending[i] # 0 THEN pending[i] ELSE shown[i].at]
  /\ UNCHANGED <<pending, gCurrentFramerate, shown, picture, thread, last, overtaken>>

setGraphicsFrameRate(framerate) ==
  /\ Called
  /\ gCurrentFramerate' = framerate
  /\ UNCHANGED <<pending, needsScreenshot, shown, picture, thread, last, overtaken, wanted>>

\* What is shown once the requests have been passed on.
Applied == [i \in Items |-> IF pending[i] # 0 THEN [on |-> TRUE, at |-> pending[i]] ELSE shown[i]]

\* Mutant of Frame: the screenshot is taken before the requests are passed on.
FrameShootsFirst ==
  /\ thread = "ready" /\ thread' = "sleep"
  /\ shown' = Applied
  /\ pending' = [i \in Items |-> 0]
  /\ picture' = IF needsScreenshot THEN [i \in Items |-> shown[i].at] ELSE picture
  /\ needsScreenshot' = FALSE
  /\ UNCHANGED <<gCurrentFramerate, last, overtaken, wanted, calls>>

\* A frame: pass the requests on, draw, take the screenshot and announce it.
Frame ==
  /\ thread = "ready" /\ thread' = "sleep"
  /\ shown' = Applied
  /\ pending' = [i \in Items |-> 0]
  /\ picture' = IF needsScreenshot THEN [i \in Items |-> shown'[i].at] ELSE picture
  /\ needsScreenshot' = FALSE
  /\ UNCHANGED <<gCurrentFramerate, last, overtaken, wanted, calls>>

\* Before a frame and without the mutex, the thread computes how long it may last:
\* 1000 divided by the rate.  Nobody checks that the rate is not zero, and what a
\* division by zero does depends on the processor.
FrameTime ==
  /\ thread = "sleep"
  /\ thread' \in IF gCurrentFramerate = 0 THEN {"ready", "crashed"} ELSE {"ready"}
  /\ UNCHANGED <<pending, needsScreenshot, gCurrentFramerate, shown, picture, last, overtaken, wanted, calls>>

Next ==
  \/ setScreenResolution \/ showFullScreenImage \/ hideFullScreenImage
  \/ \E enable \in BOOLEAN : showWatermark(enable)
  \/ showSplashLogo \/ hideSplashLogo \/ getScreenshot
  \/ \E framerate \in Framerates : setGraphicsFrameRate(framerate)
  \/ FrameTime \/ Frame

Spec == Init /\ [][Next]_vars

------------------------------------------------------------------------------
\* Once the frame is over, the screen shows what the last call about each item asked
\* for, however shows and hides were mixed; excepted are items that were hidden
\* while a request to show them was pending, which come up nevertheless.
ShownAsAsked ==
  \A i \in Items \ overtaken : pending[i] = 0 => shown[i] = last[i]

\* A screenshot shows everything that was asked for before it.
ScreenshotIsRecent ==
  ~needsScreenshot => \A i \in Items : picture[i] >= wanted[i]

\* The screen shows what was asked for last, and a screenshot nothing older than its
\* request, although requests to show something wait for a frame and hiding does not
\* (the exception is named with ShownAsAsked).  The variables have their types.
ScreenAsAsked == TypeOK /\ ShownAsAsked /\ ScreenshotIsRecent
================================================================================
