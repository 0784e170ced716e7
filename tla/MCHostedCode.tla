------------------------------ MODULE MCHostedCode ------------------------------
(***************************************************************************)
(* The plugins that host other code, in one small instance: the            *)
(* RustAdapter with its code in another process (RemotePlugin) and in its  *)
(* own (LocalPlugin), and NativeJS with its render thread.  A behaviour is *)
(* one of a single component, the one that has the focus of the check.     *)
(***************************************************************************)
EXTENDS RemotePlugin

CONSTANTS Plugins, RustThreads, MaxSent, Applications, MaxJsCalls

VARIABLES
  focus, \* the component
  phase, ctx_next_id, ctx, ctx_array, end, size, search, sent, arrived, missed, raced,
  js, render, terminated, created, jsRunning, gPendingIdOptionsRequest, gPendingUrl, joined, jsCalls

LP == INSTANCE LocalPlugin
NJ == INSTANCE NativeJS WITH running <- jsRunning

localVars == <<phase, ctx_next_id, ctx, ctx_array, end, size, search, sent, arrived, missed, raced>>
jsVars == <<js, render, terminated, created, jsRunning, gPendingIdOptionsRequest, gPendingUrl, joined, jsCalls>>
hostedVars == <<focus, vars, localVars, jsVars>>

HostedInit == focus \in {"remote", "local", "js"} /\ Init /\ LP!Init /\ NJ!Init

HostedNext ==
  \/ focus = "remote" /\ Next /\ UNCHANGED <<focus, localVars, jsVars>>
  \/ focus = "local" /\ LP!Next /\ UNCHANGED <<focus, vars, jsVars>>
  \/ focus = "js" /\ NJ!Next /\ UNCHANGED <<focus, vars, localVars>>

\* Threads run, and a host that is told to exit does; a renderer that is
\* terminated leaves run().
HostedFairness ==
  /\ WF_vars(focus = "remote" /\ Deinitialize) /\ WF_vars(focus = "remote" /\ Reader)
  /\ WF_vars(focus = "remote" /\ HostObeys)
  /\ \A s \in Senders : WF_vars(focus = "remote" /\ Send(s))
  /\ WF_jsVars(focus = "js" /\ (NJ!MakeRenderer \/ NJ!Run \/ NJ!Reset))
  /\ WF_jsVars(focus = "js" /\ NJ!Joined)

HostedSpec == HostedInit /\ [][HostedNext]_hostedVars /\ HostedFairness

------------------------------------------------------------------------------
\* Messages to the host arrive whole and its responses are counted.  The variables
\* of RemotePlugin have their types.
StreamsSound == TypeOK /\ WholeMessages /\ ResponsesCounted

\* What Rust code sends reaches its own plugin and no other, and it finds it unless
\* the table was grown at the same time.  The variables of LocalPlugin and of
\* NativeJS have their types.
MessagesGoHome == LP!TypeOK /\ NJ!TypeOK /\ LP!MessagesGoHome /\ LP!FoundUnlessRaced

\* A Deinitialize of NativeJS that finds the renderer returns with the render
\* thread ended.
RenderThreadEnds == NJ!RenderThreadEnds
================================================================================
