----------------------------- MODULE MCWebSockets -----------------------------
(***************************************************************************)
(* The two ways to use a WSEndpoint, in one small instance: requests with  *)
(* JSON-RPC (WebSockets) and plain commands (CommandInterface).  An        *)
(* endpoint is made for one of them, so a behaviour is one of either.      *)
(***************************************************************************)
EXTENDS WebSockets

CONSTANTS Callers, MaxCommands

VARIABLES
  interface, \* which of the two the endpoint is made for
  command, commands, unanswered, lastResponse_, early, together, results

CI == INSTANCE CommandInterface

commandVars == <<command, commands, unanswered, lastResponse_, early, together, results>>
endpointVars == <<interface, vars, commandVars>>

EndpointInit == interface \in {"JsonRpc", "Command"} /\ Init /\ CI!Init

EndpointNext ==
  \/ interface = "JsonRpc" /\ Next /\ UNCHANGED <<interface, commandVars>>
  \/ interface = "Command" /\ CI!Next /\ UNCHANGED <<interface, vars>>

\* The event loop is scheduled, a handshake and a close end, timers fire, and a
\* ping is answered or times out.
EndpointFairness ==
  /\ WF_vars(interface = "JsonRpc" /\ (onOpen \/ onFail \/ (connection = "closing" /\ onClose)))
  /\ WF_vars(interface = "JsonRpc" /\ ping)
  /\ WF_vars(interface = "JsonRpc" /\ (onPong \/ onPongTimeout))
  /\ WF_vars(interface = "JsonRpc" /\ (LoopEnd \/ stopEventLoop))

EndpointSpec == EndpointInit /\ [][EndpointNext]_endpointVars /\ EndpointFairness

------------------------------------------------------------------------------
\* Commands sent one at a time return their own answers while none has given up on
\* one.  The variables of CommandInterface have their types.
OwnResponse == CI!TypeOK /\ CI!OwnResponse
================================================================================
