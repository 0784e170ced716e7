----------------------------- MODULE MCWebBridge -----------------------------
(* A small instance of WebBridge for TLC. *)
EXTENDS WebBridge

CONSTANTS c1, c2

\* Both channels use the id 1.
Made == {<<c1, 1>>, <<c2, 1>>}

Methods == {<<1, "m">>, <<2, "exists">>}

\* One request for every result of Destination.
Calls ==
  [callsign : {"own"}, version : {1, NoVersion}, method : {"m", "register", "unregister", "exists"}]
    \cup {[callsign |-> "other", version |-> 1, method |-> "m"],
          [callsign |-> "own", version |-> 3, method |-> "m"]}
==============================================================================
