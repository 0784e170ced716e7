---------------------------- MODULE CommandInterface ----------------------------
(***************************************************************************)
(* CommandInterface, the way to use a WSEndpoint without JSON-RPC: a       *)
(* command is sent, and the caller waits five seconds for onMessage to say *)
(* that some message has come, and takes the last one.  Commands are       *)
(* numbered, and a message is the number of the command it answers.        *)
(***************************************************************************)
EXTENDS Naturals

CONSTANTS
  Callers,     \* threads that call sendCommand
  MaxCommands  \* bound on the commands

VARIABLES
  command,     \* each caller's step, and its command
  commands,    \* commands sent so far
  unanswered,  \* commands the peer has got and not answered
  lastResponse_,
  early,       \* some wait ended before its answer had come
  together,    \* two calls were in progress at a time
  results      \* pairs of a command and the response it returned with, of calls
               \* that were alone and before any early one

vars == <<command, commands, unanswered, lastResponse_, early, together, results>>

Idle == [pc |-> "idle", id |-> 0]

TypeOK ==
  /\ command \in [Callers -> [pc : {"idle", "sent", "wait", "notified"}, id : 0 .. MaxCommands]]
  /\ commands \in 0 .. MaxCommands /\ unanswered \subseteq 1 .. commands
  /\ lastResponse_ \in 0 .. commands /\ early \in BOOLEAN /\ together \in BOOLEAN
  /\ \A t \in Callers : command[t].pc = "idle" <=> command[t].id = 0

Init ==
  /\ command = [t \in Callers |-> Idle] /\ commands = 0 /\ unanswered = {}
  /\ lastResponse_ = 0 /\ early = FALSE /\ together = FALSE /\ results = {}

\* send puts the command on the wire; if it fails, sendCommand returns false.
sendCommand(t) ==
  /\ command[t] = Idle /\ commands < MaxCommands /\ commands' = commands + 1
  /\ command' = [command EXCEPT ![t] = [pc |-> "sent", id |-> commands + 1]]
  /\ unanswered' = unanswered \cup {commands + 1}
  /\ together' = (together \/ (\E u \in Callers : command[u] # Idle))
  /\ UNCHANGED <<lastResponse_, early, results>>

\* responseMutex_ is taken and given up again by wait_for; what came before is
\* not waited for again.
Wait(t) ==
  /\ command[t].pc = "sent" /\ command' = [command EXCEPT ![t].pc = "wait"]
  /\ UNCHANGED <<commands, unanswered, lastResponse_, early, together, results>>

\* Wake one of the callers that wait, if there is one.
notify_one ==
  LET waiting == {t \in Callers : command[t].pc = "wait"}
  IN  IF waiting = {} THEN UNCHANGED command
      ELSE \E t \in waiting : command' = [command EXCEPT ![t].pc = "notified"]

\* Mutant of onMessage: a message nobody waits for yet is not kept.
onMessageUnheard(c) ==
  /\ c \in unanswered /\ unanswered' = unanswered \ {c}
  /\ lastResponse_' = IF \E t \in Callers : command[t].pc = "wait" THEN c ELSE lastResponse_
  /\ notify_one
  /\ UNCHANGED <<commands, early, together, results>>

\* The peer answers a command, at any time and in any order.
onMessage(c) ==
  /\ c \in unanswered /\ unanswered' = unanswered \ {c}
  /\ lastResponse_' = c /\ notify_one
  /\ UNCHANGED <<commands, early, together, results>>

\* wait_for is over, by a notification, by its time, or for no reason.
Return(t) ==
  /\ command[t].pc \in {"wait", "notified"} /\ command' = [command EXCEPT ![t] = Idle]
  /\ early' = (early \/ command[t].id \in unanswered)
  /\ results' = IF early' \/ together THEN results
                ELSE results \cup {<<command[t].id, lastResponse_>>}
  /\ UNCHANGED <<commands, unanswered, lastResponse_, together>>

Next ==
  \/ \E t \in Callers : sendCommand(t) \/ Wait(t) \/ Return(t)
  \/ \E c \in 1 .. MaxCommands : onMessage(c)

Spec == Init /\ [][Next]_vars

------------------------------------------------------------------------------
\* As long as calls come one at a time and none has given up on its answer, each
\* returns its own: an answer that comes before the wait begins is not lost.
OwnResponse == \A r \in results : r[1] = r[2]
================================================================================
