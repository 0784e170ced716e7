---------------------------- MODULE RemotePlugin ----------------------------
(***************************************************************************)
(* The out-of-process half of the RustAdapter plugin (src/RustAdapter):    *)
(* RemotePlugin forwards invocations and channel events over a TCP         *)
(* connection to a host process, which it starts itself when AutoExec is   *)
(* configured, and SocketServer owns the sockets and the thread that       *)
(* accepts the host's connection and reads its responses.                  *)
(*                                                                         *)
(* Nothing is locked.  Invoke, Attach and Detach come on any thread of the *)
(* framework, write a message in up to three calls of send, and read       *)
(* m_clientSocket again for each.  A message is a number, its pieces are   *)
(* numbered, and a connection's stream is the sequence of the pieces.      *)
(***************************************************************************)
EXTENDS Integers, Sequences, FiniteSets

CONSTANTS
  Senders,         \* threads of the framework that call Invoke, Attach, Detach
  MaxMessages,     \* bound: messages sent to the host
  MaxConnections,  \* bound: connections the host makes
  MaxReplies       \* bound: responses of the host

ASSUME RemoteConstants ==
  /\ MaxMessages \in Nat /\ MaxConnections \in Nat /\ MaxReplies \in Nat

VARIABLES
  plugin,        \* "none", "active", "waiting" in waitpid, "closing", "done"
  serverSocket,  \* m_serverSocket > 0
  clientSocket,  \* m_clientSocket: 0 or a connection
  running,       \* m_running
  reader,        \* the thread of SocketServer::Run
  sender,        \* the piece each sender is about to write
  messages,      \* messages sent so far
  remotePid,     \* m_remotePid > 0: Initialize has launched the host
  host,          \* the host process: "none", "up", "exited"
  link,          \* state of each connection
  stream,        \* pieces written to each connection, in order
  incoming,      \* pieces of responses on each connection that are not read yet
  replies,       \* responses begun by the host
  half,          \* the connection on which it has written half of one, or 0
  submitted,     \* responses given to the framework
  torn           \* two threads wrote at once, or the socket changed under one

socketVars == <<serverSocket, clientSocket, running>>
hostVars   == <<remotePid, host, link, incoming, replies, half>>
vars == <<plugin, socketVars, reader, sender, messages, hostVars, stream, submitted, torn>>

Connections == 1..MaxConnections

\* A piece: the k-th of the n pieces of message msg, begun on connection on.
Exit == 0
Piece(msg, k, n) == [msg |-> msg, k |-> k, n |-> n]
NotSending == [msg |-> 0, k |-> 0, n |-> 0, on |-> 0]
MidMessage(s) == sender[s].k > 1

\* send() on m_clientSocket succeeds: the connection is there, even if the host
\* has closed its end, which a single send does not notice.
Writable == clientSocket # 0 /\ link[clientSocket] \in {"open", "left"}

Write(piece) == stream' = [stream EXCEPT ![clientSocket] = Append(@, piece)]

Init ==
  /\ plugin = "none" /\ serverSocket = FALSE /\ clientSocket = 0 /\ running = FALSE
  /\ reader = "none" /\ sender = [s \in Senders |-> NotSending] /\ messages = 0
  /\ remotePid = FALSE /\ host = "none"
  /\ link = [c \in Connections |-> "none"]
  /\ stream = [c \in Connections |-> <<>>] /\ incoming = [c \in Connections |-> <<>>]
  /\ replies = 0 /\ half = 0 /\ submitted = 0 /\ torn = FALSE

-----------------------------------------------------------------------------
(* The framework's threads *)

\* SocketServer::Open listens; its failures end Initialize with nothing done.
Open == serverSocket' = TRUE
RunThread == reader' = "start"

\* The host is launched if AutoExec says so, and comes by itself otherwise.
LaunchRemoteProcess(autoExec) == remotePid' = autoExec /\ host' = "up"

Initialize(autoExec) ==
  /\ plugin = "none"
  /\ plugin' = "active" /\ Open /\ RunThread /\ LaunchRemoteProcess(autoExec)
  /\ UNCHANGED <<clientSocket, running, sender, messages, link, stream, incoming,
                 replies, half, submitted, torn>>

\* SendInvoke and SendAttach return at once without a client.  An attach is one
\* piece, an invocation two or three: its token may be empty.
SendBegin(s, n) ==
  /\ plugin = "active" /\ sender[s] = NotSending /\ messages < MaxMessages
  /\ messages' = messages + 1
  /\ sender' = IF serverSocket /\ clientSocket # 0
               THEN [sender EXCEPT ![s] = [msg |-> messages', k |-> 1, n |-> n, on |-> 0]]
               ELSE sender
  /\ UNCHANGED <<plugin, socketVars, reader, hostVars, stream, submitted, torn>>

\* The pieces in the wrong order.
SendPieceSwapped(s) ==
  /\ sender[s] # NotSending /\ Writable
  /\ LET p == sender[s]
     IN  /\ Write(Piece(p.msg, IF p.k = 1 THEN 1 ELSE p.n + 2 - p.k, p.n))
         /\ sender' = [sender EXCEPT ![s] =
              IF p.k = p.n THEN NotSending ELSE [p EXCEPT !.k = @ + 1, !.on = clientSocket]]
         /\ torn' = (torn \/ (\E o \in Senders \ {s} : MidMessage(o))
                          \/ (MidMessage(s) /\ p.on # clientSocket))
  /\ UNCHANGED <<plugin, socketVars, reader, messages, hostVars, submitted>>

\* One send on the socket that m_clientSocket holds now.
SendPiece(s) ==
  /\ sender[s] # NotSending /\ Writable
  /\ LET p == sender[s]
     IN  /\ Write(Piece(p.msg, p.k, p.n))
         /\ sender' = [sender EXCEPT ![s] =
              IF p.k = p.n THEN NotSending ELSE [p EXCEPT !.k = @ + 1, !.on = clientSocket]]
         /\ torn' = (torn \/ (\E o \in Senders \ {s} : MidMessage(o))
                          \/ (MidMessage(s) /\ p.on # clientSocket))
  /\ UNCHANGED <<plugin, socketVars, reader, messages, hostVars, submitted>>

\* The send fails and so does the call, whose result nobody looks at.
SendFails(s) ==
  /\ sender[s] # NotSending /\ (IF clientSocket = 0 THEN TRUE ELSE link[clientSocket] # "open")
  /\ sender' = [sender EXCEPT ![s] = NotSending]
  /\ torn' = (torn \/ MidMessage(s))
  /\ UNCHANGED <<plugin, socketVars, reader, messages, hostVars, stream, submitted>>

\* SendExit: nothing without a client, else the message, and m_running falls.
DeinitializeExit ==
  /\ plugin = "active"
  /\ plugin' = "waiting"
  /\ IF serverSocket /\ Writable
     THEN /\ Write(Piece(Exit, 1, 1)) /\ running' = FALSE
          /\ torn' = (torn \/ \E s \in Senders : MidMessage(s))
     ELSE UNCHANGED <<stream, running, torn>>
  /\ UNCHANGED <<serverSocket, clientSocket, reader, sender, messages, hostVars, submitted>>

\* waitpid whether there is a child or not.
DeinitializeWaitAlways ==
  /\ plugin = "waiting" /\ host = "exited"
  /\ plugin' = "closing"
  /\ UNCHANGED <<socketVars, reader, sender, messages, hostVars, stream, submitted, torn>>

\* waitpid, for a host that Initialize has launched.
DeinitializeWait ==
  /\ plugin = "waiting" /\ (remotePid => host = "exited")
  /\ plugin' = "closing"
  /\ UNCHANGED <<socketVars, reader, sender, messages, hostVars, stream, submitted, torn>>

\* Only the client's socket is closed.
DeinitializeCloseClient ==
  /\ plugin = "closing"
  /\ plugin' = "done"
  /\ link' = [c \in Connections |-> IF c = clientSocket THEN "closed" ELSE link[c]]
  /\ UNCHANGED <<socketVars, reader, sender, messages, remotePid, host, incoming, replies,
                 half, stream, submitted, torn>>

\* Close: nobody waits for the reader, and a read that it is blocked in keeps
\* the connection.
DeinitializeClose ==
  /\ plugin = "closing"
  /\ plugin' = "done" /\ running' = FALSE /\ serverSocket' = FALSE
  /\ link' = [c \in Connections |->
       IF (c = clientSocket /\ reader # "json") \/ link[c] = "pending" THEN "closed" ELSE link[c]]
  /\ UNCHANGED <<clientSocket, reader, sender, messages, remotePid, host, incoming, replies,
                 half, stream, submitted, torn>>

-----------------------------------------------------------------------------
(* SocketServer::Run, on its own thread *)

ReaderGoes(to) ==
  /\ reader' = to
  /\ UNCHANGED <<plugin, serverSocket, running, sender, messages, stream, torn>>

RunCheck ==
  /\ reader = "start"
  /\ ReaderGoes(IF ~serverSocket \/ running THEN "ended" ELSE "set")
  /\ UNCHANGED <<clientSocket, hostVars, submitted>>

RunSet ==
  /\ reader = "set"
  /\ running' = TRUE /\ reader' = "loop"
  /\ UNCHANGED <<plugin, serverSocket, clientSocket, sender, messages, hostVars, stream,
                 submitted, torn>>

\* The loop's condition is m_running alone.  After Close m_serverSocket is 0, and
\* select watches descriptor 0.
RunLoop ==
  /\ reader = "loop"
  /\ ReaderGoes(IF running THEN "select" ELSE "ended")
  /\ UNCHANGED <<clientSocket, hostVars, submitted>>

PendingLinks == {c \in Connections : link[c] = "pending"}

\* select returns after ten seconds at the latest, or with something on descriptor
\* 0, of which no connection is accepted, or with an error for sockets that Close
\* has closed, when m_running is false.
SelectTimesOut ==
  /\ reader = "select"
  /\ ReaderGoes(IF running THEN "loop" ELSE "ended")
  /\ UNCHANGED <<clientSocket, hostVars, submitted>>

\* A new connection replaces the one there is.
SelectAccepts(c) ==
  /\ reader = "select" /\ running /\ serverSocket /\ c \in PendingLinks
  /\ link' = [link EXCEPT ![c] = "open"] /\ clientSocket' = c
  /\ ReaderGoes("loop")
  /\ UNCHANGED <<remotePid, host, incoming, replies, half, submitted>>

\* Something to read, or the end of the stream.
SelectReads ==
  /\ reader = "select" /\ running /\ clientSocket # 0 /\ PendingLinks = {}
  /\ incoming[clientSocket] # <<>> \/ link[clientSocket] = "left"
  /\ ReaderGoes("header")
  /\ UNCHANGED <<clientSocket, hostVars, submitted>>

\* ReadExact at its start: Close has been here.
ReadRefused ==
  /\ reader = "header" /\ ~serverSocket
  /\ ReaderGoes("loop")
  /\ UNCHANGED <<clientSocket, hostVars, submitted>>

\* onRead: the response goes to its channel.
onRead(complete) == submitted' = IF complete THEN submitted + 1 ELSE submitted

\* read() returns a header or the text that belongs to it.  A response is
\* submitted to the framework when it is complete.
ReadPiece ==
  /\ reader \in {"header", "json"} /\ incoming[clientSocket] # <<>>
  /\ LET piece == Head(incoming[clientSocket])
         complete == piece.k = piece.n
     IN  /\ ReaderGoes(IF complete \/ ~serverSocket THEN "loop" ELSE "json")
         /\ onRead(complete)
  /\ incoming' = [incoming EXCEPT ![clientSocket] = Tail(@)]
  /\ UNCHANGED <<clientSocket, remotePid, host, link, replies, half>>

\* read() returns 0: CLIENT_DISCONNECT.
ReadEnd ==
  /\ reader \in {"header", "json"}
  /\ incoming[clientSocket] = <<>> /\ link[clientSocket] = "left"
  /\ link' = [link EXCEPT ![clientSocket] = "closed"] /\ clientSocket' = 0
  /\ ReaderGoes("loop")
  /\ UNCHANGED <<remotePid, host, incoming, replies, half, submitted>>

-----------------------------------------------------------------------------
(* The host process: external, known by the protocol only. *)

Linked == {c \in Connections : link[c] \in {"pending", "open"}}

HostConnects(c) ==
  /\ host = "up" /\ serverSocket /\ link[c] = "none" /\ \A b \in 1..(c - 1) : link[b] # "none"
  /\ link' = [link EXCEPT ![c] = "pending"]
  /\ UNCHANGED <<plugin, socketVars, reader, sender, messages, remotePid, host, incoming, replies,
                 half, stream, submitted, torn>>

\* A response: a header, and text if the header says so.
HostReplies(c, n) ==
  /\ host = "up" /\ c \in Linked /\ half = 0 /\ replies < MaxReplies
  /\ replies' = replies + 1 /\ half' = IF n = 2 THEN c ELSE 0
  /\ incoming' = [incoming EXCEPT ![c] = Append(@, [k |-> 1, n |-> n])]
  /\ UNCHANGED <<plugin, socketVars, reader, sender, messages, remotePid, host, link, stream,
                 submitted, torn>>

HostContinues(c) ==
  /\ host = "up" /\ c \in Linked /\ half = c
  /\ half' = 0
  /\ incoming' = [incoming EXCEPT ![c] = Append(@, [k |-> 2, n |-> 2])]
  /\ UNCHANGED <<plugin, socketVars, reader, sender, messages, remotePid, host, link, replies, stream,
                 submitted, torn>>

\* The end of the process closes its connections.
HostEnds ==
  /\ host' = "exited"
  /\ link' = [c \in Connections |-> IF c \in Linked THEN "left" ELSE link[c]]
  /\ UNCHANGED <<plugin, socketVars, reader, sender, messages, incoming, replies, half, stream,
                 remotePid, submitted, torn>>

\* The stream is whole messages, the last one perhaps cut short.
Whole(pieces) ==
  \A i \in DOMAIN pieces :
    IF i = 1 THEN pieces[1].k = 1
    ELSE LET last == pieces[i - 1]
         IN  IF last.k = last.n THEN pieces[i].k = 1
             ELSE pieces[i] = [last EXCEPT !.k = @ + 1]

ToldToExit(c) ==
  \E i \in DOMAIN stream[c] : stream[c][i].msg = Exit /\ Whole(SubSeq(stream[c], 1, i))

HostObeys == host = "up" /\ (\E c \in Linked : ToldToExit(c)) /\ HostEnds
HostCrashes == host = "up" /\ HostEnds

-----------------------------------------------------------------------------
Reader ==
  \/ RunCheck \/ RunSet \/ RunLoop
  \/ SelectTimesOut \/ (\E c \in Connections : SelectAccepts(c)) \/ SelectReads
  \/ ReadRefused \/ ReadPiece \/ ReadEnd

Deinitialize == DeinitializeWait \/ DeinitializeClose
Send(s) == SendPiece(s) \/ SendFails(s)

Next ==
  \/ (\E autoExec \in BOOLEAN : Initialize(autoExec)) \/ DeinitializeExit \/ Deinitialize
  \/ \E s \in Senders : Send(s) \/ \E n \in 1..3 : SendBegin(s, n)
  \/ Reader
  \/ \E c \in Connections :
       HostConnects(c) \/ HostContinues(c) \/ \E n \in 1..2 : HostReplies(c, n)
  \/ HostObeys \/ HostCrashes

Spec == Init /\ [][Next]_vars

\* Threads run, and a host that is told to exit does; whether it connects at
\* all, finishes a response or crashes is open.
FairSpec ==
  /\ Spec /\ WF_vars(Deinitialize) /\ WF_vars(Reader) /\ WF_vars(HostObeys)
  /\ \A s \in Senders : WF_vars(Send(s))

-----------------------------------------------------------------------------
(* Properties *)

TypeOK ==
  /\ plugin \in {"none", "active", "waiting", "closing", "done"}
  /\ serverSocket = (plugin \in {"active", "waiting", "closing"})
  /\ clientSocket \in 0..MaxConnections /\ running \in BOOLEAN
  /\ reader \in {"none", "start", "set", "loop", "select", "header", "json", "ended"}
  /\ sender \in [Senders -> [msg : 0..MaxMessages, k : 0..3, n : 0..3, on : 0..MaxConnections]]
  /\ messages \in 0..MaxMessages /\ host \in {"none", "up", "exited"} /\ remotePid \in BOOLEAN
  /\ link \in [Connections -> {"none", "pending", "open", "left", "closed"}]
  /\ stream \in [Connections -> Seq([msg : 0..MaxMessages, k : 1..3, n : 1..3])]
  /\ incoming \in [Connections -> Seq([k : 1..2, n : 1..2])]
  /\ replies \in 0..MaxReplies /\ half \in 0..MaxConnections /\ submitted \in 0..replies /\ torn \in BOOLEAN

\* What the host reads on a connection is whole messages one after the other,
\* with nothing missing or in between, as long as one thread sends at a time,
\* no send fails in the middle of a message and the connection is not replaced
\* then: without the lengths it expects, the host cannot find the next message.
WholeMessages == torn \/ \A c \in Connections : Whole(stream[c])

\* No response is submitted twice or made up: what was given to the framework,
\* and what waits to be read, is what the host has written.
ResponsesCounted ==
  LET Header(p) == p[2] \in DOMAIN incoming[p[1]] /\ incoming[p[1]][p[2]].k = 1
  IN  submitted + Cardinality({p \in Connections \X (1..(2 * MaxReplies)) : Header(p)}) =< replies

\* Deinitialize returns if the host was not launched by it, is gone, or has
\* been told to exit on a connection it reads.
DeinitializeReturns ==
  /\ plugin = "waiting" /\ (~remotePid \/ host = "exited" \/ \E c \in Linked : ToldToExit(c))
    ~> plugin = "done"

\* Deinitialize always returns.
DeinitializeCompletes == plugin = "waiting" ~> plugin = "done"

ReaderGone == reader = "ended" \/ (host = "up" /\ reader = "json")

\* The reader thread, which nobody joins, ends after Close if it was in its loop
\* before, unless the host holds it in the middle of a response, and if it looks
\* at the socket after.  A thread that Close finds between its look and its
\* m_running = true does not: it runs for ever, with nothing to wait for.
ReaderEnds ==
  /\ (\/ plugin = "closing" /\ reader \notin {"start", "set"}
      \/ plugin = "done" /\ reader = "start") ~> ReaderGone
  /\ (plugin = "done" /\ reader = "set") ~> [](reader \in {"loop", "select"})
==============================================================================
