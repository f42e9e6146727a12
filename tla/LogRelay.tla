------------------------------- MODULE LogRelay -------------------------------
(***************************************************************************)
(* The log relay: a PC asks the LogWebSockServer for a TV's log, the TV    *)
(* announces itself to the LogSocketServer and sends lines, which go to    *)
(* the PC.  The two servers are BaseServers and share three static maps.   *)
(*                                                                         *)
(* One action is one handler, or one call of processMsg, of either server. *)
(* A write is counted in units, numbered per socket in the order they are  *)
(* handed over.                                                            *)
(***************************************************************************)
EXTENDS Integers, Sequences, FiniteSetsExt

CONSTANTS
  TVs,      \* ids of the TVs that send logs
  PCs,      \* the PCs
  Spelled,  \* the TVs whose id strlen takes for four bytes: no byte of it is zero
  Asks,     \* the TV each PC asks for
  Fds,      \* the descriptors the process may hold for these two servers
  Cap,      \* units a socket's send buffer holds
  MaxTold   \* bound: units handed over per socket

NoPeer == 0
NoFd   == -1

ASSUME LogRelayAssumption ==
  /\ TVs \union PCs \subseteq Nat \ {NoPeer} /\ TVs \intersect PCs = {}
  /\ Spelled \subseteq TVs /\ Asks \in [PCs -> TVs]
  /\ Fds \subseteq Nat
  /\ Cap \in Nat \ {0} /\ MaxTold \in Nat

VARIABLES
  peer,      \* the descriptor table: who is at the other end of a descriptor
  dead,      \* open descriptors on which a write fails
  polled,    \* descriptors registered with their server's epoll instance
  asked,     \* m_pcconn_map: the PC socket registered for a TV
  attached,  \* m_tvconn_map: the PC socket in the ConnectInfo of a TV socket
  buffered,  \* m_message_map: the sockets that have a MessageBuffer
  pending,   \* what is in that buffer
  room,      \* units the send buffer of a socket has room for
  wrote,     \* what the kernel took
  told,      \* how many units were handed over for a socket whose link was alive
  stuck      \* a thread waits for a mutex it holds

link   == <<peer, dead, polled>>
maps   == <<asked, attached>>
output == <<buffered, pending, room, wrote, told>>
vars   == <<link, maps, output, stuck>>

TypeOK ==
  /\ peer \in [Fds -> TVs \union PCs \union {NoPeer}]
  /\ dead \subseteq Fds /\ polled \subseteq Fds /\ buffered \subseteq Fds
  /\ asked \in [TVs -> Fds \union {NoFd}] /\ attached \in [Fds -> Fds \union {NoFd}]
  /\ pending \in [Fds -> Seq(1 .. MaxTold)] /\ wrote \in [Fds -> Seq(1 .. MaxTold)]
  /\ \A fd \in Fds : pending[fd] # <<>> => fd \in buffered
  /\ room \in [Fds -> 0 .. Cap] /\ told \in [Fds -> 0 .. MaxTold]
  /\ stuck \in BOOLEAN

First(s, n) == SubSeq(s, 1, n)
Drop(s, n)  == SubSeq(s, n + 1, Len(s))

Live(fd, devices) == ~stuck /\ fd \in polled /\ peer[fd] \in devices

-----------------------------------------------------------------------------
(* The maps.  Each of these calls takes the mutex of the server that makes   *)
(* it; ConnectInfo is told by the PC socket it holds.                        *)

GetPCConnByTVId(t)      == asked[t]
InsertPCConn(t, fd)     == asked' = [asked EXCEPT ![t] = fd]
GetConnInfoByTVSock(fd) == attached[fd]
InsertTVConn(fd, pc)    == attached' = [attached EXCEPT ![fd] = pc]

\* Called by a thread that has the mutex already.
RemovePCConnBySock == stuck' = TRUE

-----------------------------------------------------------------------------
(* BaseServer::writeMsg.                                                     *)

\* The next k units for fd.
Units(fd, k) == [i \in 1 .. k |-> told[fd] + i]

IsMessageBufferExist(fd) == fd \in buffered

InsertDataBuffer(fd, units) == pending' = [pending EXCEPT ![fd] = @ \o units]

InsertMessageBuffer(fd, units) ==
  /\ buffered' = buffered \union {fd}
  /\ InsertDataBuffer(fd, units)

\* A link that fails is looked up among the TV sockets.  If it were one, removePCConnBySock would
\* lock the mutex disconnectByTVSockfd holds.
DisconnectByTVSockfd(fd) ==
  /\ IF GetConnInfoByTVSock(fd) # NoFd THEN RemovePCConnBySock ELSE UNCHANGED stuck
  /\ UNCHANGED output

\* write, and the rest of a short write to the buffer.
WriteNow(fd, units) ==
  LET n == Min({room[fd], Len(units)})
  IN  /\ wrote' = [wrote EXCEPT ![fd] = @ \o First(units, n)]
      /\ room' = [room EXCEPT ![fd] = @ - n]
      /\ IF n < Len(units) THEN InsertMessageBuffer(fd, Drop(units, n))
         ELSE UNCHANGED <<buffered, pending>>

\* Mutant: a socket with a buffer is written all the same.
WriteMsgAtOnce(fd, k) ==
  /\ told[fd] + k <= MaxTold
  /\ IF fd \in dead THEN DisconnectByTVSockfd(fd)
     ELSE /\ WriteNow(fd, Units(fd, k))
          /\ told' = [told EXCEPT ![fd] = @ + k]
          /\ UNCHANGED stuck

WriteMsg(fd, k) ==
  /\ told[fd] + k <= MaxTold
  /\ IF IsMessageBufferExist(fd)
     THEN /\ InsertMessageBuffer(fd, Units(fd, k))
          /\ told' = [told EXCEPT ![fd] = @ + k]
          /\ UNCHANGED <<room, wrote, stuck>>
     ELSE IF fd \in dead THEN DisconnectByTVSockfd(fd)
     ELSE /\ WriteNow(fd, Units(fd, k))
          /\ told' = [told EXCEPT ![fd] = @ + k]
          /\ UNCHANGED stuck

\* The units of a log line in its frame: a header and the line.
PackageMsgForWebsocket == 2

WriteMsgToWebSocket(fd) == WriteMsg(fd, PackageMsgForWebsocket)

-----------------------------------------------------------------------------
(* The clients and the network.                                              *)

FreeFds == {fd \in Fds : peer[fd] = NoPeer}

Accept(d) ==
  /\ ~stuck /\ FreeFds # {}
  /\ LET fd == Min(FreeFds)
     IN  peer' = [peer EXCEPT ![fd] = d] /\ polled' = polled \union {fd}
  /\ UNCHANGED <<dead, maps, output, stuck>>

LinkDies(fd) ==
  /\ peer[fd] # NoPeer /\ fd \notin dead
  /\ dead' = dead \union {fd}
  /\ UNCHANGED <<peer, polled, maps, output, stuck>>

\* The client takes a unit from its socket.
ClientReads(fd) ==
  /\ peer[fd] # NoPeer /\ fd \notin dead /\ room[fd] < Cap
  /\ room' = [room EXCEPT ![fd] = @ + 1]
  /\ UNCHANGED <<link, maps, buffered, pending, wrote, told, stuck>>

\* Mutant: disconnect closes the socket, and leaves the maps as they are.
DisconnectCloses(fd) ==
  /\ Live(fd, TVs \union PCs) /\ fd \in dead
  /\ polled' = polled \ {fd} /\ dead' = dead \ {fd}
  /\ peer' = [peer EXCEPT ![fd] = NoPeer]
  /\ UNCHANGED <<maps, output, stuck>>

\* A read error takes the socket out of epoll; disconnect does nothing for either server, so the
\* socket stays open and the maps keep its number.  End of file changes nothing at all.
Disconnect(fd) ==
  /\ Live(fd, TVs \union PCs) /\ fd \in dead
  /\ polled' = polled \ {fd}
  /\ UNCHANGED <<peer, dead, maps, output, stuck>>

-----------------------------------------------------------------------------
(* LogWebSockServer.                                                         *)

\* The answer is a write of one unit; if it fails, this server stops polling the socket.
Handshake(fd) ==
  /\ Live(fd, PCs)
  /\ WriteMsg(fd, 1)
  /\ polled' = IF fd \in dead \ buffered THEN polled \ {fd} ELSE polled
  /\ UNCHANGED <<peer, dead, maps>>

\* insertPCConn: the last PC that asks for a TV is the one registered.  A PC asks in one frame, read
\* whole and alone.  do_parseMsg does nothing with a frame that has reserved bits, or closes; what it
\* makes of one that is cut, or longer than its buffer, is left out.
AskForLog(fd) ==
  /\ Live(fd, PCs)
  /\ Asks[peer[fd]] \in Spelled
  /\ InsertPCConn(Asks[peer[fd]], fd)
  /\ UNCHANGED <<link, attached, output, stuck>>

-----------------------------------------------------------------------------
(* LogSocketServer.                                                          *)

\* The id line attaches the TV to the PC that has asked by now, if any.  Any read with an empty line
\* in it is taken for the id line: log lines behind the id go nowhere, and a read that has more than
\* the id before its empty line changes nothing.  One with more than 20 bytes there would overrun id,
\* and is left out, as is a log line that has an empty line after four bytes.
Announce(fd) ==
  /\ Live(fd, TVs)
  /\ peer[fd] \in Spelled
  /\ GetPCConnByTVId(peer[fd]) # NoFd
  /\ InsertTVConn(fd, GetPCConnByTVId(peer[fd]))
  /\ UNCHANGED <<link, asked, output, stuck>>

\* Any other line goes to that PC in one frame of two units, or nowhere.
Line(fd) ==
  /\ Live(fd, TVs) /\ GetConnInfoByTVSock(fd) # NoFd
  /\ WriteMsgToWebSocket(GetConnInfoByTVSock(fd))
  /\ UNCHANGED <<link, maps>>

-----------------------------------------------------------------------------
(* BaseServer::processMsg, run by both servers after every epoll_wait.       *)

\* Mutant: a buffer is written only when all of it fits.
WritableWhole(fd) == IF Len(pending[fd]) <= room[fd] THEN Len(pending[fd]) ELSE 0

Writable(fd) == IF fd \in dead THEN 0 ELSE Min({room[fd], Len(pending[fd])})

IsDataBufferEmpty(fd) == pending[fd] = <<>>

\* An empty buffer is removed; so is one whose write fails, with all it holds.
Removed == {fd \in buffered : IsDataBufferEmpty(fd) \/ fd \in dead}

\* Buffers that were written whole leave the queue; the first of the others keeps its rest.
Unwritten(fd) == Drop(pending[fd], Writable(fd))

ProcessMsg ==
  /\ ~stuck /\ buffered # {}
  /\ buffered' = buffered \ Removed
  /\ pending' = [fd \in Fds |-> IF fd \in Removed THEN <<>> ELSE Unwritten(fd)]
  /\ wrote' = [fd \in Fds |-> wrote[fd] \o First(pending[fd], Writable(fd))]
  /\ room' = [fd \in Fds |-> room[fd] - Writable(fd)]
  /\ UNCHANGED <<told, link, maps, stuck>>

-----------------------------------------------------------------------------
Init ==
  /\ peer = [fd \in Fds |-> NoPeer] /\ dead = {} /\ polled = {}
  /\ asked = [t \in TVs |-> NoFd] /\ attached = [fd \in Fds |-> NoFd]
  /\ buffered = {} /\ pending = [fd \in Fds |-> <<>>] /\ wrote = [fd \in Fds |-> <<>>]
  /\ room = [fd \in Fds |-> Cap] /\ told = [fd \in Fds |-> 0]
  /\ stuck = FALSE

Next ==
  \/ \E d \in TVs \union PCs : Accept(d)
  \/ \E fd \in Fds : LinkDies(fd) \/ ClientReads(fd) \/ Disconnect(fd)
  \/ \E fd \in Fds : Handshake(fd) \/ AskForLog(fd) \/ Announce(fd) \/ Line(fd)
  \/ ProcessMsg

\* epoll_wait returns at the latest after EPOLL_TIMEOUT, and processMsg follows.
Fairness == WF_vars(ProcessMsg)

Spec == Init /\ [][Next]_vars /\ Fairness

-----------------------------------------------------------------------------
(* Properties.                                                               *)

\* A TV's lines go to a PC that asked for this TV, however many clients come and go: the numbers
\* in m_pcconn_map and m_tvconn_map never come to mean another client.
AttachedToAsker ==
  \A fd \in Fds : attached[fd] # NoFd =>
    /\ peer[fd] \in TVs
    /\ peer[attached[fd]] \in PCs /\ Asks[peer[attached[fd]]] = peer[fd]

\* What was handed over for a socket that is alive is what the kernel took and, after it, what
\* waits: nothing is lost, doubled or overtaken by short writes, queueing and processMsg.
InOrder ==
  \A fd \in Fds \ dead : wrote[fd] \o pending[fd] = [i \in 1 .. told[fd] |-> i]

\* disconnectByTVSockfd, which would lock its own mutex again, never gets that far: the socket
\* whose write failed is a PC's, and the map it searches holds sockets of TVs.
NoSelfDeadlock == ~stuck

\* A line handed over reaches the kernel, unless the PC stops reading for good or its link dies.
LinesArrive ==
  \A fd \in Fds :
    <>[](room[fd] = 0) \/
    \A n \in 1 .. MaxTold : told[fd] >= n ~> Len(wrote[fd]) >= n \/ fd \in dead
=============================================================================
