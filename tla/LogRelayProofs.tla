--------------------------- MODULE LogRelayProofs ---------------------------
(***************************************************************************)
(* Proofs about LogRelay, for every choice of its constants.               *)
(*                                                                         *)
(* Three facts make the inductive invariant: the numbers in the maps mean  *)
(* the clients they were entered for, what was handed over is what was     *)
(* written and what waits, and no thread is stuck.  The third rests on the *)
(* first: the socket of a failed write is a PC's, so it has no ConnectInfo.*)
(***************************************************************************)
EXTENDS LogRelay, DataLemmas

USE DEF GetPCConnByTVId, InsertPCConn, GetConnInfoByTVSock, InsertTVConn, RemovePCConnBySock,
        IsMessageBufferExist, InsertDataBuffer, IsDataBufferEmpty, Unwritten,
        PackageMsgForWebsocket, WriteMsgToWebSocket

\* The socket registered for a TV is a PC's that asks for this TV.
AskersAsk ==
  \A t \in TVs : asked[t] # NoFd => peer[asked[t]] \in PCs /\ Asks[peer[asked[t]]] = t

Maps == AskersAsk /\ AttachedToAsker

\* The buffers and what they hold.
Queues ==
  /\ buffered \subseteq Fds
  /\ pending \in [Fds -> Seq(1 .. MaxTold)] /\ wrote \in [Fds -> Seq(1 .. MaxTold)]
  /\ \A fd \in Fds : pending[fd] # <<>> => fd \in buffered
  /\ room \in [Fds -> 0 .. Cap] /\ told \in [Fds -> 0 .. MaxTold]
  /\ InOrder

Consistent == TypeOK /\ Maps /\ Queues /\ NoSelfDeadlock

-----------------------------------------------------------------------------
(* Messages cut in two.                                                      *)

\* All units up to n, in order.
UpTo(n) == [i \in 1 .. n |-> i]

\* What write takes and what it leaves make the message (BaseServer::writeMsg, resetDataBuffer).
LEMMA FirstAndDrop ==
  ASSUME NEW S, NEW s \in Seq(S), NEW n \in 0 .. Len(s)
  PROVE  /\ First(s, n) \in Seq(S) /\ Drop(s, n) \in Seq(S)
         /\ First(s, n) \o Drop(s, n) = s
         /\ n = Len(s) => Drop(s, n) = <<>>
<1>1. /\ First(s, n) \in Seq(S) /\ Drop(s, n) \in Seq(S)
      /\ First(s, n) \o Drop(s, n) = s
  BY FirstAndRest DEF First, Drop
<1>2. n = Len(s) => Drop(s, n) = <<>>
  BY SubSeqEmpty DEF Drop
<1>3. QED
  BY <1>1, <1>2

\* k units after the first n are the first n + k.
LEMMA NextUnits ==
  ASSUME NEW n \in Nat, NEW k \in Nat, NEW max \in Nat, n + k =< max
  PROVE  /\ [i \in 1 .. k |-> n + i] \in Seq(1 .. max)
         /\ Len([i \in 1 .. k |-> n + i]) = k
         /\ UpTo(n) \o [i \in 1 .. k |-> n + i] = UpTo(n + k)
<1> DEFINE units == [i \in 1 .. k |-> n + i]
<1>1. units \in Seq(1 .. max) /\ Len(units) = k
  BY IsASeq
<1>2. UpTo(n) \in Seq(1 .. max) /\ Len(UpTo(n)) = n
  BY IsASeq DEF UpTo
<1>3. UpTo(n + k) \in Seq(1 .. max) /\ Len(UpTo(n + k)) = n + k
  BY IsASeq DEF UpTo
<1>4. /\ UpTo(n) \o units \in Seq(1 .. max) /\ Len(UpTo(n) \o units) = n + k
      /\ \A i \in 1 .. n + k : (UpTo(n) \o units)[i] = IF i =< n THEN UpTo(n)[i] ELSE units[i - n]
  BY <1>1, <1>2, ConcatProperties
<1>5. \A i \in 1 .. n + k : (UpTo(n) \o units)[i] = UpTo(n + k)[i]
  BY <1>4 DEF UpTo
<1>6. QED
  BY <1>1, <1>3, <1>4, <1>5, SeqEqual
-----------------------------------------------------------------------------
(* writeMsg.                                                                 *)

\* insertMessageBuffer after what was written: the units of one socket stay in order.
LEMMA WriteMsgKeepsQueues ==
  ASSUME Consistent, NEW fd \in Fds, peer[fd] \in PCs, NEW k \in Nat,
         WriteMsg(fd, k), UNCHANGED dead
  PROVE  Queues' /\ stuck' = FALSE
<1> DEFINE max   == 1 .. MaxTold
           units == Units(fd, k)
           n     == Min({room[fd], Len(units)})
<1>1. /\ Queues /\ stuck = FALSE /\ attached[fd] = NoFd /\ MaxTold \in Nat
      /\ told[fd] \in Nat /\ room[fd] \in 0 .. Cap /\ Cap \in Nat
      /\ pending[fd] \in Seq(max) /\ wrote[fd] \in Seq(max)
  <2>1. peer[fd] \notin TVs
    BY LogRelayAssumption
  <2>2. QED
    <3>1. stuck = FALSE
      BY DEF Consistent, TypeOK, NoSelfDeadlock
    <3>2. QED
      BY <2>1, <3>1, LogRelayAssumption DEF Consistent, Maps, AttachedToAsker, Queues
<1>2. told[fd] + k =< MaxTold
  BY DEF WriteMsg
<1>3. units \in Seq(max) /\ Len(units) = k /\ UpTo(told[fd]) \o units = UpTo(told[fd] + k)
  BY <1>1, <1>2, NextUnits DEF Units
<1> HIDE DEF units, max
<1>a. \A s, t, u \in Seq(max) : (s \o t) \o u = s \o (t \o u)
  BY ConcatAssociative
<1>4. CASE fd \in buffered
  <2>1. /\ buffered' = buffered \union {fd}
        /\ pending' = [pending EXCEPT ![fd] = @ \o units]
        /\ told' = [told EXCEPT ![fd] = @ + k]
        /\ UNCHANGED <<room, wrote, stuck>>
    BY <1>4 DEF WriteMsg, InsertMessageBuffer, units
  <2>2. pending[fd] \o units \in Seq(max)
    BY <1>1, <1>3, ConcatProperties
  <2>3. (wrote[fd] \o pending[fd]) \o units = wrote[fd] \o (pending[fd] \o units)
    BY <1>1, <1>3, <1>a
  <2>4. fd \notin dead => wrote[fd] \o pending[fd] = UpTo(told[fd])
    BY <1>1 DEF Queues, InOrder, UpTo
  <2>5. fd \notin dead => wrote[fd] \o (pending[fd] \o units) = UpTo(told[fd] + k)
    BY <1>3, <2>3, <2>4
  <2>6. InOrder'
    <3>1. SUFFICES ASSUME NEW g \in Fds, g \notin dead
                   PROVE  wrote'[g] \o pending'[g] = UpTo(told'[g])
      BY DEF InOrder, UpTo
    <3>2. CASE g = fd
      <4>1. wrote'[g] = wrote[fd] /\ pending'[g] = pending[fd] \o units /\ told'[g] = told[fd] + k
        BY <1>1, <2>1, <3>2 DEF Queues
      <4>2. QED
        BY <2>5, <3>1, <3>2, <4>1
    <3>3. CASE g # fd
      <4>1. wrote'[g] = wrote[g] /\ pending'[g] = pending[g] /\ told'[g] = told[g]
        BY <1>1, <2>1, <3>3 DEF Queues
      <4>2. QED
        BY <1>1, <3>1, <4>1 DEF Queues, InOrder, UpTo
    <3>4. QED
      BY <3>2, <3>3
  <2>7. told[fd] + k \in 0 .. MaxTold
    BY <1>1, <1>2
  <2>8. stuck' = FALSE
    BY <1>1, <2>1
  <2>9. \A g \in Fds : pending'[g] # <<>> => g \in buffered'
    BY <1>1, <2>1 DEF Queues
  <2>10. /\ buffered' \subseteq Fds
         /\ pending' \in [Fds -> Seq(max)] /\ wrote' \in [Fds -> Seq(max)]
         /\ room' \in [Fds -> 0 .. Cap] /\ told' \in [Fds -> 0 .. MaxTold]
    BY <1>1, <2>1, <2>2, <2>7 DEF Queues, max
  <2>11. QED
    BY <1>1, <2>6, <2>8, <2>9, <2>10 DEF Queues, max
<1>5. CASE fd \notin buffered /\ fd \in dead
  <2>1. UNCHANGED output /\ (attached[fd] = NoFd => UNCHANGED stuck)
    BY <1>5 DEF WriteMsg, DisconnectByTVSockfd
  <2>2. QED
    BY <1>1, <2>1 DEF Queues, InOrder, output
<1>6. CASE fd \notin buffered /\ fd \notin dead
  <2>1. pending[fd] = <<>>
    BY <1>1, <1>6 DEF Queues
  <2>2. n \in 0 .. Len(units) /\ n =< room[fd] /\ n \in Nat
    <3>1. room[fd] \in Nat /\ Len(units) \in Nat
      BY <1>1, <1>3
    <3>2. n \in Nat /\ n =< room[fd] /\ n =< Len(units)
      BY <3>1, MinOfTwo
    <3>3. QED
      BY <3>1, <3>2
  <2> HIDE DEF n
  <2>3. /\ First(units, n) \in Seq(max) /\ Drop(units, n) \in Seq(max)
        /\ First(units, n) \o Drop(units, n) = units
        /\ n = Len(units) => Drop(units, n) = <<>>
    BY <1>3, <2>2, FirstAndDrop
  <2>4. /\ wrote' = [wrote EXCEPT ![fd] = @ \o First(units, n)]
        /\ room' = [room EXCEPT ![fd] = @ - n]
        /\ told' = [told EXCEPT ![fd] = @ + k]
        /\ UNCHANGED stuck
        /\ IF n < Len(units) THEN InsertMessageBuffer(fd, Drop(units, n))
           ELSE UNCHANGED <<buffered, pending>>
    BY <1>6 DEF WriteMsg, WriteNow, units, n
  <2>5. <<>> \o Drop(units, n) = Drop(units, n) /\ <<>> \in Seq(max)
    BY <2>3, ConcatEmptySeq, EmptySeq
  <2>6. /\ pending' = [pending EXCEPT ![fd] = Drop(units, n)]
        /\ buffered' = buffered \/ buffered' = buffered \union {fd}
        /\ Drop(units, n) # <<>> => fd \in buffered'
    <3>1. CASE n < Len(units)
      BY <1>1, <2>1, <2>4, <2>5, <3>1 DEF InsertMessageBuffer, Queues
    <3>2. CASE ~ (n < Len(units))
      <4>1. Drop(units, n) = <<>>
        BY <1>3, <2>2, <2>3, <3>2
      <4>2. QED
        BY <1>1, <2>1, <2>4, <3>2, <4>1 DEF Queues
    <3>3. QED
      BY <3>1, <3>2
  <2>7. wrote[fd] \o First(units, n) \in Seq(max)
    BY <1>1, <2>3, ConcatProperties
  <2>8. (wrote[fd] \o First(units, n)) \o Drop(units, n) = UpTo(told[fd] + k)
    <3>1. (wrote[fd] \o First(units, n)) \o Drop(units, n)
            = wrote[fd] \o (First(units, n) \o Drop(units, n))
      BY <1>1, <2>3, <1>a
    <3>2. wrote[fd] \o <<>> = UpTo(told[fd])
      BY <1>1, <1>6, <2>1 DEF Queues, InOrder, UpTo
    <3>3. wrote[fd] \o <<>> = wrote[fd]
      BY <1>1, ConcatEmptySeq
    <3>4. QED
      BY <1>3, <2>3, <3>1, <3>2, <3>3
  <2>9. InOrder'
    <3>1. SUFFICES ASSUME NEW g \in Fds, g \notin dead
                   PROVE  wrote'[g] \o pending'[g] = UpTo(told'[g])
      BY DEF InOrder, UpTo
    <3>2. CASE g = fd
      <4>1. /\ wrote'[g] = wrote[fd] \o First(units, n) /\ pending'[g] = Drop(units, n)
            /\ told'[g] = told[fd] + k
        BY <1>1, <2>4, <2>6, <3>2 DEF Queues
      <4>2. QED
        BY <2>8, <4>1
    <3>3. CASE g # fd
      <4>1. wrote'[g] = wrote[g] /\ pending'[g] = pending[g] /\ told'[g] = told[g]
        BY <1>1, <2>4, <2>6, <3>3 DEF Queues
      <4>2. QED
        BY <1>1, <3>1, <4>1 DEF Queues, InOrder, UpTo
    <3>4. QED
      BY <3>2, <3>3
  <2>10. told[fd] + k \in 0 .. MaxTold /\ room[fd] - n \in 0 .. Cap
    BY <1>1, <1>2, <2>2
  <2>11. \A g \in Fds : pending'[g] # <<>> => g \in buffered'
    BY <1>1, <2>6 DEF Queues
  <2>12. /\ buffered' \subseteq Fds
         /\ pending' \in [Fds -> Seq(max)] /\ wrote' \in [Fds -> Seq(max)]
         /\ room' \in [Fds -> 0 .. Cap] /\ told' \in [Fds -> 0 .. MaxTold]
    BY <1>1, <2>3, <2>4, <2>6, <2>7, <2>10 DEF Queues, max
  <2>13. QED
    BY <1>1, <2>4, <2>9, <2>11, <2>12 DEF Queues, max
<1>7. QED
  BY <1>4, <1>5, <1>6
-----------------------------------------------------------------------------
(* One lemma per action.                                                     *)

\* processMsg writes the front of every buffer, and drops a buffer that is empty or cannot be
\* written any more.
LEMMA ProcessMsgKeepsQueues ==
  ASSUME Consistent, ProcessMsg
  PROVE  Queues'
<1> DEFINE max == 1 .. MaxTold
<1>1. /\ Queues /\ Cap \in Nat
      /\ \A g \in Fds : pending[g] \in Seq(max) /\ wrote[g] \in Seq(max) /\ room[g] \in 0 .. Cap
  BY LogRelayAssumption DEF Consistent, Queues
<1> HIDE DEF max
<1>2. \A g \in Fds : /\ Len(pending[g]) \in Nat
                    /\ Writable(g) \in 0 .. Len(pending[g]) /\ Writable(g) =< room[g]
  <2>1. SUFFICES ASSUME NEW g \in Fds
                 PROVE  /\ Len(pending[g]) \in Nat
                        /\ Writable(g) \in 0 .. Len(pending[g]) /\ Writable(g) =< room[g]
    OBVIOUS
  <2>2. Len(pending[g]) \in Nat /\ room[g] \in Nat
    BY <1>1, LenProperties
  <2>3. CASE g \in dead
    BY <2>2, <2>3 DEF Writable
  <2>4. CASE g \notin dead
    <3>1. Writable(g) = Min({room[g], Len(pending[g])})
      BY <2>4 DEF Writable
    <3>2. Writable(g) \in Nat /\ Writable(g) =< room[g] /\ Writable(g) =< Len(pending[g])
      BY <2>2, <3>1, MinOfTwo
    <3>3. QED
      BY <2>2, <3>2
  <2>5. QED
    BY <2>3, <2>4
<1>3. \A g \in Fds :
        /\ First(pending[g], Writable(g)) \in Seq(max)
        /\ Drop(pending[g], Writable(g)) \in Seq(max)
        /\ First(pending[g], Writable(g)) \o Drop(pending[g], Writable(g)) = pending[g]
        /\ Writable(g) = Len(pending[g]) => Drop(pending[g], Writable(g)) = <<>>
  BY <1>1, <1>2, FirstAndDrop
<1>4. \A g \in Fds : wrote[g] \o First(pending[g], Writable(g)) \in Seq(max)
  BY <1>1, <1>3, ConcatProperties
<1>5. <<>> \in Seq(max) /\ Len(<<>>) = 0
  BY EmptySeq
<1>6. /\ buffered' = buffered \ Removed
      /\ pending' = [g \in Fds |-> IF g \in Removed THEN <<>> ELSE Drop(pending[g], Writable(g))]
      /\ wrote' = [g \in Fds |-> wrote[g] \o First(pending[g], Writable(g))]
      /\ room' = [g \in Fds |-> room[g] - Writable(g)]
      /\ UNCHANGED <<told, dead>>
  BY DEF ProcessMsg, link
<1>7. /\ buffered' \subseteq Fds
      /\ pending' \in [Fds -> Seq(max)] /\ wrote' \in [Fds -> Seq(max)]
      /\ told' \in [Fds -> 0 .. MaxTold]
  BY <1>1, <1>3, <1>4, <1>5, <1>6 DEF Queues
<1>8. room' \in [Fds -> 0 .. Cap]
  <2>1. \A g \in Fds : room[g] - Writable(g) \in 0 .. Cap
    BY <1>1, <1>2
  <2>2. QED
    BY <1>6, <2>1
<1>9. \A g \in Fds : pending'[g] # <<>> => g \in buffered'
  <2>1. SUFFICES ASSUME NEW g \in Fds, pending'[g] # <<>>
                 PROVE  g \in buffered'
    OBVIOUS
  <2>2. g \notin Removed /\ Drop(pending[g], Writable(g)) # <<>>
    BY <1>6, <2>1
  <2>3. pending[g] # <<>>
    BY <1>2, <1>3, <1>5, <2>2
  <2>4. QED
    BY <1>1, <1>6, <2>2, <2>3 DEF Queues
<1>10. InOrder'
  <2>1. SUFFICES ASSUME NEW g \in Fds, g \notin dead
                 PROVE  wrote'[g] \o pending'[g] = UpTo(told'[g])
    BY <1>6 DEF InOrder, UpTo
  <2>2. pending'[g] = Drop(pending[g], Writable(g))
    <3>1. CASE g \in Removed
      <4>1. pending[g] = <<>>
        BY <2>1, <3>1 DEF Removed
      <4>2. QED
        BY <1>2, <1>3, <1>5, <1>6, <3>1, <4>1
    <3>2. CASE g \notin Removed
      BY <1>6, <3>2
    <3>3. QED
      BY <3>1, <3>2
  <2>3. (wrote[g] \o First(pending[g], Writable(g))) \o Drop(pending[g], Writable(g))
          = wrote[g] \o pending[g]
    <3>1. \A s, t, u \in Seq(max) : (s \o t) \o u = s \o (t \o u)
      BY ConcatAssociative
    <3>2. (wrote[g] \o First(pending[g], Writable(g))) \o Drop(pending[g], Writable(g))
            = wrote[g] \o (First(pending[g], Writable(g)) \o Drop(pending[g], Writable(g)))
      BY <1>1, <1>3, <3>1
    <3>3. QED
      BY <1>3, <3>2
  <2>4. wrote[g] \o pending[g] = UpTo(told[g])
    BY <1>1, <2>1 DEF Queues, InOrder, UpTo
  <2>5. QED
    BY <1>6, <2>2, <2>3, <2>4
<1>11. QED
  BY <1>7, <1>8, <1>9, <1>10 DEF Queues, max

\* Accept hands out a descriptor no map names, since none that was named is ever closed.
LEMMA AcceptConsistent ==
  ASSUME Consistent, NEW d \in TVs \union PCs, Accept(d)
  PROVE  Consistent'
<1> DEFINE fd == Min(FreeFds)
<1>1. fd \in Fds /\ peer[fd] = NoPeer
  <2>1. FreeFds \in SUBSET Nat /\ FreeFds # {}
    BY LogRelayAssumption DEF FreeFds, Accept
  <2>2. fd \in FreeFds
    BY <2>1, MinInSet
  <2>3. QED
    BY <2>2 DEF FreeFds
<1> HIDE DEF fd
<1>2. /\ peer' = [peer EXCEPT ![fd] = d] /\ polled' = polled \union {fd}
      /\ UNCHANGED <<dead, asked, attached, buffered, pending, room, wrote, told, stuck>>
  BY DEF Accept, maps, output, fd
<1>3. TypeOK'
  BY <1>1, <1>2 DEF Consistent, TypeOK
<1>4. peer[fd] \notin TVs \union PCs
  BY <1>1, LogRelayAssumption
<1>5. AskersAsk'
  BY <1>2, <1>4 DEF Consistent, TypeOK, Maps, AskersAsk
<1>6. AttachedToAsker'
  BY <1>2, <1>4 DEF Consistent, TypeOK, Maps, AttachedToAsker
<1>7. Queues' /\ NoSelfDeadlock'
  BY <1>2 DEF Consistent, Queues, InOrder, NoSelfDeadlock
<1>8. QED
  BY <1>3, <1>5, <1>6, <1>7 DEF Consistent, Maps
LEMMA LinkDiesConsistent ==
  ASSUME Consistent, NEW fd \in Fds, LinkDies(fd)
  PROVE  Consistent'
<1>1. /\ dead' = dead \union {fd}
      /\ UNCHANGED <<peer, polled, asked, attached, buffered, pending, room, wrote, told, stuck>>
  BY DEF LinkDies, maps, output
<1>2. TypeOK' /\ Maps' /\ NoSelfDeadlock'
  BY <1>1 DEF Consistent, TypeOK, Maps, AskersAsk, AttachedToAsker, NoSelfDeadlock
<1>3. Queues'
  BY <1>1 DEF Consistent, Queues, InOrder
<1>4. QED
  BY <1>2, <1>3 DEF Consistent

LEMMA ClientReadsConsistent ==
  ASSUME Consistent, NEW fd \in Fds, ClientReads(fd)
  PROVE  Consistent'
<1>1. /\ room' = [room EXCEPT ![fd] = @ + 1] /\ room[fd] < Cap
      /\ UNCHANGED <<peer, dead, polled, asked, attached, buffered, pending, wrote, told, stuck>>
  BY DEF ClientReads, link, maps
<1>2. room' \in [Fds -> 0 .. Cap]
  BY <1>1, LogRelayAssumption DEF Consistent, TypeOK
<1>3. TypeOK' /\ Maps' /\ NoSelfDeadlock'
  BY <1>1, <1>2 DEF Consistent, TypeOK, Maps, AskersAsk, AttachedToAsker, NoSelfDeadlock
<1>4. Queues'
  BY <1>1, <1>2 DEF Consistent, Queues, InOrder
<1>5. QED
  BY <1>3, <1>4 DEF Consistent

\* disconnect keeps the socket open, so the maps go on meaning the same clients.
LEMMA DisconnectConsistent ==
  ASSUME Consistent, NEW fd \in Fds, Disconnect(fd)
  PROVE  Consistent'
<1>1. /\ polled' = polled \ {fd}
      /\ UNCHANGED <<peer, dead, asked, attached, buffered, pending, room, wrote, told, stuck>>
  BY DEF Disconnect, maps, output
<1>2. TypeOK' /\ Maps' /\ NoSelfDeadlock'
  BY <1>1 DEF Consistent, TypeOK, Maps, AskersAsk, AttachedToAsker, NoSelfDeadlock
<1>3. Queues'
  BY <1>1 DEF Consistent, Queues, InOrder
<1>4. QED
  BY <1>2, <1>3 DEF Consistent

\* What a write leaves, together with maps it did not touch.
LEMMA MapsAndQueues ==
  ASSUME Consistent, UNCHANGED <<peer, asked, attached>>, polled' \subseteq Fds, UNCHANGED dead,
         Queues', stuck' = FALSE
  PROVE  Consistent'
<1>1. Maps'
  BY DEF Consistent, Maps, AskersAsk, AttachedToAsker
<1>2. TypeOK'
  BY DEF Consistent, TypeOK, Queues
<1>3. QED
  BY <1>1, <1>2 DEF Consistent, NoSelfDeadlock

LEMMA HandshakeConsistent ==
  ASSUME Consistent, NEW fd \in Fds, Handshake(fd)
  PROVE  Consistent'
<1>1. peer[fd] \in PCs /\ WriteMsg(fd, 1) /\ UNCHANGED <<peer, dead, asked, attached>>
  BY DEF Handshake, Live, maps
<1>2. polled' \subseteq Fds
  BY DEF Handshake, Consistent, TypeOK
<1>3. Queues' /\ stuck' = FALSE
  BY <1>1, WriteMsgKeepsQueues
<1>4. QED
  BY <1>1, <1>2, <1>3, MapsAndQueues

\* insertPCConn enters the socket of the PC that asks.
LEMMA AskForLogConsistent ==
  ASSUME Consistent, NEW fd \in Fds, AskForLog(fd)
  PROVE  Consistent'
<1>1. /\ peer[fd] \in PCs /\ Asks[peer[fd]] \in TVs
      /\ asked' = [asked EXCEPT ![Asks[peer[fd]]] = fd]
      /\ UNCHANGED <<peer, dead, polled, attached, buffered, pending, room, wrote, told, stuck>>
  BY LogRelayAssumption DEF AskForLog, Live, link, output
<1>2. TypeOK' /\ NoSelfDeadlock'
  BY <1>1 DEF Consistent, TypeOK, NoSelfDeadlock
<1>3. Maps'
  BY <1>1 DEF Consistent, TypeOK, Maps, AskersAsk, AttachedToAsker
<1>4. Queues'
  BY <1>1 DEF Consistent, Queues, InOrder
<1>5. QED
  BY <1>2, <1>3, <1>4 DEF Consistent

\* insertTVConn enters the PC that asked for this TV.
LEMMA AnnounceConsistent ==
  ASSUME Consistent, NEW fd \in Fds, Announce(fd)
  PROVE  Consistent'
<1>1. /\ peer[fd] \in TVs /\ asked[peer[fd]] # NoFd
      /\ attached' = [attached EXCEPT ![fd] = asked[peer[fd]]]
      /\ UNCHANGED <<peer, dead, polled, asked, buffered, pending, room, wrote, told, stuck>>
  BY DEF Announce, Live, link, output
<1>2. TypeOK' /\ NoSelfDeadlock'
  BY <1>1 DEF Consistent, TypeOK, NoSelfDeadlock
<1>3. Maps'
  BY <1>1 DEF Consistent, TypeOK, Maps, AskersAsk, AttachedToAsker
<1>4. Queues'
  BY <1>1 DEF Consistent, Queues, InOrder
<1>5. QED
  BY <1>2, <1>3, <1>4 DEF Consistent

\* A log line is written to the PC the TV is attached to.
LEMMA LineConsistent ==
  ASSUME Consistent, NEW fd \in Fds, Line(fd)
  PROVE  Consistent'
<1>1. /\ attached[fd] \in Fds /\ peer[attached[fd]] \in PCs
      /\ WriteMsg(attached[fd], 2)
      /\ UNCHANGED <<peer, dead, polled, asked, attached>>
  BY DEF Line, link, maps, Consistent, TypeOK, Maps, AttachedToAsker
<1>2. Queues' /\ stuck' = FALSE
  BY <1>1, WriteMsgKeepsQueues
<1>3. polled' \subseteq Fds
  BY <1>1 DEF Consistent, TypeOK
<1>4. QED
  BY <1>1, <1>2, <1>3, MapsAndQueues

LEMMA ProcessMsgConsistent ==
  ASSUME Consistent, ProcessMsg
  PROVE  Consistent'
<1>1. Queues'
  BY ProcessMsgKeepsQueues
<1>2. UNCHANGED <<peer, dead, polled, asked, attached, stuck>>
  BY DEF ProcessMsg, link, maps
<1>3. stuck' = FALSE /\ polled' \subseteq Fds
  BY <1>2 DEF Consistent, NoSelfDeadlock, TypeOK
<1>4. QED
  BY <1>1, <1>2, <1>3, MapsAndQueues

-----------------------------------------------------------------------------
(* The theorems.                                                             *)

LEMMA InitConsistent == Init => Consistent
<1>1. SUFFICES ASSUME Init PROVE Consistent
  OBVIOUS
<1>2. Cap \in Nat /\ MaxTold \in Nat /\ <<>> \in Seq(1 .. MaxTold)
  BY LogRelayAssumption, EmptySeq
<1>3. TypeOK
  <2>1. 0 \in 0 .. MaxTold /\ Cap \in 0 .. Cap
    BY <1>2, LogRelayAssumption
  <2>2. QED
    BY <1>1, <1>2, <2>1 DEF Init, TypeOK
<1>4. NoSelfDeadlock /\ Maps
  BY <1>1 DEF Init, NoSelfDeadlock, Maps, AskersAsk, AttachedToAsker
<1>5. InOrder
  <2>1. <<>> \o <<>> = <<>>
    BY <1>2, ConcatEmptySeq
  <2>2. [i \in 1 .. 0 |-> i] = <<>>
    OBVIOUS
  <2>3. QED
    BY <1>1, <2>1, <2>2 DEF Init, InOrder
<1>6. QED
  BY <1>3, <1>4, <1>5 DEF Consistent, Queues, TypeOK

LEMMA NextConsistent == Consistent /\ [Next]_vars => Consistent'
<1>1. SUFFICES ASSUME Consistent, [Next]_vars PROVE Consistent'
  OBVIOUS
<1>2. CASE UNCHANGED vars
  BY <1>1, <1>2 DEF vars, link, maps, output, Consistent, TypeOK, Maps, AskersAsk,
     AttachedToAsker, Queues, InOrder, NoSelfDeadlock
<1>3. ASSUME NEW d \in TVs \union PCs, Accept(d) PROVE Consistent'
  BY <1>1, <1>3, AcceptConsistent
<1>4. ASSUME NEW fd \in Fds, LinkDies(fd) \/ ClientReads(fd) \/ Disconnect(fd) PROVE Consistent'
  BY <1>1, <1>4, LinkDiesConsistent, ClientReadsConsistent, DisconnectConsistent
<1>5. ASSUME NEW fd \in Fds, Handshake(fd) \/ AskForLog(fd) \/ Announce(fd) \/ Line(fd)
      PROVE  Consistent'
  BY <1>1, <1>5, HandshakeConsistent, AskForLogConsistent, AnnounceConsistent, LineConsistent
<1>6. CASE ProcessMsg
  BY <1>1, <1>6, ProcessMsgConsistent
<1>7. QED
  BY <1>1, <1>2, <1>3, <1>4, <1>5, <1>6 DEF Next

\* The inductive invariant: the maps of BaseServer mean the clients they were filled for, and
\* every socket's output is in order, whatever clients and links do.
THEOREM SpecConsistent == Spec => []Consistent
<1>1. QED
  BY InitConsistent, NextConsistent, PTL DEF Spec

\* Type correctness of the log relay: descriptors, buffers and what the kernel holds.
THEOREM SpecTypeOK == Spec => []TypeOK
<1>1. Consistent => TypeOK
  BY DEF Consistent
<1>2. QED
  BY <1>1, SpecConsistent, PTL

\* A TV's lines only ever go to a PC that asked for this TV (m_pcconn_map, m_tvconn_map), since
\* no socket of the log servers is closed and no number changes its meaning.
THEOREM SpecAttachedToAsker == Spec => []AttachedToAsker
<1>1. Consistent => AttachedToAsker
  BY DEF Consistent, Maps
<1>2. QED
  BY <1>1, SpecConsistent, PTL

\* writeMsg, the retry queue and processMsg lose, double and reorder nothing on a live link.
THEOREM SpecInOrder == Spec => []InOrder
<1>1. Consistent => InOrder
  BY DEF Consistent, Queues
<1>2. QED
  BY <1>1, SpecConsistent, PTL

\* disconnectByTVSockfd never reaches removePCConnBySock, which would lock its mutex again.
THEOREM SpecNoSelfDeadlock == Spec => []NoSelfDeadlock
<1>1. Consistent => NoSelfDeadlock
  BY DEF Consistent
<1>2. QED
  BY <1>1, SpecConsistent, PTL
=============================================================================
