------------------------------- MODULE Inbound -------------------------------
(***************************************************************************)
(* The inbound path of one connection to the TcpSocketServer, from the     *)
(* device's stream of bytes to the packages parseDataPackage sees: the     *)
(* kernel's receive queue and edge-triggered readiness, the read loop of   *)
(* SocketServer::processEpollEvents and the cache of PackDataReader.       *)
(*                                                                         *)
(* A package on the wire is a 4-byte big-endian size, which counts itself, *)
(* and a body.  Bytes arrive between any two calls of the loop.            *)
(***************************************************************************)
EXTENDS Integers, Sequences, FiniteSetsExt, SequencesExt

CONSTANTS
  Sizes,      \* the sizes devices announce; 0 is a header that announces nothing
  BUFF_SIZE,  \* the loop's buffer, and the cache's unit of growth
  MaxSent     \* bound: packages a device sends

ASSUME InboundAssumption ==
  /\ Sizes \subseteq Nat \ 1 .. 3
  /\ \A size \in Sizes : ((size \div 256) \div 256) \div 256 < 128   \* it fits an int
  /\ BUFF_SIZE \in Nat \ 0 .. 4
  /\ MaxSent \in 0 .. 255

VARIABLES
  sent,        \* the packages the device has sent, as the bytes of each
  wire,        \* bytes on their way
  queue,       \* the kernel's receive queue
  ready,       \* the socket is on epoll's ready list
  fin,         \* the device has closed, and its FIN is in the queue
  reset,       \* the connection is reset
  pc,          \* "wait": in epoll_wait; "read": in the read loop; "closed"
  buf,         \* processEpollEvents: the bytes read by this loop
  cache,       \* PackDataReader::m_cache_buf, its m_cached_size bytes
  pkage_size,  \* PackDataReader::m_pkage_size
  alloc_size,  \* PackDataReader::m_alloc_size
  handled      \* the packages handed to parseDataPackage

network == <<sent, wire, queue, ready, fin, reset>>
reader  == <<cache, pkage_size, alloc_size, handled>>
vars    == <<network, pc, buf, reader>>

Byte == 0 .. 255

\* A body's bytes all tell which package they belong to.
Header(size) ==
  <<((size \div 256) \div 256) \div 256, ((size \div 256) \div 256) % 256, (size \div 256) % 256, size % 256>>
Encode(size, tag) ==
  [i \in 1 .. IF size = 0 THEN 4 ELSE size |-> IF i =< 4 THEN Header(size)[i] ELSE tag]

\* The loop leaves the last byte of its zeroed buffer alone, so that the buffer ends like a string
\* for the handlers that search it with strstr.
TypeOK ==
  /\ Len(buf) < BUFF_SIZE
  /\ sent \in Seq(Seq(Byte)) /\ handled \in Seq(Seq(Byte))
  /\ wire \in Seq(Byte) /\ queue \in Seq(Byte) /\ buf \in Seq(Byte) /\ cache \in Seq(Byte)
  /\ ready \in BOOLEAN /\ fin \in BOOLEAN /\ reset \in BOOLEAN
  /\ pc \in {"wait", "read", "closed"}
  /\ pkage_size \in Nat /\ alloc_size \in Nat

-----------------------------------------------------------------------------
(* PackDataReader::addBuffer.                                                *)

Drop(bytes, n) == SubSeq(bytes, n + 1, Len(bytes))

AnnouncedSize(bytes) ==
  ((bytes[1] * 256 + bytes[2]) * 256 + bytes[3]) * 256 + bytes[4]

\* Mutant: the cache grows only once it has overflowed.
GrownLate(alloc, cached, size) == IF cached > alloc THEN alloc + BUFF_SIZE ELSE alloc

Grown(alloc, cached, size) == IF cached + size > alloc THEN alloc + BUFF_SIZE ELSE alloc

\* Mutant: a bare header of eight bytes passes for a package.
IsHeaderOrMore(size) == size >= 8

IsPackage(size) == size > 8

\* The loop of addBuffer: r.bytes is the cache, r.size is m_pkage_size, r.packages what it pushed.
Readers == [bytes : Seq(Byte), size : Nat, packages : Seq(Seq(Byte))]

Enters(r) == Len(r.bytes) >= 4 /\ Len(r.bytes) >= r.size

\* m_pkage_size in the loop: taken from the header when a package begins.
Size(r) == IF r.size = 0 THEN AnnouncedSize(r.bytes) ELSE r.size

\* A whole package lies at the front; it is cut off.
Cuts(r) == Enters(r) /\ Size(r) # 0 /\ Len(r.bytes) >= Size(r)
Cut(r) ==
  [bytes    |-> Drop(r.bytes, Size(r)),
   size     |-> 0,
   packages |-> IF IsPackage(Size(r)) THEN Append(r.packages, SubSeq(r.bytes, 1, Size(r))) ELSE r.packages]

\* The loop ends: a size of zero drops all, the size of an incomplete package is kept.
Left(r) ==
  IF ~Enters(r) THEN r
  ELSE IF Size(r) = 0 THEN [bytes |-> <<>>, size |-> 0, packages |-> r.packages]
  ELSE [bytes |-> r.bytes, size |-> Size(r), packages |-> r.packages]

Scan[r \in Readers] == IF Cuts(r) THEN Scan[Cut(r)] ELSE Left(r)

\* Mutant: one package per call, as with `if` for `while`.
AddBufferOnce(bytes) ==
  LET all  == cache \o bytes
      size == IF Len(all) >= 4 THEN AnnouncedSize(all) ELSE 0
      cut  == size > 0 /\ Len(all) >= size
  IN  /\ alloc_size' = Grown(alloc_size, Len(cache), Len(bytes))
      /\ cache' = IF cut THEN Drop(all, size) ELSE all
      /\ pkage_size' = IF cut THEN 0 ELSE size
      /\ handled' = IF cut /\ IsPackage(size) THEN Append(handled, SubSeq(all, 1, size)) ELSE handled

\* addBuffer, and the loop of parseDataPackage that empties the reader's queue.
AddBuffer(bytes) ==
  LET r == Scan[[bytes |-> cache \o bytes, size |-> pkage_size, packages |-> <<>>]]
  IN  /\ alloc_size' = Grown(alloc_size, Len(cache), Len(bytes))
      /\ cache' = r.bytes /\ pkage_size' = r.size
      /\ handled' = handled \o r.packages

-----------------------------------------------------------------------------
(* The device and the network.                                               *)

Send(size) ==
  /\ Len(sent) < MaxSent /\ ~fin /\ ~reset
  /\ LET bytes == Encode(size, Len(sent) + 1)
     IN  sent' = Append(sent, bytes) /\ wire' = wire \o bytes
  /\ UNCHANGED <<queue, ready, fin, reset, pc, buf, reader>>

\* A segment arrives, cut anywhere: an edge, whether the loop is reading or not.
Arrive ==
  /\ pc # "closed"
  /\ \E n \in 1 .. Len(wire) :
       queue' = queue \o SubSeq(wire, 1, n) /\ wire' = Drop(wire, n)
  /\ ready' = TRUE
  /\ UNCHANGED <<sent, fin, reset, pc, buf, reader>>

Fin ==
  /\ pc # "closed" /\ wire = <<>> /\ ~fin /\ ~reset
  /\ fin' = TRUE /\ ready' = TRUE
  /\ UNCHANGED <<sent, wire, queue, reset, pc, buf, reader>>

\* What is still on its way is lost; what is in the queue can be read before the error.
Reset ==
  /\ pc # "closed" /\ ~reset
  /\ reset' = TRUE /\ ready' = TRUE /\ wire' = <<>>
  /\ UNCHANGED <<sent, queue, fin, pc, buf, reader>>

-----------------------------------------------------------------------------
(* SocketServer::processEpollEvents.                                         *)

\* epoll_wait reports the socket, once per edge.
Report ==
  /\ pc = "wait" /\ ready
  /\ queue # <<>> \/ fin \/ reset
  /\ pc' = "read" /\ ready' = FALSE /\ buf' = <<>>
  /\ UNCHANGED <<sent, wire, queue, fin, reset, reader>>

Room == BUFF_SIZE - (Len(buf) + 1)

Read ==
  /\ pc = "read" /\ Room > 0 /\ queue # <<>>
  /\ LET n == Min({Room, Len(queue)})
     IN  buf' = buf \o SubSeq(queue, 1, n) /\ queue' = Drop(queue, n)
  /\ UNCHANGED <<sent, wire, ready, fin, reset, pc, reader>>

ReadFails == pc = "read" /\ Room > 0 /\ queue = <<>> /\ reset
ReadEnds  == pc = "read" /\ ~ReadFails /\ (Room = 0 \/ queue = <<>>)

Close ==
  /\ pc' = "closed" /\ buf' = <<>> /\ wire' = <<>> /\ queue' = <<>> /\ ready' = FALSE
  /\ UNCHANGED <<sent, fin, reset, reader>>

\* Mutant: end of file disconnects whether the loop has read something or not.
DisconnectAtEof ==
  /\ ReadFails \/ (ReadEnds /\ (buf = <<>> \/ (fin /\ queue = <<>>)))
  /\ Close

\* Mutant: a read of nothing is ignored.
DisconnectOnError ==
  \/ ReadFails /\ Close
  \/ /\ ReadEnds /\ buf = <<>>
     /\ pc' = "wait"
     /\ UNCHANGED <<network, buf, reader>>

\* A read error, whatever was read before it, or a loop that read nothing.
Disconnect == (ReadFails \/ (ReadEnds /\ buf = <<>>)) /\ Close

Receive ==
  /\ ReadEnds /\ buf # <<>>
  /\ AddBuffer(buf)
  /\ pc' = "wait" /\ buf' = <<>>
  /\ UNCHANGED network

-----------------------------------------------------------------------------
Init ==
  /\ sent = <<>> /\ wire = <<>> /\ queue = <<>> /\ buf = <<>> /\ cache = <<>> /\ handled = <<>>
  /\ ready = FALSE /\ fin = FALSE /\ reset = FALSE
  /\ pc = "wait" /\ pkage_size = 0 /\ alloc_size = BUFF_SIZE

Loop == Report \/ Read \/ Disconnect \/ Receive

Next == (\E size \in Sizes : Send(size)) \/ Arrive \/ Fin \/ Reset \/ Loop

\* The network delivers what it does not lose; the server's thread keeps running.
Fairness == WF_vars(Arrive) /\ WF_vars(Loop)

Spec == Init /\ [][Next]_vars /\ Fairness

-----------------------------------------------------------------------------
(* Properties.                                                               *)

\* addBuffer's copy fits: after its one growth the cache holds what it held and the chunk,
\* for any number of packages left incomplete by any number of reads.
CacheFits ==
  [][ pc = "read" /\ pc' = "wait" => Len(cache) + Len(buf) <= alloc_size' ]_vars

\* The server closes a connection with bytes unread, or read and not handed on, only after a
\* reset: end of file takes nothing with it.
LossNeedsReset ==
  [][ pc # "closed" /\ pc' = "closed" => (buf = <<>> /\ queue = <<>>) \/ reset ]_vars

\* An end of file that reaches an idle socket closes the connection (it does not when it shares
\* an edge with the last bytes: then the loop hands them on and epoll has nothing more to say).
IdleFin == pc = "wait" /\ ready /\ fin /\ queue = <<>>
EofNoticed == IdleFin ~> pc = "closed"

-----------------------------------------------------------------------------
(* The inbound path implements an in-order package stream.  Headers of eight *)
(* bytes or less are skipped.  A header of size zero ends the stream: from   *)
(* there on what is handled depends on where TCP cut it.                     *)

ZeroHeader == Encode(0, 0)
Zeros == {i \in DOMAIN sent : sent[i] = ZeroHeader}
ZeroSent == Zeros # {}

\* How many packages were sent before the stream ended.
Intact == IF ZeroSent THEN Min(Zeros) - 1 ELSE Len(sent)

\* Those of the first n packages that are not skipped.
Among(packages, n) ==
  FlattenSeq([i \in 1 .. n |-> IF Len(packages[i]) > 8 THEN <<packages[i]>> ELSE <<>>])

Expected == Among(sent, Intact)

\* Of the handled packages, those of before the end.
Seen == IF ZeroSent THEN SubSeq(handled, 1, Min({Len(handled), Len(Expected)})) ELSE handled

Packages == {Encode(size, tag) : size \in Sizes, tag \in 1 .. MaxSent}

Stream == INSTANCE PackageStream WITH
  Package <- Packages,
  sent    <- Expected,
  handled <- Seen,
  over    <- pc = "closed"

\* The packages of a device are handled in order, each once and whole, however TCP cuts the
\* stream and whatever else the reads take along (addBuffer, parseDataPackage).
FIFO == Stream!Spec

\* As long as no read fills the buffer (and leaves the rest without an edge), every package sent
\* is handled, unless the connection is reset or a header of size zero was sent.
BufferFull == pc = "read" /\ Len(buf) = BUFF_SIZE - 1
WholePackagesHandled ==
  []~BufferFull =>
    \A n \in 1 .. MaxSent : Len(Expected) >= n ~> Len(handled) >= n \/ reset \/ ZeroSent
=============================================================================
