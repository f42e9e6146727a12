------------------------------- MODULE Relay -------------------------------
(***************************************************************************)
(* The session core of the proxy: the relay of messages between a TV (on   *)
(* the TcpSocketServer) and the PC that controls it (on the                *)
(* WebSocketServer), and the rendezvous with the web page's PHP client (on *)
(* the PhpSocketServer).  The three servers share ConnectionManager,       *)
(* ConnectFilterManager, TVListManager and TVOnlineListManager, and the    *)
(* descriptor table of the process.                                        *)
(*                                                                         *)
(* One action is one handler run by an epoll loop, from the event to the   *)
(* return to epoll_wait.  A handler changes the shared state through a     *)
(* snapshot (a record s) that each call it makes transforms in turn.       *)
(***************************************************************************)
EXTENDS Integers, FiniteSets, FiniteSetsExt

CONSTANTS
  TVs,      \* ids of the TVs: the crc32 of the TV's id string, which is also its `source`
  PCs,      \* ids of the PCs, the `source` of their packages
  Phps,     \* the clients of the PHP port
  Fds,      \* the descriptors the process may hold for these three servers
  Asks      \* the TV each PHP client asks for

Ids     == TVs \union PCs
Devices == Ids \union Phps
NoPeer  == 0          \* id 0: SERVER_ID, and the "no partner" of a Connection
NoFd    == -1

ASSUME RelayAssumption ==
  /\ Devices \subseteq Nat \ {NoPeer}
  /\ TVs \intersect PCs = {} /\ Ids \intersect Phps = {}
  /\ Fds \subseteq Nat /\ IsFiniteSet(Fds)
  /\ IsFiniteSet(Devices)
  /\ Asks \in [Phps -> TVs]

VARIABLES
  peer,       \* the descriptor table: who is at the other end of a descriptor
  dead,       \* open descriptors on which a write fails
  polled,     \* descriptors registered with their server's epoll instance
  filter,     \* ConnectFilterManager: descriptors with a package reader
  conn,       \* ConnectionManager: the Connection of each registered id
  tvinfo,     \* TVListManager: the rendezvous entry of each TV
  online,     \* TVOnlineListManager: TVs a PC has taken
  armed,      \* m_isFistStartTimer: the SIGALRM timer runs
  fate,       \* "running", or how the process died
  out,        \* what the last step wrote to sockets that could take it
  overlapped  \* history: a registration or an entry was overtaken while in use

vars == <<peer, dead, polled, filter, conn, tvinfo, online, armed, fate, out, overlapped>>

Connection == [rfd : Fds \union {NoFd}, wfd : Fds \union {NoFd}, wid : Ids \union {NoPeer}]
NoConn     == [rfd |-> NoFd, wfd |-> NoFd, wid |-> NoPeer]

TVInfoNode == [dev : {"none", "tv", "pc"}, refuse : BOOLEAN, php : Fds \union {NoFd}, old : BOOLEAN]
NoEntry    == [dev |-> "none", refuse |-> FALSE, php |-> NoFd, old |-> FALSE]
PcEntry(fd)      == [dev |-> "pc", refuse |-> FALSE, php |-> fd, old |-> FALSE]
AcceptedEntry    == [dev |-> "tv", refuse |-> FALSE, php |-> NoFd, old |-> FALSE]
RefusedEntry     == [dev |-> "tv", refuse |-> TRUE, php |-> NoFd, old |-> TRUE]

Kinds == {"srv_id", "tv_id", "pc_id", "data", "handshake",
          "tv_offline", "pc_offline", "another_pc",
          "ok", "refuse", "timeout", "replace", "exist"}
\* A message: its receiver, what it says, and the TV a verdict for a PHP client is about.
Message == [to : Devices, kind : Kinds, of : TVs \union {NoPeer}]

TypeOK ==
  /\ peer \in [Fds -> Devices \union {NoPeer}]
  /\ dead \subseteq Fds
  /\ polled \subseteq Fds
  /\ filter \subseteq Fds
  /\ conn \in [Ids -> Connection]
  /\ tvinfo \in [TVs -> TVInfoNode]
  /\ online \subseteq TVs
  /\ armed \in BOOLEAN
  /\ fate \in {"running", "stack", "freed"}
  /\ out \subseteq Message
  /\ overlapped \in BOOLEAN

-----------------------------------------------------------------------------
(* Snapshots of the shared state, and the calls that transform them.         *)

Snapshot == [peer |-> peer, polled |-> polled, filter |-> filter, conn |-> conn,
             tvinfo |-> tvinfo, online |-> online, out |-> {}, stack |-> FALSE]

WriteFails(s, fd) == s.peer[fd] = NoPeer \/ fd \in dead

Deliver(s, fd, kind, of) ==
  [s EXCEPT !.out = @ \union {[to |-> s.peer[fd], kind |-> kind, of |-> of]}]

Close(s, fds) ==
  [s EXCEPT !.peer   = [g \in Fds |-> IF g \in fds THEN NoPeer ELSE @[g]],
            !.polled = @ \ fds]

\* Mutant: removeConnFilter is forgotten.
KeepFilters(s, fds) == s

RemoveFilters(s, fds) == [s EXCEPT !.filter = @ \ fds]

RemoveConnections(s, ids) ==
  [s EXCEPT !.conn = [i \in Ids |-> IF i \in ids THEN NoConn ELSE @[i]]]

\* Mutant: only the rendezvous entry is removed.
RemoveFromTVListOnly(s, tvs) ==
  [s EXCEPT !.tvinfo = [t \in TVs |-> IF t \in tvs THEN NoEntry ELSE @[t]]]

\* TVListManager::removeTvinfo and TVOnlineListManager::removeTvinfo.
RemoveTvinfo(s, tvs) ==
  [s EXCEPT !.tvinfo = [t \in TVs |-> IF t \in tvs THEN NoEntry ELSE @[t]],
            !.online = @ \ tvs]

\* Mutant: the TV a PC takes is not put on the online list.
InsertNothing(s, t) == s

InsertOnline(s, t) == [s EXCEPT !.online = @ \union {t}]

SetTvinfo(s, t, entry) == [s EXCEPT !.tvinfo[t] = entry]

\* getConnByReadSockfd walks the map in id order and returns the first match.
Readers(s, fd)      == {i \in Ids : s.conn[i].rfd = fd}
ConnByReadFd(s, fd) == Min(Readers(s, fd))

Paired(c) == c.wid # NoPeer /\ c.wfd # NoFd

\* The ids of the connections that disconnectBySockfd finds for the descriptors fds.
Found(s, fds) == {ConnByReadFd(s, g) : g \in {h \in fds : Readers(s, h) # {}}}

\* Partners' descriptors of a set of connections.
WriteFds(s, ids) == {s.conn[i].wfd : i \in {j \in ids : Paired(s.conn[j])}}

(***************************************************************************)
(* disconnectBySockfd writes a notice to the partner before it removes the *)
(* connection.  When that write fails, writeMsg calls disconnectBySockfd   *)
(* for the partner, which finds its own connection, and so on: the frames  *)
(* of this recursion are the descriptors reached from fd along failing     *)
(* notices.  It ends only at a frame whose notice can be written, or that  *)
(* has nobody to notify.                                                   *)
(***************************************************************************)
\* Mutant: the partner is torn down by disconnectBySockfd whether its notice fails or not.
HopsAlways(s, fd) == WriteFds(s, Found(s, {fd}))

Hops(s, fd) == {g \in WriteFds(s, Found(s, {fd})) : WriteFails(s, g)}

HopClosed(s, fds) == \A g \in fds : Hops(s, g) \subseteq fds

Frames(s, fd) ==
  LET candidates == {fds \in SUBSET Fds : fd \in fds /\ HopClosed(s, fds)}
  IN  {g \in Fds : \A fds \in candidates : g \in fds}

NeverReturns(s, frames) == \A g \in frames : Hops(s, g) # {}

\* Mutant: a PC that leaves does not tell its TV.
NoticesFromTVs(s, ids) ==
  {[to |-> s.peer[s.conn[i].wfd], kind |-> "tv_offline", of |-> NoPeer] :
      i \in {j \in ids \intersect TVs : Paired(s.conn[j]) /\ ~WriteFails(s, s.conn[j].wfd)}}

\* The notices of the frames that can write theirs.
Notices(s, ids) ==
  {[to   |-> s.peer[s.conn[i].wfd],
    kind |-> IF i \in TVs THEN "tv_offline" ELSE "pc_offline",
    of   |-> NoPeer] :
      i \in {j \in ids : Paired(s.conn[j]) /\ ~WriteFails(s, s.conn[j].wfd)}}

\* Mutant: the partner's Connection survives, as it would without removeConnection(wid).
DisconnectOneSided(s, fd) ==
  LET frames == Frames(s, fd)
      found  == Found(s, frames)
      closed == frames \union WriteFds(s, found)
      s1     == [s EXCEPT !.out   = @ \union Notices(s, found),
                          !.stack = @ \/ NeverReturns(s, frames)]
      s2     == RemoveFilters(RemoveConnections(s1, found), closed)
  IN  Close(RemoveTvinfo(s2, found \intersect TVs), closed)

DisconnectBySockfd(s, fd) ==
  LET frames == Frames(s, fd)
      found  == Found(s, frames)
      closed == frames \union WriteFds(s, found)
      ids    == found \union {s.conn[i].wid : i \in found}
      s1     == [s EXCEPT !.out   = @ \union Notices(s, found),
                          !.stack = @ \/ NeverReturns(s, frames)]
      s2     == RemoveFilters(RemoveConnections(s1, ids), closed)
  IN  Close(RemoveTvinfo(s2, ids \intersect TVs), closed)

\* writeMsg to a relay socket: a failing write tears the receiver's session down.
WriteMsg(s, fd, kind) ==
  IF WriteFails(s, fd) THEN DisconnectBySockfd(s, fd) ELSE Deliver(s, fd, kind, NoPeer)

\* writeMsgToPhpSocket: a failing write is ignored.
WriteMsgToPhp(s, fd, kind, t) ==
  IF WriteFails(s, fd) THEN s ELSE Deliver(s, fd, kind, t)

\* Mutant: the socket leaves epoll but is not closed.
UnpollOnly(s, fd, kind) ==
  LET s1 == WriteMsg(s, fd, kind)
  IN  [s1 EXCEPT !.polled = @ \ {fd}]

\* disconnectToWebSocket, disconnectToTcpSocket: a last message, then close.
HangUp(s, fd, kind) == Close(WriteMsg(s, fd, kind), {fd})

\* Mutant: the older PC's Connection survives the hand-over.
ReplaceOneSided(s, fd) ==
  LET s1 == RemoveFilters([s EXCEPT !.polled = @ \ {fd}], {fd})
      i  == ConnByReadFd(s, fd)
      c  == s.conn[i]
      s2 == Close(HangUp(s1, c.wfd, "another_pc"), {fd})
  IN  IF Readers(s, fd) = {} THEN s1
      ELSE IF Paired(c) THEN RemoveFilters(RemoveConnections(s2, {i}), {c.wfd})
      ELSE RemoveConnections(s1, {i})

\* disconnectBySockfd(sockfd, DISCONNECT_REPLACE).
DisconnectReplace(s, fd) ==
  LET s1 == RemoveFilters([s EXCEPT !.polled = @ \ {fd}], {fd})
      i  == ConnByReadFd(s, fd)
      c  == s.conn[i]
      s2 == Close(HangUp(s1, c.wfd, "another_pc"), {fd})
  IN  IF Readers(s, fd) = {} THEN s1
      ELSE IF Paired(c) THEN RemoveFilters(RemoveConnections(s2, {c.wid, i}), {c.wfd})
      ELSE RemoveConnections(s1, {i})

-----------------------------------------------------------------------------
(* From a snapshot back to the variables.                                    *)

Dies(why) ==
  /\ fate' = why
  /\ peer' = [g \in Fds |-> NoPeer] /\ conn' = [i \in Ids |-> NoConn]
  /\ tvinfo' = [t \in TVs |-> NoEntry] /\ armed' = FALSE
  /\ dead' = {} /\ polled' = {} /\ filter' = {} /\ online' = {} /\ out' = {}

Becomes(s, timer) ==
  IF s.stack
  THEN Dies("stack")
  ELSE /\ fate' = "running"
       /\ peer' = s.peer /\ polled' = s.polled /\ filter' = s.filter
       /\ conn' = s.conn /\ tvinfo' = s.tvinfo /\ online' = s.online
       /\ out' = s.out /\ armed' = timer
       /\ dead' = {g \in dead : s.peer[g] # NoPeer}

(***************************************************************************)
(* A package handler whose calls removed the filter of its own descriptor  *)
(* goes on with `while (reader->getPackQueue(..))` on the deleted reader:   *)
(* the freed queue still looks empty and the loop ends, or the memory has  *)
(* been used again and the process dies.                                   *)
(***************************************************************************)
Handled(fd, s) ==
  \/ Becomes(s, armed)
  \/ fd \notin s.filter /\ Dies("freed")

Live(fd, devices) == fate = "running" /\ fd \in polled /\ peer[fd] \in devices
Reads(fd, devices) == Live(fd, devices) /\ fd \in filter

Registered(i) == conn[i].rfd # NoFd

-----------------------------------------------------------------------------
(* The network.                                                              *)

FreeFds == {g \in Fds : peer[g] = NoPeer}

\* The accept loop: the kernel hands out the lowest free descriptor.
Accept(d) ==
  /\ fate = "running" /\ FreeFds # {}
  /\ LET fd == Min(FreeFds)
     IN  /\ peer' = [peer EXCEPT ![fd] = d]
         /\ polled' = polled \union {fd}
         /\ filter' = IF d \in Ids THEN filter \union {fd} ELSE filter
  /\ out' = {}
  /\ UNCHANGED <<dead, conn, tvinfo, online, armed, fate, overlapped>>

\* The link of fd breaks (reset, or three keepalive probes unanswered): writes fail from now on.
LinkDies(fd) ==
  /\ fate = "running" /\ peer[fd] # NoPeer /\ fd \notin dead
  /\ dead' = dead \union {fd}
  /\ out' = {}
  /\ UNCHANGED <<peer, polled, filter, conn, tvinfo, online, armed, fate, overlapped>>

\* The epoll loop reads end of file, an error, or nothing at all on a relay socket.
Disconnect(fd) ==
  /\ Live(fd, Ids)
  /\ Becomes(DisconnectBySockfd(Snapshot, fd), armed)
  /\ UNCHANGED overlapped

-----------------------------------------------------------------------------
(* TcpSocketServer::parseDataPackage, one action per command.                *)

\* REG_TV asks the TV list whether a PHP client waits, then registers over any older connection.
RegisterTv(s, fd, t) ==
  WriteMsg([s EXCEPT !.conn[t] = [rfd |-> fd, wfd |-> NoFd, wid |-> NoPeer]], fd, "srv_id")

InSession(t) == \E p \in PCs : conn[p].wid = t

RegTv(fd) ==
  /\ Reads(fd, TVs)
  /\ LET t  == peer[fd]
         s1 == IF tvinfo[t].dev = "pc"
               THEN SetTvinfo(WriteMsgToPhp(Snapshot, tvinfo[t].php, "ok", t), t, NoEntry)
               ELSE SetTvinfo(Snapshot, t, AcceptedEntry)
     IN  /\ Handled(fd, RegisterTv(s1, fd, t))
         /\ overlapped' = (overlapped \/ InSession(t))

RegTvTest(fd) ==
  /\ Reads(fd, TVs)
  /\ Handled(fd, RegisterTv(Snapshot, fd, peer[fd]))
  /\ overlapped' = (overlapped \/ InSession(peer[fd]))

RejectHelp(fd) ==
  /\ Reads(fd, TVs)
  /\ LET t == peer[fd]
     IN  Becomes(IF tvinfo[t].dev = "pc"
                 THEN SetTvinfo(WriteMsgToPhp(Snapshot, tvinfo[t].php, "refuse", t), t, NoEntry)
                 ELSE SetTvinfo(Snapshot, t, RefusedEntry), armed)
  /\ UNCHANGED overlapped

AnotherPcCtrl(fd) ==
  /\ Reads(fd, TVs)
  /\ Handled(fd, DisconnectReplace(Snapshot, fd))
  /\ UNCHANGED overlapped

TvExitCtrl(fd) ==
  /\ Reads(fd, TVs)
  /\ Handled(fd, DisconnectBySockfd(Snapshot, fd))
  /\ UNCHANGED overlapped

\* Any other package is forwarded to the connection of its target.
Forward(fd, target) ==
  /\ Registered(target)
  /\ Handled(fd, WriteMsg(Snapshot, conn[target].rfd, "data"))
  /\ UNCHANGED overlapped

TvData(fd, pc) == Reads(fd, TVs) /\ Forward(fd, pc)

-----------------------------------------------------------------------------
(* WebSocketServer.                                                          *)

\* do_handshake only answers: the server keeps no record that it took place.
Handshake(fd) ==
  /\ Live(fd, PCs)
  /\ Becomes(WriteMsg(Snapshot, fd, "handshake"), armed)
  /\ UNCHANGED overlapped

\* Mutant: the TV's Connection is not told who its PC is.
PairOneWay(s, fd, p, t) ==
  [s EXCEPT !.conn[p] = [rfd |-> fd, wfd |-> s.conn[t].rfd, wid |-> t]]

\* The PC takes TV t: each becomes the other's partner, whoever was before.
Pair(s, fd, p, t) ==
  [s EXCEPT !.conn[t] = [rfd |-> s.conn[t].rfd, wfd |-> fd, wid |-> p],
            !.conn[p] = [rfd |-> fd, wfd |-> s.conn[t].rfd, wid |-> t]]

Overtakes(p, t) ==
  \/ \E q \in PCs \ {p} : conn[q].wid = t
  \/ conn[p].wid \notin {NoPeer, t}

(***************************************************************************)
(* The second and third replies are written whatever became of the first.  *)
(* If a failed reply has torn the session down, tv_conn has been deleted   *)
(* when its descriptor is read for the third: any number may be there.     *)
(***************************************************************************)
RegPc(fd, t) ==
  /\ Reads(fd, PCs) /\ Registered(t)
  /\ LET p     == peer[fd]
         s1    == WriteMsg(Pair(Snapshot, fd, p, t), fd, "srv_id")
         s2    == WriteMsg(s1, fd, "tv_id")
         freed == s2.conn[t] = NoConn
         tell(g) == IF g = NoFd THEN s2 ELSE WriteMsg(s2, g, "pc_id")
     IN  /\ \E g \in IF freed THEN Fds \union {NoFd} ELSE {conn[t].rfd} :
              Handled(fd, InsertOnline(tell(g), t))
         /\ overlapped' = (overlapped \/ Overtakes(p, t) \/ freed)

\* The PC leaves: its own socket is told and closed first, then the TV's.
PcNeedExit(fd) ==
  /\ Reads(fd, PCs) /\ Registered(peer[fd])
  /\ LET p  == peer[fd]
         c  == conn[p]
         s1 == HangUp(HangUp(Snapshot, fd, "tv_offline"), c.wfd, "pc_offline")
         s2 == RemoveFilters(RemoveConnections(s1, {p, c.wid}), {fd, c.wfd})
     IN  Handled(fd, RemoveTvinfo(s2, {c.wid}))
  /\ UNCHANGED overlapped

PcData(fd, tv) == Reads(fd, PCs) /\ Forward(fd, tv)

-----------------------------------------------------------------------------
(* PhpSocketServer::receiverMsg, one action per outcome, and its timer.      *)

Asked(fd) == Asks[peer[fd]]

\* A socket closed while an entry waits on it: the entry names a free descriptor from now on.
Abandons(fd) == \E t \in TVs : tvinfo[t].php = fd

PhpExist(fd) ==
  /\ Live(fd, Phps) /\ Asked(fd) \in online
  /\ Becomes(Close(WriteMsgToPhp(Snapshot, fd, "exist", Asked(fd)), {fd}), TRUE)
  /\ overlapped' = (overlapped \/ Abandons(fd))

\* Mutant: the older client is closed but the entry still names its socket.
ReplaceKeepsEntry(fd) ==
  /\ Live(fd, Phps) /\ Asked(fd) \notin online
  /\ LET t   == Asked(fd)
         old == tvinfo[t].php
     IN  /\ tvinfo[t].dev = "pc"
         /\ Becomes(Close(WriteMsgToPhp(Snapshot, old, "replace", t), {old}), TRUE)
         /\ overlapped' = (overlapped \/ old = fd)

\* The newer client takes the entry; the older one's socket is closed, even if it is this one.
PhpReplace(fd) ==
  /\ Live(fd, Phps) /\ Asked(fd) \notin online
  /\ LET t   == Asked(fd)
         old == tvinfo[t].php
         s   == Close(WriteMsgToPhp(Snapshot, old, "replace", t), {old})
     IN  /\ tvinfo[t].dev = "pc"
         /\ Becomes(SetTvinfo(s, t, PcEntry(fd)), TRUE)
         /\ overlapped' = (overlapped \/ old = fd)

PhpVerdict(fd) ==
  /\ Live(fd, Phps) /\ Asked(fd) \notin online
  /\ LET t == Asked(fd)
         s == WriteMsgToPhp(Snapshot, fd, IF tvinfo[t].refuse THEN "refuse" ELSE "ok", t)
     IN  /\ tvinfo[t].dev = "tv"
         /\ Becomes(Close(SetTvinfo(s, t, NoEntry), {fd}), armed)
  /\ UNCHANGED overlapped

\* Mutant: the timer is not started for the first entry.
WaitUnarmed(fd) ==
  /\ Live(fd, Phps) /\ Asked(fd) \notin online
  /\ tvinfo[Asked(fd)].dev = "none"
  /\ Becomes(SetTvinfo(Snapshot, Asked(fd), PcEntry(fd)), armed)
  /\ UNCHANGED overlapped

PhpWait(fd) ==
  /\ Live(fd, Phps) /\ Asked(fd) \notin online
  /\ tvinfo[Asked(fd)].dev = "none"
  /\ Becomes(SetTvinfo(Snapshot, Asked(fd), PcEntry(fd)), TRUE)
  /\ UNCHANGED overlapped

\* PhpSocketServer::disconnect closes the socket and leaves the entry that names it.
PhpDisconnect(fd) ==
  /\ Live(fd, Phps)
  /\ Becomes(Close(Snapshot, {fd}), armed)
  /\ overlapped' = (overlapped \/ Abandons(fd))

\* An entry grows older than PHP_TIMEOUT.
Age(t) ==
  /\ fate = "running" /\ tvinfo[t].dev # "none" /\ ~tvinfo[t].old
  /\ tvinfo' = [tvinfo EXCEPT ![t].old = TRUE]
  /\ out' = {}
  /\ UNCHANGED <<peer, dead, polled, filter, conn, online, armed, fate, overlapped>>

\* dealPhpSocketTimeout, every three seconds once armed.
Expired == {t \in TVs : tvinfo[t].old}

\* Mutant: expired entries are erased without a word.
SilentTick ==
  /\ fate = "running" /\ armed /\ Expired # {}
  /\ tvinfo' = [t \in TVs |-> IF t \in Expired THEN NoEntry ELSE tvinfo[t]]
  /\ out' = {}
  /\ UNCHANGED <<peer, dead, polled, filter, conn, online, armed, fate, overlapped>>

Tick ==
  /\ fate = "running" /\ armed /\ Expired # {}
  /\ tvinfo' = [t \in TVs |-> IF t \in Expired THEN NoEntry ELSE tvinfo[t]]
  /\ out' = {[to |-> peer[tvinfo[t].php], kind |-> "timeout", of |-> t] :
                t \in {u \in Expired : /\ tvinfo[u].php # NoFd
                                       /\ ~WriteFails(Snapshot, tvinfo[u].php)}}
  /\ UNCHANGED <<peer, dead, polled, filter, conn, online, armed, fate, overlapped>>

-----------------------------------------------------------------------------
Init ==
  /\ peer = [g \in Fds |-> NoPeer] /\ conn = [i \in Ids |-> NoConn]
  /\ tvinfo = [t \in TVs |-> NoEntry]
  /\ dead = {} /\ polled = {} /\ filter = {} /\ online = {} /\ out = {}
  /\ armed = FALSE /\ fate = "running" /\ overlapped = FALSE

NetworkStep(fd) == LinkDies(fd) \/ Disconnect(fd)

TcpStep(fd) ==
  \/ RegTv(fd) \/ RegTvTest(fd) \/ RejectHelp(fd) \/ AnotherPcCtrl(fd) \/ TvExitCtrl(fd)
  \/ \E pc \in PCs : TvData(fd, pc)

WebStep(fd) ==
  \/ Handshake(fd) \/ PcNeedExit(fd)
  \/ \E tv \in TVs : RegPc(fd, tv) \/ PcData(fd, tv)

PhpStep(fd) ==
  PhpExist(fd) \/ PhpReplace(fd) \/ PhpVerdict(fd) \/ PhpWait(fd) \/ PhpDisconnect(fd)

Next ==
  \/ \E d \in Devices : Accept(d)
  \/ \E fd \in Fds : NetworkStep(fd) \/ TcpStep(fd) \/ WebStep(fd) \/ PhpStep(fd)
  \/ \E t \in TVs : Age(t)
  \/ Tick

\* Time passes, and the itimer keeps raising SIGALRM.
Fairness == WF_vars(Tick) /\ \A t \in TVs : WF_vars(Age(t))

Spec == Init /\ [][Next]_vars /\ Fairness

-----------------------------------------------------------------------------
(* Invariants.  `overlapped` names the two situations the program has no     *)
(* defence against (see the README); what they cost is shown by the runs     *)
(* that expect a violation.                                                  *)

Open(fd) == peer[fd] # NoPeer

\* Every socket of the relay that an epoll loop still polls has a package reader, so no
\* client is served by a loop that drops all it says; and unless overtaken, a reader
\* exists only for an open relay socket (ConnectFilterManager against the descriptor table).
ReadersMatchSockets ==
  /\ \A fd \in polled : Open(fd) /\ (peer[fd] \in Ids => fd \in filter)
  /\ ~overlapped => \A fd \in filter : peer[fd] \in Ids

\* A registered id is read from an open socket, and that socket is the device's own:
\* no close, and no reuse of a descriptor number, leaves the registry pointing at another.
RegistrySound ==
  ~overlapped => \A i \in Ids : Registered(i) => peer[conn[i].rfd] = i

\* The two Connections of a session name each other, by id and by descriptor; a PC is
\* registered only inside a session.
PairingSymmetric ==
  ~overlapped =>
    \A i \in Ids :
      /\ i \in PCs /\ Registered(i) => conn[i].wid # NoPeer
      /\ conn[i].wid # NoPeer =>
           LET j == conn[i].wid
           IN  /\ i \in TVs <=> j \in PCs
               /\ conn[j].wid = i /\ conn[j].wfd = conn[i].rfd /\ conn[i].wfd = conn[j].rfd

\* While a TV is in a session it is on the online list, so that PHP clients asking for it
\* are told "exist".
SessionIsOnline ==
  ~overlapped => \A t \in TVs : conn[t].wid # NoPeer => t \in online

\* The descriptor a waiting entry will be answered on belongs to a PHP client that asked for
\* this TV, however many clients came and went (TVListManager against the descriptor table).
EntryNamesAsker ==
  ~overlapped =>
    \A t \in TVs : tvinfo[t].dev = "pc" =>
      /\ peer[tvinfo[t].php] \in Phps
      /\ Asks[peer[tvinfo[t].php]] = t

-----------------------------------------------------------------------------
(* What a step may never do.                                                 *)

Closed == {fd \in Fds : peer[fd] # NoPeer /\ peer'[fd] # peer[fd]}
Survives == fate' = "running"
Told(d, kinds) == \E m \in out' : m.to = d /\ m.kind \in kinds
SessionOver(t) == conn[t].wid # NoPeer /\ conn'[t].wid = NoPeer

\* A teardown, its nested teardowns included, closes the sockets of one session only: two
\* devices that lose a socket in the same step are a TV and a PC, neither of them in session
\* with another (disconnectBySockfd and the closes of both sides it makes).
NoBystanderStep ==
  Survives /\ ~overlapped' =>
    \A f \in Closed, g \in Closed : peer[f] # peer[g] =>
      \E t \in TVs, p \in PCs :
        /\ {peer[f], peer[g]} = {t, p}
        /\ conn[t].wid \in {NoPeer, p} /\ conn[p].wid \in {NoPeer, t}
NoBystander == [][NoBystanderStep]_vars

\* A session never ends silently: one of its two ends is told in the step that ends it,
\* also when the notice to the other end fails and the teardown nests.
SessionEndIsToldStep ==
  Survives /\ ~overlapped' =>
    \A t \in TVs : SessionOver(t) =>
      \/ Told(conn[t].wid, {"tv_offline", "another_pc"})
      \/ Told(t, {"pc_offline"})
SessionEndIsTold == [][SessionEndIsToldStep]_vars

\* A session that ends leaves the TV on neither list, so that the next PHP client asking for it
\* has to wait for the TV.  Two steps end a session and leave the TV online: the TV's own
\* report of another PC, and a REG_PC whose replies run into a dead TV.
SessionEndClearsListsStep ==
  Survives /\ ~overlapped' =>
    \A t \in TVs : SessionOver(t) /\ ~Told(conn[t].wid, {"another_pc", "tv_id"}) =>
      t \notin online' /\ tvinfo'[t] = NoEntry
SessionEndClearsLists == [][SessionEndClearsListsStep]_vars

\* A waiting PHP client that is still connected and can be written loses its entry only by
\* being told something, or because a socket of the TV is torn down.
EntryDropIsToldStep ==
  Survives /\ ~overlapped' =>
    \A t \in TVs :
      LET fd == tvinfo[t].php
      IN  /\ tvinfo[t].dev = "pc" /\ tvinfo'[t].php # fd /\ fd \notin dead
          => \/ Told(peer[fd], {"ok", "refuse", "timeout", "replace"})
             \/ \E g \in Closed : peer[g] = t
EntryDropIsTold == [][EntryDropIsToldStep]_vars

\* A socket an epoll loop gives up is closed, except that of a TV which reports another PC
\* while it is in no session: that socket stays open and unserved.
ServedUntilClosedStep ==
  Survives =>
    \A fd \in polled \ polled' : Open(fd) /\ peer'[fd] = peer[fd] =>
      /\ peer[fd] \in TVs /\ fd \notin filter'
      /\ ~overlapped => \A i \in Ids : conn[i].rfd = fd => conn[i].wid = NoPeer
ServedUntilClosed == [][ServedUntilClosedStep]_vars

\* The recursion of disconnectBySockfd runs away only when the socket of a registered TV is
\* already dead: a lost PC alone never takes the server down.
RunawayNeedsDeadTvStep ==
  fate' = "stack" /\ ~overlapped' =>
    \E t \in TVs : Registered(t) /\ conn[t].rfd \in dead
RunawayNeedsDeadTv == [][RunawayNeedsDeadTvStep]_vars

-----------------------------------------------------------------------------
(* Liveness.                                                                 *)

Waits(t, fd) == tvinfo[t].dev = "pc" /\ tvinfo[t].php = fd /\ peer[fd] \in Phps

\* No PHP client waits for ever, and no socket keeps one client after the other waiting: an entry
\* is answered, replaced or timed out, or its socket goes, whatever TVs and PCs do.
WaitEnds == \A t \in TVs, fd \in Fds : Waits(t, fd) ~> ~Waits(t, fd)

-----------------------------------------------------------------------------
(* What the comments of the code say, and the code does not do.              *)

\* CommandId.h: CMD_NOTIFY_TV_OFFLINE tells the PC that the TV of its session has lost the
\* server.  So a PC that controls a TV is told when the TV's connection is removed, unless
\* its own socket is closed in the same step.
TvLossIsTold ==
  [][ \A t \in TVs, p \in PCs :
        /\ conn[p].wid = t /\ peer[conn[p].rfd] = p /\ conn[p].rfd \notin dead
        /\ Registered(t) /\ conn'[t] = NoConn /\ Survives
        => Told(p, {"tv_offline", "another_pc"}) \/ conn[p].rfd \in Closed ]_vars

\* TcpSocketServer.cpp, REG_TV: when an entry exists, tell its PHP client that the TV accepts.
\* So an "ok" about a TV reaches a PHP client that asked for that TV.
VerdictToAsker ==
  [][ \A m \in out' : m.kind = "ok" => m.to \in Phps /\ Asks[m.to] = m.of ]_vars

\* WebSocketServer.cpp, PC_NEED_EXIT: the PC disconnects from the server.  So the command
\* ends a session, not the process.
ExitOnlyDisconnects ==
  [][ \A fd \in Fds : PcNeedExit(fd) => fate' # "stack" ]_vars
=============================================================================
