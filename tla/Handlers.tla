------------------------------ MODULE Handlers ------------------------------
(***************************************************************************)
(* The handlers of the relay servers, call by call.  A handler is a list   *)
(* of calls; performing one changes the shared state and may put further   *)
(* calls, those its caller's code makes with the value returned, in front  *)
(* of the rest.  A call record names the point in the code (do) and the    *)
(* values of the locals it uses.                                           *)
(***************************************************************************)
EXTENDS SharedState

\* The code reads or writes the Connection at p, outside the lock.
Freed(m, p) == ~m.heap[p].live

-----------------------------------------------------------------------------
(* writeMsg and the teardown of SocketServer.                                *)

Hang(fd, kind) == <<[do |-> "write", fd |-> fd, kind |-> kind], [do |-> "close", fd |-> fd]>>
Forget(id, fd) == <<[do |-> "removeConn", id |-> id], [do |-> "removeFilter", fd |-> fd]>>
Unlist(id)     == <<[do |-> "removeTv", id |-> id], [do |-> "removeOnline", id |-> id]>>

WriteMsg(m, fd, kind) ==
  IF WriteFails(m, fd) THEN Then(m, <<[do |-> "disconnect", fd |-> fd]>>)
  ELSE Then(Deliver(m, fd, kind), <<>>)

\* writeMsgToPhpSocket: a failed write is ignored.
WriteMsgToPhp(m, fd, kind) ==
  Then(IF WriteFails(m, fd) THEN m ELSE Deliver(m, fd, kind), <<>>)

DisconnectBySockfd(m, fd) ==
  Then(RemoveConnFilter(m, fd), <<[do |-> "findReader", fd |-> fd, how |-> "lost"]>>)

DisconnectReplace(m, fd) ==
  Then(RemoveConnFilter(m, fd), <<[do |-> "findReader", fd |-> fd, how |-> "replaced"]>>)

FindReader(m, fd, how) ==
  LET p == GetConnByReadSockfd(m, fd)
  IN  IF p # Null THEN Then(m, <<[do |-> how, fd |-> fd, p |-> p]>>)
      ELSE Then(m, IF how = "lost" THEN <<[do |-> "close", fd |-> fd]>> ELSE <<>>)

Paired(c) == c.wid # NoPeer /\ c.wfd # NoFd

\* The rest of disconnectBySockfd once the Connection is found.
Lost(m, fd, p) ==
  LET c    == m.heap[p]
      last == <<[do |-> "removeConn", id |-> c.id], [do |-> "close", fd |-> fd]>>
  IN  IF Freed(m, p) THEN Dies(m, "freed")
      ELSE IF Paired(c)
      THEN Then(m, Hang(c.wfd, IF c.id \in PCs THEN "pc_offline" ELSE "tv_offline")
                   \o Forget(c.wid, c.wfd)
                   \o Unlist(IF c.id \in PCs THEN c.wid ELSE c.id) \o last)
      ELSE Then(m, (IF c.id \in TVs THEN Unlist(c.id) ELSE <<>>) \o last)

\* The rest of disconnectBySockfd(fd, DISCONNECT_REPLACE).
Replaced(m, fd, p) ==
  LET c == m.heap[p]
  IN  IF Freed(m, p) THEN Dies(m, "freed")
      ELSE Then(m, (IF Paired(c)
                    THEN Hang(c.wfd, "another_pc") \o <<[do |-> "close", fd |-> fd]>>
                         \o Forget(c.wid, c.wfd)
                    ELSE <<>>) \o <<[do |-> "removeConn", id |-> c.id]>>)

-----------------------------------------------------------------------------
(* TcpSocketServer.                                                          *)

Register(fd, t) ==
  <<[do |-> "insertConn", id |-> t, object |-> Connection(fd, t)],
    [do |-> "write", fd |-> fd, kind |-> "srv_id"]>>

\* REG_TV and REJECT_HELP ask for the entry first, and fetch the socket in a second call.
RegTv(m, fd, t) ==
  Then(m, (IF IsTVinfoExist(m, t, "pc")
           THEN <<[do |-> "answer", id |-> t, kind |-> "ok"]>>
           ELSE <<[do |-> "insertTv", id |-> t, entry |-> TVInfoNode("tv", FALSE, NoFd, FALSE)]>>)
          \o Register(fd, t))

RejectHelp(m, t) ==
  Then(m, IF IsTVinfoExist(m, t, "pc")
          THEN <<[do |-> "answer", id |-> t, kind |-> "refuse"]>>
          ELSE <<[do |-> "insertTv", id |-> t, entry |-> TVInfoNode("tv", TRUE, NoFd, TRUE)]>>)

Answer(m, t, kind) ==
  Then(m, <<[do |-> "tellPhp", fd |-> GetPhpSock(m, t), kind |-> kind],
            [do |-> "removeTv", id |-> t]>>)

\* Forwarding, and the notice of FileSocketServer: the Connection of the target, then its socket.
Forward(m, id) ==
  LET p == GetConnectionById(m, id)
  IN  Then(m, IF p = Null THEN <<>> ELSE <<[do |-> "send", p |-> p]>>)

Send(m, p) ==
  IF Freed(m, p) THEN Dies(m, "freed")
  ELSE Then(m, <<[do |-> "write", fd |-> m.heap[p].rfd, kind |-> "data"]>>)

-----------------------------------------------------------------------------
(* WebSocketServer.                                                          *)

RegPc(m, fd, p, t) ==
  LET tv == GetConnectionById(m, t)
  IN  Then(m, IF tv = Null THEN <<>>
              ELSE <<[do |-> "takeFd", fd |-> fd, p |-> tv],
                     [do |-> "takeId", fd |-> fd, id |-> p, tv |-> t, p |-> tv],
                     [do |-> "write", fd |-> fd, kind |-> "srv_id"],
                     [do |-> "write", fd |-> fd, kind |-> "tv_id"],
                     [do |-> "tellTv", p |-> tv],
                     [do |-> "insertOnline", id |-> t]>>)

\* tv_conn is written without the lock, one member after the other.
TakeFd(m, fd, tv) ==
  IF Freed(m, tv) THEN Dies(m, "freed") ELSE Then([m EXCEPT !.heap[tv].wfd = fd], <<>>)

\* Mutant: the TV's Connection is looked up again.
TakeIdAnew(m, fd, p, t, tv) ==
  IF m.conn[t] = Null \/ Freed(m, tv) THEN Dies(m, "freed")
  ELSE Then([m EXCEPT !.heap[m.conn[t]].wid = p],
            <<[do |-> "insertConn", id |-> p,
               object |-> [Connection(fd, p) EXCEPT !.wfd = m.heap[m.conn[t]].rfd, !.wid = t]]>>)

TakeId(m, fd, p, t, tv) ==
  IF Freed(m, tv) THEN Dies(m, "freed")
  ELSE Then([m EXCEPT !.heap[tv].wid = p],
            <<[do |-> "insertConn", id |-> p,
               object |-> [Connection(fd, p) EXCEPT !.wfd = m.heap[tv].rfd, !.wid = t]]>>)

TellTv(m, tv) ==
  IF Freed(m, tv) THEN Dies(m, "freed")
  ELSE Then(m, <<[do |-> "write", fd |-> m.heap[tv].rfd, kind |-> "pc_id"]>>)

PcNeedExit(m, fd, p) ==
  LET pc == GetConnectionById(m, p)
  IN  Then(m, IF pc = Null THEN <<>> ELSE <<[do |-> "leave", fd |-> fd, id |-> p, p |-> pc]>>)

\* Mutant: the sockets are closed once more at the end.
LeaveTwice(m, fd, p, pc) ==
  LET c == m.heap[pc]
  IN  IF Freed(m, pc) THEN Dies(m, "freed")
      ELSE Then(m, Hang(fd, "tv_offline") \o Hang(c.wfd, "pc_offline")
                   \o Forget(p, fd) \o Forget(c.wid, c.wfd) \o Unlist(c.wid)
                   \o <<[do |-> "close", fd |-> c.wfd]>>)

Leave(m, fd, p, pc) ==
  LET c == m.heap[pc]
  IN  IF Freed(m, pc) THEN Dies(m, "freed")
      ELSE Then(m, Hang(fd, "tv_offline") \o Hang(c.wfd, "pc_offline")
                   \o <<[do |-> "removeConn", id |-> p], [do |-> "removeConn", id |-> c.wid],
                        [do |-> "removeFilter", fd |-> fd], [do |-> "removeFilter", fd |-> c.wfd]>>
                   \o Unlist(c.wid))

-----------------------------------------------------------------------------
(* PhpSocketServer.                                                          *)

Php(m, fd, t) ==
  Then(m, IF IsOnline(m, t)
          THEN <<[do |-> "tellPhp", fd |-> fd, kind |-> "exist"], [do |-> "close", fd |-> fd]>>
          ELSE <<[do |-> "phpSeeksPc", fd |-> fd, id |-> t]>>)

Wait(fd, t) == <<[do |-> "insertTv", id |-> t, entry |-> TVInfoNode("pc", FALSE, fd, FALSE)]>>

PhpSeeksPc(m, fd, t) ==
  Then(m, IF IsTVinfoExist(m, t, "pc")
          THEN <<[do |-> "phpReplaces", id |-> t]>> \o Wait(fd, t)
          ELSE <<[do |-> "phpSeeksTv", fd |-> fd, id |-> t]>>)

PhpReplaces(m, t) ==
  LET old == GetPhpSock(m, t)
  IN  Then(m, IF old = NoFd THEN <<>>
              ELSE <<[do |-> "tellPhp", fd |-> old, kind |-> "replace"], [do |-> "close", fd |-> old]>>)

PhpSeeksTv(m, fd, t) ==
  Then(m, IF IsTVinfoExist(m, t, "tv") THEN <<[do |-> "phpVerdict", fd |-> fd, id |-> t]>>
          ELSE Wait(fd, t))

PhpVerdict(m, fd, t) ==
  Then(m, <<[do |-> "tellPhp", fd |-> fd, kind |-> IF GetIsRefuse(m, t) THEN "refuse" ELSE "ok"],
            [do |-> "removeTv", id |-> t], [do |-> "close", fd |-> fd]>>)

\* dealPhpSocketTimeout at the entry of t: it looks, writes, and erases, without the lock.
Tick(m, t) ==
  LET e == m.tvinfo[t]
  IN  Then(m, IF ~e.old THEN <<>>
              ELSE <<[do |-> "tellPhp", fd |-> e.php, kind |-> "timeout"],
                     [do |-> "tickErase", id |-> t, node |-> e.node]>>)

TickErase(m, t, node) ==
  IF m.tvinfo[t].node # node THEN Dies(m, "freed") ELSE Then(RemoveTvinfo(m, t), <<>>)

-----------------------------------------------------------------------------
(* The accept loop, and the way of a package to its handler.                 *)

\* accept, in the process's descriptor table, and what follows until acceptConnect.
Accept(m, d) ==
  LET fd == Min(FreeFds(m))
  IN  Then([m EXCEPT !.peer[fd] = d],
           <<[do |-> "setnonblocking", fd |-> fd], [do |-> "epollAdd", fd |-> fd]>>
           \o IF d \in Ids THEN <<[do |-> "insertFilter", fd |-> fd, id |-> d]>> ELSE <<>>)

\* fcntl fails on a number that another thread has closed by now, and the process exits.
SetNonblocking(m, fd) ==
  IF Open(m, fd) \/ m.inode[fd] # Null THEN Then(m, <<>>) ELSE Dies(m, "exit")

\* So does epoll_ctl, and also on a number that has become a file's.
EpollAdd(m, fd) == IF Open(m, fd) THEN Then(m, <<>>) ELSE Dies(m, "exit")

\* parseDataPackage fetches the reader of its socket, and adds the bytes to it outside the lock.
Parse(m, fd, handler) ==
  LET r == GetConnFilter(m, fd)
  IN  Then(m, IF r = NoPeer THEN <<>> ELSE <<[do |-> "addBuffer", id |-> r], handler>>)

AddBuffer(m, r) == IF r \in m.loose THEN Dies(m, "freed") ELSE Then(m, <<>>)

-----------------------------------------------------------------------------
PerformHandler(m, c) ==
  CASE c.do = "parse"        -> Parse(m, c.fd, c.handler)
    [] c.do = "addBuffer"    -> AddBuffer(m, c.id)
    [] c.do = "accept"       -> Accept(m, c.id)
    [] c.do = "setnonblocking" -> SetNonblocking(m, c.fd)
    [] c.do = "epollAdd"     -> EpollAdd(m, c.fd)
    [] c.do = "write"        -> WriteMsg(m, c.fd, c.kind)
    [] c.do = "tellPhp"      -> WriteMsgToPhp(m, c.fd, c.kind)
    [] c.do = "close"        -> Then(Close(m, c.fd), <<>>)
    [] c.do = "disconnect"   -> DisconnectBySockfd(m, c.fd)
    [] c.do = "replace"      -> DisconnectReplace(m, c.fd)
    [] c.do = "findReader"   -> FindReader(m, c.fd, c.how)
    [] c.do = "lost"         -> Lost(m, c.fd, c.p)
    [] c.do = "replaced"     -> Replaced(m, c.fd, c.p)
    [] c.do = "insertConn"   -> Then(InsertConnection(m, c.id, c.object), <<>>)
    [] c.do = "removeConn"   -> Then(RemoveConnection(m, c.id), <<>>)
    [] c.do = "insertFilter" -> Then(InsertConnFilterMap(m, c.fd, c.id), <<>>)
    [] c.do = "removeFilter" -> Then(RemoveConnFilter(m, c.fd), <<>>)
    [] c.do = "insertTv"     -> Then(InsertTVinfo(m, c.id, c.entry), <<>>)
    [] c.do = "removeTv"     -> Then(RemoveTvinfo(m, c.id), <<>>)
    [] c.do = "insertOnline" -> Then(InsertOnline(m, c.id), <<>>)
    [] c.do = "removeOnline" -> Then(RemoveOnline(m, c.id), <<>>)
    [] c.do = "regTv"        -> RegTv(m, c.fd, c.id)
    [] c.do = "regTvTest"    -> Then(m, Register(c.fd, c.id))
    [] c.do = "rejectHelp"   -> RejectHelp(m, c.id)
    [] c.do = "answer"       -> Answer(m, c.id, c.kind)
    [] c.do = "forward"      -> Forward(m, c.id)
    [] c.do = "send"         -> Send(m, c.p)
    [] c.do = "regPc"        -> RegPc(m, c.fd, c.id, c.tv)
    [] c.do = "takeFd"       -> TakeFd(m, c.fd, c.p)
    [] c.do = "takeId"       -> TakeId(m, c.fd, c.id, c.tv, c.p)
    [] c.do = "tellTv"       -> TellTv(m, c.p)
    [] c.do = "pcNeedExit"   -> PcNeedExit(m, c.fd, c.id)
    [] c.do = "leave"        -> Leave(m, c.fd, c.id, c.p)
    [] c.do = "php"          -> Php(m, c.fd, c.id)
    [] c.do = "phpSeeksPc"   -> PhpSeeksPc(m, c.fd, c.id)
    [] c.do = "phpReplaces"  -> PhpReplaces(m, c.id)
    [] c.do = "phpSeeksTv"   -> PhpSeeksTv(m, c.fd, c.id)
    [] c.do = "phpVerdict"   -> PhpVerdict(m, c.fd, c.id)
    [] c.do = "tick"         -> Tick(m, c.id)
    [] c.do = "tickErase"    -> TickErase(m, c.id, c.node)
=============================================================================
