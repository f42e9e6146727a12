----------------------------- MODULE SharedState -----------------------------
(***************************************************************************)
(* What the server threads of the process share, as one record m, and the  *)
(* calls that read or change it.  A call of a manager is one step: each    *)
(* takes the manager's mutex for its whole body.  What it returns is a     *)
(* value that outlives the lock: a number, a flag, or a pointer.           *)
(***************************************************************************)
EXTENDS Integers, Sequences, FiniteSetsExt

CONSTANTS
  TVs, PCs,  \* ids of the devices of the relay
  Phps,      \* the clients of the PHP port
  Fds,       \* the descriptors of the process
  MaxSize    \* mMaxFileSize: the lines a log file takes before it is rotated

Ids     == TVs \union PCs
Devices == Ids \union Phps
NoPeer  == 0
NoFd    == -1
Null    == 0

ASSUME SharedAssumption ==
  /\ Devices \subseteq Nat \ {NoPeer} /\ TVs \intersect PCs = {} /\ Ids \intersect Phps = {}
  /\ Fds \subseteq Nat /\ IsFiniteSet(Fds) /\ IsFiniteSet(Devices)
  /\ MaxSize \in Nat \ {0}

\* A TVInfoNode, and the node of m_tvinfo_map that holds it.
NoEntry == [dev |-> "none", refuse |-> FALSE, php |-> NoFd, old |-> FALSE, node |-> Null]
TVInfoNode(dev, refuse, php, old) ==
  [dev |-> dev, refuse |-> refuse, php |-> php, old |-> old, node |-> Null]

Connection(fd, id) == [rfd |-> fd, wfd |-> NoFd, id |-> id, wid |-> NoPeer, live |-> TRUE]

\* The Logger when constructed: no file, no line counted.
NewLogger == [fd |-> NoFd, size |-> 0, last |-> 0, old |-> 0]

Empty == [
  peer   |-> [fd \in Fds |-> NoPeer],     \* the descriptor table: the client at the other end
  dead   |-> {},                          \* open descriptors on which a write fails
  filter |-> [fd \in Fds |-> NoPeer],     \* ConnectFilterManager: whose bytes a reader takes
  loose  |-> {},                          \* readers that were deleted
  conn   |-> [i \in Ids |-> Null],        \* ConnectionManager: pointers
  heap   |-> <<>>,                        \* the Connection objects, deleted ones too
  tvinfo |-> [t \in TVs |-> NoEntry],     \* TVListManager
  nodes  |-> 0,                           \* map nodes allocated so far
  online |-> {},                          \* TVOnlineListManager
  log    |-> NewLogger,
  inode  |-> [fd \in Fds |-> Null],       \* the descriptor table: the file behind a descriptor
  lines  |-> <<>>,                        \* what each file holds
  dir    |-> {},                          \* the log directory: pairs of a name and a file
  now    |-> [day |-> 1, second |-> 1],
  rename |-> TRUE,                        \* whether the log directory lets files be renamed
  turned |-> {},                          \* history: which lines' LOG calls rotated the log
  stamps |-> <<>>,                        \* history: the names given to rotated files
  units  |-> {},                          \* translation units whose statics are initialised
  begun  |-> {},                          \* threads that pthread_create has started
  taken  |-> {},                          \* servers whose port another process holds
  served |-> {},                          \* servers that wait for events of their port
  junk   |-> FALSE,                       \* an m_epollfd never set happens to name an epoll
  out    |-> {},                          \* what was written to sockets that took it
  fate   |-> "running"]                   \* or how the process ended

\* A call's effect: the state after it, and the calls that follow from it.
Then(m, calls) == [mem |-> m, then |-> calls]
Dies(m, fate)  == Then([m EXCEPT !.fate = fate], <<>>)

-----------------------------------------------------------------------------
(* The kernel.                                                               *)

Open(m, fd)       == fd \in Fds /\ m.peer[fd] # NoPeer
WriteFails(m, fd) == ~Open(m, fd) \/ fd \in m.dead
FreeFds(m)        == {fd \in Fds : m.peer[fd] = NoPeer /\ m.inode[fd] = Null}

Deliver(m, fd, kind) == [m EXCEPT !.out = @ \union {<<m.peer[fd], kind>>}]

\* shutdown and close: of whatever the number means by now.
Close(m, fd) ==
  IF fd \in Fds THEN [m EXCEPT !.peer[fd] = NoPeer, !.inode[fd] = Null, !.dead = @ \ {fd}] ELSE m

-----------------------------------------------------------------------------
(* ConnectionManager.  Its two getters return a pointer out of the lock.     *)

GetConnectionById(m, id) == IF id \in Ids THEN m.conn[id] ELSE Null

\* The first match in the order of the ids.
GetConnByReadSockfd(m, fd) ==
  LET found == {i \in Ids : m.conn[i] # Null /\ m.heap[m.conn[i]].rfd = fd}
  IN  IF found = {} THEN Null ELSE m.conn[Min(found)]

\* A Connection that was there before is not deleted.
InsertConnection(m, id, object) ==
  [m EXCEPT !.heap = Append(@, object), !.conn[id] = Len(m.heap) + 1]

RemoveConnection(m, id) ==
  IF GetConnectionById(m, id) = Null THEN m
  ELSE [m EXCEPT !.heap[m.conn[id]].live = FALSE, !.conn[id] = Null]

-----------------------------------------------------------------------------
(* ConnectFilterManager.                                                     *)

GetConnFilter(m, fd) == m.filter[fd]

InsertConnFilterMap(m, fd, d) == [m EXCEPT !.filter[fd] = d]

RemoveConnFilter(m, fd) ==
  IF fd \notin Fds \/ m.filter[fd] = NoPeer THEN m
  ELSE [m EXCEPT !.loose = @ \union {m.filter[fd]}, !.filter[fd] = NoPeer]

-----------------------------------------------------------------------------
(* TVListManager and TVOnlineListManager.                                    *)

\* An entry that was there before is replaced in its map node, and not deleted.
InsertTVinfo(m, t, entry) ==
  IF m.tvinfo[t] = NoEntry
  THEN [m EXCEPT !.nodes = @ + 1, !.tvinfo[t] = [entry EXCEPT !.node = m.nodes + 1]]
  ELSE [m EXCEPT !.tvinfo[t] = [entry EXCEPT !.node = m.tvinfo[t].node]]

IsTVinfoExist(m, t, dev) == m.tvinfo[t].dev = dev
GetPhpSock(m, t)         == m.tvinfo[t].php
GetIsRefuse(m, t)        == m.tvinfo[t].refuse

RemoveTvinfo(m, t) == IF t \in TVs THEN [m EXCEPT !.tvinfo[t] = NoEntry] ELSE m

IsOnline(m, t)     == t \in m.online
InsertOnline(m, t) == [m EXCEPT !.online = @ \union {t}]
RemoveOnline(m, t) == [m EXCEPT !.online = @ \ {t}]
=============================================================================
