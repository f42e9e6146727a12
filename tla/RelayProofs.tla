----------------------------- MODULE RelayProofs -----------------------------
(***************************************************************************)
(* Proofs about Relay, for every choice of its constants.                  *)
(*                                                                         *)
(* The inductive invariant Consistent is stated on a snapshot, so that the *)
(* same formula speaks of the state before a handler, of the snapshot      *)
(* between two of its calls, and of the state it leaves.  Kept is the part *)
(* that always holds; Sound is the part that holds until a registration or *)
(* an entry is overtaken.  Between two calls of a handler that closes      *)
(* sockets before it forgets their connections, Sound holds but for the    *)
(* ids and descriptors the handler is about to forget.                     *)
(***************************************************************************)
EXTENDS Relay, DataLemmas, FiniteSetTheorems

States == [peer : [Fds -> Devices \union {NoPeer}], polled : SUBSET Fds, filter : SUBSET Fds,
           conn : [Ids -> Connection], tvinfo : [TVs -> TVInfoNode], online : SUBSET TVs,
           out : SUBSET Message, stack : BOOLEAN]

-----------------------------------------------------------------------------
(* What each call changes in a snapshot.                                     *)

LEMMA CloseFields ==
  ASSUME NEW s \in States, NEW fds
  PROVE  /\ Close(s, fds) \in States
         /\ Close(s, fds).peer = [g \in Fds |-> IF g \in fds THEN NoPeer ELSE s.peer[g]]
         /\ Close(s, fds).polled = s.polled \ fds
         /\ Close(s, fds).filter = s.filter
         /\ Close(s, fds).conn = s.conn
         /\ Close(s, fds).tvinfo = s.tvinfo
         /\ Close(s, fds).online = s.online
         /\ Close(s, fds).out = s.out
         /\ Close(s, fds).stack = s.stack
BY DEF Close, States

LEMMA RemoveFiltersFields ==
  ASSUME NEW s \in States, NEW fds
  PROVE  /\ RemoveFilters(s, fds) \in States
         /\ RemoveFilters(s, fds).filter = s.filter \ fds
         /\ RemoveFilters(s, fds).peer = s.peer
         /\ RemoveFilters(s, fds).polled = s.polled
         /\ RemoveFilters(s, fds).conn = s.conn
         /\ RemoveFilters(s, fds).tvinfo = s.tvinfo
         /\ RemoveFilters(s, fds).online = s.online
         /\ RemoveFilters(s, fds).out = s.out
         /\ RemoveFilters(s, fds).stack = s.stack
BY DEF RemoveFilters, States

LEMMA RemoveConnectionsFields ==
  ASSUME NEW s \in States, NEW ids
  PROVE  /\ RemoveConnections(s, ids) \in States
         /\ RemoveConnections(s, ids).conn =
              [i \in Ids |-> IF i \in ids THEN NoConn ELSE s.conn[i]]
         /\ RemoveConnections(s, ids).peer = s.peer
         /\ RemoveConnections(s, ids).polled = s.polled
         /\ RemoveConnections(s, ids).filter = s.filter
         /\ RemoveConnections(s, ids).tvinfo = s.tvinfo
         /\ RemoveConnections(s, ids).online = s.online
         /\ RemoveConnections(s, ids).out = s.out
         /\ RemoveConnections(s, ids).stack = s.stack
BY DEF RemoveConnections, States, NoConn, Connection

LEMMA RemoveTvinfoFields ==
  ASSUME NEW s \in States, NEW tvs
  PROVE  /\ RemoveTvinfo(s, tvs) \in States
         /\ RemoveTvinfo(s, tvs).tvinfo =
              [t \in TVs |-> IF t \in tvs THEN NoEntry ELSE s.tvinfo[t]]
         /\ RemoveTvinfo(s, tvs).online = s.online \ tvs
         /\ RemoveTvinfo(s, tvs).peer = s.peer
         /\ RemoveTvinfo(s, tvs).polled = s.polled
         /\ RemoveTvinfo(s, tvs).filter = s.filter
         /\ RemoveTvinfo(s, tvs).conn = s.conn
         /\ RemoveTvinfo(s, tvs).out = s.out
         /\ RemoveTvinfo(s, tvs).stack = s.stack
BY DEF RemoveTvinfo, States, NoEntry, TVInfoNode

LEMMA SetTvinfoFields ==
  ASSUME NEW s \in States, NEW t \in TVs, NEW entry \in TVInfoNode
  PROVE  /\ SetTvinfo(s, t, entry) \in States
         /\ SetTvinfo(s, t, entry).tvinfo = [s.tvinfo EXCEPT ![t] = entry]
         /\ SetTvinfo(s, t, entry).peer = s.peer
         /\ SetTvinfo(s, t, entry).polled = s.polled
         /\ SetTvinfo(s, t, entry).filter = s.filter
         /\ SetTvinfo(s, t, entry).conn = s.conn
         /\ SetTvinfo(s, t, entry).online = s.online
         /\ SetTvinfo(s, t, entry).out = s.out
         /\ SetTvinfo(s, t, entry).stack = s.stack
BY DEF SetTvinfo, States

LEMMA InsertOnlineFields ==
  ASSUME NEW s \in States, NEW t \in TVs
  PROVE  /\ InsertOnline(s, t) \in States
         /\ InsertOnline(s, t).online = s.online \union {t}
         /\ InsertOnline(s, t).peer = s.peer
         /\ InsertOnline(s, t).polled = s.polled
         /\ InsertOnline(s, t).filter = s.filter
         /\ InsertOnline(s, t).conn = s.conn
         /\ InsertOnline(s, t).tvinfo = s.tvinfo
         /\ InsertOnline(s, t).out = s.out
         /\ InsertOnline(s, t).stack = s.stack
BY DEF InsertOnline, States

LEMMA DeliverFields ==
  ASSUME NEW s \in States, NEW fd \in Fds, s.peer[fd] # NoPeer,
         NEW kind \in Kinds, NEW of \in TVs \union {NoPeer}
  PROVE  /\ Deliver(s, fd, kind, of) \in States
         /\ Deliver(s, fd, kind, of).peer = s.peer
         /\ Deliver(s, fd, kind, of).polled = s.polled
         /\ Deliver(s, fd, kind, of).filter = s.filter
         /\ Deliver(s, fd, kind, of).conn = s.conn
         /\ Deliver(s, fd, kind, of).tvinfo = s.tvinfo
         /\ Deliver(s, fd, kind, of).online = s.online
         /\ Deliver(s, fd, kind, of).stack = s.stack
BY DEF Deliver, States, Message

-----------------------------------------------------------------------------
(* The frames of a teardown.                                                 *)

\* The connection found for a descriptor is one that reads it.
LEMMA FoundReads ==
  ASSUME NEW s \in States, NEW fds
  PROVE  /\ Found(s, fds) \subseteq Ids
         /\ \A i \in Found(s, fds) : s.conn[i].rfd \in fds
<1>1. SUFFICES ASSUME NEW g \in fds, Readers(s, g) # {}
               PROVE  ConnByReadFd(s, g) \in Readers(s, g)
  BY <1>1 DEF Found, Readers
<1>2. Readers(s, g) \in SUBSET Nat
  BY RelayAssumption DEF Readers, Devices
<1>3. QED
  BY <1>1, <1>2, MinInSet DEF ConnByReadFd

\* When one id alone reads a descriptor of a teardown, its connection is found.
LEMMA SoleReaderFound ==
  ASSUME NEW s \in States, NEW fds, NEW i \in Ids, s.conn[i].rfd \in fds,
         \A j \in Ids : s.conn[j].rfd = s.conn[i].rfd => j = i
  PROVE  i \in Found(s, fds)
<1> DEFINE g == s.conn[i].rfd
<1>1. Readers(s, g) = {i}
  BY DEF Readers
<1>2. Found(s, {g}) \subseteq Ids /\ ConnByReadFd(s, g) \in Found(s, {g})
  BY <1>1, FoundReads DEF Found
<1>3. ConnByReadFd(s, g) = i
  <2>1. ConnByReadFd(s, g) \in Ids /\ s.conn[ConnByReadFd(s, g)].rfd = g
    BY <1>2, FoundReads
  <2>2. QED
    BY <2>1
<1>4. QED
  BY <1>1, <1>3 DEF Found

LEMMA WriteFdsType ==
  ASSUME NEW s \in States, NEW ids \in SUBSET Ids
  PROVE  WriteFds(s, ids) \subseteq Fds
BY DEF WriteFds, Paired, States, Connection

\* The recursion visits descriptors only: the one it starts from, and partners' descriptors.
LEMMA FramesType ==
  ASSUME NEW s \in States, NEW fd \in Fds
  PROVE  /\ Frames(s, fd) \subseteq Fds
         /\ fd \in Frames(s, fd)
         /\ Frames(s, fd) \subseteq {fd} \union WriteFds(s, Ids)
<1> DEFINE reach == {fd} \union WriteFds(s, Ids)
<1>1. reach \in SUBSET Fds
  BY WriteFdsType
<1>2. HopClosed(s, reach)
  <2>1. \A g : Hops(s, g) \subseteq WriteFds(s, Ids)
    BY FoundReads DEF Hops, WriteFds
  <2>2. QED
    BY <2>1 DEF HopClosed
<1>3. QED
  BY <1>1, <1>2 DEF Frames

\* The descriptors a teardown closes, and the ids whose connections it removes.
TornFds(s, fd) == Frames(s, fd) \union WriteFds(s, Found(s, Frames(s, fd)))
TornIds(s, fd) ==
  LET found == Found(s, Frames(s, fd)) IN found \union {s.conn[i].wid : i \in found}

LEMMA NoticesType ==
  ASSUME NEW s \in States, NEW ids \in SUBSET Ids
  PROVE  Notices(s, ids) \subseteq Message
<1>1. SUFFICES ASSUME NEW i \in ids, Paired(s.conn[i]), ~WriteFails(s, s.conn[i].wfd)
               PROVE  s.peer[s.conn[i].wfd] \in Devices
  BY <1>1 DEF Notices, Message, Kinds
<1>2. s.conn[i].wfd \in Fds
  BY <1>1 DEF States, Connection, Paired
<1>3. s.peer[s.conn[i].wfd] \in Devices \union {NoPeer}
  BY <1>2 DEF States
<1>4. QED
  BY <1>1, <1>3 DEF WriteFails

LEMMA DisconnectFields ==
  ASSUME NEW s \in States, NEW fd \in Fds
  PROVE  LET r == DisconnectBySockfd(s, fd)
         IN  /\ r \in States
             /\ r.peer = [g \in Fds |-> IF g \in TornFds(s, fd) THEN NoPeer ELSE s.peer[g]]
             /\ r.polled = s.polled \ TornFds(s, fd)
             /\ r.filter = s.filter \ TornFds(s, fd)
             /\ r.conn = [i \in Ids |-> IF i \in TornIds(s, fd) THEN NoConn ELSE s.conn[i]]
             /\ r.tvinfo = [t \in TVs |-> IF t \in TornIds(s, fd) THEN NoEntry ELSE s.tvinfo[t]]
             /\ r.online = s.online \ TornIds(s, fd)
             /\ r.out = s.out \union Notices(s, Found(s, Frames(s, fd)))
             /\ r.stack = (s.stack \/ NeverReturns(s, Frames(s, fd)))
<1> DEFINE frames == Frames(s, fd)
           found  == Found(s, frames)
           closed == TornFds(s, fd)
           ids    == TornIds(s, fd)
           s1     == [s EXCEPT !.out   = @ \union Notices(s, found),
                               !.stack = @ \/ NeverReturns(s, frames)]
           s2     == RemoveFilters(RemoveConnections(s1, ids), closed)
           s3     == RemoveTvinfo(s2, ids \intersect TVs)
<1>1. DisconnectBySockfd(s, fd) = Close(s3, closed)
  BY DEF DisconnectBySockfd, TornFds, TornIds
<1>2. /\ s1 \in States
      /\ s1.peer = s.peer /\ s1.polled = s.polled /\ s1.filter = s.filter /\ s1.conn = s.conn
      /\ s1.tvinfo = s.tvinfo /\ s1.online = s.online
      /\ s1.out = s.out \union Notices(s, found)
      /\ s1.stack = (s.stack \/ NeverReturns(s, frames))
  <2>1. Notices(s, found) \subseteq Message
    BY NoticesType, FoundReads
  <2>2. NeverReturns(s, frames) \in BOOLEAN
    BY DEF NeverReturns
  <2>3. QED
    BY <2>1, <2>2 DEF States
<1> HIDE DEF s1, closed, ids
<1>3. s3 \in States /\ s2 \in States /\ RemoveConnections(s1, ids) \in States
  BY <1>2, RemoveConnectionsFields, RemoveFiltersFields, RemoveTvinfoFields
<1>4. /\ s2.peer = s.peer /\ s2.polled = s.polled
      /\ s2.filter = s.filter \ closed
      /\ s2.conn = [i \in Ids |-> IF i \in ids THEN NoConn ELSE s.conn[i]]
      /\ s2.tvinfo = s.tvinfo /\ s2.online = s.online /\ s2.out = s1.out /\ s2.stack = s1.stack
  BY <1>2, <1>3, RemoveConnectionsFields, RemoveFiltersFields
<1> HIDE DEF s2
<1>5. /\ s3.peer = s.peer /\ s3.polled = s.polled
      /\ s3.filter = s.filter \ closed
      /\ s3.conn = [i \in Ids |-> IF i \in ids THEN NoConn ELSE s.conn[i]]
      /\ s3.tvinfo = [t \in TVs |-> IF t \in ids THEN NoEntry ELSE s.tvinfo[t]]
      /\ s3.online = s.online \ ids
      /\ s3.out = s1.out /\ s3.stack = s1.stack
  BY <1>3, <1>4, RemoveTvinfoFields DEF States
<1> HIDE DEF s3
<1>6. QED
  BY <1>1, <1>2, <1>3, <1>5, CloseFields DEF closed, ids

-----------------------------------------------------------------------------
(* The inductive invariant.                                                  *)

\* Kept: every polled relay socket has its reader; a Connection is empty or has a descriptor,
\* has a partner's id exactly when it has the partner's descriptor, and has both if a PC's; an
\* entry of a PHP client has the client's descriptor, and no other entry has one.
Polls(s)  == \A fd \in s.polled : s.peer[fd] # NoPeer /\ (s.peer[fd] \in Ids => fd \in s.filter)
Shaped(s) == \A i \in Ids :
               /\ s.conn[i].rfd = NoFd => s.conn[i] = NoConn
               /\ s.conn[i].wid = NoPeer <=> s.conn[i].wfd = NoFd
               /\ i \in PCs /\ s.conn[i].rfd # NoFd => s.conn[i].wid # NoPeer
Entries(s) == \A t \in TVs : s.tvinfo[t].dev = "pc" <=> s.tvinfo[t].php # NoFd
Kept(s)   == Polls(s) /\ Shaped(s) /\ Entries(s)

\* Sound, but for: connections of ids, which may read a descriptor the handler has closed;
\* descriptors fds, whose readers the handler has yet to remove; TVs tvs, which the handler
\* has yet to put on the online list.
Filters(s, fds)  == \A fd \in s.filter \ fds : s.peer[fd] \in Ids
Reading(s, ids)  == \A i \in Ids : s.conn[i].rfd # NoFd =>
                      \/ s.peer[s.conn[i].rfd] = i
                      \/ i \in ids /\ s.peer[s.conn[i].rfd] = NoPeer
Mutual(s)        == \A i \in Ids :
                      s.conn[i].wid # NoPeer =>
                        /\ i \in TVs <=> s.conn[i].wid \in PCs
                        /\ s.conn[s.conn[i].wid].wid = i
                        /\ s.conn[s.conn[i].wid].wfd = s.conn[i].rfd
                        /\ s.conn[i].wfd = s.conn[s.conn[i].wid].rfd
Online(s, tvs)   == \A t \in TVs \ tvs : s.conn[t].wid # NoPeer => t \in s.online
Asking(s)        == \A t \in TVs : s.tvinfo[t].dev = "pc" =>
                      /\ s.peer[s.tvinfo[t].php] \in Phps
                      /\ Asks[s.peer[s.tvinfo[t].php]] = t
SoundBut(s, ids, fds, tvs) ==
  Filters(s, fds) /\ Reading(s, ids) /\ Mutual(s) /\ Online(s, tvs) /\ Asking(s)
Sound(s) == SoundBut(s, {}, {}, {})

Consistent == TypeOK /\ Kept(Snapshot) /\ (~overlapped => Sound(Snapshot))

-----------------------------------------------------------------------------
(* A teardown preserves the invariant.                                       *)

LEMMA DisconnectKept ==
  ASSUME NEW s \in States, Kept(s), NEW fd \in Fds
  PROVE  Kept(DisconnectBySockfd(s, fd))
<1> DEFINE r == DisconnectBySockfd(s, fd)
<1>0. /\ r \in States
      /\ r.peer = [g \in Fds |-> IF g \in TornFds(s, fd) THEN NoPeer ELSE s.peer[g]]
      /\ r.polled = s.polled \ TornFds(s, fd)
      /\ r.filter = s.filter \ TornFds(s, fd)
      /\ r.conn = [i \in Ids |-> IF i \in TornIds(s, fd) THEN NoConn ELSE s.conn[i]]
      /\ r.tvinfo = [t \in TVs |-> IF t \in TornIds(s, fd) THEN NoEntry ELSE s.tvinfo[t]]
  BY DisconnectFields
<1> HIDE DEF r
<1>1. Polls(r)
  BY <1>0 DEF Kept, Polls, States
<1>2. Shaped(r)
  BY <1>0 DEF Kept, Shaped, NoConn, States
<1>3. Entries(r)
  BY <1>0 DEF Kept, Entries, NoEntry, States
<1>4. QED
  BY <1>1, <1>2, <1>3 DEF Kept, r

\* In a sound snapshot the sockets of a teardown belong to the relay, or are closed already.
LEMMA TornPeers ==
  ASSUME NEW s \in States, Kept(s), NEW ids, Reading(s, ids), Mutual(s),
         NEW fd \in Fds, s.peer[fd] \notin Phps
  PROVE  \A g \in TornFds(s, fd) : g \in Fds /\ s.peer[g] \notin Phps
<1>1. \A i \in Ids : Paired(s.conn[i]) =>
        /\ s.conn[i].wid \in Ids
        /\ s.conn[i].wfd = s.conn[s.conn[i].wid].rfd
        /\ s.conn[i].wfd \in Fds
  BY DEF Paired, Mutual, States, Connection
<1>2. \A i \in Ids : s.conn[i].rfd # NoFd => s.peer[s.conn[i].rfd] \notin Phps
  BY RelayAssumption DEF Reading, Ids, Devices
<1>3. \A g \in WriteFds(s, Ids) : g \in Fds /\ s.peer[g] \notin Phps
  <2>1. SUFFICES ASSUME NEW i \in Ids, Paired(s.conn[i])
                 PROVE  s.conn[i].wfd \in Fds /\ s.peer[s.conn[i].wfd] \notin Phps
    BY DEF WriteFds
  <2>2. s.conn[s.conn[i].wid].rfd # NoFd
    BY <1>1, <2>1 DEF Paired
  <2>3. QED
    BY <1>1, <1>2, <2>1, <2>2
<1>4. TornFds(s, fd) \subseteq {fd} \union WriteFds(s, Ids)
  BY FramesType, FoundReads DEF TornFds, WriteFds
<1>5. QED
  BY <1>3, <1>4

\* Who is torn down: a connection outside the exempted ids whose descriptor is closed is
\* removed, and connections are removed in pairs.
LEMMA TornTogether ==
  ASSUME NEW s \in States, Kept(s), NEW ids, Reading(s, ids), Mutual(s), NEW fd \in Fds
  PROVE  /\ \A i \in Ids \ ids : s.conn[i].rfd # NoFd /\ s.conn[i].rfd \in TornFds(s, fd)
                                  => i \in TornIds(s, fd)
         /\ \A i \in Ids : s.conn[i].wid # NoPeer
                           => (i \in TornIds(s, fd) <=> s.conn[i].wid \in TornIds(s, fd))
<1> DEFINE frames == Frames(s, fd)
           found  == Found(s, frames)
<1> USE DEF States, Connection
<1>1. found \subseteq Ids
  BY FoundReads
<1>2. \A i \in Ids : s.conn[i].wid # NoPeer =>
        s.conn[i].wid \in Ids /\ s.conn[s.conn[i].wid].wid = i
  BY DEF Mutual
<1>3. ASSUME NEW i \in Ids \ ids, s.conn[i].rfd # NoFd
      PROVE  \A j \in Ids : s.conn[j].rfd = s.conn[i].rfd => j = i
  BY <1>3, RelayAssumption DEF Reading, Devices
<1>4. ASSUME NEW i \in Ids \ ids, s.conn[i].rfd # NoFd, s.conn[i].rfd \in frames
      PROVE  i \in found
  BY <1>3, <1>4, SoleReaderFound
<1>5. ASSUME NEW i \in Ids \ ids, s.conn[i].rfd # NoFd, s.conn[i].rfd \in WriteFds(s, found)
      PROVE  i \in TornIds(s, fd)
  <2>1. PICK k \in found : Paired(s.conn[k]) /\ s.conn[k].wfd = s.conn[i].rfd
    BY <1>5 DEF WriteFds
  <2>2. s.conn[s.conn[k].wid].rfd = s.conn[i].rfd /\ s.conn[k].wid \in Ids
    BY <1>1, <2>1 DEF Mutual, Paired
  <2>3. s.conn[k].wid = i
    BY <1>3, <1>5, <2>2
  <2>4. QED
    BY <2>1, <2>3 DEF TornIds
<1>6. ASSUME NEW i \in Ids, s.conn[i].wid # NoPeer
      PROVE  i \in TornIds(s, fd) <=> s.conn[i].wid \in TornIds(s, fd)
  <2>1. ASSUME i \in found PROVE s.conn[i].wid \in TornIds(s, fd) /\ i \in TornIds(s, fd)
    BY <2>1 DEF TornIds
  <2>2. ASSUME NEW k \in found, s.conn[k].wid = i
        PROVE  s.conn[i].wid \in TornIds(s, fd) /\ i \in TornIds(s, fd)
    BY <1>1, <1>2, <1>6, <2>2, RelayAssumption DEF TornIds, Devices
  <2>3. ASSUME s.conn[i].wid \in found PROVE i \in TornIds(s, fd)
    BY <1>2, <1>6, <2>3 DEF TornIds
  <2>4. ASSUME NEW k \in found, s.conn[k].wid = s.conn[i].wid
        PROVE  i \in TornIds(s, fd)
    <3>1. k = i
      BY <1>1, <1>2, <1>6, <2>4
    <3>2. QED
      BY <2>1, <3>1, <2>4
  <2>5. QED
    BY <2>1, <2>2, <2>3, <2>4 DEF TornIds
<1>7. QED
  BY <1>4, <1>5, <1>6 DEF TornFds, TornIds

LEMMA DisconnectSound ==
  ASSUME NEW s \in States, Kept(s), NEW ids, NEW fds, NEW tvs, SoundBut(s, ids, fds, tvs),
         NEW fd \in Fds, s.peer[fd] \notin Phps
  PROVE  SoundBut(DisconnectBySockfd(s, fd), ids, fds, tvs)
<1> DEFINE r == DisconnectBySockfd(s, fd)
<1>0. /\ r \in States
      /\ r.peer = [g \in Fds |-> IF g \in TornFds(s, fd) THEN NoPeer ELSE s.peer[g]]
      /\ r.filter = s.filter \ TornFds(s, fd)
      /\ r.conn = [i \in Ids |-> IF i \in TornIds(s, fd) THEN NoConn ELSE s.conn[i]]
      /\ r.tvinfo = [t \in TVs |-> IF t \in TornIds(s, fd) THEN NoEntry ELSE s.tvinfo[t]]
      /\ r.online = s.online \ TornIds(s, fd)
  BY DisconnectFields
<1> HIDE DEF r
<1>a. Filters(s, fds) /\ Reading(s, ids) /\ Mutual(s) /\ Online(s, tvs) /\ Asking(s)
  BY DEF SoundBut
<1>b. /\ \A i \in Ids \ ids : s.conn[i].rfd # NoFd /\ s.conn[i].rfd \in TornFds(s, fd)
                                => i \in TornIds(s, fd)
      /\ \A i \in Ids : s.conn[i].wid # NoPeer
                         => (i \in TornIds(s, fd) <=> s.conn[i].wid \in TornIds(s, fd))
  BY <1>a, TornTogether
<1>c. \A g \in TornFds(s, fd) : g \in Fds /\ s.peer[g] \notin Phps
  BY <1>a, TornPeers
<1>1. Filters(r, fds)
  BY <1>0, <1>a DEF Filters, States
<1>2. Reading(r, ids)
  <2>1. SUFFICES ASSUME NEW i \in Ids, r.conn[i].rfd # NoFd
                 PROVE  \/ r.peer[r.conn[i].rfd] = i
                        \/ i \in ids /\ r.peer[r.conn[i].rfd] = NoPeer
    BY DEF Reading
  <2>2. i \notin TornIds(s, fd) /\ r.conn[i] = s.conn[i]
    BY <1>0, <2>1 DEF NoConn
  <2>3. s.conn[i].rfd \in Fds
    BY <2>1, <2>2 DEF States, Connection
  <2>4. QED
    BY <1>0, <1>a, <1>b, <2>1, <2>2, <2>3 DEF Reading
<1>3. Mutual(r)
  <2>1. SUFFICES ASSUME NEW i \in Ids, r.conn[i].wid # NoPeer
                 PROVE  /\ i \in TVs <=> r.conn[i].wid \in PCs
                        /\ r.conn[r.conn[i].wid].wid = i
                        /\ r.conn[r.conn[i].wid].wfd = r.conn[i].rfd
                        /\ r.conn[i].wfd = r.conn[r.conn[i].wid].rfd
    BY DEF Mutual
  <2>2. i \notin TornIds(s, fd) /\ r.conn[i] = s.conn[i]
    BY <1>0, <2>1 DEF NoConn
  <2>3. s.conn[i].wid \in Ids /\ r.conn[s.conn[i].wid] = s.conn[s.conn[i].wid]
    BY <1>0, <1>b, <2>1, <2>2 DEF States, Connection
  <2>4. QED
    BY <1>a, <2>1, <2>2, <2>3 DEF Mutual
<1>4. Online(r, tvs)
  BY <1>0, <1>a DEF Online, NoConn, Ids, States
<1>5. Asking(r)
  <2>1. SUFFICES ASSUME NEW t \in TVs, r.tvinfo[t].dev = "pc"
                 PROVE  /\ r.peer[r.tvinfo[t].php] \in Phps
                        /\ Asks[r.peer[r.tvinfo[t].php]] = t
    BY DEF Asking
  <2>2. r.tvinfo[t] = s.tvinfo[t]
    BY <1>0, <2>1 DEF NoEntry
  <2>3. s.tvinfo[t].php \in Fds
    BY <2>1, <2>2 DEF Kept, Entries, States, TVInfoNode
  <2>4. s.peer[s.tvinfo[t].php] \in Phps /\ Asks[s.peer[s.tvinfo[t].php]] = t
    BY <1>a, <2>1, <2>2 DEF Asking
  <2>5. s.tvinfo[t].php \notin TornFds(s, fd)
    BY <1>c, <2>4
  <2>6. QED
    BY <1>0, <2>2, <2>3, <2>4, <2>5
<1>6. QED
  BY <1>1, <1>2, <1>3, <1>4, <1>5 DEF SoundBut, r

-----------------------------------------------------------------------------
(* The other calls.                                                          *)

\* The invariant does not speak of what was written, nor of the stack.
SameRegistries(s, r) ==
  /\ r.peer = s.peer /\ r.polled = s.polled /\ r.filter = s.filter
  /\ r.conn = s.conn /\ r.tvinfo = s.tvinfo /\ r.online = s.online

LEMMA SameRegistriesSound ==
  ASSUME NEW s, NEW r, SameRegistries(s, r)
  PROVE  /\ Kept(s) => Kept(r)
         /\ \A ids, fds, tvs : SoundBut(s, ids, fds, tvs) => SoundBut(r, ids, fds, tvs)
BY DEF SameRegistries, Kept, Polls, Shaped, Entries,
       SoundBut, Filters, Reading, Mutual, Online, Asking

\* No call of a handler but a registration makes a connection, and none opens a socket, polls
\* one or makes a reader.
Shrinks(s, r) ==
  /\ r.filter \subseteq s.filter /\ r.polled \subseteq s.polled
  /\ \A i \in Ids : r.conn[i] = s.conn[i] \/ r.conn[i] = NoConn
  /\ \A g \in Fds : r.peer[g] = s.peer[g] \/ r.peer[g] = NoPeer

LEMMA WriteMsgType ==
  ASSUME NEW s \in States, NEW fd \in Fds, NEW kind \in Kinds
  PROVE  WriteMsg(s, fd, kind) \in States /\ Shrinks(s, WriteMsg(s, fd, kind))
<1>1. CASE WriteFails(s, fd)
  <2>1. WriteMsg(s, fd, kind) = DisconnectBySockfd(s, fd)
    BY <1>1 DEF WriteMsg
  <2> DEFINE r == DisconnectBySockfd(s, fd)
  <2>2. /\ r \in States
        /\ r.peer = [g \in Fds |-> IF g \in TornFds(s, fd) THEN NoPeer ELSE s.peer[g]]
        /\ r.conn = [i \in Ids |-> IF i \in TornIds(s, fd) THEN NoConn ELSE s.conn[i]]
        /\ r.polled \subseteq s.polled /\ r.filter \subseteq s.filter
    BY DisconnectFields
  <2> HIDE DEF r
  <2>3. Shrinks(s, r)
    BY <2>2 DEF Shrinks
  <2>4. QED
    BY <2>1, <2>2, <2>3 DEF r
<1>2. CASE ~WriteFails(s, fd)
  <2>1. WriteMsg(s, fd, kind) = Deliver(s, fd, kind, NoPeer) /\ s.peer[fd] # NoPeer
    BY <1>2 DEF WriteMsg, WriteFails
  <2>2. QED
    BY <2>1, DeliverFields DEF Shrinks
<1>3. QED
  BY <1>1, <1>2

LEMMA DeliverSame ==
  ASSUME NEW s \in States, NEW fd \in Fds, s.peer[fd] # NoPeer,
         NEW kind \in Kinds, NEW of \in TVs \union {NoPeer}
  PROVE  SameRegistries(s, Deliver(s, fd, kind, of))
BY DeliverFields DEF SameRegistries

LEMMA WriteMsgKept ==
  ASSUME NEW s \in States, Kept(s), NEW fd \in Fds, NEW kind \in Kinds
  PROVE  Kept(WriteMsg(s, fd, kind))
<1>1. CASE WriteFails(s, fd)
  BY <1>1, DisconnectKept DEF WriteMsg
<1>2. CASE ~WriteFails(s, fd)
  <2>1. s.peer[fd] # NoPeer
    BY <1>2 DEF WriteFails
  <2>2. QED
    BY <1>2, <2>1, DeliverSame, SameRegistriesSound DEF WriteMsg
<1>3. QED
  BY <1>1, <1>2

LEMMA WriteMsgSound ==
  ASSUME NEW s \in States, Kept(s), NEW ids, NEW fds, NEW tvs, SoundBut(s, ids, fds, tvs),
         NEW fd \in Fds, s.peer[fd] \notin Phps, NEW kind \in Kinds
  PROVE  SoundBut(WriteMsg(s, fd, kind), ids, fds, tvs)
<1>1. CASE WriteFails(s, fd)
  BY <1>1, DisconnectSound DEF WriteMsg
<1>2. CASE ~WriteFails(s, fd)
  <2>1. s.peer[fd] # NoPeer
    BY <1>2 DEF WriteFails
  <2>2. QED
    BY <1>2, <2>1, DeliverSame, SameRegistriesSound DEF WriteMsg
<1>3. QED
  BY <1>1, <1>2

LEMMA WriteMsgToPhpSame ==
  ASSUME NEW s \in States, NEW fd \in Fds, NEW kind \in Kinds, NEW t \in TVs
  PROVE  /\ WriteMsgToPhp(s, fd, kind, t) \in States
         /\ SameRegistries(s, WriteMsgToPhp(s, fd, kind, t))
<1>1. CASE WriteFails(s, fd)
  BY <1>1 DEF WriteMsgToPhp, SameRegistries
<1>2. CASE ~WriteFails(s, fd)
  <2>1. s.peer[fd] # NoPeer
    BY <1>2 DEF WriteFails
  <2>2. QED
    BY <1>2, <2>1, DeliverSame, DeliverFields DEF WriteMsgToPhp
<1>3. QED
  BY <1>1, <1>2

LEMMA CloseKept ==
  ASSUME NEW s \in States, Kept(s), NEW fds
  PROVE  Kept(Close(s, fds))
<1> DEFINE r == Close(s, fds)
<1>0. /\ r.peer = [g \in Fds |-> IF g \in fds THEN NoPeer ELSE s.peer[g]]
      /\ r.polled = s.polled \ fds
      /\ r.filter = s.filter /\ r.conn = s.conn /\ r.tvinfo = s.tvinfo
  BY CloseFields
<1> HIDE DEF r
<1>1. Kept(r)
  BY <1>0 DEF Kept, Polls, Shaped, Entries, States
<1>2. QED
  BY <1>1 DEF r

\* Closing one relay socket leaves the snapshot sound but for the connections that read it.
LEMMA CloseSound ==
  ASSUME NEW s \in States, Kept(s), NEW ids, NEW fds, NEW tvs, SoundBut(s, ids, fds, tvs),
         NEW fd \in fds, s.peer[fd] \notin Phps,
         \A i \in Ids : s.conn[i].rfd = fd => i \in ids
  PROVE  SoundBut(Close(s, {fd}), ids, fds, tvs)
<1> DEFINE r == Close(s, {fd})
<1>0. /\ r.peer = [g \in Fds |-> IF g \in {fd} THEN NoPeer ELSE s.peer[g]]
      /\ r.filter = s.filter /\ r.conn = s.conn /\ r.tvinfo = s.tvinfo /\ r.online = s.online
  BY CloseFields
<1> HIDE DEF r
<1>a. Filters(s, fds) /\ Reading(s, ids) /\ Mutual(s) /\ Online(s, tvs) /\ Asking(s)
  BY DEF SoundBut
<1>1. Filters(r, fds)
  BY <1>0, <1>a DEF Filters, States
<1>2. Reading(r, ids)
  BY <1>0, <1>a DEF Reading, States, Connection
<1>3. Mutual(r) /\ Online(r, tvs)
  BY <1>0, <1>a DEF Mutual, Online
<1>4. Asking(r)
  <2>1. \A t \in TVs : s.tvinfo[t].dev = "pc" => s.tvinfo[t].php \in Fds
    BY DEF Kept, Entries, States, TVInfoNode
  <2>2. QED
    BY <1>0, <1>a, <2>1 DEF Asking
<1>5. QED
  BY <1>1, <1>2, <1>3, <1>4 DEF SoundBut, r

LEMMA HangUpType ==
  ASSUME NEW s \in States, NEW fd \in Fds, NEW kind \in Kinds
  PROVE  /\ HangUp(s, fd, kind) \in States
         /\ Shrinks(s, HangUp(s, fd, kind))
         /\ fd \notin HangUp(s, fd, kind).polled
<1>1. WriteMsg(s, fd, kind) \in States /\ Shrinks(s, WriteMsg(s, fd, kind))
  BY WriteMsgType
<1> DEFINE w == WriteMsg(s, fd, kind)
           r == Close(w, {fd})
<1>2. /\ r \in States
      /\ r.peer = [g \in Fds |-> IF g \in {fd} THEN NoPeer ELSE w.peer[g]]
      /\ r.conn = w.conn /\ r.filter = w.filter /\ r.polled = w.polled \ {fd}
  BY <1>1, CloseFields
<1>3. HangUp(s, fd, kind) = r
  BY DEF HangUp
<1> HIDE DEF w, r
<1>4. Shrinks(s, w)
  BY <1>1 DEF w
<1>5. Shrinks(s, r)
  BY <1>2, <1>4 DEF Shrinks
<1>6. QED
  BY <1>2, <1>3, <1>5

LEMMA HangUpKept ==
  ASSUME NEW s \in States, Kept(s), NEW fd \in Fds, NEW kind \in Kinds
  PROVE  Kept(HangUp(s, fd, kind))
BY WriteMsgType, WriteMsgKept, CloseKept DEF HangUp

LEMMA HangUpSound ==
  ASSUME NEW s \in States, Kept(s), NEW ids, NEW fds, NEW tvs, SoundBut(s, ids, fds, tvs),
         NEW fd \in Fds, fd \in fds, s.peer[fd] \notin Phps, NEW kind \in Kinds,
         \A i \in Ids : s.conn[i].rfd = fd => i \in ids
  PROVE  SoundBut(HangUp(s, fd, kind), ids, fds, tvs)
<1> DEFINE r == WriteMsg(s, fd, kind)
<1>1. r \in States /\ Shrinks(s, r) /\ Kept(r) /\ SoundBut(r, ids, fds, tvs)
  BY WriteMsgType, WriteMsgKept, WriteMsgSound
<1>2. r.peer[fd] \notin Phps
  BY <1>1, RelayAssumption DEF Shrinks, Devices
<1>3. \A i \in Ids : r.conn[i].rfd = fd => i \in ids
  BY <1>1, RelayAssumption DEF Shrinks, NoConn, NoFd
<1> HIDE DEF r
<1>4. SoundBut(Close(r, {fd}), ids, fds, tvs)
  BY <1>1, <1>2, <1>3, CloseSound
<1>5. QED
  BY <1>4 DEF HangUp, r

\* Connections forgotten in pairs: what the handler had exempted it need not exempt any more.
LEMMA RemoveConnectionsKept ==
  ASSUME NEW s \in States, Kept(s), NEW ids
  PROVE  Kept(RemoveConnections(s, ids))
<1> DEFINE r == RemoveConnections(s, ids)
<1>0. /\ r.conn = [i \in Ids |-> IF i \in ids THEN NoConn ELSE s.conn[i]]
      /\ r.peer = s.peer /\ r.polled = s.polled /\ r.filter = s.filter /\ r.tvinfo = s.tvinfo
  BY RemoveConnectionsFields
<1> HIDE DEF r
<1>1. Polls(r) /\ Entries(r)
  BY <1>0 DEF Kept, Polls, Entries
<1>2. Shaped(r)
  BY <1>0 DEF Kept, Shaped, NoConn
<1>3. QED
  BY <1>1, <1>2 DEF Kept, r

LEMMA RemoveConnectionsSound ==
  ASSUME NEW s \in States, NEW ids, NEW fds, NEW tvs, SoundBut(s, ids, fds, tvs), NEW gone,
         \A i \in Ids : s.conn[i].wid # NoPeer => (i \in gone <=> s.conn[i].wid \in gone)
  PROVE  SoundBut(RemoveConnections(s, gone), ids \ gone, fds, tvs)
<1> DEFINE r == RemoveConnections(s, gone)
<1>0. /\ r.conn = [i \in Ids |-> IF i \in gone THEN NoConn ELSE s.conn[i]]
      /\ r.peer = s.peer /\ r.filter = s.filter /\ r.tvinfo = s.tvinfo /\ r.online = s.online
  BY RemoveConnectionsFields
<1> HIDE DEF r
<1>a. Filters(s, fds) /\ Reading(s, ids) /\ Mutual(s) /\ Online(s, tvs) /\ Asking(s)
  BY DEF SoundBut
<1>1. Filters(r, fds) /\ Asking(r)
  BY <1>0, <1>a DEF Filters, Asking
<1>2. Reading(r, ids \ gone)
  BY <1>0, <1>a DEF Reading, NoConn
<1>3. Mutual(r)
  <2>1. SUFFICES ASSUME NEW i \in Ids, r.conn[i].wid # NoPeer
                 PROVE  /\ i \in TVs <=> r.conn[i].wid \in PCs
                        /\ r.conn[r.conn[i].wid].wid = i
                        /\ r.conn[r.conn[i].wid].wfd = r.conn[i].rfd
                        /\ r.conn[i].wfd = r.conn[r.conn[i].wid].rfd
    BY DEF Mutual
  <2>2. i \notin gone /\ r.conn[i] = s.conn[i]
    BY <1>0, <2>1 DEF NoConn
  <2>3. s.conn[i].wid \in Ids /\ r.conn[s.conn[i].wid] = s.conn[s.conn[i].wid]
    BY <1>0, <2>1, <2>2 DEF States, Connection
  <2>4. QED
    BY <1>a, <2>1, <2>2, <2>3 DEF Mutual
<1>4. Online(r, tvs)
  BY <1>0, <1>a DEF Online, NoConn, Ids
<1>5. QED
  BY <1>1, <1>2, <1>3, <1>4 DEF SoundBut, r

LEMMA RemoveFiltersKept ==
  ASSUME NEW s \in States, Kept(s), NEW fds, \A g \in fds : g \notin s.polled
  PROVE  Kept(RemoveFilters(s, fds))
<1> DEFINE r == RemoveFilters(s, fds)
<1>0. /\ r.filter = s.filter \ fds
      /\ r.conn = s.conn /\ r.peer = s.peer /\ r.polled = s.polled /\ r.tvinfo = s.tvinfo
  BY RemoveFiltersFields
<1> HIDE DEF r
<1>1. Polls(r) /\ Entries(r) /\ Shaped(r)
  BY <1>0 DEF Kept, Polls, Entries, Shaped
<1>3. QED
  BY <1>1 DEF Kept, r

LEMMA RemoveFiltersSound ==
  ASSUME NEW s \in States, NEW ids, NEW fds, NEW tvs, SoundBut(s, ids, fds, tvs), NEW gone
  PROVE  SoundBut(RemoveFilters(s, gone), ids, fds \ gone, tvs)
<1> DEFINE r == RemoveFilters(s, gone)
<1>0. /\ r.filter = s.filter \ gone
      /\ r.conn = s.conn /\ r.peer = s.peer /\ r.tvinfo = s.tvinfo /\ r.online = s.online
  BY RemoveFiltersFields
<1> HIDE DEF r
<1>1. Filters(r, fds \ gone)
  BY <1>0 DEF SoundBut, Filters
<1>2. Reading(r, ids) /\ Mutual(r) /\ Online(r, tvs) /\ Asking(r)
  BY <1>0 DEF SoundBut, Reading, Mutual, Online, Asking
<1>3. QED
  BY <1>1, <1>2 DEF SoundBut, r

LEMMA RemoveTvinfoKept ==
  ASSUME NEW s \in States, Kept(s), NEW tvs
  PROVE  Kept(RemoveTvinfo(s, tvs))
<1> DEFINE r == RemoveTvinfo(s, tvs)
<1>0. /\ r.tvinfo = [t \in TVs |-> IF t \in tvs THEN NoEntry ELSE s.tvinfo[t]]
      /\ r.conn = s.conn /\ r.peer = s.peer /\ r.polled = s.polled /\ r.filter = s.filter
  BY RemoveTvinfoFields
<1> HIDE DEF r
<1>1. Polls(r) /\ Shaped(r)
  BY <1>0 DEF Kept, Polls, Shaped
<1>2. Entries(r)
  BY <1>0 DEF Kept, Entries, NoEntry
<1>3. QED
  BY <1>1, <1>2 DEF Kept, r

LEMMA RemoveTvinfoSound ==
  ASSUME NEW s \in States, Sound(s), NEW tvs, \A t \in tvs \intersect TVs : s.conn[t].wid = NoPeer
  PROVE  Sound(RemoveTvinfo(s, tvs))
<1> DEFINE r == RemoveTvinfo(s, tvs)
<1>0. /\ r.tvinfo = [t \in TVs |-> IF t \in tvs THEN NoEntry ELSE s.tvinfo[t]]
      /\ r.online = s.online \ tvs
      /\ r.conn = s.conn /\ r.peer = s.peer /\ r.filter = s.filter
  BY RemoveTvinfoFields
<1> HIDE DEF r
<1>1. Filters(r, {}) /\ Reading(r, {}) /\ Mutual(r)
  BY <1>0 DEF Sound, SoundBut, Filters, Reading, Mutual
<1>2. Online(r, {})
  BY <1>0 DEF Sound, SoundBut, Online
<1>3. Asking(r)
  BY <1>0 DEF Sound, SoundBut, Asking, NoEntry
<1>4. QED
  BY <1>1, <1>2, <1>3 DEF Sound, SoundBut, r

LEMMA SetTvinfoKept ==
  ASSUME NEW s \in States, Kept(s), NEW t \in TVs, NEW entry \in TVInfoNode,
         entry.dev = "pc" <=> entry.php # NoFd
  PROVE  Kept(SetTvinfo(s, t, entry))
<1> DEFINE r == SetTvinfo(s, t, entry)
<1>0. /\ r.tvinfo = [s.tvinfo EXCEPT ![t] = entry]
      /\ r.conn = s.conn /\ r.peer = s.peer /\ r.polled = s.polled /\ r.filter = s.filter
  BY SetTvinfoFields
<1> HIDE DEF r
<1>1. Polls(r) /\ Shaped(r)
  BY <1>0 DEF Kept, Polls, Shaped
<1>2. Entries(r)
  BY <1>0 DEF Kept, Entries, States
<1>3. QED
  BY <1>1, <1>2 DEF Kept, r

LEMMA SetTvinfoSound ==
  ASSUME NEW s \in States, Sound(s), NEW t \in TVs, NEW entry \in TVInfoNode,
         entry.dev = "pc" => s.peer[entry.php] \in Phps /\ Asks[s.peer[entry.php]] = t
  PROVE  Sound(SetTvinfo(s, t, entry))
<1> DEFINE r == SetTvinfo(s, t, entry)
<1>0. /\ r.tvinfo = [s.tvinfo EXCEPT ![t] = entry]
      /\ r.conn = s.conn /\ r.peer = s.peer /\ r.filter = s.filter /\ r.online = s.online
  BY SetTvinfoFields
<1> HIDE DEF r
<1>1. Filters(r, {}) /\ Reading(r, {}) /\ Mutual(r) /\ Online(r, {})
  BY <1>0 DEF Sound, SoundBut, Filters, Reading, Mutual, Online
<1>2. Asking(r)
  BY <1>0 DEF Sound, SoundBut, Asking, States
<1>3. QED
  BY <1>1, <1>2 DEF Sound, SoundBut, r

LEMMA InsertOnlineKept ==
  ASSUME NEW s \in States, Kept(s), NEW t \in TVs
  PROVE  Kept(InsertOnline(s, t))
BY DEF InsertOnline, Kept, Polls, Shaped, Entries, States

LEMMA InsertOnlineSound ==
  ASSUME NEW s \in States, NEW t \in TVs, SoundBut(s, {}, {}, {t})
  PROVE  Sound(InsertOnline(s, t))
BY InsertOnlineFields DEF Sound, SoundBut, Filters, Reading, Mutual, Online, Asking

-----------------------------------------------------------------------------
(* The hand-over to another PC, and the exit of a PC.                        *)

\* The two ends of a session refer to each other only, also after calls that only remove.
LEMMA PairClosed ==
  ASSUME NEW s \in States, Mutual(s), NEW i \in Ids, s.conn[i].wid # NoPeer,
         NEW r, Shrinks(s, r)
  PROVE  \A j \in Ids : r.conn[j].wid # NoPeer =>
           (j \in {i, s.conn[i].wid} <=> r.conn[j].wid \in {i, s.conn[i].wid})
<1> DEFINE w == s.conn[i].wid
<1>1. w \in Ids /\ s.conn[w].wid = i
  BY DEF Mutual, States, Connection
<1>2. SUFFICES ASSUME NEW j \in Ids, r.conn[j].wid # NoPeer
               PROVE  j \in {i, w} <=> r.conn[j].wid \in {i, w}
  OBVIOUS
<1>3. r.conn[j] = s.conn[j]
  BY <1>2 DEF Shrinks, NoConn
<1>4. s.conn[s.conn[j].wid].wid = j
  BY <1>2, <1>3 DEF Mutual
<1>5. QED
  BY <1>1, <1>3, <1>4

LEMMA ShrinksTransitive ==
  ASSUME NEW s \in States, NEW q, NEW r, Shrinks(s, q), Shrinks(q, r)
  PROVE  Shrinks(s, r)
BY DEF Shrinks

LEMMA CloseShrinks ==
  ASSUME NEW s \in States, NEW fds
  PROVE  Shrinks(s, Close(s, fds))
<1> DEFINE r == Close(s, fds)
<1>1. /\ r.peer = [g \in Fds |-> IF g \in fds THEN NoPeer ELSE s.peer[g]]
      /\ r.polled = s.polled \ fds /\ r.filter = s.filter /\ r.conn = s.conn
  BY CloseFields
<1> HIDE DEF r
<1>2. Shrinks(s, r)
  BY <1>1 DEF Shrinks
<1>3. QED
  BY <1>2 DEF r

\* A paired Connection has a partner and the partner's descriptor.
LEMMA PairedType ==
  ASSUME NEW s \in States, NEW i \in Ids, Paired(s.conn[i])
  PROVE  s.conn[i].wid \in Ids /\ s.conn[i].wid # NoPeer /\ s.conn[i].wfd \in Fds
BY DEF States, Connection, Paired

\* Unpolling a descriptor and dropping its reader: what the hand-over does first.
LEMMA ReplaceFirst ==
  ASSUME NEW s \in States, Kept(s), NEW fd \in Fds
  PROVE  LET r == RemoveFilters([s EXCEPT !.polled = @ \ {fd}], {fd})
         IN  /\ r \in States /\ Kept(r)
             /\ r.peer = s.peer /\ r.conn = s.conn
             /\ fd \notin r.polled /\ fd \notin r.filter
             /\ \A ids, fds, tvs : SoundBut(s, ids, fds, tvs) => SoundBut(r, ids, fds, tvs)
<1> DEFINE r == RemoveFilters([s EXCEPT !.polled = @ \ {fd}], {fd})
<1>1. /\ r \in States
      /\ r.peer = s.peer /\ r.conn = s.conn /\ r.tvinfo = s.tvinfo /\ r.online = s.online
      /\ r.polled = s.polled \ {fd} /\ r.filter = s.filter \ {fd}
  BY DEF RemoveFilters, States
<1> HIDE DEF r
<1>2. Kept(r)
  BY <1>1 DEF Kept, Polls, Shaped, Entries
<1>3. \A ids, fds, tvs : SoundBut(s, ids, fds, tvs) => SoundBut(r, ids, fds, tvs)
  BY <1>1 DEF SoundBut, Filters, Reading, Mutual, Online, Asking
<1>4. QED
  BY <1>1, <1>2, <1>3 DEF r

LEMMA ReaderOf ==
  ASSUME NEW s \in States, NEW fd \in Fds, Readers(s, fd) # {}
  PROVE  ConnByReadFd(s, fd) \in Ids /\ s.conn[ConnByReadFd(s, fd)].rfd = fd
<1>1. Readers(s, fd) \in SUBSET Nat
  BY RelayAssumption DEF Readers, Devices
<1>2. ConnByReadFd(s, fd) \in Readers(s, fd)
  BY <1>1, MinInSet DEF ConnByReadFd
<1>3. QED
  BY <1>2 DEF Readers

LEMMA DisconnectReplaceKept ==
  ASSUME NEW s \in States, Kept(s), NEW fd \in Fds
  PROVE  DisconnectReplace(s, fd) \in States /\ Kept(DisconnectReplace(s, fd))
<1> DEFINE s1 == RemoveFilters([s EXCEPT !.polled = @ \ {fd}], {fd})
           i  == ConnByReadFd(s, fd)
           c  == s.conn[i]
           h  == HangUp(s1, c.wfd, "another_pc")
           s2 == Close(h, {fd})
           s3 == RemoveConnections(s2, {c.wid, i})
<1>1. s1 \in States /\ Kept(s1) /\ s1.conn = s.conn
  BY ReplaceFirst
<1>2. DisconnectReplace(s, fd) =
        IF Readers(s, fd) = {} THEN s1
        ELSE IF Paired(c) THEN RemoveFilters(s3, {c.wfd}) ELSE RemoveConnections(s1, {i})
  BY DEF DisconnectReplace
<1> HIDE DEF s1
<1>3. CASE Readers(s, fd) = {}
  BY <1>1, <1>2, <1>3
<1>4. CASE Readers(s, fd) # {} /\ ~Paired(c)
  BY <1>1, <1>2, <1>4, RemoveConnectionsKept, RemoveConnectionsFields
<1>5. CASE Readers(s, fd) # {} /\ Paired(c)
  <2>1. c.wfd \in Fds
    BY <1>5, ReaderOf, PairedType
  <2>2. h \in States /\ Kept(h) /\ c.wfd \notin h.polled
    BY <1>1, <2>1, HangUpType, HangUpKept DEF Kinds
  <2> HIDE DEF h
  <2>3. s2 \in States /\ Kept(s2) /\ c.wfd \notin s2.polled
    <3>1. s2 \in States /\ s2.polled = h.polled \ {fd}
      BY <2>2, CloseFields
    <3>2. Kept(s2)
      BY <2>2, CloseKept
    <3>3. QED
      BY <2>2, <3>1, <3>2
  <2> HIDE DEF s2
  <2>4. s3 \in States /\ Kept(s3) /\ c.wfd \notin s3.polled
    BY <2>3, RemoveConnectionsFields, RemoveConnectionsKept
  <2> HIDE DEF s3
  <2>5. RemoveFilters(s3, {c.wfd}) \in States /\ Kept(RemoveFilters(s3, {c.wfd}))
    BY <2>4, RemoveFiltersFields, RemoveFiltersKept
  <2>6. QED
    BY <1>2, <1>5, <2>5
<1>6. QED
  BY <1>3, <1>4, <1>5

\* The reader of a relay socket is the device at its other end.
LEMMA ReaderIsPeer ==
  ASSUME NEW s \in States, Reading(s, {}), NEW i \in Ids, NEW fd \in Fds, s.conn[i].rfd = fd
  PROVE  s.peer[fd] = i /\ s.peer[fd] \notin Phps /\ \A j \in Ids : s.conn[j].rfd = fd => j = i
BY RelayAssumption DEF Reading, NoFd

LEMMA DisconnectReplaceSound ==
  ASSUME NEW s \in States, Kept(s), Sound(s), NEW fd \in Fds
  PROVE  Sound(DisconnectReplace(s, fd))
<1> DEFINE s1 == RemoveFilters([s EXCEPT !.polled = @ \ {fd}], {fd})
           i  == ConnByReadFd(s, fd)
           c  == s.conn[i]
           h  == HangUp(s1, c.wfd, "another_pc")
           s2 == Close(h, {fd})
           s3 == RemoveConnections(s2, {c.wid, i})
<1>1. /\ s1 \in States /\ Kept(s1) /\ s1.conn = s.conn /\ s1.peer = s.peer
      /\ fd \notin s1.filter
      /\ \A ids, fds, tvs : SoundBut(s, ids, fds, tvs) => SoundBut(s1, ids, fds, tvs)
  BY ReplaceFirst
<1>2. DisconnectReplace(s, fd) =
        IF Readers(s, fd) = {} THEN s1
        ELSE IF Paired(c) THEN RemoveFilters(s3, {c.wfd}) ELSE RemoveConnections(s1, {i})
  BY DEF DisconnectReplace
<1> HIDE DEF s1
<1>3. Sound(s1) /\ Reading(s, {}) /\ Mutual(s) /\ Mutual(s1)
  BY <1>1 DEF Sound, SoundBut
<1>4. CASE Readers(s, fd) = {}
  BY <1>2, <1>3, <1>4
<1>5. CASE Readers(s, fd) # {} /\ ~Paired(c)
  <2>1. i \in Ids
    BY <1>5, ReaderOf
  <2>2. c.wid = NoPeer
    BY <1>5, <2>1 DEF Kept, Shaped, Paired
  <2>3. \A j \in Ids : s1.conn[j].wid # NoPeer => (j \in {i} <=> s1.conn[j].wid \in {i})
    BY <1>1, <1>3, <2>1, <2>2, RelayAssumption DEF Mutual, Devices
  <2>4. SoundBut(RemoveConnections(s1, {i}), {} \ {i}, {}, {})
    BY <1>1, <1>3, <2>3, RemoveConnectionsSound DEF Sound
  <2>5. {} \ {i} = {}
    OBVIOUS
  <2>6. QED
    BY <1>2, <1>5, <2>4, <2>5 DEF Sound
<1>6. CASE Readers(s, fd) # {} /\ Paired(c)
  <2> DEFINE ids == {i, c.wid}
             fds == {fd, c.wfd}
  <2>1. i \in Ids /\ s.conn[i].rfd = fd /\ c.wid \in Ids /\ c.wid # NoPeer /\ c.wfd \in Fds
    BY <1>6, ReaderOf, PairedType
  <2>2. s.conn[c.wid].rfd = c.wfd
    BY <1>3, <2>1 DEF Mutual
  <2>3. /\ s.peer[fd] \notin Phps /\ \A j \in Ids : s.conn[j].rfd = fd => j \in ids
        /\ s.peer[c.wfd] \notin Phps /\ \A j \in Ids : s.conn[j].rfd = c.wfd => j \in ids
    BY <1>3, <2>1, <2>2, ReaderIsPeer
  <2>4. SoundBut(s1, ids, fds, {})
    BY <1>3 DEF Sound, SoundBut, Filters, Reading
  <2>5. /\ h \in States /\ Shrinks(s1, h) /\ Kept(h) /\ SoundBut(h, ids, fds, {})
        /\ c.wfd \notin h.polled
    BY <1>1, <2>1, <2>3, <2>4, HangUpType, HangUpKept, HangUpSound DEF Kinds
  <2> HIDE DEF h
  <2>6. h.peer[fd] \notin Phps /\ \A j \in Ids : h.conn[j].rfd = fd => j \in ids
    BY <1>1, <2>3, <2>5, RelayAssumption DEF Shrinks, Devices, NoConn, NoFd
  <2>7. SoundBut(s2, ids, fds, {}) /\ s2 \in States /\ Shrinks(h, s2)
    BY <2>5, <2>6, CloseSound, CloseFields, CloseShrinks
  <2> HIDE DEF s2
  <2>8. Shrinks(s1, s2)
    BY <1>1, <2>5, <2>7, ShrinksTransitive
  <2>9. \A j \in Ids : s2.conn[j].wid # NoPeer => (j \in ids <=> s2.conn[j].wid \in ids)
    BY <1>1, <1>3, <2>1, <2>8, PairClosed
  <2>10. SoundBut(s3, ids \ ids, fds, {}) /\ s3 \in States /\ s3.filter = s2.filter
    <3>1. SoundBut(RemoveConnections(s2, ids), ids \ ids, fds, {})
      BY <2>7, <2>9, RemoveConnectionsSound
    <3>2. {c.wid, i} = ids
      OBVIOUS
    <3>3. s3 \in States /\ s3.filter = s2.filter
      BY <2>7, RemoveConnectionsFields
    <3>4. QED
      BY <3>1, <3>2, <3>3
  <2> HIDE DEF s3
  <2>11. SoundBut(RemoveFilters(s3, {c.wfd}), {}, fds \ {c.wfd}, {})
    <3>1. ids \ ids = {}
      OBVIOUS
    <3>2. QED
      BY <2>10, <3>1, RemoveFiltersSound
  <2>12. fd \notin RemoveFilters(s3, {c.wfd}).filter
    BY <1>1, <2>8, <2>10, RemoveFiltersFields DEF Shrinks
  <2>13. Sound(RemoveFilters(s3, {c.wfd}))
    BY <2>11, <2>12 DEF Sound, SoundBut, Filters
  <2>14. QED
    BY <1>2, <1>6, <2>13
<1>7. QED
  BY <1>4, <1>5, <1>6

-----------------------------------------------------------------------------
(* Registrations.                                                            *)

\* A TV that is in no session registers on the socket that says so.
LEMMA RegisterTvKept ==
  ASSUME NEW s \in States, Kept(s), NEW fd \in Fds, NEW t \in TVs
  PROVE  RegisterTv(s, fd, t) \in States /\ Kept(RegisterTv(s, fd, t))
<1> DEFINE c == [rfd |-> fd, wfd |-> NoFd, wid |-> NoPeer]
           r == [s EXCEPT !.conn[t] = c]
<1>1. /\ r \in States
      /\ r.conn = [s.conn EXCEPT ![t] = c]
      /\ r.peer = s.peer /\ r.polled = s.polled /\ r.filter = s.filter /\ r.tvinfo = s.tvinfo
  BY DEF States, Connection
<1>2. RegisterTv(s, fd, t) = WriteMsg(r, fd, "srv_id")
  BY DEF RegisterTv
<1> HIDE DEF r
<1>3. Polls(r) /\ Entries(r)
  BY <1>1 DEF Kept, Polls, Entries
<1>4. Shaped(r)
  <2>1. t \notin PCs /\ fd # NoFd
    BY RelayAssumption DEF NoFd
  <2>2. \A i \in Ids : r.conn[i] = IF i = t THEN c ELSE s.conn[i]
    BY <1>1 DEF States
  <2>3. QED
    BY <2>1, <2>2 DEF Kept, Shaped
<1>5. QED
  BY <1>1, <1>2, <1>3, <1>4, WriteMsgType, WriteMsgKept DEF Kept, Kinds

\* A snapshot with the TV's new Connection, before the reply is written.
Registering(s, fd, t) == [s EXCEPT !.conn[t] = [rfd |-> fd, wfd |-> NoFd, wid |-> NoPeer]]

LEMMA RegisteringSound ==
  ASSUME NEW s \in States, Kept(s), Sound(s), NEW fd \in Fds, NEW t \in TVs,
         s.peer[fd] = t, s.conn[t].wid = NoPeer
  PROVE  LET r == Registering(s, fd, t)
         IN  /\ r \in States /\ Kept(r) /\ Sound(r)
             /\ r.peer = s.peer /\ r.stack = s.stack
             /\ r.conn[t].wid = NoPeer /\ \A i \in Ids \ {t} : r.conn[i] = s.conn[i]
<1> DEFINE c == [rfd |-> fd, wfd |-> NoFd, wid |-> NoPeer]
           r == Registering(s, fd, t)
<1>1. /\ r \in States
      /\ r.conn = [s.conn EXCEPT ![t] = c]
      /\ r.peer = s.peer /\ r.polled = s.polled /\ r.filter = s.filter /\ r.tvinfo = s.tvinfo
      /\ r.online = s.online /\ r.stack = s.stack
  BY DEF Registering, States, Connection
<1> HIDE DEF r
<1>a. Filters(s, {}) /\ Reading(s, {}) /\ Mutual(s) /\ Online(s, {}) /\ Asking(s)
  BY DEF Sound, SoundBut
<1>b. t \in Ids /\ t \notin PCs /\ t \notin Phps /\ t # NoPeer /\ fd # NoFd
  BY RelayAssumption DEF NoFd, Ids, Devices
<1>c. \A i \in Ids : r.conn[i] = IF i = t THEN c ELSE s.conn[i]
  BY <1>1 DEF States
<1>d. Kept(r)
  <2>1. Polls(r) /\ Entries(r)
    BY <1>1 DEF Kept, Polls, Entries
  <2>2. Shaped(r)
    BY <1>b, <1>c DEF Kept, Shaped
  <2>3. QED
    BY <2>1, <2>2 DEF Kept
<1>3. Filters(r, {}) /\ Asking(r)
  BY <1>1, <1>a DEF Filters, Asking
<1>4. Reading(r, {})
  BY <1>1, <1>a, <1>c DEF Reading
<1>5. Online(r, {})
  BY <1>1, <1>a, <1>c DEF Online, Ids
<1>6. Mutual(r)
  <2>1. SUFFICES ASSUME NEW i \in Ids, r.conn[i].wid # NoPeer
                 PROVE  /\ i \in TVs <=> r.conn[i].wid \in PCs
                        /\ r.conn[r.conn[i].wid].wid = i
                        /\ r.conn[r.conn[i].wid].wfd = r.conn[i].rfd
                        /\ r.conn[i].wfd = r.conn[r.conn[i].wid].rfd
    BY DEF Mutual
  <2>2. i # t /\ r.conn[i] = s.conn[i]
    BY <1>c, <2>1
  <2>3. s.conn[i].wid # t
    BY <1>a, <1>b, <2>1, <2>2, RelayAssumption DEF Mutual, Devices
  <2>4. s.conn[i].wid \in Ids
    BY <2>1, <2>2 DEF States, Connection
  <2>5. r.conn[s.conn[i].wid] = s.conn[s.conn[i].wid]
    BY <1>c, <2>3, <2>4
  <2>6. QED
    BY <1>a, <2>1, <2>2, <2>5 DEF Mutual
<1>7. SoundBut(r, {}, {}, {})
  BY <1>3, <1>4, <1>5, <1>6 DEF SoundBut
<1>8. r \in States /\ Kept(r) /\ Sound(r) /\ r.peer = s.peer /\ r.stack = s.stack
  BY <1>1, <1>d, <1>7 DEF Sound
<1>9. r.conn[t].wid = NoPeer /\ \A i \in Ids \ {t} : r.conn[i] = s.conn[i]
  BY <1>b, <1>c
<1>10. QED
  BY <1>8, <1>9 DEF r

LEMMA RegisterTvSound ==
  ASSUME NEW s \in States, Kept(s), Sound(s), NEW fd \in Fds, NEW t \in TVs,
         s.peer[fd] = t, s.conn[t].wid = NoPeer
  PROVE  Sound(RegisterTv(s, fd, t))
<1> DEFINE r == Registering(s, fd, t)
<1>1. r \in States /\ Kept(r) /\ Sound(r) /\ r.peer = s.peer
  BY RegisteringSound
<1>2. RegisterTv(s, fd, t) = WriteMsg(r, fd, "srv_id")
  BY DEF RegisterTv, Registering
<1>3. t \notin Phps
  BY RelayAssumption DEF Ids
<1> HIDE DEF r
<1>4. QED
  BY <1>1, <1>2, <1>3, WriteMsgSound DEF Sound, Kinds

LEMMA PairFields ==
  ASSUME NEW s \in States, NEW fd \in Fds, NEW p \in PCs, NEW t \in TVs
  PROVE  /\ Pair(s, fd, p, t) \in States
         /\ Pair(s, fd, p, t).peer = s.peer
         /\ Pair(s, fd, p, t).polled = s.polled
         /\ Pair(s, fd, p, t).filter = s.filter
         /\ Pair(s, fd, p, t).tvinfo = s.tvinfo
         /\ Pair(s, fd, p, t).online = s.online
         /\ Pair(s, fd, p, t).conn[p] = [rfd |-> fd, wfd |-> s.conn[t].rfd, wid |-> t]
         /\ Pair(s, fd, p, t).conn[t] = [rfd |-> s.conn[t].rfd, wfd |-> fd, wid |-> p]
         /\ \A i \in Ids \ {p, t} : Pair(s, fd, p, t).conn[i] = s.conn[i]
<1> DEFINE r == Pair(s, fd, p, t)
           c == [rfd |-> fd, wfd |-> s.conn[t].rfd, wid |-> t]
           d == [rfd |-> s.conn[t].rfd, wfd |-> fd, wid |-> p]
<1>1. p \in Ids /\ t \in Ids /\ p # t /\ t \notin PCs /\ fd # NoFd /\ p # NoPeer /\ t # NoPeer
  BY RelayAssumption DEF NoFd, Ids, Devices
<1> DEFINE f == [s.conn EXCEPT ![t] = d, ![p] = c]
<1>2. /\ f \in [Ids -> Connection]
      /\ \A i \in Ids : f[i] = IF i = p THEN c ELSE IF i = t THEN d ELSE s.conn[i]
  <2>1. s.conn \in [Ids -> Connection] /\ c \in Connection /\ d \in Connection
    BY <1>1 DEF States, Connection
  <2> HIDE DEF c, d
  <2>2. QED
    BY <1>1, <2>1
<1>3. /\ r \in States /\ r.conn = f
      /\ r.peer = s.peer /\ r.polled = s.polled /\ r.filter = s.filter
      /\ r.tvinfo = s.tvinfo /\ r.online = s.online
  <2>1. r = [s EXCEPT !.conn = f]
    BY DEF Pair, States
  <2> HIDE DEF f, r
  <2>2. QED
    BY <1>2, <2>1 DEF States
<1> HIDE DEF f
<1>4. \A i \in Ids : r.conn[i] = IF i = p THEN c ELSE IF i = t THEN d ELSE s.conn[i]
  BY <1>2, <1>3
<1> HIDE DEF r
<1>5. QED
  BY <1>1, <1>3, <1>4 DEF r

LEMMA PairKept ==
  ASSUME NEW s \in States, Kept(s), NEW fd \in Fds, NEW p \in PCs, NEW t \in TVs,
         s.conn[t].rfd # NoFd
  PROVE  Kept(Pair(s, fd, p, t))
<1> DEFINE r == Pair(s, fd, p, t)
           c == [rfd |-> fd, wfd |-> s.conn[t].rfd, wid |-> t]
           d == [rfd |-> s.conn[t].rfd, wfd |-> fd, wid |-> p]
<1>1. /\ r.peer = s.peer /\ r.polled = s.polled /\ r.filter = s.filter /\ r.tvinfo = s.tvinfo
      /\ r.conn[p] = c /\ r.conn[t] = d /\ \A i \in Ids \ {p, t} : r.conn[i] = s.conn[i]
  BY PairFields
<1>2. p \in Ids /\ t \in Ids /\ p # t /\ t \notin PCs /\ fd # NoFd /\ p # NoPeer /\ t # NoPeer
  BY RelayAssumption DEF NoFd, Ids, Devices
<1> HIDE DEF r
<1>3. Polls(r) /\ Entries(r)
  BY <1>1 DEF Kept, Polls, Entries
<1>4. Shaped(r)
  BY <1>1, <1>2 DEF Kept, Shaped
<1>5. QED
  BY <1>3, <1>4 DEF Kept, r

\* A PC takes a TV that nobody controls: sound, but for the online list.
LEMMA PairSound ==
  ASSUME NEW s \in States, Kept(s), Sound(s), NEW fd \in Fds, NEW p \in PCs, NEW t \in TVs,
         s.conn[t].rfd # NoFd, s.peer[fd] = p,
         \A q \in PCs \ {p} : s.conn[q].wid # t, s.conn[p].wid \in {NoPeer, t}
  PROVE  SoundBut(Pair(s, fd, p, t), {}, {}, {t})
<1> DEFINE r == Pair(s, fd, p, t)
           c == [rfd |-> fd, wfd |-> s.conn[t].rfd, wid |-> t]
           d == [rfd |-> s.conn[t].rfd, wfd |-> fd, wid |-> p]
<1>1. /\ r.peer = s.peer /\ r.filter = s.filter
      /\ r.tvinfo = s.tvinfo /\ r.online = s.online
      /\ r.conn[p] = c /\ r.conn[t] = d /\ \A i \in Ids \ {p, t} : r.conn[i] = s.conn[i]
  BY PairFields
<1> HIDE DEF r
<1>a. Filters(s, {}) /\ Reading(s, {}) /\ Mutual(s) /\ Online(s, {}) /\ Asking(s)
  BY DEF Sound, SoundBut
<1>b. /\ p \in Ids /\ t \in Ids /\ p # t /\ t \notin PCs /\ p \notin TVs
      /\ fd # NoFd /\ p # NoPeer /\ t # NoPeer
  BY RelayAssumption DEF NoFd, Ids, Devices
<1>2. Filters(r, {}) /\ Asking(r)
  BY <1>1, <1>a DEF Filters, Asking
<1>3. Reading(r, {})
  BY <1>1, <1>a, <1>b DEF Reading
<1>4. Online(r, {t})
  BY <1>1, <1>a, <1>b DEF Online, Ids
<1>5. Mutual(r)
  <2>1. SUFFICES ASSUME NEW i \in Ids, r.conn[i].wid # NoPeer
                 PROVE  /\ i \in TVs <=> r.conn[i].wid \in PCs
                        /\ r.conn[r.conn[i].wid].wid = i
                        /\ r.conn[r.conn[i].wid].wfd = r.conn[i].rfd
                        /\ r.conn[i].wfd = r.conn[r.conn[i].wid].rfd
    BY DEF Mutual
  <2>2. CASE i = p
    BY <1>1, <1>b, <2>2
  <2>3. CASE i = t
    BY <1>1, <1>b, <2>3
  <2>4. CASE i \notin {p, t}
    <3>1. r.conn[i] = s.conn[i] /\ s.conn[i].wid # NoPeer
      BY <1>1, <2>1, <2>4
    <3>2. s.conn[i].wid \in Ids /\ s.conn[s.conn[i].wid].wid = i
      BY <1>a, <3>1 DEF Mutual, States, Connection
    <3>3. s.conn[i].wid # t
      BY <1>a, <1>b, <2>4, <3>1 DEF Mutual, Ids
    <3>4. s.conn[i].wid # p
      BY <1>b, <2>4, <3>2, RelayAssumption DEF Devices
    <3>5. r.conn[s.conn[i].wid] = s.conn[s.conn[i].wid]
      BY <1>1, <3>2, <3>3, <3>4
    <3>6. QED
      BY <1>a, <3>1, <3>5 DEF Mutual
  <2>5. QED
    BY <2>2, <2>3, <2>4
<1>6. QED
  BY <1>2, <1>3, <1>4, <1>5 DEF SoundBut, r

-----------------------------------------------------------------------------
(* From one state to the next.                                               *)

LEMMA SnapshotType ==
  ASSUME TypeOK
  PROVE  /\ Snapshot \in States
         /\ Snapshot.peer = peer /\ Snapshot.polled = polled /\ Snapshot.filter = filter
         /\ Snapshot.conn = conn /\ Snapshot.tvinfo = tvinfo /\ Snapshot.online = online
         /\ Snapshot.out = {} /\ Snapshot.stack = FALSE
BY DEF TypeOK, Snapshot, States

\* The registries of the next state are those of the snapshot s.
Agrees(s) ==
  /\ peer' = s.peer /\ polled' = s.polled /\ filter' = s.filter
  /\ conn' = s.conn /\ tvinfo' = s.tvinfo /\ online' = s.online

LEMMA AgreesConsistent ==
  ASSUME NEW s \in States, Kept(s), ~overlapped' => Sound(s), Agrees(s),
         dead' \subseteq Fds, armed' \in BOOLEAN, fate' \in {"running", "stack", "freed"},
         out' \subseteq Message, overlapped' \in BOOLEAN
  PROVE  Consistent'
<1>1. TypeOK'
  BY DEF Agrees, TypeOK, States
<1>2. Kept(Snapshot)'
  BY DEF Agrees, Kept, Polls, Shaped, Entries, Snapshot
<1>3. ~overlapped' => Sound(Snapshot)'
  BY DEF Agrees, Sound, SoundBut, Filters, Reading, Mutual, Online, Asking, Snapshot
<1>4. QED
  BY <1>1, <1>2, <1>3 DEF Consistent

\* A process that died keeps nothing.
LEMMA DiesConsistent ==
  ASSUME NEW why \in {"stack", "freed"}, Dies(why), overlapped' \in BOOLEAN
  PROVE  Consistent'
<1> DEFINE s == [peer |-> [g \in Fds |-> NoPeer], polled |-> {}, filter |-> {},
                 conn |-> [i \in Ids |-> NoConn], tvinfo |-> [t \in TVs |-> NoEntry],
                 online |-> {}, out |-> {}, stack |-> FALSE]
<1>1. s \in States
  BY DEF States, NoConn, Connection, NoEntry, TVInfoNode
<1>2. Kept(s)
  BY DEF Kept, Polls, Shaped, Entries, NoConn, NoEntry
<1>3. Sound(s)
  BY DEF Sound, SoundBut, Filters, Reading, Mutual, Online, Asking, NoConn, NoEntry, Ids
<1>4. Agrees(s)
  BY DEF Dies, Agrees
<1>5. /\ dead' \subseteq Fds /\ armed' \in BOOLEAN /\ fate' \in {"running", "stack", "freed"}
      /\ out' \subseteq Message
  BY DEF Dies
<1>6. QED
  BY <1>1, <1>2, <1>3, <1>4, <1>5, AgreesConsistent

LEMMA BecomesConsistent ==
  ASSUME TypeOK, NEW s \in States, Kept(s), ~overlapped' => Sound(s),
         NEW timer \in BOOLEAN, Becomes(s, timer), overlapped' \in BOOLEAN
  PROVE  Consistent'
<1>1. CASE s.stack
  BY <1>1, DiesConsistent DEF Becomes
<1>2. CASE ~s.stack
  <2>1. Agrees(s)
    BY <1>2 DEF Becomes, Agrees
  <2>2. /\ dead' \subseteq Fds /\ armed' \in BOOLEAN /\ fate' \in {"running", "stack", "freed"}
        /\ out' \subseteq Message
    BY <1>2 DEF Becomes, TypeOK, States
  <2>3. QED
    BY <2>1, <2>2, AgreesConsistent
<1>3. QED
  BY <1>1, <1>2

LEMMA HandledConsistent ==
  ASSUME TypeOK, NEW s \in States, Kept(s), ~overlapped' => Sound(s),
         NEW fd, Handled(fd, s), overlapped' \in BOOLEAN
  PROVE  Consistent'
BY BecomesConsistent, DiesConsistent DEF Handled, TypeOK

-----------------------------------------------------------------------------
(* Consistent is inductive: one lemma per action.                            *)

LEMMA InitConsistent == Init => Consistent
<1> SUFFICES ASSUME Init PROVE Consistent
  OBVIOUS
<1>1. TypeOK
  BY DEF Init, TypeOK, NoConn, Connection, NoEntry, TVInfoNode
<1>2. Kept(Snapshot)
  BY DEF Init, Snapshot, Kept, Polls, Shaped, Entries, NoConn, NoEntry
<1>3. Sound(Snapshot)
  BY DEF Init, Snapshot, Sound, SoundBut, Filters, Reading, Mutual, Online, Asking,
         NoConn, NoEntry, Ids
<1>4. QED
  BY <1>1, <1>2, <1>3 DEF Consistent

\* Accept hands out a descriptor no Connection and no entry names.
LEMMA AcceptConsistent ==
  ASSUME Consistent, NEW d \in Devices, Accept(d)
  PROVE  Consistent'
<1> DEFINE fd == Min(FreeFds)
           s  == [Snapshot EXCEPT !.peer   = [peer EXCEPT ![fd] = d],
                                  !.polled = polled \union {fd},
                                  !.filter = IF d \in Ids THEN filter \union {fd} ELSE filter]
<1>1. fd \in Fds /\ peer[fd] = NoPeer
  <2>1. FreeFds \in SUBSET Nat /\ FreeFds # {}
    BY RelayAssumption DEF FreeFds, Accept
  <2>2. fd \in FreeFds
    BY <2>1, MinInSet
  <2>3. QED
    BY <2>2 DEF FreeFds
<1>2. /\ s.peer = [peer EXCEPT ![fd] = d]
      /\ s.polled = polled \union {fd}
      /\ s.filter = IF d \in Ids THEN filter \union {fd} ELSE filter
      /\ s.conn = conn /\ s.tvinfo = tvinfo /\ s.online = online
  BY DEF Snapshot
<1>3. s \in States
  BY <1>1 DEF Consistent, TypeOK, Snapshot, States
<1>4. Agrees(s)
  BY <1>2 DEF Accept, Agrees
<1>5. peer \in [Fds -> Devices \union {NoPeer}] /\ d # NoPeer /\ (d \notin Phps => d \in Ids)
  BY RelayAssumption DEF Consistent, TypeOK, Devices
<1> HIDE DEF s, fd
<1>6. Kept(s)
  <2>1. Polls(s)
    <3>1. \A g \in polled : peer[g] # NoPeer /\ (peer[g] \in Ids => g \in filter)
      BY DEF Consistent, Kept, Polls, Snapshot
    <3>2. polled \subseteq Fds
      BY DEF Consistent, TypeOK
    <3>3. SUFFICES ASSUME NEW g \in s.polled
                   PROVE  s.peer[g] # NoPeer /\ (s.peer[g] \in Ids => g \in s.filter)
      BY DEF Polls
    <3>4. CASE g = fd
      BY <1>1, <1>2, <1>5, <3>4
    <3>5. CASE g # fd
      BY <1>1, <1>2, <1>5, <3>1, <3>2, <3>3, <3>5
    <3>6. QED
      BY <3>4, <3>5
  <2>2. Shaped(s) /\ Entries(s)
    BY <1>2 DEF Consistent, Kept, Shaped, Entries, Snapshot
  <2>3. QED
    BY <2>1, <2>2 DEF Kept
<1>7. ASSUME ~overlapped PROVE Sound(s)
  <2>a. Filters(Snapshot, {}) /\ Reading(Snapshot, {}) /\ Mutual(Snapshot)
        /\ Online(Snapshot, {}) /\ Asking(Snapshot)
    BY <1>7 DEF Consistent, Sound, SoundBut
  <2>1. Filters(s, {})
    <3>1. \A g \in filter : peer[g] \in Ids
      BY <2>a DEF Filters, Snapshot
    <3>2. filter \subseteq Fds
      BY DEF Consistent, TypeOK
    <3>3. SUFFICES ASSUME NEW g \in s.filter PROVE s.peer[g] \in Ids
      BY DEF Filters
    <3>4. CASE g = fd
      BY <1>1, <1>2, <1>5, <3>1, <3>3, <3>4, RelayAssumption DEF Devices
    <3>5. CASE g # fd
      BY <1>1, <1>2, <1>5, <3>1, <3>2, <3>3, <3>5
    <3>6. QED
      BY <3>4, <3>5
  <2>2. Reading(s, {})
    BY <1>1, <1>2, <1>5, <2>a, RelayAssumption DEF Reading, Snapshot, Devices
  <2>3. Mutual(s) /\ Online(s, {})
    BY <1>2, <2>a DEF Mutual, Online, Snapshot
  <2>4. Asking(s)
    BY <1>1, <1>2, <1>5, <2>a, RelayAssumption DEF Asking, Snapshot, Devices
  <2>5. QED
    BY <2>1, <2>2, <2>3, <2>4 DEF Sound, SoundBut
<1>8. /\ dead' \subseteq Fds /\ armed' \in BOOLEAN /\ fate' \in {"running", "stack", "freed"}
      /\ out' \subseteq Message /\ overlapped' \in BOOLEAN /\ (~overlapped' => ~overlapped)
  BY DEF Accept, Consistent, TypeOK
<1>9. QED
  BY <1>3, <1>4, <1>6, <1>7, <1>8, AgreesConsistent

LEMMA LinkDiesConsistent ==
  ASSUME Consistent, NEW fd \in Fds, LinkDies(fd)
  PROVE  Consistent'
<1>1. Snapshot \in States /\ Agrees(Snapshot)
  BY SnapshotType DEF Consistent, LinkDies, Agrees
<1>2. /\ dead' \subseteq Fds /\ armed' \in BOOLEAN /\ fate' \in {"running", "stack", "freed"}
      /\ out' \subseteq Message /\ overlapped' = overlapped /\ overlapped \in BOOLEAN
  BY DEF LinkDies, Consistent, TypeOK
<1>3. QED
  BY <1>1, <1>2, AgreesConsistent DEF Consistent

LEMMA DisconnectConsistent ==
  ASSUME Consistent, NEW fd \in Fds, Disconnect(fd)
  PROVE  Consistent'
<1>1. TypeOK /\ Snapshot \in States /\ Snapshot.peer = peer /\ Kept(Snapshot)
  BY SnapshotType DEF Consistent
<1>2. Snapshot.peer[fd] \notin Phps
  BY <1>1, RelayAssumption DEF Disconnect, Live
<1> DEFINE s == DisconnectBySockfd(Snapshot, fd)
<1>3. s \in States /\ Kept(s)
  BY <1>1, DisconnectFields, DisconnectKept
<1>4. ~overlapped => Sound(s)
  BY <1>1, <1>2, DisconnectSound DEF Consistent, Sound
<1>5. /\ Becomes(s, armed) /\ armed \in BOOLEAN
      /\ overlapped' = overlapped /\ overlapped \in BOOLEAN
  BY <1>1 DEF Disconnect, TypeOK
<1>6. QED
  BY <1>1, <1>3, <1>4, <1>5, BecomesConsistent

\* REG_TV and REG_TV_TEST: registered twice only outside a session.
LEMMA NoSession ==
  ASSUME Consistent, NEW t \in TVs, ~InSession(t), ~overlapped
  PROVE  conn[t].wid = NoPeer
<1>1. Mutual(Snapshot) /\ Snapshot \in States
  BY SnapshotType DEF Consistent, Sound, SoundBut
<1>2. Snapshot.conn = conn
  BY SnapshotType DEF Consistent
<1>3. QED
  BY <1>1, <1>2 DEF Mutual, InSession, Ids

LEMMA RegTvConsistent ==
  ASSUME Consistent, NEW fd \in Fds, RegTv(fd)
  PROVE  Consistent'
<1> DEFINE t  == peer[fd]
           w  == WriteMsgToPhp(Snapshot, tvinfo[t].php, "ok", t)
           s1 == IF tvinfo[t].dev = "pc" THEN SetTvinfo(w, t, NoEntry)
                 ELSE SetTvinfo(Snapshot, t, AcceptedEntry)
           s  == RegisterTv(s1, fd, t)
<1>1. /\ TypeOK /\ Snapshot \in States /\ Kept(Snapshot)
      /\ Snapshot.peer = peer /\ Snapshot.conn = conn /\ Snapshot.tvinfo = tvinfo
  BY SnapshotType DEF Consistent
<1>2. t \in TVs
  BY DEF RegTv, Reads, Live
<1>3. Handled(fd, s) /\ overlapped' = (overlapped \/ InSession(t))
  BY DEF RegTv
<1>4. /\ NoEntry \in TVInfoNode /\ AcceptedEntry \in TVInfoNode
      /\ NoEntry.dev # "pc" /\ NoEntry.php = NoFd
      /\ AcceptedEntry.dev # "pc" /\ AcceptedEntry.php = NoFd
  BY DEF NoEntry, AcceptedEntry, TVInfoNode
<1>5. /\ s1 \in States /\ Kept(s1) /\ s1.peer = peer /\ s1.conn = conn
      /\ Sound(Snapshot) => Sound(s1)
  <2>1. CASE tvinfo[t].dev = "pc"
    <3>1. tvinfo[t].php \in Fds
      BY <1>1, <1>2, <2>1 DEF Kept, Entries, TypeOK, TVInfoNode
    <3>2. w \in States /\ SameRegistries(Snapshot, w)
      BY <1>1, <1>2, <3>1, WriteMsgToPhpSame DEF Kinds
    <3>3. Kept(w) /\ (Sound(Snapshot) => Sound(w)) /\ w.peer = peer /\ w.conn = conn
      BY <1>1, <3>2, SameRegistriesSound DEF Sound, SameRegistries
    <3> HIDE DEF w
    <3>4. QED
      BY <1>2, <1>4, <2>1, <3>2, <3>3, SetTvinfoFields, SetTvinfoKept, SetTvinfoSound
  <2>2. CASE tvinfo[t].dev # "pc"
    BY <1>1, <1>2, <1>4, <2>2, SetTvinfoFields, SetTvinfoKept, SetTvinfoSound
  <2>3. QED
    BY <2>1, <2>2
<1> HIDE DEF s1
<1>6. s \in States /\ Kept(s)
  BY <1>2, <1>5, RegisterTvKept
<1>7. ~overlapped' => Sound(s)
  <2>1. ASSUME ~overlapped' PROVE conn[t].wid = NoPeer /\ Sound(s1)
    BY <1>2, <1>3, <1>5, <2>1, NoSession DEF Consistent
  <2>2. QED
    BY <1>2, <1>5, <2>1, RegisterTvSound
<1>8. overlapped' \in BOOLEAN
  BY <1>1, <1>3 DEF TypeOK, InSession
<1> HIDE DEF s
<1>9. QED
  BY <1>1, <1>3, <1>6, <1>7, <1>8, HandledConsistent

LEMMA RegTvTestConsistent ==
  ASSUME Consistent, NEW fd \in Fds, RegTvTest(fd)
  PROVE  Consistent'
<1> DEFINE t == peer[fd]
           s == RegisterTv(Snapshot, fd, t)
<1>1. /\ TypeOK /\ Snapshot \in States /\ Kept(Snapshot)
      /\ Snapshot.peer = peer /\ Snapshot.conn = conn
  BY SnapshotType DEF Consistent
<1>2. t \in TVs
  BY DEF RegTvTest, Reads, Live
<1>3. Handled(fd, s) /\ overlapped' = (overlapped \/ InSession(t))
  BY DEF RegTvTest
<1>6. s \in States /\ Kept(s)
  BY <1>1, <1>2, RegisterTvKept
<1>7. ~overlapped' => Sound(s)
  <2>1. ASSUME ~overlapped' PROVE conn[t].wid = NoPeer /\ Sound(Snapshot)
    BY <1>2, <1>3, <2>1, NoSession DEF Consistent
  <2>2. QED
    BY <1>1, <1>2, <2>1, RegisterTvSound
<1>8. overlapped' \in BOOLEAN
  BY <1>1, <1>3 DEF TypeOK, InSession
<1> HIDE DEF s
<1>9. QED
  BY <1>1, <1>3, <1>6, <1>7, <1>8, HandledConsistent

LEMMA RejectHelpConsistent ==
  ASSUME Consistent, NEW fd \in Fds, RejectHelp(fd)
  PROVE  Consistent'
<1> DEFINE t == peer[fd]
           w == WriteMsgToPhp(Snapshot, tvinfo[t].php, "refuse", t)
           s == IF tvinfo[t].dev = "pc" THEN SetTvinfo(w, t, NoEntry)
                ELSE SetTvinfo(Snapshot, t, RefusedEntry)
<1>1. /\ TypeOK /\ Snapshot \in States /\ Kept(Snapshot) /\ Snapshot.tvinfo = tvinfo
  BY SnapshotType DEF Consistent
<1>2. t \in TVs
  BY DEF RejectHelp, Reads, Live
<1>3. Becomes(s, armed) /\ overlapped' = overlapped
  BY DEF RejectHelp
<1>4. /\ NoEntry \in TVInfoNode /\ RefusedEntry \in TVInfoNode
      /\ NoEntry.dev # "pc" /\ NoEntry.php = NoFd
      /\ RefusedEntry.dev # "pc" /\ RefusedEntry.php = NoFd
  BY DEF NoEntry, RefusedEntry, TVInfoNode
<1>5. s \in States /\ Kept(s) /\ (Sound(Snapshot) => Sound(s))
  <2>1. CASE tvinfo[t].dev = "pc"
    <3>1. tvinfo[t].php \in Fds
      BY <1>1, <1>2, <2>1 DEF Kept, Entries, TypeOK, TVInfoNode
    <3>2. w \in States /\ SameRegistries(Snapshot, w)
      BY <1>1, <1>2, <3>1, WriteMsgToPhpSame DEF Kinds
    <3>3. Kept(w) /\ (Sound(Snapshot) => Sound(w))
      BY <1>1, <3>2, SameRegistriesSound DEF Sound
    <3> HIDE DEF w
    <3>4. QED
      BY <1>2, <1>4, <2>1, <3>2, <3>3, SetTvinfoFields, SetTvinfoKept, SetTvinfoSound
  <2>2. CASE tvinfo[t].dev # "pc"
    BY <1>1, <1>2, <1>4, <2>2, SetTvinfoFields, SetTvinfoKept, SetTvinfoSound
  <2>3. QED
    BY <2>1, <2>2
<1> HIDE DEF s
<1>6. /\ ~overlapped' => Sound(s)
      /\ armed \in BOOLEAN /\ overlapped' \in BOOLEAN
  BY <1>1, <1>3, <1>5 DEF Consistent, TypeOK
<1>7. QED
  BY <1>1, <1>3, <1>5, <1>6, BecomesConsistent

LEMMA AnotherPcCtrlConsistent ==
  ASSUME Consistent, NEW fd \in Fds, AnotherPcCtrl(fd)
  PROVE  Consistent'
<1> DEFINE s == DisconnectReplace(Snapshot, fd)
<1>1. TypeOK /\ Snapshot \in States /\ Kept(Snapshot)
  BY SnapshotType DEF Consistent
<1>2. Handled(fd, s) /\ overlapped' = overlapped /\ overlapped \in BOOLEAN
  BY <1>1 DEF AnotherPcCtrl, TypeOK
<1>3. s \in States /\ Kept(s)
  BY <1>1, DisconnectReplaceKept
<1>4. ~overlapped => Sound(s)
  BY <1>1, DisconnectReplaceSound DEF Consistent
<1> HIDE DEF s
<1>5. QED
  BY <1>1, <1>2, <1>3, <1>4, HandledConsistent

LEMMA TvExitCtrlConsistent ==
  ASSUME Consistent, NEW fd \in Fds, TvExitCtrl(fd)
  PROVE  Consistent'
<1> DEFINE s == DisconnectBySockfd(Snapshot, fd)
<1>1. TypeOK /\ Snapshot \in States /\ Kept(Snapshot) /\ Snapshot.peer = peer
  BY SnapshotType DEF Consistent
<1>2. Handled(fd, s) /\ overlapped' = overlapped /\ overlapped \in BOOLEAN
  BY <1>1 DEF TvExitCtrl, TypeOK
<1>3. s \in States /\ Kept(s)
  BY <1>1, DisconnectFields, DisconnectKept
<1>4. ~overlapped => Sound(s)
  <2>1. Snapshot.peer[fd] \notin Phps
    BY <1>1, RelayAssumption DEF TvExitCtrl, Reads, Live, Ids
  <2>2. QED
    BY <1>1, <2>1, DisconnectSound DEF Consistent, Sound
<1> HIDE DEF s
<1>5. QED
  BY <1>1, <1>2, <1>3, <1>4, HandledConsistent

LEMMA ForwardConsistent ==
  ASSUME Consistent, NEW fd \in Fds, NEW target \in Ids, Forward(fd, target)
  PROVE  Consistent'
<1> DEFINE g == conn[target].rfd
           s == WriteMsg(Snapshot, g, "data")
<1>1. TypeOK /\ Snapshot \in States /\ Kept(Snapshot) /\ Snapshot.conn = conn
  BY SnapshotType DEF Consistent
<1>2. Handled(fd, s) /\ overlapped' = overlapped /\ overlapped \in BOOLEAN
  BY <1>1 DEF Forward, TypeOK
<1>3. g \in Fds
  BY <1>1 DEF Forward, Registered, TypeOK, Connection
<1>4. s \in States /\ Kept(s)
  BY <1>1, <1>3, WriteMsgType, WriteMsgKept DEF Kinds
<1>5. ~overlapped => Sound(s)
  <2>1. SUFFICES ASSUME ~overlapped PROVE Sound(s)
    OBVIOUS
  <2>2. Sound(Snapshot) /\ Reading(Snapshot, {})
    BY <2>1 DEF Consistent, Sound, SoundBut
  <2>3. Snapshot.peer[g] \notin Phps
    BY <1>1, <1>3, <2>2, ReaderIsPeer
  <2>4. QED
    BY <1>1, <1>3, <2>2, <2>3, WriteMsgSound DEF Sound, Kinds
<1> HIDE DEF s
<1>6. QED
  BY <1>1, <1>2, <1>4, <1>5, HandledConsistent

LEMMA HandshakeConsistent ==
  ASSUME Consistent, NEW fd \in Fds, Handshake(fd)
  PROVE  Consistent'
<1> DEFINE s == WriteMsg(Snapshot, fd, "handshake")
<1>1. TypeOK /\ Snapshot \in States /\ Kept(Snapshot) /\ Snapshot.peer = peer
  BY SnapshotType DEF Consistent
<1>2. /\ Becomes(s, armed) /\ armed \in BOOLEAN
      /\ overlapped' = overlapped /\ overlapped \in BOOLEAN
  BY <1>1 DEF Handshake, TypeOK
<1>3. s \in States /\ Kept(s)
  BY <1>1, WriteMsgType, WriteMsgKept DEF Kinds
<1>4. ~overlapped => Sound(s)
  <2>1. Snapshot.peer[fd] \notin Phps
    BY <1>1, RelayAssumption DEF Handshake, Live, Ids
  <2>2. QED
    BY <1>1, <2>1, WriteMsgSound DEF Consistent, Sound, Kinds
<1> HIDE DEF s
<1>5. QED
  BY <1>1, <1>2, <1>3, <1>4, BecomesConsistent

LEMMA RegPcConsistent ==
  ASSUME Consistent, NEW fd \in Fds, NEW t \in TVs, RegPc(fd, t)
  PROVE  Consistent'
<1> DEFINE p     == peer[fd]
           s0    == Pair(Snapshot, fd, p, t)
           s1    == WriteMsg(s0, fd, "srv_id")
           s2    == WriteMsg(s1, fd, "tv_id")
           freed == s2.conn[t] = NoConn
           tell(g) == IF g = NoFd THEN s2 ELSE WriteMsg(s2, g, "pc_id")
<1>1. /\ TypeOK /\ Snapshot \in States /\ Kept(Snapshot)
      /\ Snapshot.peer = peer /\ Snapshot.conn = conn
  BY SnapshotType DEF Consistent
<1>2. p \in PCs /\ p \notin Phps /\ p \in Ids /\ t \in Ids /\ conn[t].rfd # NoFd
  BY RelayAssumption DEF RegPc, Reads, Live, Registered, Ids
<1>3. conn[t].rfd \in Fds
  BY <1>1, <1>2 DEF TypeOK, Connection
<1>4. s0 \in States /\ Kept(s0) /\ s0.peer = peer
  <2> DEFINE S == Snapshot
  <2>1. S \in States /\ Kept(S) /\ S.conn[t].rfd # NoFd /\ S.peer = peer
    BY <1>1, <1>2
  <2> HIDE DEF S, p, s0
  <2>2. Pair(S, fd, p, t) \in States /\ Kept(Pair(S, fd, p, t)) /\ Pair(S, fd, p, t).peer = S.peer
    BY <1>2, <2>1, PairKept, PairFields
  <2>3. QED
    BY <2>1, <2>2 DEF S, s0
<1>5. PICK g \in IF freed THEN Fds \union {NoFd} ELSE {conn[t].rfd} :
        Handled(fd, InsertOnline(tell(g), t))
  BY DEF RegPc
<1>6. overlapped' = (overlapped \/ Overtakes(p, t) \/ freed)
  BY DEF RegPc
<1>7. overlapped' \in BOOLEAN
  BY <1>1, <1>6 DEF TypeOK, Overtakes
<1> HIDE DEF s0
<1>8. s1 \in States /\ Kept(s1) /\ Shrinks(s0, s1)
  BY <1>4, WriteMsgType, WriteMsgKept DEF Kinds
<1> HIDE DEF s1
<1>9. s2 \in States /\ Kept(s2) /\ Shrinks(s1, s2)
  BY <1>8, WriteMsgType, WriteMsgKept DEF Kinds
<1> HIDE DEF s2
<1>10. g \in Fds \union {NoFd}
  BY <1>3, <1>5
<1>11. tell(g) \in States /\ Kept(tell(g))
  BY <1>9, <1>10, WriteMsgType, WriteMsgKept DEF Kinds
<1>12. ~overlapped' => SoundBut(tell(g), {}, {}, {t})
  <2>1. SUFFICES ASSUME ~overlapped' PROVE SoundBut(tell(g), {}, {}, {t})
    OBVIOUS
  <2>2. ~overlapped /\ ~Overtakes(p, t) /\ g = conn[t].rfd /\ g # NoFd /\ g \in Fds
    BY <1>2, <1>3, <1>5, <1>6, <2>1
  <2>3. Sound(Snapshot) /\ Reading(Snapshot, {})
    BY <2>2 DEF Consistent, Sound, SoundBut
  <2>4. \A q \in PCs \ {p} : conn[q].wid # t
    BY <2>2 DEF Overtakes
  <2>5. conn[p].wid \in {NoPeer, t}
    BY <2>2 DEF Overtakes
  <2>6. SoundBut(s0, {}, {}, {t})
    BY <1>1, <1>2, <2>3, <2>4, <2>5, PairSound DEF s0
  <2>7. SoundBut(s1, {}, {}, {t})
    BY <1>2, <1>4, <2>6, WriteMsgSound DEF s1, Kinds
  <2>8. s1.peer[fd] \notin Phps
    BY <1>2, <1>4, <1>8, RelayAssumption DEF Shrinks, Devices
  <2>9. SoundBut(s2, {}, {}, {t})
    BY <1>8, <2>7, <2>8, WriteMsgSound DEF s2, Kinds
  <2>10. peer[g] \notin Phps
    BY <1>1, <1>2, <2>2, <2>3, ReaderIsPeer
  <2>11. s2.peer[g] \notin Phps
    BY <1>4, <1>8, <1>9, <2>2, <2>10, RelayAssumption DEF Shrinks, Devices
  <2>12. QED
    BY <1>9, <2>2, <2>9, <2>11, WriteMsgSound DEF Kinds
<1> DEFINE s == InsertOnline(tell(g), t)
<1>13. Handled(fd, s)
  BY <1>5
<1> HIDE DEF tell
<1>14. s \in States /\ Kept(s) /\ (~overlapped' => Sound(s))
  BY <1>11, <1>12, InsertOnlineFields, InsertOnlineKept, InsertOnlineSound
<1> HIDE DEF s
<1>15. QED
  BY <1>1, <1>7, <1>13, <1>14, HandledConsistent

LEMMA PcNeedExitConsistent ==
  ASSUME Consistent, NEW fd \in Fds, PcNeedExit(fd)
  PROVE  Consistent'
<1> DEFINE p    == peer[fd]
           c    == conn[p]
           ids  == {p, c.wid}
           fds  == {fd, c.wfd}
           h    == HangUp(Snapshot, fd, "tv_offline")
           s1   == HangUp(h, c.wfd, "pc_offline")
           s2   == RemoveConnections(s1, ids)
           s3   == RemoveFilters(s2, fds)
           s    == RemoveTvinfo(s3, {c.wid})
<1>1. /\ TypeOK /\ Snapshot \in States /\ Kept(Snapshot)
      /\ Snapshot.peer = peer /\ Snapshot.conn = conn
  BY SnapshotType DEF Consistent
<1>2. p \in PCs /\ p \notin Phps /\ p \in Ids /\ c.rfd # NoFd
  BY RelayAssumption DEF PcNeedExit, Reads, Live, Registered, Ids
<1>3. c.wid # NoPeer /\ c.wfd # NoFd /\ c.wid \in Ids /\ c.wfd \in Fds
  <2>1. c.wid # NoPeer /\ c.wfd # NoFd
    BY <1>1, <1>2 DEF Kept, Shaped
  <2>2. QED
    BY <1>1, <1>2, <2>1 DEF TypeOK, Connection
<1>4. Handled(fd, s) /\ overlapped' = overlapped /\ overlapped \in BOOLEAN
  BY <1>1 DEF PcNeedExit, TypeOK
<1>5. h \in States /\ Kept(h) /\ Shrinks(Snapshot, h) /\ fd \notin h.polled
  BY <1>1, HangUpType, HangUpKept DEF Kinds
<1> HIDE DEF h
<1>6. s1 \in States /\ Kept(s1) /\ Shrinks(h, s1) /\ c.wfd \notin s1.polled
  BY <1>3, <1>5, HangUpType, HangUpKept DEF Kinds
<1> HIDE DEF s1
<1>7. Shrinks(Snapshot, s1) /\ fd \notin s1.polled
  BY <1>1, <1>5, <1>6, ShrinksTransitive DEF Shrinks
<1>8. s2 \in States /\ Kept(s2) /\ \A g \in fds : g \notin s2.polled
  BY <1>6, <1>7, RemoveConnectionsFields, RemoveConnectionsKept
<1>9. s2.conn = [i \in Ids |-> IF i \in ids THEN NoConn ELSE s1.conn[i]]
  BY <1>6, RemoveConnectionsFields
<1> HIDE DEF s2
<1>10. s3 \in States /\ Kept(s3) /\ s3.conn = s2.conn
  BY <1>8, RemoveFiltersFields, RemoveFiltersKept
<1> HIDE DEF s3
<1>11. s \in States /\ Kept(s)
  BY <1>10, RemoveTvinfoFields, RemoveTvinfoKept
<1>12. ~overlapped => Sound(s)
  <2>1. SUFFICES ASSUME ~overlapped PROVE Sound(s)
    OBVIOUS
  <2>2. Sound(Snapshot) /\ Reading(Snapshot, {}) /\ Mutual(Snapshot)
    BY <2>1 DEF Consistent, Sound, SoundBut
  <2>3. \A i \in Ids : conn[i].rfd = fd => i \in ids
    BY <1>1, <1>2, <2>2, ReaderIsPeer
  <2>4. conn[c.wid].rfd = c.wfd
    BY <1>1, <1>2, <1>3, <2>2 DEF Mutual
  <2>5. peer[c.wfd] \notin Phps /\ \A i \in Ids : conn[i].rfd = c.wfd => i \in ids
    BY <1>1, <1>3, <2>2, <2>4, ReaderIsPeer
  <2>6. SoundBut(Snapshot, ids, fds, {})
    BY <2>2 DEF Sound, SoundBut, Filters, Reading
  <2>7. SoundBut(h, ids, fds, {})
    BY <1>1, <1>2, <2>3, <2>6, HangUpSound DEF h, Kinds
  <2>8. h.peer[c.wfd] \notin Phps /\ \A i \in Ids : h.conn[i].rfd = c.wfd => i \in ids
    <3>1. /\ h.peer[c.wfd] = peer[c.wfd] \/ h.peer[c.wfd] = NoPeer
          /\ \A i \in Ids : h.conn[i] = conn[i] \/ h.conn[i] = NoConn
      BY <1>1, <1>3, <1>5 DEF Shrinks
    <3>2. h.peer[c.wfd] \notin Phps
      BY <2>5, <3>1, RelayAssumption DEF Devices
    <3>3. \A i \in Ids : h.conn[i].rfd = c.wfd => h.conn[i] = conn[i]
      BY <1>3, <3>1 DEF NoConn
    <3>4. QED
      BY <2>5, <3>2, <3>3
  <2>9. SoundBut(s1, ids, fds, {})
    BY <1>3, <1>5, <2>7, <2>8, HangUpSound DEF s1, Kinds
  <2>10. \A j \in Ids : s1.conn[j].wid # NoPeer => (j \in ids <=> s1.conn[j].wid \in ids)
    BY <1>1, <1>2, <1>3, <1>7, <2>2, PairClosed
  <2>11. SoundBut(s2, ids \ ids, fds, {})
    BY <1>6, <2>9, <2>10, RemoveConnectionsSound DEF s2
  <2>12. SoundBut(s3, {}, {}, {})
    <3>1. ids \ ids = {} /\ fds \ fds = {}
      OBVIOUS
    <3>2. SoundBut(s3, ids \ ids, fds \ fds, {})
      BY <1>8, <2>11, RemoveFiltersSound DEF s3
    <3>3. QED
      BY <3>1, <3>2
  <2>13. \A u \in {c.wid} \intersect TVs : s3.conn[u].wid = NoPeer
    BY <1>3, <1>9, <1>10 DEF NoConn
  <2>14. QED
    BY <1>10, <2>12, <2>13, RemoveTvinfoSound DEF Sound
<1> HIDE DEF s
<1>13. QED
  BY <1>1, <1>4, <1>11, <1>12, HandledConsistent

-----------------------------------------------------------------------------
(* The PHP clients.                                                          *)

\* Closing a PHP client's socket that no entry names.
LEMMA ClosePhpSound ==
  ASSUME NEW s \in States, Kept(s), Sound(s), NEW fd \in Fds, s.peer[fd] \in Phps,
         \A t \in TVs : s.tvinfo[t].php # fd
  PROVE  Sound(Close(s, {fd}))
<1> DEFINE r == Close(s, {fd})
<1>0. /\ r.peer = [g \in Fds |-> IF g \in {fd} THEN NoPeer ELSE s.peer[g]]
      /\ r.filter = s.filter /\ r.conn = s.conn /\ r.tvinfo = s.tvinfo /\ r.online = s.online
  BY CloseFields
<1> HIDE DEF r
<1>a. Filters(s, {}) /\ Reading(s, {}) /\ Mutual(s) /\ Online(s, {}) /\ Asking(s)
  BY DEF Sound, SoundBut
<1>b. s.peer[fd] \notin Ids
  BY RelayAssumption
<1>1. Filters(r, {})
  BY <1>0, <1>a, <1>b DEF Filters, States
<1>2. Reading(r, {})
  BY <1>0, <1>a, <1>b DEF Reading, States, Connection
<1>3. Mutual(r) /\ Online(r, {})
  BY <1>0, <1>a DEF Mutual, Online
<1>4. Asking(r)
  <2>1. \A t \in TVs : s.tvinfo[t].dev = "pc" => s.tvinfo[t].php \in Fds
    BY DEF Kept, Entries, States, TVInfoNode
  <2>2. QED
    BY <1>0, <1>a, <2>1 DEF Asking
<1>5. QED
  BY <1>1, <1>2, <1>3, <1>4 DEF Sound, SoundBut, r

LEMMA PhpType ==
  ASSUME Consistent, NEW fd \in Fds, Live(fd, Phps)
  PROVE  /\ peer[fd] \in Phps /\ Asked(fd) \in TVs
         /\ TypeOK /\ Snapshot \in States /\ Kept(Snapshot) /\ (~overlapped => Sound(Snapshot))
         /\ Snapshot.peer = peer /\ Snapshot.tvinfo = tvinfo
         /\ fd # NoFd /\ armed \in BOOLEAN /\ overlapped \in BOOLEAN
<1>1. TypeOK /\ Kept(Snapshot) /\ (~overlapped => Sound(Snapshot))
  BY DEF Consistent
<1>2. Snapshot \in States /\ Snapshot.peer = peer /\ Snapshot.tvinfo = tvinfo
  BY <1>1, SnapshotType
<1>3. peer[fd] \in Phps /\ Asked(fd) \in TVs
  BY RelayAssumption DEF Live, Asked
<1>4. fd # NoFd
  BY RelayAssumption DEF NoFd
<1>5. armed \in BOOLEAN /\ overlapped \in BOOLEAN
  BY <1>1 DEF TypeOK
<1>6. QED
  BY <1>1, <1>2, <1>3, <1>4, <1>5

LEMMA PhpExistConsistent ==
  ASSUME Consistent, NEW fd \in Fds, PhpExist(fd)
  PROVE  Consistent'
<1> DEFINE w == WriteMsgToPhp(Snapshot, fd, "exist", Asked(fd))
           s == Close(w, {fd})
<1>1. Live(fd, Phps) /\ Becomes(s, TRUE) /\ overlapped' = (overlapped \/ Abandons(fd))
  BY DEF PhpExist
<1>2. w \in States /\ SameRegistries(Snapshot, w)
  BY <1>1, PhpType, WriteMsgToPhpSame DEF Kinds
<1>3. Kept(w) /\ (~overlapped => Sound(w)) /\ w.peer = peer /\ w.tvinfo = tvinfo
  BY <1>1, <1>2, PhpType, SameRegistriesSound DEF Sound, SameRegistries
<1> HIDE DEF w
<1>4. s \in States /\ Kept(s)
  BY <1>2, <1>3, CloseFields, CloseKept
<1>5. ~overlapped' => Sound(s)
  BY <1>1, <1>2, <1>3, PhpType, ClosePhpSound DEF Abandons
<1> HIDE DEF s
<1>6. overlapped' \in BOOLEAN /\ TypeOK
  BY <1>1, PhpType DEF Abandons
<1>7. QED
  BY <1>1, <1>4, <1>5, <1>6, BecomesConsistent

LEMMA PhpDisconnectConsistent ==
  ASSUME Consistent, NEW fd \in Fds, PhpDisconnect(fd)
  PROVE  Consistent'
<1> DEFINE s == Close(Snapshot, {fd})
<1>1. Live(fd, Phps) /\ Becomes(s, armed) /\ overlapped' = (overlapped \/ Abandons(fd))
  BY DEF PhpDisconnect
<1>2. s \in States /\ Kept(s)
  BY <1>1, PhpType, CloseFields, CloseKept
<1>3. ~overlapped' => Sound(s)
  BY <1>1, PhpType, ClosePhpSound DEF Abandons
<1> HIDE DEF s
<1>4. overlapped' \in BOOLEAN /\ armed \in BOOLEAN /\ TypeOK
  BY <1>1, PhpType DEF Abandons
<1>5. QED
  BY <1>1, <1>2, <1>3, <1>4, BecomesConsistent

LEMMA PhpWaitConsistent ==
  ASSUME Consistent, NEW fd \in Fds, PhpWait(fd)
  PROVE  Consistent'
<1> DEFINE t == Asked(fd)
           s == SetTvinfo(Snapshot, t, PcEntry(fd))
<1>1. Live(fd, Phps) /\ Becomes(s, TRUE) /\ overlapped' = overlapped
  BY DEF PhpWait
<1>2. PcEntry(fd) \in TVInfoNode /\ PcEntry(fd).dev = "pc" /\ PcEntry(fd).php = fd
  BY DEF PcEntry, TVInfoNode
<1>3. s \in States /\ Kept(s)
  BY <1>1, <1>2, PhpType, SetTvinfoFields, SetTvinfoKept
<1>4. ~overlapped => Sound(s)
  BY <1>1, <1>2, PhpType, SetTvinfoSound DEF Asked
<1> HIDE DEF s
<1>5. QED
  BY <1>1, <1>3, <1>4, PhpType, BecomesConsistent

\* No entry waits on the socket of a client that asks for a TV whose entry is the TV's.
LEMMA PhpVerdictConsistent ==
  ASSUME Consistent, NEW fd \in Fds, PhpVerdict(fd)
  PROVE  Consistent'
<1> DEFINE t == Asked(fd)
           w == WriteMsgToPhp(Snapshot, fd, IF tvinfo[t].refuse THEN "refuse" ELSE "ok", t)
           e == SetTvinfo(w, t, NoEntry)
           s == Close(e, {fd})
<1>1. Live(fd, Phps) /\ Becomes(s, armed) /\ overlapped' = overlapped /\ tvinfo[t].dev = "tv"
  BY DEF PhpVerdict
<1>2. w \in States /\ SameRegistries(Snapshot, w)
  <2>1. (IF tvinfo[t].refuse THEN "refuse" ELSE "ok") \in Kinds
    BY DEF Kinds
  <2>2. QED
    BY <1>1, <2>1, PhpType, WriteMsgToPhpSame
<1>3. Kept(w) /\ (~overlapped => Sound(w)) /\ w.peer = peer /\ w.tvinfo = tvinfo
  BY <1>1, <1>2, PhpType, SameRegistriesSound DEF Sound, SameRegistries
<1> HIDE DEF w
<1>4. NoEntry \in TVInfoNode /\ NoEntry.dev # "pc" /\ NoEntry.php = NoFd
  BY DEF NoEntry, TVInfoNode
<1>5. /\ e \in States /\ Kept(e) /\ (~overlapped => Sound(e))
      /\ e.peer = peer /\ e.tvinfo = [tvinfo EXCEPT ![t] = NoEntry]
  BY <1>1, <1>2, <1>3, <1>4, PhpType, SetTvinfoFields, SetTvinfoKept, SetTvinfoSound
<1> HIDE DEF e
<1>6. s \in States /\ Kept(s)
  BY <1>5, CloseFields, CloseKept
<1>7. ~overlapped => Sound(s)
  <2>1. SUFFICES ASSUME ~overlapped PROVE Sound(s)
    OBVIOUS
  <2>2. \A u \in TVs : e.tvinfo[u].php # fd
    <3>1. SUFFICES ASSUME NEW u \in TVs, e.tvinfo[u].php = fd PROVE FALSE
      OBVIOUS
    <3>2. e.tvinfo[u].dev = "pc" /\ u # t
      BY <1>1, <1>4, <1>5, <3>1, PhpType DEF Kept, Entries, TypeOK
    <3>3. Asking(e)
      BY <1>5, <2>1 DEF Sound, SoundBut
    <3>4. Asks[peer[fd]] = u
      BY <1>5, <3>1, <3>2, <3>3 DEF Asking
    <3>5. QED
      BY <3>2, <3>4 DEF Asked
  <2>3. QED
    BY <1>1, <1>5, <2>1, <2>2, PhpType, ClosePhpSound
<1> HIDE DEF s
<1>8. QED
  BY <1>1, <1>6, <1>7, PhpType, BecomesConsistent

\* The older client's socket is closed; nobody but the entry it loses named it.
LEMMA PhpReplaceConsistent ==
  ASSUME Consistent, NEW fd \in Fds, PhpReplace(fd)
  PROVE  Consistent'
<1> DEFINE t   == Asked(fd)
           old == tvinfo[t].php
           w   == WriteMsgToPhp(Snapshot, old, "replace", t)
           k   == Close(w, {old})
           s   == SetTvinfo(k, t, PcEntry(fd))
           e   == SetTvinfo(w, t, PcEntry(fd))
           q   == Close(e, {old})
<1>1. /\ Live(fd, Phps) /\ Becomes(s, TRUE) /\ overlapped' = (overlapped \/ old = fd)
      /\ tvinfo[t].dev = "pc"
  BY DEF PhpReplace
<1>2. old \in Fds
  BY <1>1, PhpType DEF Kept, Entries, TypeOK, TVInfoNode
<1>3. w \in States /\ SameRegistries(Snapshot, w)
  BY <1>1, <1>2, PhpType, WriteMsgToPhpSame DEF Kinds
<1>4. Kept(w) /\ (~overlapped => Sound(w)) /\ w.peer = peer /\ w.tvinfo = tvinfo
  BY <1>1, <1>3, PhpType, SameRegistriesSound DEF Sound, SameRegistries
<1>5. PcEntry(fd) \in TVInfoNode /\ PcEntry(fd).dev = "pc" /\ PcEntry(fd).php = fd
  BY DEF PcEntry, TVInfoNode
<1> HIDE DEF w
<1>6. k \in States /\ Kept(k)
  BY <1>3, <1>4, CloseFields, CloseKept
<1>7. s \in States /\ Kept(s)
  BY <1>1, <1>5, <1>6, PhpType, SetTvinfoFields, SetTvinfoKept
<1>8. /\ e \in States /\ Kept(e)
      /\ e.peer = peer /\ e.tvinfo = [tvinfo EXCEPT ![t] = PcEntry(fd)]
  BY <1>1, <1>3, <1>4, <1>5, PhpType, SetTvinfoFields, SetTvinfoKept
<1>9. q \in States /\ SameRegistries(q, s)
  <2>1. /\ q \in States /\ q.peer = [g \in Fds |-> IF g \in {old} THEN NoPeer ELSE e.peer[g]]
        /\ q.polled = e.polled \ {old} /\ q.filter = e.filter /\ q.conn = e.conn
        /\ q.tvinfo = e.tvinfo /\ q.online = e.online
    BY <1>8, CloseFields
  <2>2. /\ k.peer = [g \in Fds |-> IF g \in {old} THEN NoPeer ELSE w.peer[g]]
        /\ k.polled = w.polled \ {old} /\ k.filter = w.filter /\ k.conn = w.conn
        /\ k.tvinfo = w.tvinfo /\ k.online = w.online
    BY <1>3, CloseFields
  <2>3. /\ s.peer = k.peer /\ s.polled = k.polled /\ s.filter = k.filter /\ s.conn = k.conn
        /\ s.tvinfo = [k.tvinfo EXCEPT ![t] = PcEntry(fd)] /\ s.online = k.online
    BY <1>1, <1>5, <1>6, PhpType, SetTvinfoFields
  <2>4. /\ e.peer = w.peer /\ e.polled = w.polled /\ e.filter = w.filter /\ e.conn = w.conn
        /\ e.tvinfo = [w.tvinfo EXCEPT ![t] = PcEntry(fd)] /\ e.online = w.online
    BY <1>1, <1>3, <1>5, PhpType, SetTvinfoFields
  <2> HIDE DEF q, s, k, e
  <2>5. QED
    BY <2>1, <2>2, <2>3, <2>4 DEF SameRegistries
<1>10. ~overlapped' => Sound(s)
  <2>1. SUFFICES ASSUME ~overlapped' PROVE Sound(s)
    OBVIOUS
  <2>2. old # fd /\ Sound(w) /\ Asking(w)
    BY <1>1, <1>4, <2>1 DEF Sound, SoundBut
  <2>3. Sound(e)
    BY <1>1, <1>3, <1>4, <1>5, <2>2, PhpType, SetTvinfoSound DEF Asked
  <2>4. peer[old] \in Phps /\ Asks[peer[old]] = t
    BY <1>1, <1>4, <2>2, PhpType DEF Asking
  <2>5. \A u \in TVs : e.tvinfo[u].php # old
    <3>1. SUFFICES ASSUME NEW u \in TVs, e.tvinfo[u].php = old PROVE FALSE
      OBVIOUS
    <3>2. u # t /\ tvinfo[u].php = old
      BY <1>1, <1>5, <1>8, <2>2, <3>1, PhpType DEF TypeOK
    <3>3. tvinfo[u].dev = "pc"
      BY <1>2, <1>4, <3>2, RelayAssumption DEF Kept, Entries, NoFd
    <3>4. QED
      BY <1>4, <2>2, <2>4, <3>2, <3>3 DEF Asking
  <2>6. Sound(q)
    BY <1>2, <1>8, <2>3, <2>4, <2>5, ClosePhpSound
  <2>7. QED
    BY <1>9, <2>6, SameRegistriesSound DEF Sound
<1> HIDE DEF s
<1>11. overlapped' \in BOOLEAN
  BY <1>1, PhpType
<1>12. QED
  BY <1>1, <1>7, <1>10, <1>11, PhpType, BecomesConsistent

LEMMA AgeConsistent ==
  ASSUME Consistent, NEW t \in TVs, Age(t)
  PROVE  Consistent'
<1> DEFINE entry == [tvinfo[t] EXCEPT !.old = TRUE]
           s     == SetTvinfo(Snapshot, t, entry)
<1>1. TypeOK /\ Snapshot \in States /\ Kept(Snapshot)
  BY SnapshotType DEF Consistent
<1>2. Snapshot.tvinfo = tvinfo /\ Snapshot.peer = peer
  BY <1>1, SnapshotType
<1>3. /\ entry \in TVInfoNode
      /\ entry.dev = tvinfo[t].dev /\ entry.php = tvinfo[t].php
  BY <1>1 DEF TypeOK, TVInfoNode
<1>4. tvinfo' = [tvinfo EXCEPT ![t] = entry]
  BY DEF Age
<1> HIDE DEF entry
<1>5. s \in States
  BY <1>1, <1>3, SetTvinfoFields
<1>6. Kept(s)
  BY <1>1, <1>2, <1>3, SetTvinfoKept DEF Kept, Entries
<1>7. ~overlapped => Sound(s)
  BY <1>1, <1>2, <1>3, SetTvinfoSound DEF Consistent, Sound, SoundBut, Asking
<1>8. Agrees(s)
  <2>1. /\ s.tvinfo = [Snapshot.tvinfo EXCEPT ![t] = entry]
        /\ s.peer = Snapshot.peer /\ s.polled = Snapshot.polled /\ s.filter = Snapshot.filter
        /\ s.conn = Snapshot.conn /\ s.online = Snapshot.online
    BY <1>1, <1>3, SetTvinfoFields
  <2> HIDE DEF s
  <2>2. QED
    BY <1>1, <1>4, <2>1, SnapshotType DEF Agrees, Age
<1> HIDE DEF s
<1>9. /\ dead' \subseteq Fds /\ armed' \in BOOLEAN /\ fate' \in {"running", "stack", "freed"}
      /\ out' \subseteq Message /\ overlapped' = overlapped /\ overlapped' \in BOOLEAN
  BY <1>1 DEF Age, TypeOK
<1>10. QED
  BY <1>5, <1>6, <1>7, <1>8, <1>9, AgreesConsistent

LEMMA TickConsistent ==
  ASSUME Consistent, Tick
  PROVE  Consistent'
<1> DEFINE q == [Snapshot EXCEPT !.tvinfo = [t \in TVs |-> IF t \in Expired THEN NoEntry
                                                            ELSE tvinfo[t]]]
<1>1. TypeOK /\ Snapshot \in States /\ Kept(Snapshot)
  BY SnapshotType DEF Consistent
<1>2. /\ q.peer = peer /\ q.polled = polled /\ q.filter = filter /\ q.conn = conn
      /\ q.online = online
      /\ q.tvinfo = [t \in TVs |-> IF t \in Expired THEN NoEntry ELSE tvinfo[t]]
  BY DEF Snapshot
<1>3. q \in States
  BY <1>1 DEF Snapshot, TypeOK, States, NoEntry, TVInfoNode
<1> HIDE DEF q
<1>4. Agrees(q)
  BY <1>2 DEF Agrees, Tick
<1>5. Kept(q)
  <2>1. Polls(q) /\ Shaped(q)
    BY <1>1, <1>2 DEF Kept, Polls, Shaped, Snapshot
  <2>2. Entries(q)
    BY <1>1, <1>2 DEF Kept, Entries, Snapshot, NoEntry
  <2>3. QED
    BY <2>1, <2>2 DEF Kept
<1>6. ~overlapped => Sound(q)
  <2>1. SUFFICES ASSUME ~overlapped PROVE Sound(q)
    OBVIOUS
  <2>2. Filters(Snapshot, {}) /\ Reading(Snapshot, {}) /\ Mutual(Snapshot)
        /\ Online(Snapshot, {}) /\ Asking(Snapshot)
    BY <2>1 DEF Consistent, Sound, SoundBut
  <2>3. Filters(q, {}) /\ Reading(q, {}) /\ Mutual(q) /\ Online(q, {})
    BY <1>2, <2>2 DEF Filters, Reading, Mutual, Online, Snapshot
  <2>4. Asking(q)
    BY <1>2, <2>2 DEF Asking, Snapshot, NoEntry
  <2>5. QED
    BY <2>3, <2>4 DEF Sound, SoundBut
<1>7. out' \subseteq Message
  <2>1. SUFFICES ASSUME NEW t \in TVs, tvinfo[t].php # NoFd,
                        ~WriteFails(Snapshot, tvinfo[t].php)
                 PROVE  peer[tvinfo[t].php] \in Devices
    BY DEF Tick, Message, Kinds, Expired
  <2>2. tvinfo[t].php \in Fds
    BY <1>1, <2>1 DEF TypeOK, TVInfoNode
  <2>3. QED
    BY <1>1, <2>1, <2>2 DEF WriteFails, Snapshot, TypeOK
<1>8. /\ dead' \subseteq Fds /\ armed' \in BOOLEAN /\ fate' \in {"running", "stack", "freed"}
      /\ overlapped' = overlapped /\ overlapped' \in BOOLEAN
  BY <1>1 DEF Tick, TypeOK
<1>9. QED
  BY <1>3, <1>4, <1>5, <1>6, <1>7, <1>8, AgreesConsistent

LEMMA StutterConsistent ==
  ASSUME Consistent, UNCHANGED vars
  PROVE  Consistent'
<1>1. Snapshot \in States /\ Agrees(Snapshot)
  BY SnapshotType DEF Consistent, vars, Agrees
<1>2. /\ dead' \subseteq Fds /\ armed' \in BOOLEAN /\ fate' \in {"running", "stack", "freed"}
      /\ out' \subseteq Message /\ overlapped' = overlapped /\ overlapped \in BOOLEAN
  BY DEF vars, Consistent, TypeOK
<1>3. QED
  BY <1>1, <1>2, AgreesConsistent DEF Consistent

LEMMA NextConsistent == Consistent /\ [Next]_vars => Consistent'
<1> SUFFICES ASSUME Consistent, [Next]_vars PROVE Consistent'
  OBVIOUS
<1>1. CASE UNCHANGED vars
  BY <1>1, StutterConsistent
<1>2. ASSUME NEW d \in Devices, Accept(d) PROVE Consistent'
  BY <1>2, AcceptConsistent
<1>3. ASSUME NEW fd \in Fds, NetworkStep(fd) PROVE Consistent'
  BY <1>3, LinkDiesConsistent, DisconnectConsistent DEF NetworkStep
<1>4. ASSUME NEW fd \in Fds, TcpStep(fd) PROVE Consistent'
  <2>1. ASSUME NEW pc \in PCs, TvData(fd, pc) PROVE Consistent'
    BY <2>1, ForwardConsistent DEF TvData, Ids
  <2>2. QED
    BY <1>4, <2>1, RegTvConsistent, RegTvTestConsistent, RejectHelpConsistent,
       AnotherPcCtrlConsistent, TvExitCtrlConsistent DEF TcpStep
<1>5. ASSUME NEW fd \in Fds, WebStep(fd) PROVE Consistent'
  <2>1. ASSUME NEW tv \in TVs, PcData(fd, tv) PROVE Consistent'
    BY <2>1, ForwardConsistent DEF PcData, Ids
  <2>2. QED
    BY <1>5, <2>1, HandshakeConsistent, PcNeedExitConsistent, RegPcConsistent DEF WebStep
<1>6. ASSUME NEW fd \in Fds, PhpStep(fd) PROVE Consistent'
  BY <1>6, PhpExistConsistent, PhpReplaceConsistent, PhpVerdictConsistent, PhpWaitConsistent,
     PhpDisconnectConsistent DEF PhpStep
<1>7. ASSUME NEW t \in TVs, Age(t) PROVE Consistent'
  BY <1>7, AgeConsistent
<1>8. CASE Tick
  BY <1>8, TickConsistent
<1>9. QED
  BY <1>1, <1>2, <1>3, <1>4, <1>5, <1>6, <1>7, <1>8 DEF Next

-----------------------------------------------------------------------------
(* The theorems.                                                             *)

\* The registries are consistent in every reachable state: the inductive invariant that the
\* handlers of the three servers, the timer and the network preserve.
THEOREM SpecConsistent == Spec => []Consistent
<1>1. Init => Consistent
  BY InitConsistent
<1>2. Consistent /\ [Next]_vars => Consistent'
  BY NextConsistent
<1>3. QED
  BY <1>1, <1>2, PTL DEF Spec

\* Type correctness: every descriptor, id and message the handlers compute is one.
THEOREM SpecTypeOK == Spec => []TypeOK
<1>1. Consistent => TypeOK
  BY DEF Consistent
<1>2. QED
  BY <1>1, SpecConsistent, PTL

\* Every relay socket a server still polls has its package reader, whatever has been overtaken,
\* and no reader outlives its socket unless something was (removeConnFilter at every teardown).
THEOREM SpecReadersMatchSockets == Spec => []ReadersMatchSockets
<1>1. Consistent => ReadersMatchSockets
  BY DEF Consistent, ReadersMatchSockets, Open, Kept, Polls, Sound, SoundBut, Filters, Snapshot
<1>2. QED
  BY <1>1, SpecConsistent, PTL

\* The registry never points at a closed descriptor, nor at one that was given to another
\* device (getConnByReadSockfd, getConnectionById).
THEOREM SpecRegistrySound == Spec => []RegistrySound
<1>1. Consistent => RegistrySound
  BY DEF Consistent, RegistrySound, Registered, Sound, SoundBut, Reading, Snapshot
<1>2. QED
  BY <1>1, SpecConsistent, PTL

\* The two Connections of a session name each other (REG_PC, and every teardown).
THEOREM SpecPairingSymmetric == Spec => []PairingSymmetric
<1>1. Consistent => PairingSymmetric
  BY DEF Consistent, PairingSymmetric, Registered, Kept, Shaped, Sound, SoundBut, Mutual, Snapshot
<1>2. QED
  BY <1>1, SpecConsistent, PTL

\* A TV in a session is on the online list (REG_PC, and every removeTvinfo).
THEOREM SpecSessionIsOnline == Spec => []SessionIsOnline
<1>1. Consistent => SessionIsOnline
  BY DEF Consistent, SessionIsOnline, Sound, SoundBut, Online, Snapshot
<1>2. QED
  BY <1>1, SpecConsistent, PTL

\* A waiting entry names the socket of a PHP client that asked for its TV (receiverMsg).
THEOREM SpecEntryNamesAsker == Spec => []EntryNamesAsker
<1>1. Consistent => EntryNamesAsker
  BY DEF Consistent, EntryNamesAsker, Sound, SoundBut, Asking, Snapshot
<1>2. QED
  BY <1>1, SpecConsistent, PTL

-----------------------------------------------------------------------------
(* What a step may never do, and what it has to tell.  Both follow a handler *)
(* from call to call, over the snapshots above.                              *)
(*                                                                           *)
(* Contained: whatever a handler has closed belongs to the devices of one    *)
(* session, and what it has not can lead a teardown only to those.           *)
(*                                                                           *)
(* Accounted: who has heard of the end of a session, what the end leaves on  *)
(* the lists, and what a waiting PHP client hears when its entry goes.  Its  *)
(* centre is FrameTold: of the two ends of a session that a teardown         *)
(* removes, one can be written, or both frames hop to each other for ever.   *)

DeadTv == \E t \in TVs : Registered(t) /\ conn[t].rfd \in dead

\* Two devices of ds are a TV and a PC, neither of them in session with another.
Coupled(ds) ==
  \A d \in ds, e \in ds : d # e =>
    \E t \in TVs, p \in PCs :
      {d, e} = {t, p} /\ conn[t].wid \in {NoPeer, p} /\ conn[p].wid \in {NoPeer, t}

\* A handler has closed sockets of ds only; the partners of ds are in ds; a TV that is in a session
\* is read from the descriptor it had; and a recursion that runs away has met a dead TV.
Contained(s, ds) ==
  /\ \A g \in Fds : s.peer[g] = peer[g] \/ (s.peer[g] = NoPeer /\ peer[g] \in ds)
  /\ \A i \in ds \intersect Ids : s.conn[i].wid \in ds \union {NoPeer}
  /\ \A t \in TVs : s.conn[t].wid # NoPeer => s.conn[t].rfd = conn[t].rfd
  /\ s.stack => DeadTv

\* The descriptors of ds, and those that are closed.
Inside(s, ds) == {g \in Fds : s.peer[g] \in ds \union {NoPeer}}

-----------------------------------------------------------------------------
(* The frames of a teardown, within a session.                               *)

\* A hop leads from the descriptor of a connection to that of its partner, which cannot be written.
LEMMA HopReads ==
  ASSUME NEW s \in States, Mutual(s), NEW g, NEW h \in Hops(s, g)
  PROVE  /\ h \in Fds /\ WriteFails(s, h)
         /\ \E i \in Ids, j \in Ids :
              /\ s.conn[i].rfd = g /\ s.conn[j].rfd = h
              /\ s.conn[i].wid = j /\ s.conn[j].wid = i /\ (i \in TVs <=> j \in PCs)
<1>1. WriteFails(s, h) /\ h \in WriteFds(s, Found(s, {g}))
  BY DEF Hops
<1>2. PICK i \in Found(s, {g}) : Paired(s.conn[i]) /\ h = s.conn[i].wfd
  BY <1>1 DEF WriteFds
<1>3. i \in Ids /\ s.conn[i].rfd = g
  BY FoundReads
<1>4. s.conn[i].wid \in Ids /\ s.conn[i].wid # NoPeer /\ h \in Fds
  BY <1>2, <1>3, PairedType
<1>5. QED
  BY <1>1, <1>2, <1>3, <1>4 DEF Mutual

\* The frames are closed under hops.
LEMMA FramesClosed ==
  ASSUME NEW s \in States, Mutual(s), NEW fd \in Fds, NEW g \in Frames(s, fd)
  PROVE  Hops(s, g) \subseteq Frames(s, fd)
<1>1. SUFFICES ASSUME NEW h \in Hops(s, g) PROVE h \in Frames(s, fd)
  OBVIOUS
<1>2. h \in Fds
  BY HopReads
<1>3. ASSUME NEW fds \in SUBSET Fds, fd \in fds, HopClosed(s, fds) PROVE h \in fds
  <2>1. g \in fds
    BY <1>3 DEF Frames
  <2>2. QED
    BY <1>3, <2>1 DEF HopClosed
<1>4. QED
  BY <1>2, <1>3 DEF Frames

\* disconnectBySockfd calls itself for ever only if it hops to the socket of a TV in a session,
\* and that socket is dead.  Connections of ids may read what the handler has closed.
LEMMA RunawayTv ==
  ASSUME NEW s \in States, NEW ids, Reading(s, ids), Mutual(s), ids \intersect TVs = {},
         NEW fd \in Fds, NeverReturns(s, Frames(s, fd))
  PROVE  \E t \in TVs : s.conn[t].wid # NoPeer /\ s.conn[t].rfd # NoFd /\ s.conn[t].rfd \in dead
<1>1. \A t \in TVs : s.conn[t].rfd \in Fds /\ WriteFails(s, s.conn[t].rfd)
                       => s.conn[t].rfd # NoFd /\ s.conn[t].rfd \in dead
  BY RelayAssumption DEF Reading, WriteFails, NoFd, Ids, Devices
<1>2. ASSUME NEW g \in Frames(s, fd)
      PROVE  \E h \in Frames(s, fd), i \in Ids, j \in Ids :
               /\ h \in Fds /\ WriteFails(s, h)
               /\ s.conn[i].rfd = g /\ s.conn[j].rfd = h
               /\ s.conn[i].wid = j /\ s.conn[j].wid = i /\ (i \in TVs <=> j \in PCs)
  <2>1. PICK h \in Hops(s, g) : TRUE
    BY <1>2 DEF NeverReturns
  <2>2. h \in Frames(s, fd)
    BY <2>1, FramesClosed
  <2>3. QED
    BY <2>1, <2>2, HopReads
<1>3. \A d \in Ids : d # NoPeer /\ (d \in TVs \/ d \in PCs) /\ ~(d \in TVs /\ d \in PCs)
  BY RelayAssumption DEF Ids, Devices
<1>4. fd \in Frames(s, fd)
  BY FramesType
<1>5. PICK h \in Frames(s, fd), i \in Ids, j \in Ids :
        /\ h \in Fds /\ WriteFails(s, h)
        /\ s.conn[i].rfd = fd /\ s.conn[j].rfd = h
        /\ s.conn[i].wid = j /\ s.conn[j].wid = i /\ (i \in TVs <=> j \in PCs)
  BY <1>2, <1>4
<1>6. CASE j \in TVs
  BY <1>1, <1>3, <1>5, <1>6
<1>7. CASE j \in PCs
  <2>1. PICK g \in Frames(s, fd), k \in Ids, m \in Ids :
          /\ g \in Fds /\ WriteFails(s, g)
          /\ s.conn[k].rfd = h /\ s.conn[m].rfd = g
          /\ s.conn[k].wid = m /\ s.conn[m].wid = k /\ (k \in TVs <=> m \in PCs)
    BY <1>2, <1>5
  <2>2. CASE m \in TVs
    BY <1>1, <1>3, <2>1, <2>2
  <2>3. CASE m \in PCs
    <3>1. k \in TVs /\ k \notin ids /\ h # NoFd
      BY <1>3, <1>5, <2>1, <2>3, RelayAssumption DEF NoFd
    <3>2. s.peer[h] = k /\ s.peer[h] \in {j, NoPeer}
      BY <1>5, <2>1, <3>1 DEF Reading
    <3>3. QED
      BY <1>3, <1>7, <3>1, <3>2
  <2>4. QED
    BY <1>3, <2>2, <2>3
<1>8. QED
  BY <1>3, <1>6, <1>7

\* From a socket of ds a teardown reaches sockets of ds only.
LEMMA TornInside ==
  ASSUME NEW s \in States, NEW ids, Reading(s, ids), Mutual(s), NEW ds, ids \subseteq ds,
         \A i \in ds \intersect Ids : s.conn[i].wid \in ds \union {NoPeer},
         NEW fd \in Inside(s, ds)
  PROVE  TornFds(s, fd) \subseteq Inside(s, ds)
<1> DEFINE inside == Inside(s, ds)
<1>1. inside \in SUBSET Fds
  BY DEF Inside
<1>2. \A i \in Ids : s.conn[i].rfd \in inside => i \in ds
  BY RelayAssumption DEF Inside, Reading, NoFd, Ids, Devices
<1>3. ASSUME NEW i \in Ids, Paired(s.conn[i]), i \in ds PROVE s.conn[i].wfd \in inside
  <2>1. s.conn[i].wid \in Ids /\ s.conn[i].wid # NoPeer /\ s.conn[i].wfd \in Fds
    BY <1>3, PairedType
  <2>2. s.conn[i].wfd = s.conn[s.conn[i].wid].rfd /\ s.conn[i].wid \in ds
    BY <1>3, <2>1 DEF Mutual
  <2>3. s.conn[i].wfd # NoFd
    BY <2>1, RelayAssumption DEF NoFd
  <2>4. s.peer[s.conn[i].wfd] \in {s.conn[i].wid, NoPeer}
    BY <2>1, <2>2, <2>3 DEF Reading
  <2>5. QED
    BY <2>1, <2>2, <2>4 DEF Inside
<1>4. ASSUME NEW fds \in SUBSET inside PROVE WriteFds(s, Found(s, fds)) \subseteq inside
  BY <1>2, <1>3, <1>4, FoundReads DEF WriteFds
<1> HIDE DEF inside
<1>5. HopClosed(s, inside)
  <2>1. SUFFICES ASSUME NEW g \in inside PROVE Hops(s, g) \subseteq inside
    BY DEF HopClosed
  <2>2. WriteFds(s, Found(s, {g})) \subseteq inside
    BY <1>4
  <2>3. QED
    BY <2>2 DEF Hops
<1>6. fd \in inside
  BY DEF inside
<1>7. Frames(s, fd) \subseteq inside
  BY <1>1, <1>5, <1>6 DEF Frames
<1>8. QED
  BY <1>4, <1>7 DEF TornFds, inside

-----------------------------------------------------------------------------
(* What each call of a handler keeps contained.                              *)

\* Calls that close nothing, and make no connection, keep to the session.
LEMMA QuietContained ==
  ASSUME NEW s, NEW r, NEW ds, Contained(s, ds),
         r.peer = s.peer, r.stack = s.stack,
         \A i \in Ids : r.conn[i] = s.conn[i] \/ r.conn[i] = NoConn
  PROVE  Contained(r, ds)
<1>1. \A i \in Ids : r.conn[i].wid = s.conn[i].wid \/ r.conn[i].wid = NoPeer
  BY DEF NoConn
<1>2. \A t \in TVs : r.conn[t].wid # NoPeer => r.conn[t] = s.conn[t]
  BY DEF NoConn, Ids
<1>3. QED
  BY <1>1, <1>2 DEF Contained

\* Closing a socket of the session keeps to it.
LEMMA CloseContained ==
  ASSUME NEW s \in States, NEW ds, Contained(s, ds), NEW fd \in Inside(s, ds)
  PROVE  Contained(Close(s, {fd}), ds)
<1> DEFINE r == Close(s, {fd})
<1>1. /\ r.peer = [g \in Fds |-> IF g \in {fd} THEN NoPeer ELSE s.peer[g]]
      /\ r.conn = s.conn /\ r.stack = s.stack
  BY CloseFields
<1> HIDE DEF r
<1>2. Contained(r, ds)
  BY <1>1 DEF Contained, Inside
<1>3. QED
  BY <1>2 DEF r

\* disconnectBySockfd for a socket of the session closes sockets of the session only.
LEMMA DisconnectContained ==
  ASSUME NEW s \in States, NEW ids, Reading(s, ids), Mutual(s), ids \intersect TVs = {},
         NEW ds, ids \subseteq ds, Contained(s, ds), NEW fd \in Inside(s, ds)
  PROVE  Contained(DisconnectBySockfd(s, fd), ds)
<1> DEFINE r == DisconnectBySockfd(s, fd)
<1>1. fd \in Fds
  BY DEF Inside
<1>2. /\ r.peer = [g \in Fds |-> IF g \in TornFds(s, fd) THEN NoPeer ELSE s.peer[g]]
      /\ r.conn = [i \in Ids |-> IF i \in TornIds(s, fd) THEN NoConn ELSE s.conn[i]]
      /\ r.stack = (s.stack \/ NeverReturns(s, Frames(s, fd)))
  BY <1>1, DisconnectFields
<1> HIDE DEF r
<1>3. \A g \in TornFds(s, fd) : s.peer[g] \in ds \union {NoPeer}
  BY TornInside DEF Contained, Inside
<1>4. \A g \in Fds : r.peer[g] = peer[g] \/ (r.peer[g] = NoPeer /\ peer[g] \in ds)
  BY <1>2, <1>3 DEF Contained
<1>5. \A i \in ds \intersect Ids : r.conn[i].wid \in ds \union {NoPeer}
  BY <1>2 DEF Contained, NoConn
<1>6. \A t \in TVs : r.conn[t].wid # NoPeer => r.conn[t].rfd = conn[t].rfd
  BY <1>2 DEF Contained, NoConn, Ids
<1>7. r.stack => DeadTv
  <2>1. ASSUME NeverReturns(s, Frames(s, fd)) PROVE DeadTv
    <3>1. PICK t \in TVs :
            s.conn[t].wid # NoPeer /\ s.conn[t].rfd # NoFd /\ s.conn[t].rfd \in dead
      BY <1>1, <2>1, RunawayTv
    <3>2. QED
      BY <3>1 DEF Contained, DeadTv, Registered
  <2>2. QED
    BY <1>2, <2>1 DEF Contained
<1>8. QED
  BY <1>4, <1>5, <1>6, <1>7 DEF Contained, r

LEMMA WriteMsgContained ==
  ASSUME NEW s \in States, NEW ids, Reading(s, ids), Mutual(s), ids \intersect TVs = {},
         NEW ds, ids \subseteq ds, Contained(s, ds), NEW fd \in Inside(s, ds), NEW kind \in Kinds
  PROVE  Contained(WriteMsg(s, fd, kind), ds)
<1>1. CASE WriteFails(s, fd)
  BY <1>1, DisconnectContained DEF WriteMsg
<1>2. CASE ~WriteFails(s, fd)
  <2> DEFINE r == Deliver(s, fd, kind, NoPeer)
  <2>1. r.peer = s.peer /\ r.conn = s.conn /\ r.stack = s.stack
    BY <1>2, DeliverFields DEF WriteFails, Inside
  <2>2. WriteMsg(s, fd, kind) = r
    BY <1>2 DEF WriteMsg
  <2> HIDE DEF r
  <2>3. QED
    BY <2>1, <2>2, QuietContained
<1>3. QED
  BY <1>1, <1>2

\* What is inside stays inside.
LEMMA InsideShrinks ==
  ASSUME NEW s, NEW r, NEW ds, Shrinks(s, r)
  PROVE  Inside(s, ds) \subseteq Inside(r, ds)
BY DEF Inside, Shrinks

LEMMA HangUpContained ==
  ASSUME NEW s \in States, NEW ids, Reading(s, ids), Mutual(s), ids \intersect TVs = {},
         NEW ds, ids \subseteq ds, Contained(s, ds), NEW fd \in Inside(s, ds), NEW kind \in Kinds
  PROVE  Contained(HangUp(s, fd, kind), ds)
<1> DEFINE w == WriteMsg(s, fd, kind)
<1>1. w \in States /\ Shrinks(s, w) /\ Contained(w, ds)
  BY WriteMsgType, WriteMsgContained DEF Inside
<1> HIDE DEF w
<1>2. fd \in Inside(w, ds)
  BY <1>1, InsideShrinks
<1>3. Contained(Close(w, {fd}), ds)
  BY <1>1, <1>2, CloseContained
<1>4. QED
  BY <1>3 DEF HangUp, w

\* disconnectBySockfd with DISCONNECT_REPLACE: the socket it is called for and its partner's.
LEMMA DisconnectReplaceContained ==
  ASSUME NEW s \in States, Kept(s), Sound(s), NEW ds, Contained(s, ds), NEW fd \in Inside(s, ds)
  PROVE  Contained(DisconnectReplace(s, fd), ds)
<1> DEFINE s1 == RemoveFilters([s EXCEPT !.polled = @ \ {fd}], {fd})
           i  == ConnByReadFd(s, fd)
           c  == s.conn[i]
           h  == HangUp(s1, c.wfd, "another_pc")
           s2 == Close(h, {fd})
           s3 == RemoveConnections(s2, {c.wid, i})
           s4 == RemoveFilters(s3, {c.wfd})
           r1 == RemoveConnections(s1, {i})
<1>0. fd \in Fds
  BY DEF Inside
<1>1. /\ s1 \in States /\ s1.conn = s.conn /\ s1.peer = s.peer
      /\ Sound(s) => Sound(s1)
  BY <1>0, ReplaceFirst DEF Sound
<1>2. s1.stack = s.stack
  BY DEF RemoveFilters, States
<1>3. DisconnectReplace(s, fd) =
        IF Readers(s, fd) = {} THEN s1 ELSE IF Paired(c) THEN s4 ELSE r1
  BY DEF DisconnectReplace
<1> HIDE DEF s1
<1>4. Contained(s1, ds) /\ Reading(s1, {}) /\ Mutual(s1) /\ fd \in Inside(s1, ds)
  BY <1>1, <1>2, QuietContained DEF Sound, SoundBut, Inside
<1>5. Contained(r1, ds)
  <2>1. r1.peer = s1.peer /\ r1.stack = s1.stack
        /\ r1.conn = [j \in Ids |-> IF j \in {i} THEN NoConn ELSE s1.conn[j]]
    BY <1>1, RemoveConnectionsFields
  <2> HIDE DEF r1, i
  <2>2. QED
    BY <1>4, <2>1, QuietContained
<1>6. CASE Readers(s, fd) # {} /\ Paired(c)
  <2>1. i \in Ids /\ s.conn[i].rfd = fd /\ c.wid \in Ids /\ c.wid # NoPeer /\ c.wfd \in Fds
    BY <1>0, <1>6, ReaderOf, PairedType
  <2>2. i \in ds
    <3>1. s.peer[fd] = i /\ i # NoPeer
      BY <1>0, <2>1, ReaderIsPeer, RelayAssumption DEF Sound, SoundBut, Devices
    <3>2. QED
      BY <3>1 DEF Inside
  <2>3. s.conn[c.wid].rfd = c.wfd /\ c.wid \in ds
    BY <2>1, <2>2 DEF Sound, SoundBut, Mutual, Contained
  <2>4. c.wfd \in Inside(s1, ds)
    BY <1>1, <2>1, <2>3, ReaderIsPeer DEF Inside, Sound, SoundBut
  <2>5. h \in States /\ Shrinks(s1, h) /\ Contained(h, ds)
    <3>1. h \in States /\ Shrinks(s1, h)
      BY <1>1, <2>1, HangUpType DEF Kinds
    <3>2. {} \intersect TVs = {} /\ {} \subseteq ds /\ "another_pc" \in Kinds
      BY DEF Kinds
    <3>3. Contained(h, ds)
      BY <1>1, <1>4, <2>4, <3>2, HangUpContained
    <3>4. QED
      BY <3>1, <3>3
  <2> HIDE DEF h
  <2>6. s2 \in States /\ Contained(s2, ds)
    BY <1>4, <2>5, InsideShrinks, CloseFields, CloseContained
  <2> HIDE DEF s2
  <2>7. s3 \in States /\ s3.peer = s2.peer /\ s3.stack = s2.stack
        /\ s3.conn = [j \in Ids |-> IF j \in {c.wid, i} THEN NoConn ELSE s2.conn[j]]
    BY <2>6, RemoveConnectionsFields
  <2> HIDE DEF s3
  <2>8. Contained(s3, ds)
    BY <2>6, <2>7, QuietContained
  <2>9. s4.peer = s3.peer /\ s4.stack = s3.stack /\ s4.conn = s3.conn
    BY <2>7, RemoveFiltersFields
  <2> HIDE DEF s4
  <2>10. Contained(s4, ds)
    BY <2>8, <2>9, QuietContained
  <2>11. QED
    BY <1>3, <1>6, <2>10
<1> HIDE DEF r1, s4
<1>7. QED
  BY <1>3, <1>4, <1>5, <1>6

-----------------------------------------------------------------------------
(* From a handler's calls to its step.                                       *)

\* What a step may not do: close the sockets of bystanders, or run away without a dead TV.
Harmless == NoBystanderStep /\ RunawayNeedsDeadTvStep

\* A device and its partner.
Couple(d) == {d, conn[d].wid} \ {NoPeer}

LEMMA CoupleContained ==
  ASSUME Consistent, ~overlapped, NEW d \in Ids
  PROVE  /\ Coupled(Couple(d)) /\ Contained(Snapshot, Couple(d)) /\ d \in Couple(d)
         /\ Snapshot \in States /\ Kept(Snapshot) /\ Sound(Snapshot)
         /\ Reading(Snapshot, {}) /\ Mutual(Snapshot)
         /\ {} \intersect TVs = {} /\ {} \subseteq Couple(d)
<1>1. /\ Snapshot \in States /\ Kept(Snapshot) /\ Sound(Snapshot)
      /\ Reading(Snapshot, {}) /\ Mutual(Snapshot)
      /\ Snapshot.conn = conn /\ Snapshot.peer = peer /\ Snapshot.stack = FALSE
  BY SnapshotType DEF Consistent, Sound, SoundBut
<1>2. d # NoPeer /\ \A i \in Ids : (i \in TVs \/ i \in PCs) /\ i # NoPeer
  BY RelayAssumption DEF Ids, Devices
<1> DEFINE w == conn[d].wid
<1>3. w \in Ids \union {NoPeer}
  BY DEF Consistent, TypeOK, Connection
<1>4. w # NoPeer => conn[w].wid = d /\ (d \in TVs <=> w \in PCs)
  BY <1>1 DEF Mutual
<1>5. Contained(Snapshot, Couple(d))
  BY <1>1, <1>2, <1>3, <1>4 DEF Contained, Couple
<1>6. Coupled(Couple(d))
  <2>1. SUFFICES ASSUME w # NoPeer, d # w
                 PROVE  \E t \in TVs, p \in PCs :
                          /\ {d, w} = {t, p}
                          /\ conn[t].wid \in {NoPeer, p} /\ conn[p].wid \in {NoPeer, t}
    BY <1>2 DEF Coupled, Couple
  <2>2. CASE d \in TVs
    BY <1>3, <1>4, <2>1, <2>2
  <2>3. CASE d \notin TVs
    <3>1. d \in PCs /\ w \in TVs
      BY <1>2, <1>3, <1>4, <2>1, <2>3
    <3>2. QED
      BY <1>4, <2>1, <3>1
  <2>4. QED
    BY <2>2, <2>3
<1>7. QED
  BY <1>1, <1>2, <1>5, <1>6 DEF Couple

\* Where the couple's sockets are.
LEMMA CoupleInside ==
  ASSUME Consistent, ~overlapped, NEW d \in Ids, NEW ds, d \in ds, NEW fd \in Fds
  PROVE  peer[fd] = d \/ conn[d].rfd = fd => fd \in Inside(Snapshot, ds)
<1>1. Snapshot.peer = peer /\ Snapshot.conn = conn /\ Snapshot \in States
  BY SnapshotType DEF Consistent
<1>2. conn[d].rfd = fd => peer[fd] = d
  BY <1>1, ReaderIsPeer DEF Consistent, Sound, SoundBut
<1>3. QED
  BY <1>1, <1>2 DEF Inside

LEMMA ContainedHarmless ==
  ASSUME NEW s, NEW ds, Coupled(ds), Contained(s, ds), NEW timer, Becomes(s, timer)
  PROVE  Harmless
<1>1. CASE s.stack
  BY <1>1 DEF Becomes, Dies, Contained, DeadTv, Harmless, NoBystanderStep, Survives,
              RunawayNeedsDeadTvStep
<1>2. CASE ~s.stack
  <2>1. fate' = "running" /\ peer' = s.peer
    BY <1>2 DEF Becomes
  <2>2. \A g \in Closed : peer[g] \in ds
    BY <2>1 DEF Closed, Contained
  <2>3. QED
    BY <2>1, <2>2 DEF Harmless, NoBystanderStep, RunawayNeedsDeadTvStep, Coupled
<1>3. QED
  BY <1>1, <1>2

LEMMA HandledHarmless ==
  ASSUME NEW s, NEW ds, Coupled(ds), Contained(s, ds), NEW fd, Handled(fd, s)
  PROVE  Harmless
<1>1. CASE Dies("freed")
  BY <1>1 DEF Dies, Harmless, NoBystanderStep, Survives, RunawayNeedsDeadTvStep
<1>2. CASE Becomes(s, armed)
  BY <1>2, ContainedHarmless
<1>3. QED
  BY <1>1, <1>2 DEF Handled

\* A handler that closes one socket and tears nothing down: those of the PHP clients.
LEMMA OneSocketHarmless ==
  ASSUME NEW s, NEW fd, s.stack = FALSE, \A g \in Fds \ {fd} : s.peer[g] = peer[g],
         NEW timer, Becomes(s, timer)
  PROVE  Harmless
<1>1. fate' = "running" /\ peer' = s.peer
  BY DEF Becomes
<1>2. \A g \in Closed : g = fd
  BY <1>1 DEF Closed
<1>3. QED
  BY <1>1, <1>2 DEF Harmless, NoBystanderStep, RunawayNeedsDeadTvStep

-----------------------------------------------------------------------------
(* Harmless: one lemma per action.                                           *)

\* Steps of the network, the clock and the timer close nothing.
LEMMA OpenHarmless ==
  ASSUME Consistent,
         \/ \E d \in Devices : Accept(d)
         \/ \E fd \in Fds : LinkDies(fd)
         \/ \E t \in TVs : Age(t)
         \/ Tick
  PROVE  Harmless
<1>1. fate' = "running" /\ \A g \in Fds : peer[g] # NoPeer => peer'[g] = peer[g]
  <2>1. CASE \E d \in Devices : Accept(d)
    <3>1. PICK d \in Devices : Accept(d)
      BY <2>1
    <3>2. FreeFds \in SUBSET Nat /\ FreeFds # {}
      BY <3>1, RelayAssumption DEF FreeFds, Accept
    <3>3. Min(FreeFds) \in FreeFds
      BY <3>2, MinInSet
    <3>4. QED
      BY <3>1, <3>3 DEF Accept, FreeFds, Consistent, TypeOK
  <2>2. QED
    BY <2>1 DEF LinkDies, Age, Tick
<1>2. QED
  BY <1>1 DEF Harmless, NoBystanderStep, RunawayNeedsDeadTvStep, Closed

LEMMA DisconnectHarmless ==
  ASSUME Consistent, ~overlapped, NEW fd \in Fds, Disconnect(fd) \/ TvExitCtrl(fd)
  PROVE  Harmless
<1> DEFINE d == peer[fd]
           s == DisconnectBySockfd(Snapshot, fd)
<1>1. d \in Ids
  BY DEF Disconnect, TvExitCtrl, Reads, Live, Ids
<1>2. fd \in Inside(Snapshot, Couple(d))
  BY <1>1, CoupleContained, CoupleInside
<1>3. Coupled(Couple(d)) /\ Contained(s, Couple(d))
  BY <1>1, <1>2, CoupleContained, DisconnectContained
<1>4. Becomes(s, armed) \/ Handled(fd, s)
  BY DEF Disconnect, TvExitCtrl
<1> HIDE DEF s
<1>5. QED
  BY <1>3, <1>4, ContainedHarmless, HandledHarmless

LEMMA AnotherPcCtrlHarmless ==
  ASSUME Consistent, ~overlapped, NEW fd \in Fds, AnotherPcCtrl(fd)
  PROVE  Harmless
<1> DEFINE d == peer[fd]
           s == DisconnectReplace(Snapshot, fd)
<1>1. d \in Ids
  BY DEF AnotherPcCtrl, Reads, Live, Ids
<1>2. fd \in Inside(Snapshot, Couple(d))
  BY <1>1, CoupleContained, CoupleInside
<1>3. Coupled(Couple(d)) /\ Contained(s, Couple(d))
  BY <1>1, <1>2, CoupleContained, DisconnectReplaceContained
<1>4. Handled(fd, s)
  BY DEF AnotherPcCtrl
<1> HIDE DEF s
<1>5. QED
  BY <1>3, <1>4, HandledHarmless

LEMMA WriteHarmless ==
  ASSUME Consistent, ~overlapped, NEW fd \in Fds,
         Handshake(fd) \/ \E target \in Ids : Forward(fd, target)
  PROVE  Harmless
<1>1. ASSUME NEW g \in Fds, NEW d \in Ids, peer[g] = d \/ conn[d].rfd = g, NEW kind \in Kinds,
             Becomes(WriteMsg(Snapshot, g, kind), armed) \/ Handled(fd, WriteMsg(Snapshot, g, kind))
      PROVE  Harmless
  <2> DEFINE s == WriteMsg(Snapshot, g, kind)
  <2>1. g \in Inside(Snapshot, Couple(d))
    BY <1>1, CoupleContained, CoupleInside
  <2>2. Coupled(Couple(d)) /\ Contained(s, Couple(d))
    BY <1>1, <2>1, CoupleContained, WriteMsgContained
  <2>3. Becomes(s, armed) \/ Handled(fd, s)
    BY <1>1
  <2> HIDE DEF s
  <2>4. QED
    BY <2>2, <2>3, ContainedHarmless, HandledHarmless
<1>2. "handshake" \in Kinds /\ "data" \in Kinds
  BY DEF Kinds
<1>3. CASE Handshake(fd)
  BY <1>1, <1>2, <1>3 DEF Handshake, Live, Ids
<1>4. CASE \E target \in Ids : Forward(fd, target)
  <2>1. PICK target \in Ids : Forward(fd, target)
    BY <1>4
  <2>2. conn[target].rfd \in Fds
    BY <2>1 DEF Forward, Registered, Consistent, TypeOK, Connection
  <2>3. QED
    BY <1>1, <1>2, <2>1, <2>2 DEF Forward
<1>5. QED
  BY <1>3, <1>4

\* REG_TV for a TV that is in no session: a failing reply closes the TV's own socket.
LEMMA RegisterTvHarmless ==
  ASSUME Consistent, ~overlapped, NEW fd \in Fds, peer[fd] \in TVs, ~InSession(peer[fd]),
         NEW s \in States, Kept(s), Sound(s), s.peer = peer, s.conn = conn, s.stack = FALSE,
         Handled(fd, RegisterTv(s, fd, peer[fd]))
  PROVE  Harmless
<1> DEFINE t == peer[fd]
           r == Registering(s, fd, t)
           w == WriteMsg(r, fd, "srv_id")
<1>1. t \in TVs /\ t \in Ids /\ t # NoPeer /\ s.conn[t].wid = NoPeer
  BY NoSession, RelayAssumption DEF Ids, Devices
<1>2. /\ r \in States /\ Sound(r) /\ r.peer = s.peer /\ r.stack = s.stack
      /\ r.conn[t].wid = NoPeer /\ \A i \in Ids \ {t} : r.conn[i] = s.conn[i]
  BY <1>1, RegisteringSound
<1>3. RegisterTv(s, fd, t) = w
  BY DEF RegisterTv, Registering
<1> HIDE DEF r
<1>4. Contained(r, {t})
  BY <1>1, <1>2 DEF Contained, Ids
<1>5. fd \in Inside(r, {t})
  BY <1>2 DEF Inside
<1>6. Contained(w, {t})
  <2>1. {} \intersect TVs = {} /\ {} \subseteq {t} /\ "srv_id" \in Kinds
    BY DEF Kinds
  <2>2. Reading(r, {}) /\ Mutual(r)
    BY <1>2 DEF Sound, SoundBut
  <2>3. QED
    BY <1>2, <1>4, <1>5, <2>1, <2>2, WriteMsgContained
<1>7. Coupled({t})
  BY DEF Coupled
<1> HIDE DEF w
<1>8. QED
  BY <1>3, <1>6, <1>7, HandledHarmless

\* A verdict for a PHP client changes neither the descriptors nor the registry.
LEMMA VerdictFields ==
  ASSUME Consistent, ~overlapped, NEW t \in TVs, NEW kind \in Kinds, NEW entry \in TVInfoNode,
         entry.dev # "pc", entry.php = NoFd
  PROVE  LET s == IF tvinfo[t].dev = "pc"
                  THEN SetTvinfo(WriteMsgToPhp(Snapshot, tvinfo[t].php, kind, t), t, NoEntry)
                  ELSE SetTvinfo(Snapshot, t, entry)
         IN  /\ s \in States /\ Kept(s) /\ Sound(s)
             /\ s.peer = peer /\ s.conn = conn /\ s.stack = FALSE
<1> DEFINE w == WriteMsgToPhp(Snapshot, tvinfo[t].php, kind, t)
<1>1. /\ TypeOK /\ Snapshot \in States /\ Kept(Snapshot) /\ Sound(Snapshot)
      /\ Snapshot.peer = peer /\ Snapshot.conn = conn /\ Snapshot.tvinfo = tvinfo
      /\ Snapshot.stack = FALSE
  BY SnapshotType DEF Consistent
<1>2. NoEntry \in TVInfoNode /\ NoEntry.dev # "pc" /\ NoEntry.php = NoFd
  BY DEF NoEntry, TVInfoNode
<1>3. CASE tvinfo[t].dev = "pc"
  <2>1. tvinfo[t].php \in Fds
    BY <1>1, <1>3 DEF Kept, Entries, TypeOK, TVInfoNode
  <2>2. w \in States /\ SameRegistries(Snapshot, w)
    BY <1>1, <2>1, WriteMsgToPhpSame
  <2>3. w.stack = FALSE
    <3>1. CASE WriteFails(Snapshot, tvinfo[t].php)
      BY <1>1, <3>1 DEF WriteMsgToPhp
    <3>2. CASE ~WriteFails(Snapshot, tvinfo[t].php)
      BY <1>1, <2>1, <3>2, DeliverFields DEF WriteMsgToPhp, WriteFails
    <3>3. QED
      BY <3>1, <3>2
  <2>4. Kept(w) /\ Sound(w) /\ w.peer = peer /\ w.conn = conn
    BY <1>1, <2>2, SameRegistriesSound DEF Sound, SameRegistries
  <2> HIDE DEF w
  <2>5. QED
    BY <1>2, <1>3, <2>2, <2>3, <2>4, SetTvinfoFields, SetTvinfoKept, SetTvinfoSound DEF w
<1>4. CASE tvinfo[t].dev # "pc"
  BY <1>1, <1>4, SetTvinfoFields, SetTvinfoKept, SetTvinfoSound
<1>5. QED
  BY <1>3, <1>4

LEMMA RegTvHarmless ==
  ASSUME Consistent, ~overlapped', NEW fd \in Fds, RegTv(fd) \/ RegTvTest(fd)
  PROVE  Harmless
<1> DEFINE t == peer[fd]
           s == IF tvinfo[t].dev = "pc"
                THEN SetTvinfo(WriteMsgToPhp(Snapshot, tvinfo[t].php, "ok", t), t, NoEntry)
                ELSE SetTvinfo(Snapshot, t, AcceptedEntry)
<1>1. t \in TVs /\ ~overlapped /\ ~InSession(t)
  BY DEF RegTv, RegTvTest, Reads, Live
<1>2. CASE RegTv(fd)
  <2>1. /\ AcceptedEntry \in TVInfoNode /\ AcceptedEntry.dev # "pc" /\ AcceptedEntry.php = NoFd
        /\ "ok" \in Kinds
    BY DEF AcceptedEntry, TVInfoNode, Kinds
  <2>2. /\ s \in States /\ Kept(s) /\ Sound(s)
        /\ s.peer = peer /\ s.conn = conn /\ s.stack = FALSE
    BY <1>1, <2>1, VerdictFields
  <2>3. Handled(fd, RegisterTv(s, fd, t))
    BY <1>2 DEF RegTv
  <2> HIDE DEF s
  <2>4. QED
    BY <1>1, <2>2, <2>3, RegisterTvHarmless
<1>3. CASE RegTvTest(fd)
  <2>1. /\ Snapshot \in States /\ Kept(Snapshot) /\ Sound(Snapshot)
        /\ Snapshot.peer = peer /\ Snapshot.conn = conn /\ Snapshot.stack = FALSE
    BY <1>1, SnapshotType DEF Consistent
  <2>2. Handled(fd, RegisterTv(Snapshot, fd, t))
    BY <1>3 DEF RegTvTest
  <2>3. QED
    BY <1>1, <2>1, <2>2, RegisterTvHarmless
<1>4. QED
  BY <1>2, <1>3

LEMMA RejectHelpHarmless ==
  ASSUME Consistent, ~overlapped, NEW fd \in Fds, RejectHelp(fd)
  PROVE  Harmless
<1> DEFINE t == peer[fd]
           s == IF tvinfo[t].dev = "pc"
                THEN SetTvinfo(WriteMsgToPhp(Snapshot, tvinfo[t].php, "refuse", t), t, NoEntry)
                ELSE SetTvinfo(Snapshot, t, RefusedEntry)
<1>1. t \in TVs /\ Becomes(s, armed)
  BY DEF RejectHelp, Reads, Live
<1>2. /\ RefusedEntry \in TVInfoNode /\ RefusedEntry.dev # "pc" /\ RefusedEntry.php = NoFd
      /\ "refuse" \in Kinds
  BY DEF RefusedEntry, TVInfoNode, Kinds
<1>3. s.peer = peer /\ s.stack = FALSE
  BY <1>1, <1>2, VerdictFields
<1> HIDE DEF s
<1>4. QED
  BY <1>1, <1>3, OneSocketHarmless

\* REG_PC of a TV nobody controls, by a PC that controls no other: the replies that fail close the
\* sockets of these two.
LEMMA RegPcHarmless ==
  ASSUME Consistent, ~overlapped', NEW fd \in Fds, NEW t \in TVs, RegPc(fd, t)
  PROVE  Harmless
<1> DEFINE p  == peer[fd]
           ds == {p, t}
           s0 == Pair(Snapshot, fd, p, t)
           s1 == WriteMsg(s0, fd, "srv_id")
           s2 == WriteMsg(s1, fd, "tv_id")
           freed == s2.conn[t] = NoConn
           tell(g) == IF g = NoFd THEN s2 ELSE WriteMsg(s2, g, "pc_id")
<1>1. /\ ~overlapped /\ ~Overtakes(p, t) /\ ~freed
      /\ Handled(fd, InsertOnline(tell(conn[t].rfd), t))
  BY DEF RegPc
<1>2. /\ TypeOK /\ Snapshot \in States /\ Kept(Snapshot) /\ Sound(Snapshot)
      /\ Snapshot.peer = peer /\ Snapshot.conn = conn /\ Snapshot.stack = FALSE
      /\ Reading(Snapshot, {}) /\ Mutual(Snapshot)
  BY <1>1, SnapshotType DEF Consistent, Sound, SoundBut
<1>3. /\ p \in PCs /\ p \in Ids /\ t \in Ids /\ p # t /\ p # NoPeer /\ t # NoPeer
      /\ p \notin Phps /\ t \notin Phps
      /\ conn[t].rfd # NoFd /\ conn[t].rfd \in Fds /\ peer[conn[t].rfd] = t
  <2>1. /\ p \in PCs /\ p \in Ids /\ t \in Ids /\ p # t /\ p # NoPeer /\ t # NoPeer
        /\ p \notin Phps /\ t \notin Phps /\ conn[t].rfd # NoFd
    BY RelayAssumption DEF RegPc, Reads, Live, Registered, Ids, Devices
  <2>2. conn[t].rfd \in Fds
    BY <1>2, <2>1 DEF TypeOK, Connection
  <2>3. QED
    BY <1>2, <2>1, <2>2, ReaderIsPeer
<1> DEFINE g == conn[t].rfd
<1>4. (\A q \in PCs \ {p} : conn[q].wid # t) /\ conn[p].wid \in {NoPeer, t}
  BY <1>1 DEF Overtakes
<1>5. Coupled(ds)
  <2>1. conn[t].wid \in {NoPeer, p}
    BY <1>2, <1>3, <1>4 DEF Mutual
  <2>2. QED
    BY <1>3, <1>4, <2>1 DEF Coupled
<1>6. /\ s0 \in States /\ s0.peer = peer /\ s0.stack = FALSE
      /\ s0.conn[p].wid = t /\ s0.conn[t].wid = p /\ s0.conn[t].rfd = conn[t].rfd
      /\ \A i \in Ids \ {p, t} : s0.conn[i] = conn[i]
  <2>1. s0.stack = Snapshot.stack
    BY DEF Pair, Snapshot
  <2> DEFINE S == Snapshot
  <2> HIDE DEF S, p, s0
  <2>2. /\ Pair(S, fd, p, t) \in States /\ Pair(S, fd, p, t).peer = S.peer
        /\ Pair(S, fd, p, t).conn[p] = [rfd |-> fd, wfd |-> S.conn[t].rfd, wid |-> t]
        /\ Pair(S, fd, p, t).conn[t] = [rfd |-> S.conn[t].rfd, wfd |-> fd, wid |-> p]
        /\ \A i \in Ids \ {p, t} : Pair(S, fd, p, t).conn[i] = S.conn[i]
    BY <1>2, <1>3, PairFields DEF S
  <2>3. QED
    BY <1>2, <2>1, <2>2 DEF S, s0
<1>7. SoundBut(s0, {}, {}, {t}) /\ Kept(s0)
  BY <1>2, <1>3, <1>4, PairSound, PairKept
<1> HIDE DEF s0
<1>8. Contained(s0, ds) /\ fd \in Inside(s0, ds) /\ g \in Inside(s0, ds)
  <2>1. \A u \in TVs : s0.conn[u].wid # NoPeer => s0.conn[u].rfd = conn[u].rfd
    BY <1>3, <1>6, RelayAssumption DEF Ids
  <2>2. QED
    BY <1>3, <1>6, <2>1 DEF Contained, Inside
<1>9. {} \intersect TVs = {} /\ {} \subseteq ds /\ {"srv_id", "tv_id", "pc_id"} \subseteq Kinds
  BY DEF Kinds
<1>10. ASSUME NEW s \in States, Kept(s), SoundBut(s, {}, {}, {t}), Contained(s, ds),
              NEW f \in Inside(s, ds), NEW kind \in Kinds
       PROVE  LET r == WriteMsg(s, f, kind)
              IN  /\ r \in States /\ Kept(r) /\ SoundBut(r, {}, {}, {t}) /\ Contained(r, ds)
                  /\ Inside(s, ds) \subseteq Inside(r, ds)
  <2>1. f \in Fds /\ s.peer[f] \notin Phps
    BY <1>3, <1>10, RelayAssumption DEF Inside, Devices
  <2>2. Reading(s, {}) /\ Mutual(s)
    BY <1>10 DEF SoundBut
  <2>3. Contained(WriteMsg(s, f, kind), ds)
    BY <1>9, <1>10, <2>2, WriteMsgContained
  <2>4. QED
    BY <1>10, <2>1, <2>3, WriteMsgType, WriteMsgKept, WriteMsgSound, InsideShrinks
<1>11. /\ s1 \in States /\ Kept(s1) /\ SoundBut(s1, {}, {}, {t}) /\ Contained(s1, ds)
       /\ fd \in Inside(s1, ds) /\ g \in Inside(s1, ds)
  BY <1>6, <1>7, <1>8, <1>9, <1>10
<1> HIDE DEF s1
<1>12. /\ s2 \in States /\ Kept(s2) /\ SoundBut(s2, {}, {}, {t}) /\ Contained(s2, ds)
       /\ g \in Inside(s2, ds)
  BY <1>9, <1>10, <1>11
<1> HIDE DEF s2
<1>13. tell(g) \in States /\ Contained(tell(g), ds)
  BY <1>9, <1>10, <1>12
<1> DEFINE s == InsertOnline(tell(g), t)
<1>14. Handled(fd, s)
  BY <1>1
<1> HIDE DEF tell
<1>15. s.peer = tell(g).peer /\ s.stack = tell(g).stack /\ s.conn = tell(g).conn
  BY <1>13, InsertOnlineFields
<1> HIDE DEF s
<1>16. Contained(s, ds)
  BY <1>13, <1>15, QuietContained
<1>17. QED
  BY <1>5, <1>14, <1>16, HandledHarmless

\* PC_NEED_EXIT: the PC's own socket is closed while its Connection still reads it, then the TV's.
LEMMA PcNeedExitHarmless ==
  ASSUME Consistent, ~overlapped, NEW fd \in Fds, PcNeedExit(fd)
  PROVE  Harmless
<1> DEFINE p  == peer[fd]
           c  == conn[p]
           ds == Couple(p)
           h  == HangUp(Snapshot, fd, "tv_offline")
           s1 == HangUp(h, c.wfd, "pc_offline")
           s2 == RemoveConnections(s1, {p, c.wid})
           s3 == RemoveFilters(s2, {fd, c.wfd})
           s  == RemoveTvinfo(s3, {c.wid})
<1>1. /\ TypeOK /\ Snapshot \in States /\ Kept(Snapshot) /\ Sound(Snapshot)
      /\ Snapshot.peer = peer /\ Snapshot.conn = conn
      /\ Reading(Snapshot, {}) /\ Mutual(Snapshot)
  BY SnapshotType DEF Consistent, Sound, SoundBut
<1>2. p \in PCs /\ p \notin Phps /\ p \in Ids /\ p \notin TVs /\ c.rfd # NoFd /\ Handled(fd, s)
  BY RelayAssumption DEF PcNeedExit, Reads, Live, Registered, Ids
<1>3. c.wid # NoPeer /\ c.wfd # NoFd /\ c.wid \in Ids /\ c.wfd \in Fds
  <2>1. c.wid # NoPeer /\ c.wfd # NoFd
    BY <1>1, <1>2 DEF Kept, Shaped
  <2>2. QED
    BY <1>1, <1>2, <2>1 DEF TypeOK, Connection
<1>4. /\ Coupled(ds) /\ Contained(Snapshot, ds) /\ p \in ds /\ c.wid \in ds
      /\ {} \intersect TVs = {} /\ {} \subseteq ds
  BY <1>2, <1>3, CoupleContained DEF Couple
<1>5. fd \in Inside(Snapshot, ds) /\ c.wfd \in Inside(Snapshot, ds)
  <2>1. conn[c.wid].rfd = c.wfd
    BY <1>1, <1>2, <1>3 DEF Mutual
  <2>2. QED
    BY <1>2, <1>3, <1>4, <2>1, CoupleInside
<1>6. h \in States /\ Shrinks(Snapshot, h) /\ Contained(h, ds) /\ Reading(h, {p}) /\ Mutual(h)
  <2>1. "tv_offline" \in Kinds
    BY DEF Kinds
  <2>2. h \in States /\ Shrinks(Snapshot, h) /\ Contained(h, ds)
    BY <1>1, <1>4, <1>5, <2>1, HangUpType, HangUpContained
  <2>3. SoundBut(Snapshot, {p}, {fd}, {})
    BY <1>1 DEF Sound, SoundBut, Filters, Reading
  <2>4. \A i \in Ids : Snapshot.conn[i].rfd = fd => i \in {p}
    BY <1>1, ReaderIsPeer
  <2>5. SoundBut(h, {p}, {fd}, {})
    BY <1>1, <1>2, <2>1, <2>3, <2>4, HangUpSound
  <2>6. QED
    BY <2>2, <2>5 DEF SoundBut
<1> HIDE DEF h
<1>7. s1 \in States /\ Contained(s1, ds)
  <2>1. "pc_offline" \in Kinds /\ {p} \intersect TVs = {} /\ {p} \subseteq ds
    BY <1>2, <1>4 DEF Kinds
  <2>2. c.wfd \in Inside(h, ds)
    BY <1>5, <1>6, InsideShrinks
  <2>3. QED
    BY <1>3, <1>6, <2>1, <2>2, HangUpType, HangUpContained
<1> HIDE DEF s1
<1>8. /\ s2 \in States /\ s2.peer = s1.peer /\ s2.stack = s1.stack
      /\ \A i \in Ids : s2.conn[i] = s1.conn[i] \/ s2.conn[i] = NoConn
  <2> DEFINE gone == {p, c.wid}
  <2> HIDE DEF gone
  <2>1. /\ RemoveConnections(s1, gone) \in States
        /\ RemoveConnections(s1, gone).peer = s1.peer
        /\ RemoveConnections(s1, gone).stack = s1.stack
        /\ RemoveConnections(s1, gone).conn =
             [i \in Ids |-> IF i \in gone THEN NoConn ELSE s1.conn[i]]
    BY <1>7, RemoveConnectionsFields
  <2>2. QED
    BY <2>1 DEF gone
<1> HIDE DEF s2
<1>9. s3 \in States /\ s3.peer = s2.peer /\ s3.stack = s2.stack /\ s3.conn = s2.conn
  BY <1>8, RemoveFiltersFields
<1> HIDE DEF s3
<1>10. s.peer = s3.peer /\ s.stack = s3.stack /\ s.conn = s3.conn
  BY <1>9, RemoveTvinfoFields
<1> HIDE DEF s
<1>11. Contained(s, ds)
  BY <1>7, <1>8, <1>9, <1>10, QuietContained
<1>12. QED
  BY <1>2, <1>4, <1>11, HandledHarmless

LEMMA WriteMsgToPhpFields ==
  ASSUME NEW s \in States, NEW fd \in Fds, NEW kind \in Kinds, NEW t \in TVs
  PROVE  LET r == WriteMsgToPhp(s, fd, kind, t)
         IN  r \in States /\ r.peer = s.peer /\ r.polled = s.polled /\ r.stack = s.stack
<1>1. CASE WriteFails(s, fd)
  BY <1>1 DEF WriteMsgToPhp
<1>2. CASE ~WriteFails(s, fd)
  BY <1>2, DeliverFields DEF WriteMsgToPhp, WriteFails
<1>3. QED
  BY <1>1, <1>2

\* What a PHP client's handler leaves: every other socket as it was.
PhpLeaves(fd, s) ==
  /\ s \in States /\ s.stack = FALSE
  /\ \A g \in Fds \ {fd} : s.peer[g] = peer[g]
  /\ \A g \in polled \ s.polled : s.peer[g] = NoPeer

LEMMA PhpHandlerLeaves ==
  ASSUME Consistent, NEW fd \in Fds, PhpStep(fd)
  PROVE  \E g \in Fds, s \in States, timer \in BOOLEAN : PhpLeaves(g, s) /\ Becomes(s, timer)
<1> DEFINE t == Asked(fd)
           old == tvinfo[t].php
<1>0. Live(fd, Phps)
  BY DEF PhpStep, PhpExist, PhpReplace, PhpVerdict, PhpWait, PhpDisconnect
<1>1. /\ t \in TVs /\ Snapshot \in States /\ Snapshot.peer = peer /\ Snapshot.polled = polled
      /\ Snapshot.stack = FALSE /\ Snapshot.tvinfo = tvinfo
      /\ Kept(Snapshot) /\ armed \in BOOLEAN
  BY <1>0, PhpType, SnapshotType DEF Consistent
<1>2. {"ok", "refuse", "exist", "replace"} \subseteq Kinds
  BY DEF Kinds
<1>3. NoEntry \in TVInfoNode /\ PcEntry(fd) \in TVInfoNode
  BY DEF NoEntry, PcEntry, TVInfoNode
<1> HIDE DEF t
<1>4. ASSUME NEW w \in States, w.peer = peer, w.polled = polled, w.stack = FALSE, NEW g \in Fds
      PROVE  PhpLeaves(g, Close(w, {g})) /\ Close(w, {g}) \in States
  <2> DEFINE r == Close(w, {g})
  <2>1. /\ r \in States /\ r.stack = FALSE /\ r.polled = polled \ {g}
        /\ r.peer = [f \in Fds |-> IF f \in {g} THEN NoPeer ELSE peer[f]]
    BY <1>4, CloseFields
  <2> HIDE DEF r
  <2>2. PhpLeaves(g, r)
    BY <2>1 DEF PhpLeaves
  <2>3. QED
    BY <2>1, <2>2 DEF r
<1>5. CASE PhpExist(fd)
  <2> DEFINE w == WriteMsgToPhp(Snapshot, fd, "exist", t)
  <2>1. w \in States /\ w.peer = peer /\ w.polled = polled /\ w.stack = FALSE
    BY <1>1, <1>2, WriteMsgToPhpFields
  <2>2. Becomes(Close(w, {fd}), TRUE)
    BY <1>5 DEF PhpExist, t
  <2> HIDE DEF w
  <2>3. QED
    BY <1>4, <2>1, <2>2
<1>6. CASE PhpReplace(fd)
  <2> DEFINE w == WriteMsgToPhp(Snapshot, old, "replace", t)
             r == Close(w, {old})
             s == SetTvinfo(r, t, PcEntry(fd))
  <2>1. tvinfo[t].dev = "pc" /\ Becomes(s, TRUE)
    BY <1>6 DEF PhpReplace, t
  <2>2. old \in Fds
    BY <1>1, <2>1 DEF Kept, Entries, Consistent, TypeOK, TVInfoNode
  <2>3. w \in States /\ w.peer = peer /\ w.polled = polled /\ w.stack = FALSE
    BY <1>1, <1>2, <2>2, WriteMsgToPhpFields
  <2> HIDE DEF w, old
  <2>4. PhpLeaves(old, r)
    BY <1>4, <2>2, <2>3
  <2> HIDE DEF r
  <2>5. s \in States /\ s.peer = r.peer /\ s.polled = r.polled /\ s.stack = r.stack
    BY <1>1, <1>3, <2>4, SetTvinfoFields DEF PhpLeaves
  <2> HIDE DEF s
  <2>6. PhpLeaves(old, s)
    BY <2>4, <2>5 DEF PhpLeaves
  <2>7. QED
    BY <2>1, <2>2, <2>5, <2>6
<1>7. CASE PhpVerdict(fd)
  <2> DEFINE kind == IF tvinfo[t].refuse THEN "refuse" ELSE "ok"
             w == WriteMsgToPhp(Snapshot, fd, kind, t)
             r == SetTvinfo(w, t, NoEntry)
  <2>1. Becomes(Close(r, {fd}), armed)
    BY <1>7 DEF PhpVerdict, t
  <2>2. kind \in Kinds
    BY <1>2
  <2> HIDE DEF kind
  <2>3. w \in States /\ w.peer = peer /\ w.polled = polled /\ w.stack = FALSE
    BY <1>1, <2>2, WriteMsgToPhpFields
  <2> HIDE DEF w
  <2>4. r \in States /\ r.peer = peer /\ r.polled = polled /\ r.stack = FALSE
    BY <1>1, <1>3, <2>3, SetTvinfoFields
  <2> HIDE DEF r
  <2>5. QED
    BY <1>1, <1>4, <2>1, <2>4
<1>8. CASE PhpWait(fd)
  <2> DEFINE s == SetTvinfo(Snapshot, t, PcEntry(fd))
  <2>1. Becomes(s, TRUE)
    BY <1>8 DEF PhpWait, t
  <2>2. s \in States /\ s.peer = peer /\ s.polled = polled /\ s.stack = FALSE
    BY <1>1, <1>3, SetTvinfoFields
  <2> HIDE DEF s
  <2>3. PhpLeaves(fd, s)
    BY <2>2 DEF PhpLeaves
  <2>4. QED
    BY <2>1, <2>2, <2>3
<1>9. CASE PhpDisconnect(fd)
  BY <1>1, <1>4, <1>9 DEF PhpDisconnect
<1>10. QED
  BY <1>5, <1>6, <1>7, <1>8, <1>9 DEF PhpStep

LEMMA PhpHarmless ==
  ASSUME Consistent, NEW fd \in Fds, PhpStep(fd)
  PROVE  Harmless
<1>1. PICK g \in Fds, s \in States, timer \in BOOLEAN : PhpLeaves(g, s) /\ Becomes(s, timer)
  BY PhpHandlerLeaves
<1>2. QED
  BY <1>1, OneSocketHarmless DEF PhpLeaves

-----------------------------------------------------------------------------
(* The first two theorems.                                                   *)

LEMMA NextHarmless ==
  ASSUME Consistent, Next
  PROVE  Harmless
<1>1. CASE overlapped'
  BY <1>1 DEF Harmless, NoBystanderStep, RunawayNeedsDeadTvStep
<1>2. CASE /\ ~overlapped'
           /\ \/ \E d \in Devices : Accept(d)
              \/ \E fd \in Fds : LinkDies(fd)
              \/ \E t \in TVs : Age(t)
              \/ Tick
  BY <1>2, OpenHarmless
<1>3. ASSUME ~overlapped', NEW fd \in Fds, Disconnect(fd) \/ TvExitCtrl(fd) PROVE Harmless
  BY <1>3, DisconnectHarmless DEF Disconnect, TvExitCtrl
<1>4. ASSUME ~overlapped', NEW fd \in Fds, AnotherPcCtrl(fd) PROVE Harmless
  BY <1>4, AnotherPcCtrlHarmless DEF AnotherPcCtrl
<1>5. ASSUME ~overlapped', NEW fd \in Fds,
             Handshake(fd) \/ \E target \in Ids : Forward(fd, target)
      PROVE  Harmless
  BY <1>5, WriteHarmless DEF Handshake, Forward
<1>6. ASSUME ~overlapped', NEW fd \in Fds, RegTv(fd) \/ RegTvTest(fd) PROVE Harmless
  BY <1>6, RegTvHarmless
<1>7. ASSUME ~overlapped', NEW fd \in Fds, RejectHelp(fd) PROVE Harmless
  BY <1>7, RejectHelpHarmless DEF RejectHelp
<1>8. ASSUME ~overlapped', NEW fd \in Fds, NEW t \in TVs, RegPc(fd, t) PROVE Harmless
  BY <1>8, RegPcHarmless
<1>9. ASSUME ~overlapped', NEW fd \in Fds, PcNeedExit(fd) PROVE Harmless
  BY <1>9, PcNeedExitHarmless DEF PcNeedExit
<1>10. ASSUME NEW fd \in Fds, PhpStep(fd) PROVE Harmless
  BY <1>10, PhpHarmless
<1>11. ASSUME ~overlapped', NEW fd \in Fds, TcpStep(fd) PROVE Harmless
  BY <1>3, <1>4, <1>5, <1>6, <1>7, <1>11 DEF TcpStep, TvData, Ids
<1>12. ASSUME ~overlapped', NEW fd \in Fds, WebStep(fd) PROVE Harmless
  BY <1>5, <1>8, <1>9, <1>12 DEF WebStep, PcData, Ids
<1>13. QED
  BY <1>1, <1>2, <1>3, <1>10, <1>11, <1>12 DEF Next, NetworkStep

\* disconnectBySockfd: with its nested calls, and with the closes the handlers add to it, a step closes
\* the sockets of one TV and one PC at most, and of no third device, however many are connected.
THEOREM SpecNoBystander == Spec => NoBystander
<1>1. Consistent /\ [Next]_vars => [NoBystanderStep]_vars
  BY NextHarmless DEF Harmless
<1>2. QED
  BY <1>1, SpecConsistent, PTL DEF Spec, NoBystander

\* disconnectBySockfd and writeMsg: their recursion fills the stack only if the socket of a registered
\* TV is dead already.
THEOREM SpecRunawayNeedsDeadTv == Spec => RunawayNeedsDeadTv
<1>1. Consistent /\ [Next]_vars => [RunawayNeedsDeadTvStep]_vars
  BY NextHarmless DEF Harmless
<1>2. QED
  BY <1>1, SpecConsistent, PTL DEF Spec, RunawayNeedsDeadTv

-----------------------------------------------------------------------------
(* Sockets an epoll loop gives up.                                           *)

\* Between s and r no socket is opened, and those that are polled no more are closed.
Vacates(s, r) ==
  /\ \A g \in Fds : r.peer[g] = s.peer[g] \/ r.peer[g] = NoPeer
  /\ r.polled \subseteq s.polled
  /\ \A g \in s.polled \ r.polled : r.peer[g] = NoPeer

LEMMA VacatesTransitive ==
  ASSUME NEW s \in States, NEW q, NEW r, Vacates(s, q), Vacates(q, r)
  PROVE  Vacates(s, r)
<1>1. s.polled \subseteq Fds
  BY DEF States
<1>2. QED
  BY <1>1 DEF Vacates

LEMMA CloseVacates ==
  ASSUME NEW s \in States, NEW fds
  PROVE  Vacates(s, Close(s, fds))
<1> DEFINE r == Close(s, fds)
<1>1. /\ r.peer = [g \in Fds |-> IF g \in fds THEN NoPeer ELSE s.peer[g]]
      /\ r.polled = s.polled \ fds /\ s.polled \subseteq Fds
  BY CloseFields DEF States
<1> HIDE DEF r
<1>2. Vacates(s, r)
  BY <1>1 DEF Vacates
<1>3. QED
  BY <1>2 DEF r

LEMMA DisconnectVacates ==
  ASSUME NEW s \in States, NEW fd \in Fds
  PROVE  DisconnectBySockfd(s, fd) \in States /\ Vacates(s, DisconnectBySockfd(s, fd))
<1> DEFINE r == DisconnectBySockfd(s, fd)
<1>1. /\ r \in States
      /\ r.peer = [g \in Fds |-> IF g \in TornFds(s, fd) THEN NoPeer ELSE s.peer[g]]
      /\ r.polled = s.polled \ TornFds(s, fd) /\ s.polled \subseteq Fds
  BY DisconnectFields DEF States
<1> HIDE DEF r
<1>2. Vacates(s, r)
  BY <1>1 DEF Vacates
<1>3. QED
  BY <1>1, <1>2 DEF r

LEMMA WriteMsgVacates ==
  ASSUME NEW s \in States, NEW fd \in Fds, NEW kind \in Kinds
  PROVE  WriteMsg(s, fd, kind) \in States /\ Vacates(s, WriteMsg(s, fd, kind))
<1>1. CASE WriteFails(s, fd)
  BY <1>1, DisconnectVacates DEF WriteMsg
<1>2. CASE ~WriteFails(s, fd)
  <2> DEFINE r == Deliver(s, fd, kind, NoPeer)
  <2>1. r \in States /\ r.peer = s.peer /\ r.polled = s.polled
    BY <1>2, DeliverFields DEF WriteFails
  <2>2. WriteMsg(s, fd, kind) = r
    BY <1>2 DEF WriteMsg
  <2> HIDE DEF r
  <2>3. QED
    BY <2>1, <2>2 DEF Vacates
<1>3. QED
  BY <1>1, <1>2

LEMMA HangUpVacates ==
  ASSUME NEW s \in States, NEW fd \in Fds, NEW kind \in Kinds
  PROVE  HangUp(s, fd, kind) \in States /\ Vacates(s, HangUp(s, fd, kind))
<1> DEFINE w == WriteMsg(s, fd, kind)
<1>1. w \in States /\ Vacates(s, w)
  BY WriteMsgVacates
<1> HIDE DEF w
<1>2. Close(w, {fd}) \in States /\ Vacates(w, Close(w, {fd}))
  BY <1>1, CloseFields, CloseVacates
<1>3. QED
  BY <1>1, <1>2, VacatesTransitive DEF HangUp, w

\* A handler all of whose calls close what they unpoll serves the other sockets on.
LEMMA VacatedServed ==
  ASSUME TypeOK, NEW s, Vacates(Snapshot, s), NEW timer, Becomes(s, timer)
  PROVE  ServedUntilClosedStep
<1>1. CASE s.stack
  BY <1>1 DEF Becomes, Dies, ServedUntilClosedStep, Survives
<1>2. CASE ~s.stack
  <2>1. peer' = s.peer /\ polled' = s.polled
    BY <1>2 DEF Becomes
  <2>2. \A g \in polled \ s.polled : s.peer[g] = NoPeer
    BY SnapshotType DEF Vacates
  <2>3. QED
    BY <2>1, <2>2 DEF ServedUntilClosedStep, Open
<1>3. QED
  BY <1>1, <1>2

LEMMA HandledServed ==
  ASSUME TypeOK, NEW s, Vacates(Snapshot, s), NEW fd, Handled(fd, s)
  PROVE  ServedUntilClosedStep
<1>1. CASE Dies("freed")
  BY <1>1 DEF Dies, ServedUntilClosedStep, Survives
<1>2. CASE Becomes(s, armed)
  BY <1>2, VacatedServed
<1>3. QED
  BY <1>1, <1>2 DEF Handled

\* Calls that touch neither the descriptors nor epoll vacate nothing.
LEMMA QuietVacates ==
  ASSUME NEW s, NEW r, r.peer = s.peer, r.polled = s.polled
  PROVE  Vacates(s, r)
BY DEF Vacates

\* An event of the network or of the clock takes no socket from an epoll loop.
LEMMA PolledServed ==
  ASSUME polled \subseteq polled'
  PROVE  ServedUntilClosedStep
BY DEF ServedUntilClosedStep

LEMMA DisconnectServed ==
  ASSUME TypeOK, NEW fd \in Fds, Disconnect(fd) \/ TvExitCtrl(fd)
  PROVE  ServedUntilClosedStep
<1> DEFINE s == DisconnectBySockfd(Snapshot, fd)
<1>1. Vacates(Snapshot, s)
  BY SnapshotType, DisconnectVacates
<1>2. Becomes(s, armed) \/ Handled(fd, s)
  BY DEF Disconnect, TvExitCtrl
<1> HIDE DEF s
<1>3. QED
  BY <1>1, <1>2, VacatedServed, HandledServed

LEMMA WriteServed ==
  ASSUME TypeOK, NEW fd \in Fds, Handshake(fd) \/ \E target \in Ids : Forward(fd, target)
  PROVE  ServedUntilClosedStep
<1>1. "handshake" \in Kinds /\ "data" \in Kinds
  BY DEF Kinds
<1>2. ASSUME NEW g \in Fds, NEW kind \in Kinds,
             Becomes(WriteMsg(Snapshot, g, kind), armed) \/ Handled(fd, WriteMsg(Snapshot, g, kind))
      PROVE  ServedUntilClosedStep
  <2> DEFINE s == WriteMsg(Snapshot, g, kind)
  <2>1. Vacates(Snapshot, s)
    BY SnapshotType, WriteMsgVacates
  <2>2. Becomes(s, armed) \/ Handled(fd, s)
    BY <1>2
  <2> HIDE DEF s
  <2>3. QED
    BY <2>1, <2>2, VacatedServed, HandledServed
<1>3. CASE Handshake(fd)
  BY <1>1, <1>2, <1>3 DEF Handshake
<1>4. CASE \E target \in Ids : Forward(fd, target)
  <2>1. PICK target \in Ids : Forward(fd, target)
    BY <1>4
  <2>2. conn[target].rfd \in Fds
    BY <2>1 DEF Forward, Registered, TypeOK, Connection
  <2>3. QED
    BY <1>1, <1>2, <2>1, <2>2 DEF Forward
<1>5. QED
  BY <1>3, <1>4

\* A verdict for a PHP client closes nothing, whatever has been overtaken.
LEMMA VerdictVacates ==
  ASSUME TypeOK, Kept(Snapshot), NEW t \in TVs, NEW kind \in Kinds, NEW entry \in TVInfoNode
  PROVE  LET s == IF tvinfo[t].dev = "pc"
                  THEN SetTvinfo(WriteMsgToPhp(Snapshot, tvinfo[t].php, kind, t), t, NoEntry)
                  ELSE SetTvinfo(Snapshot, t, entry)
         IN  s \in States /\ Vacates(Snapshot, s)
<1> DEFINE w == WriteMsgToPhp(Snapshot, tvinfo[t].php, kind, t)
<1>1. Snapshot \in States /\ Snapshot.tvinfo = tvinfo /\ NoEntry \in TVInfoNode
  BY SnapshotType DEF NoEntry, TVInfoNode
<1>2. CASE tvinfo[t].dev = "pc"
  <2>1. tvinfo[t].php \in Fds
    BY <1>1, <1>2 DEF Kept, Entries, TypeOK, TVInfoNode
  <2>2. w \in States /\ w.peer = Snapshot.peer /\ w.polled = Snapshot.polled
    BY <1>1, <2>1, WriteMsgToPhpFields
  <2> HIDE DEF w
  <2>3. LET r == SetTvinfo(w, t, NoEntry) IN r \in States /\ r.peer = w.peer /\ r.polled = w.polled
    BY <1>1, <2>2, SetTvinfoFields
  <2>4. SetTvinfo(w, t, NoEntry) \in States /\ Vacates(Snapshot, SetTvinfo(w, t, NoEntry))
    BY <2>2, <2>3, QuietVacates
  <2>5. QED
    BY <1>2, <2>4 DEF w
<1>3. CASE tvinfo[t].dev # "pc"
  <2> DEFINE S == Snapshot
             r == SetTvinfo(S, t, entry)
  <2> HIDE DEF S
  <2>1. r \in States /\ r.peer = S.peer /\ r.polled = S.polled
    BY <1>1, SetTvinfoFields DEF S
  <2> HIDE DEF r
  <2>2. Vacates(S, r)
    BY <2>1, QuietVacates
  <2>3. QED
    BY <1>3, <2>1, <2>2 DEF S, r
<1>4. QED
  BY <1>2, <1>3

\* REG_TV registers over any older connection, and closes only what its reply tears down.
LEMMA RegisterTvVacates ==
  ASSUME NEW s \in States, NEW fd \in Fds, NEW t \in TVs
  PROVE  Vacates(s, RegisterTv(s, fd, t))
<1> DEFINE c == [rfd |-> fd, wfd |-> NoFd, wid |-> NoPeer]
           r == [s EXCEPT !.conn[t] = c]
<1>1. c \in Connection /\ t \in Ids
  BY DEF Connection, Ids
<1> HIDE DEF c
<1>2. r \in States /\ r.peer = s.peer /\ r.polled = s.polled
  BY <1>1 DEF States
<1>3. RegisterTv(s, fd, t) = WriteMsg(r, fd, "srv_id")
  BY DEF RegisterTv, c
<1> HIDE DEF r
<1>4. Vacates(s, r) /\ Vacates(r, WriteMsg(r, fd, "srv_id"))
  BY <1>2, QuietVacates, WriteMsgVacates DEF Kinds
<1>5. QED
  BY <1>3, <1>4, VacatesTransitive

LEMMA RegTvServed ==
  ASSUME TypeOK, Kept(Snapshot), NEW fd \in Fds, RegTv(fd) \/ RegTvTest(fd)
  PROVE  ServedUntilClosedStep
<1> DEFINE t == peer[fd]
           s == IF tvinfo[t].dev = "pc"
                THEN SetTvinfo(WriteMsgToPhp(Snapshot, tvinfo[t].php, "ok", t), t, NoEntry)
                ELSE SetTvinfo(Snapshot, t, AcceptedEntry)
<1>1. t \in TVs
  BY DEF RegTv, RegTvTest, Reads, Live
<1>2. ASSUME NEW q \in States, Vacates(Snapshot, q), Handled(fd, RegisterTv(q, fd, t))
      PROVE  ServedUntilClosedStep
  <2>1. Vacates(q, RegisterTv(q, fd, t))
    BY <1>1, RegisterTvVacates
  <2>2. Vacates(Snapshot, RegisterTv(q, fd, t))
    BY <1>2, <2>1, SnapshotType, VacatesTransitive
  <2>3. QED
    BY <1>2, <2>2, HandledServed
<1>3. CASE RegTv(fd)
  <2>1. AcceptedEntry \in TVInfoNode /\ "ok" \in Kinds
    BY DEF AcceptedEntry, TVInfoNode, Kinds
  <2>2. s \in States /\ Vacates(Snapshot, s)
    BY <1>1, <2>1, VerdictVacates
  <2>3. Handled(fd, RegisterTv(s, fd, t))
    BY <1>3 DEF RegTv
  <2> HIDE DEF s
  <2>4. QED
    BY <1>2, <2>2, <2>3
<1>4. CASE RegTvTest(fd)
  BY <1>2, <1>4, SnapshotType, QuietVacates DEF RegTvTest
<1>5. QED
  BY <1>3, <1>4

LEMMA RejectHelpServed ==
  ASSUME TypeOK, Kept(Snapshot), NEW fd \in Fds, RejectHelp(fd)
  PROVE  ServedUntilClosedStep
<1> DEFINE t == peer[fd]
           s == IF tvinfo[t].dev = "pc"
                THEN SetTvinfo(WriteMsgToPhp(Snapshot, tvinfo[t].php, "refuse", t), t, NoEntry)
                ELSE SetTvinfo(Snapshot, t, RefusedEntry)
<1>1. t \in TVs /\ Becomes(s, armed)
  BY DEF RejectHelp, Reads, Live
<1>2. RefusedEntry \in TVInfoNode /\ "refuse" \in Kinds
  BY DEF RefusedEntry, TVInfoNode, Kinds
<1>3. Vacates(Snapshot, s)
  BY <1>1, <1>2, VerdictVacates
<1> HIDE DEF s
<1>4. QED
  BY <1>1, <1>3, VacatedServed

LEMMA PairVacates ==
  ASSUME NEW s \in States, NEW fd \in Fds, NEW p \in PCs, NEW t \in TVs
  PROVE  Pair(s, fd, p, t) \in States /\ Vacates(s, Pair(s, fd, p, t))
<1> DEFINE r == Pair(s, fd, p, t)
<1>1. /\ r \in States /\ r.peer = s.peer /\ r.polled = s.polled
      /\ r.conn[p] = [rfd |-> fd, wfd |-> s.conn[t].rfd, wid |-> t]
      /\ r.conn[t] = [rfd |-> s.conn[t].rfd, wfd |-> fd, wid |-> p]
  BY PairFields
<1> HIDE DEF r
<1>2. Vacates(s, r)
  BY <1>1, QuietVacates
<1>3. QED
  BY <1>1, <1>2 DEF r

LEMMA RegPcServed ==
  ASSUME TypeOK, NEW fd \in Fds, NEW t \in TVs, RegPc(fd, t)
  PROVE  ServedUntilClosedStep
<1> DEFINE p  == peer[fd]
           s0 == Pair(Snapshot, fd, p, t)
           s1 == WriteMsg(s0, fd, "srv_id")
           s2 == WriteMsg(s1, fd, "tv_id")
           tell(g) == IF g = NoFd THEN s2 ELSE WriteMsg(s2, g, "pc_id")
<1>1. p \in PCs /\ conn[t].rfd \in Fds /\ {"srv_id", "tv_id", "pc_id"} \subseteq Kinds
  BY DEF RegPc, Reads, Live, Registered, TypeOK, Connection, Ids, Kinds
<1>2. PICK g \in Fds \union {NoFd} : Handled(fd, InsertOnline(tell(g), t))
  BY <1>1 DEF RegPc
<1>3. Snapshot \in States
  BY SnapshotType
<1>4. s0 \in States /\ Vacates(Snapshot, s0)
  BY <1>1, <1>3, PairVacates
<1> HIDE DEF s0
<1>5. s1 \in States /\ Vacates(Snapshot, s1)
  BY <1>1, <1>3, <1>4, WriteMsgVacates, VacatesTransitive
<1> HIDE DEF s1
<1>6. s2 \in States /\ Vacates(Snapshot, s2)
  BY <1>1, <1>3, <1>5, WriteMsgVacates, VacatesTransitive
<1> HIDE DEF s2
<1> DEFINE w == tell(g)
<1>7. w \in States /\ Vacates(Snapshot, w)
  BY <1>1, <1>3, <1>6, WriteMsgVacates, VacatesTransitive
<1> HIDE DEF w
<1>8. Vacates(w, InsertOnline(w, t))
  BY <1>7, InsertOnlineFields, QuietVacates
<1>9. Vacates(Snapshot, InsertOnline(w, t))
  BY <1>3, <1>7, <1>8, VacatesTransitive
<1>10. Handled(fd, InsertOnline(w, t))
  BY <1>2 DEF w
<1>11. QED
  BY <1>9, <1>10, HandledServed

LEMMA PcNeedExitServed ==
  ASSUME TypeOK, Kept(Snapshot), NEW fd \in Fds, PcNeedExit(fd)
  PROVE  ServedUntilClosedStep
<1> DEFINE p  == peer[fd]
           c  == conn[p]
           h  == HangUp(Snapshot, fd, "tv_offline")
           s1 == HangUp(h, c.wfd, "pc_offline")
           s2 == RemoveConnections(s1, {p, c.wid})
           s3 == RemoveFilters(s2, {fd, c.wfd})
           s  == RemoveTvinfo(s3, {c.wid})
<1>1. Snapshot \in States /\ Snapshot.conn = conn
  BY SnapshotType
<1>2. p \in PCs /\ p \in Ids /\ c.rfd # NoFd /\ Handled(fd, s)
  BY DEF PcNeedExit, Reads, Live, Registered, Ids
<1>3. c.wfd \in Fds /\ {"tv_offline", "pc_offline"} \subseteq Kinds
  BY <1>1, <1>2 DEF Kept, Shaped, TypeOK, Connection, Kinds
<1>4. h \in States /\ Vacates(Snapshot, h)
  BY <1>1, <1>3, HangUpVacates
<1> HIDE DEF h
<1>5. s1 \in States /\ Vacates(Snapshot, s1)
  BY <1>1, <1>3, <1>4, HangUpVacates, VacatesTransitive
<1> HIDE DEF s1
<1>6. s2 \in States /\ s2.peer = s1.peer /\ s2.polled = s1.polled
  BY <1>5, RemoveConnectionsFields
<1> HIDE DEF s2
<1>7. s3 \in States /\ s3.peer = s2.peer /\ s3.polled = s2.polled
  BY <1>6, RemoveFiltersFields
<1> HIDE DEF s3
<1>8. s.peer = s3.peer /\ s.polled = s3.polled
  BY <1>7, RemoveTvinfoFields
<1> HIDE DEF s
<1>9. Vacates(Snapshot, s)
  BY <1>1, <1>5, <1>6, <1>7, <1>8, QuietVacates, VacatesTransitive
<1>10. QED
  BY <1>2, <1>9, HandledServed

LEMMA PhpServed ==
  ASSUME Consistent, NEW fd \in Fds, PhpStep(fd)
  PROVE  ServedUntilClosedStep
<1>1. PICK g \in Fds, s \in States, timer \in BOOLEAN : PhpLeaves(g, s) /\ Becomes(s, timer)
  BY PhpHandlerLeaves
<1>2. peer' = s.peer /\ polled' = s.polled
  BY <1>1 DEF PhpLeaves, Becomes
<1>3. QED
  BY <1>1, <1>2, RelayAssumption DEF PhpLeaves, ServedUntilClosedStep, Open

\* disconnectBySockfd with DISCONNECT_REPLACE takes its socket from epoll and removes its reader
\* first; it closes the socket, and its partner's, only if it finds a session.
LEMMA ReplaceLeaves ==
  ASSUME TypeOK, Kept(Snapshot), NEW fd \in Fds
  PROVE  LET s == DisconnectReplace(Snapshot, fd)
         IN  \/ \A g \in polled \ s.polled : s.peer[g] = NoPeer
             \/ /\ s.peer = peer /\ s.polled = polled \ {fd} /\ fd \notin s.filter
                /\ Readers(Snapshot, fd) = {} \/ ~Paired(conn[ConnByReadFd(Snapshot, fd)])
<1> DEFINE S  == Snapshot
           s1 == RemoveFilters([S EXCEPT !.polled = @ \ {fd}], {fd})
           i  == ConnByReadFd(S, fd)
           c  == S.conn[i]
           h  == HangUp(s1, c.wfd, "another_pc")
           s2 == Close(h, {fd})
           s3 == RemoveConnections(s2, {c.wid, i})
           s4 == RemoveFilters(s3, {c.wfd})
           r1 == RemoveConnections(s1, {i})
           s  == DisconnectReplace(S, fd)
<1>1. /\ S \in States /\ S.peer = peer /\ S.polled = polled /\ S.conn = conn
      /\ polled \subseteq Fds
  BY SnapshotType DEF TypeOK
<1>2. s = IF Readers(S, fd) = {} THEN s1 ELSE IF Paired(c) THEN s4 ELSE r1
  BY DEF DisconnectReplace
<1>3. s1 \in States /\ s1.peer = peer /\ s1.polled = polled \ {fd} /\ fd \notin s1.filter
  BY <1>1, ReplaceFirst DEF RemoveFilters, States
<1> HIDE DEF S, s1, s
<1>4. CASE Readers(S, fd) = {}
  BY <1>2, <1>3, <1>4 DEF S, s
<1>5. CASE Readers(S, fd) # {} /\ ~Paired(c)
  <2>1. r1.peer = s1.peer /\ r1.polled = s1.polled /\ r1.filter = s1.filter
    BY <1>3, RemoveConnectionsFields
  <2>2. s = r1 /\ ~Paired(conn[i])
    BY <1>1, <1>2, <1>5
  <2> HIDE DEF r1
  <2>3. QED
    BY <1>3, <2>1, <2>2 DEF S, s
<1>6. CASE Readers(S, fd) # {} /\ Paired(c)
  <2>1. c.wfd \in Fds
    BY <1>1, <1>6, ReaderOf, PairedType
  <2>2. h \in States /\ Vacates(s1, h)
    BY <1>3, <2>1, HangUpVacates DEF Kinds
  <2> HIDE DEF h
  <2>3. /\ s2 \in States /\ s2.polled = h.polled \ {fd}
        /\ s2.peer = [g \in Fds |-> IF g \in {fd} THEN NoPeer ELSE h.peer[g]]
    BY <2>2, CloseFields
  <2> HIDE DEF s2
  <2>4. s3 \in States /\ s3.peer = s2.peer /\ s3.polled = s2.polled
    BY <2>3, RemoveConnectionsFields
  <2> HIDE DEF s3
  <2>5. s4.peer = s3.peer /\ s4.polled = s3.polled
    BY <2>4, RemoveFiltersFields
  <2>6. s = s4
    BY <1>2, <1>6
  <2> HIDE DEF s4
  <2>7. \A g \in polled \ s.polled : s.peer[g] = NoPeer
    BY <1>1, <1>3, <2>2, <2>3, <2>4, <2>5, <2>6 DEF Vacates
  <2>8. QED
    BY <2>7 DEF S, s
<1>7. QED
  BY <1>4, <1>5, <1>6

\* A TV that reports another PC keeps its socket, unserved, only if it is in no session.
LEMMA AnotherPcCtrlServed ==
  ASSUME Consistent, NEW fd \in Fds, AnotherPcCtrl(fd)
  PROVE  ServedUntilClosedStep
<1> DEFINE s == DisconnectReplace(Snapshot, fd)
<1>1. /\ TypeOK /\ Kept(Snapshot) /\ Snapshot \in States /\ Snapshot.conn = conn
      /\ peer[fd] \in TVs /\ Handled(fd, s) /\ overlapped' = overlapped
  BY SnapshotType DEF Consistent, AnotherPcCtrl, Reads, Live
<1>2. \/ \A g \in polled \ s.polled : s.peer[g] = NoPeer
      \/ /\ s.peer = peer /\ s.polled = polled \ {fd} /\ fd \notin s.filter
         /\ Readers(Snapshot, fd) = {} \/ ~Paired(conn[ConnByReadFd(Snapshot, fd)])
  BY <1>1, ReplaceLeaves
<1> HIDE DEF s
<1>3. CASE ~Survives
  BY <1>3 DEF ServedUntilClosedStep
<1>4. CASE Survives
  <2>1. peer' = s.peer /\ polled' = s.polled /\ filter' = s.filter
    BY <1>1, <1>4 DEF Handled, Becomes, Dies, Survives
  <2>2. CASE \A g \in polled \ s.polled : s.peer[g] = NoPeer
    BY <2>1, <2>2 DEF ServedUntilClosedStep, Open
  <2>3. CASE /\ s.peer = peer /\ s.polled = polled \ {fd} /\ fd \notin s.filter
             /\ Readers(Snapshot, fd) = {} \/ ~Paired(conn[ConnByReadFd(Snapshot, fd)])
    <3>1. ASSUME ~overlapped, NEW i \in Ids, conn[i].rfd = fd PROVE conn[i].wid = NoPeer
      <4> DEFINE j == ConnByReadFd(Snapshot, fd)
      <4>1. Readers(Snapshot, fd) # {}
        BY <1>1, <3>1 DEF Readers
      <4>2. j \in Ids /\ conn[j].rfd = fd /\ ~Paired(conn[j])
        BY <1>1, <2>3, <4>1, ReaderOf
      <4> HIDE DEF j
      <4>3. j = i
        BY <1>1, <3>1, <4>2, ReaderIsPeer DEF Consistent, Sound, SoundBut
      <4>4. QED
        BY <1>1, <4>2, <4>3 DEF Paired, Kept, Shaped
    <3>2. QED
      BY <1>1, <2>1, <2>3, <3>1 DEF ServedUntilClosedStep
  <2>4. QED
    BY <1>2, <2>2, <2>3
<1>5. QED
  BY <1>3, <1>4

LEMMA NextServed ==
  ASSUME Consistent, Next
  PROVE  ServedUntilClosedStep
<1>1. TypeOK /\ Kept(Snapshot)
  BY DEF Consistent
<1>2. CASE \/ \E d \in Devices : Accept(d)
           \/ \E fd \in Fds : LinkDies(fd)
           \/ \E t \in TVs : Age(t)
           \/ Tick
  BY <1>2, PolledServed DEF Accept, LinkDies, Age, Tick
<1>3. ASSUME NEW fd \in Fds, Disconnect(fd) PROVE ServedUntilClosedStep
  BY <1>1, <1>3, DisconnectServed
<1>4. ASSUME NEW fd \in Fds, TcpStep(fd) PROVE ServedUntilClosedStep
  BY <1>1, <1>4, RegTvServed, RejectHelpServed, AnotherPcCtrlServed, DisconnectServed, WriteServed
     DEF TcpStep, TvData, Ids
<1>5. ASSUME NEW fd \in Fds, WebStep(fd) PROVE ServedUntilClosedStep
  BY <1>1, <1>5, WriteServed, RegPcServed, PcNeedExitServed DEF WebStep, PcData, Ids
<1>6. QED
  BY <1>2, <1>3, <1>4, <1>5, PhpServed DEF Next, NetworkStep

\* An epoll loop gives up an open socket in one handler only, for a TV in no session: every other
\* handler, its nested teardowns included, closes what it takes from epoll.
THEOREM SpecServedUntilClosed == Spec => ServedUntilClosed
<1>1. Consistent /\ [Next]_vars => [ServedUntilClosedStep]_vars
  BY NextServed
<1>2. QED
  BY <1>1, SpecConsistent, PTL DEF Spec, ServedUntilClosed

-----------------------------------------------------------------------------
(* What a step has to tell.                                                  *)

OverIn(s, t)           == conn[t].wid # NoPeer /\ s.conn[t].wid = NoPeer
HeardIn(s, d, kinds)   == \E m \in s.out : m.to = d /\ m.kind \in kinds

\* Within a handler sockets are only closed, and sessions only end.
Aging(s) ==
  /\ \A g \in Fds : s.peer[g] \in {peer[g], NoPeer}
  /\ \A t \in TVs : conn[t].wid # NoPeer => s.conn[t].wid \in {conn[t].wid, NoPeer}

\* One of the two ends of a session that is over has been told, or nothing returns.
EndsTold(s) ==
  \A t \in TVs : OverIn(s, t) =>
    \/ s.stack
    \/ HeardIn(s, conn[t].wid, {"tv_offline", "another_pc"})
    \/ HeardIn(s, t, {"pc_offline"})

\* The TV of a session that is over is on neither list, but for two kinds of handlers.
EndsCleared(s) ==
  \A t \in TVs : OverIn(s, t) /\ ~HeardIn(s, conn[t].wid, {"another_pc", "tv_id"}) =>
    t \notin s.online /\ s.tvinfo[t] = NoEntry

\* A client whose entry is gone has heard something, or its TV has lost a socket.
DropsTold(s) ==
  \A t \in TVs :
    /\ tvinfo[t].dev = "pc" /\ tvinfo[t].php \notin dead /\ s.tvinfo[t].php # tvinfo[t].php
    => \/ HeardIn(s, peer[tvinfo[t].php], {"ok", "refuse", "timeout", "replace"})
       \/ \E g \in Fds : peer[g] = t /\ s.peer[g] = NoPeer

Accounted(s) == Aging(s) /\ EndsTold(s) /\ EndsCleared(s) /\ DropsTold(s)

-----------------------------------------------------------------------------
(* The two ends of a session, in a teardown.                                 *)

\* At most one connection, of ids, reads a socket the handler has closed.
Alone(ids) == ids \intersect TVs = {} /\ \A i \in ids, j \in ids : i = j

LEMMA SoleReader ==
  ASSUME NEW s \in States, NEW ids, Reading(s, ids), Alone(ids),
         NEW i \in Ids, NEW j \in Ids, s.conn[i].rfd # NoFd, s.conn[i].rfd = s.conn[j].rfd
  PROVE  i = j
<1>1. i # NoPeer /\ j # NoPeer
  BY RelayAssumption DEF Ids, Devices
<1>2. QED
  BY <1>1 DEF Reading, Alone

\* Where the two ends are read, and where each is written.
LEMMA SessionFds ==
  ASSUME NEW s \in States, Kept(s), Mutual(s), NEW i \in Ids, s.conn[i].wid # NoPeer
  PROVE  LET j == s.conn[i].wid
         IN  /\ j \in Ids /\ s.conn[j].wid = i /\ (i \in TVs <=> j \in PCs)
             /\ s.conn[i].rfd \in Fds /\ s.conn[j].rfd \in Fds
             /\ s.conn[i].rfd # NoFd /\ s.conn[j].rfd # NoFd
             /\ s.conn[j].wfd = s.conn[i].rfd /\ s.conn[i].wfd = s.conn[j].rfd
             /\ Paired(s.conn[i]) /\ Paired(s.conn[j])
<1> DEFINE j == s.conn[i].wid
<1>1. i # NoPeer /\ NoFd \notin Fds
  BY RelayAssumption DEF Ids, Devices, NoFd
<1>2. j \in Ids /\ s.conn[i].wfd \in Fds \union {NoFd} /\ s.conn[i].rfd \in Fds \union {NoFd}
  BY DEF States, Connection
<1>3. /\ s.conn[j].wid = i /\ (i \in TVs <=> j \in PCs)
      /\ s.conn[j].wfd = s.conn[i].rfd /\ s.conn[i].wfd = s.conn[j].rfd
  BY DEF Mutual
<1>4. s.conn[i].wfd # NoFd /\ s.conn[j].wfd # NoFd
  BY <1>1, <1>2, <1>3 DEF Kept, Shaped
<1>5. QED
  BY <1>1, <1>2, <1>3, <1>4 DEF Paired

\* A frame of one end hops to the other end's descriptor, if that cannot be written.
LEMMA SessionHops ==
  ASSUME NEW s \in States, Kept(s), NEW ids, Reading(s, ids), Mutual(s), Alone(ids),
         NEW i \in Ids, s.conn[i].wid # NoPeer
  PROVE  LET a == s.conn[i].rfd
             b == s.conn[s.conn[i].wid].rfd
         IN  Hops(s, a) = {g \in {b} : WriteFails(s, g)}
<1> DEFINE a == s.conn[i].rfd
           b == s.conn[s.conn[i].wid].rfd
<1>1. a # NoFd /\ a \in Fds /\ s.conn[i].wfd = b /\ Paired(s.conn[i])
  BY SessionFds
<1>2. \A k \in Ids : s.conn[k].rfd = s.conn[i].rfd => k = i
  BY <1>1, SoleReader
<1>3. i \in Found(s, {a})
  BY <1>2, SoleReaderFound
<1>4. \A k \in Found(s, {a}) : k = i
  BY <1>2, FoundReads
<1>5. WriteFds(s, Found(s, {a})) = {b}
  BY <1>1, <1>3, <1>4 DEF WriteFds
<1>6. QED
  BY <1>5 DEF Hops

\* A frame that can write its notice tells the partner.
LEMMA NoticeOf ==
  ASSUME NEW s, NEW ids, NEW i \in ids, Paired(s.conn[i]), ~WriteFails(s, s.conn[i].wfd)
  PROVE  \E m \in Notices(s, ids) :
           /\ m.to = s.peer[s.conn[i].wfd]
           /\ m.kind = IF i \in TVs THEN "tv_offline" ELSE "pc_offline"
<1> DEFINE m == [to   |-> s.peer[s.conn[i].wfd],
                 kind |-> IF i \in TVs THEN "tv_offline" ELSE "pc_offline",
                 of   |-> NoPeer]
<1>1. m \in Notices(s, ids)
  BY DEF Notices
<1>2. QED
  BY <1>1

\* A frame that finds one end of a session: one end is told, or the teardown never returns.
LEMMA FrameTold ==
  ASSUME NEW s \in States, Kept(s), NEW ids, Reading(s, ids), Mutual(s), Alone(ids),
         NEW fd \in Fds, NEW i \in Found(s, Frames(s, fd)), s.conn[i].wid # NoPeer
  PROVE  LET j == s.conn[i].wid
         IN  \/ NeverReturns(s, Frames(s, fd))
             \/ \E m \in Notices(s, Found(s, Frames(s, fd))) :
                  \/ m.to = j /\ m.kind = IF i \in TVs THEN "tv_offline" ELSE "pc_offline"
                  \/ m.to = i /\ m.kind = IF j \in TVs THEN "tv_offline" ELSE "pc_offline"
<1> DEFINE frames == Frames(s, fd)
           found  == Found(s, frames)
           j == s.conn[i].wid
           a == s.conn[i].rfd
           b == s.conn[j].rfd
<1>1. i \in Ids /\ a \in frames
  BY FoundReads
<1>2. /\ j \in Ids /\ s.conn[j].wid = i
      /\ a \in Fds /\ b \in Fds /\ a # NoFd /\ b # NoFd
      /\ s.conn[j].wfd = a /\ s.conn[i].wfd = b
      /\ Paired(s.conn[i]) /\ Paired(s.conn[j])
  BY <1>1, SessionFds
<1>3. i # NoPeer /\ j # NoPeer
  BY <1>1, <1>2, RelayAssumption DEF Ids, Devices
<1>4. Hops(s, a) = {g \in {b} : WriteFails(s, g)} /\ Hops(s, b) = {g \in {a} : WriteFails(s, g)}
  BY <1>1, <1>2, <1>3, SessionHops
<1>5. /\ \A k \in Ids : s.conn[k].rfd = a => k = i
      /\ \A k \in Ids : s.conn[k].rfd = b => k = j
  BY <1>1, <1>2, SoleReader
<1>6. s.peer[b] \in {j, NoPeer} /\ s.peer[a] \in {i, NoPeer}
  BY <1>1, <1>2 DEF Reading
<1>7. CASE ~WriteFails(s, b)
  <2>1. s.peer[b] = j
    BY <1>6, <1>7 DEF WriteFails
  <2>2. QED
    BY <1>2, <1>7, <2>1, NoticeOf
<1>8. CASE WriteFails(s, b) /\ ~WriteFails(s, a)
  <2>1. s.peer[a] = i
    BY <1>6, <1>8 DEF WriteFails
  <2>2. b \in frames
    BY <1>1, <1>4, <1>8, FramesClosed
  <2>3. j \in found
    BY <1>2, <1>5, <2>2, SoleReaderFound
  <2>4. QED
    BY <1>2, <1>8, <2>1, <2>3, NoticeOf
<1>9. CASE WriteFails(s, b) /\ WriteFails(s, a)
  <2>1. Hops(s, a) = {b} /\ Hops(s, b) = {a}
    BY <1>4, <1>9
  <2>2. fd \in {a, b}
    <3>1. SUFFICES ASSUME fd \notin {a, b} PROVE FALSE
      OBVIOUS
    <3> DEFINE others == Fds \ {a, b}
    <3>2. ASSUME NEW g \in others, NEW h \in Hops(s, g) PROVE h \in others
      <4>1. h \in Fds
        BY HopReads
      <4>2. PICK k \in Ids, m \in Ids :
              s.conn[k].rfd = g /\ s.conn[m].rfd = h /\ s.conn[k].wid = m /\ s.conn[m].wid = k
        BY HopReads
      <4>3. h # a
        BY <1>2, <1>5, <3>2, <4>2
      <4>4. h # b
        BY <1>2, <1>5, <3>2, <4>2
      <4>5. QED
        BY <4>1, <4>3, <4>4
    <3>3. HopClosed(s, others)
      BY <3>2 DEF HopClosed
    <3>4. frames \subseteq others
      BY <3>1, <3>3 DEF Frames
    <3>5. QED
      BY <1>1, <3>4
  <2>3. HopClosed(s, {a, b})
    BY <2>1 DEF HopClosed
  <2>4. frames \subseteq {a, b}
    BY <1>2, <2>2, <2>3 DEF Frames
  <2>5. QED
    BY <2>1, <2>4 DEF NeverReturns
<1>10. QED
  BY <1>7, <1>8, <1>9

\* The TV of a session that a teardown removes: its end is told.
LEMMA TornTold ==
  ASSUME NEW s \in States, Kept(s), NEW ids, Reading(s, ids), Mutual(s), Alone(ids),
         NEW fd \in Fds, NEW t \in TVs, t \in TornIds(s, fd), s.conn[t].wid # NoPeer
  PROVE  LET r == DisconnectBySockfd(s, fd)
         IN  r.stack \/ HeardIn(r, s.conn[t].wid, {"tv_offline"}) \/ HeardIn(r, t, {"pc_offline"})
<1> DEFINE r == DisconnectBySockfd(s, fd)
           found == Found(s, Frames(s, fd))
           p == s.conn[t].wid
<1>1. /\ r.out = s.out \union Notices(s, found)
      /\ r.stack = (s.stack \/ NeverReturns(s, Frames(s, fd)))
  BY DisconnectFields
<1> HIDE DEF r
<1>2. t \in Ids /\ p \in PCs /\ p \notin TVs /\ s.conn[p].wid = t /\ p \in Ids /\ t # NoPeer
  <2>1. t \in Ids /\ t # NoPeer
    BY RelayAssumption DEF Ids, Devices
  <2>2. QED
    BY <2>1, SessionFds, RelayAssumption
<1>3. t \in found \/ p \in found
  <2>1. CASE t \notin found
    <3>1. PICK i \in found : t = s.conn[i].wid
      BY <2>1 DEF TornIds
    <3>2. i \in Ids
      BY FoundReads
    <3>3. s.conn[t].wid = i
      BY <1>2, <3>1, <3>2 DEF Mutual
    <3>4. QED
      BY <3>1, <3>3
  <2>2. QED
    BY <2>1
<1> HIDE DEF found
<1>4. CASE t \in found
  <2>1. \/ NeverReturns(s, Frames(s, fd))
        \/ \E m \in Notices(s, found) :
             \/ m.to = s.conn[t].wid /\ m.kind = IF t \in TVs THEN "tv_offline" ELSE "pc_offline"
             \/ m.to = t /\ m.kind = IF s.conn[t].wid \in TVs THEN "tv_offline" ELSE "pc_offline"
    BY <1>4, FrameTold DEF found
  <2>2. QED
    BY <1>1, <1>2, <2>1 DEF HeardIn, r
<1>5. CASE p \in found
  <2> DEFINE q == p
  <2>0. q \in found /\ s.conn[q].wid # NoPeer
    BY <1>2, <1>5
  <2> HIDE DEF q
  <2>1. \/ NeverReturns(s, Frames(s, fd))
        \/ \E m \in Notices(s, found) :
             \/ m.to = s.conn[q].wid /\ m.kind = IF q \in TVs THEN "tv_offline" ELSE "pc_offline"
             \/ m.to = q /\ m.kind = IF s.conn[q].wid \in TVs THEN "tv_offline" ELSE "pc_offline"
    BY <2>0, FrameTold DEF found
  <2>2. QED
    BY <1>1, <1>2, <2>1 DEF HeardIn, r, q
<1>6. QED
  BY <1>3, <1>4, <1>5

\* A TV that a teardown removes loses its socket.
LEMMA TornCloses ==
  ASSUME NEW s \in States, Kept(s), NEW ids, Reading(s, ids), Mutual(s), Alone(ids),
         NEW fd \in Fds, NEW t \in TVs, t \in TornIds(s, fd)
  PROVE  \E g \in TornFds(s, fd) : g \in Fds /\ s.peer[g] = t
<1> DEFINE found == Found(s, Frames(s, fd))
<1>1. t \in Ids /\ t \notin ids /\ t # NoPeer /\ NoFd \notin Fds
  BY RelayAssumption DEF Ids, Devices, Alone, NoFd
<1>2. CASE t \in found
  <2>1. s.conn[t].rfd \in Frames(s, fd) /\ s.conn[t].rfd \in Fds
    BY <1>2, FoundReads, FramesType
  <2>2. s.peer[s.conn[t].rfd] = t
    BY <1>1, <2>1 DEF Reading
  <2>3. QED
    BY <2>1, <2>2 DEF TornFds
<1>3. CASE t \notin found
  <2>1. PICK i \in found : t = s.conn[i].wid
    BY <1>3 DEF TornIds
  <2>2. i \in Ids
    BY FoundReads
  <2>3. s.conn[i].wfd = s.conn[t].rfd /\ s.conn[t].rfd \in Fds /\ s.conn[t].rfd # NoFd
        /\ Paired(s.conn[i])
    BY <1>1, <2>1, <2>2, SessionFds
  <2>4. s.conn[t].rfd \in TornFds(s, fd)
    BY <2>1, <2>3 DEF TornFds, WriteFds
  <2>5. s.peer[s.conn[t].rfd] = t
    BY <1>1, <2>3 DEF Reading
  <2>6. QED
    BY <2>3, <2>4, <2>5
<1>4. QED
  BY <1>2, <1>3

-----------------------------------------------------------------------------
(* What each call of a handler keeps accounted for.                          *)

\* What has been heard stays heard.
LEMMA HeardLater ==
  ASSUME NEW s, NEW r, s.out \subseteq r.out, NEW d, NEW kinds, HeardIn(s, d, kinds)
  PROVE  HeardIn(r, d, kinds)
BY DEF HeardIn

\* Calls that only close sockets and write, and end no TV's session.
LEMMA QuietAccounted ==
  ASSUME NEW s, NEW r, Accounted(s), s.out \subseteq r.out, r.tvinfo = s.tvinfo,
         r.online = s.online, r.stack = s.stack, \A t \in TVs : r.conn[t].wid = s.conn[t].wid,
         \A g \in Fds : r.peer[g] \in {s.peer[g], NoPeer}
  PROVE  Accounted(r)
<1>1. Aging(r)
  BY DEF Accounted, Aging
<1>2. EndsTold(r)
  BY HeardLater DEF Accounted, EndsTold, OverIn
<1>3. EndsCleared(r)
  BY HeardLater DEF Accounted, EndsCleared, OverIn
<1>4. DropsTold(r)
  BY HeardLater DEF Accounted, DropsTold
<1>5. QED
  BY <1>1, <1>2, <1>3, <1>4 DEF Accounted

LEMMA CloseAccounted ==
  ASSUME NEW s \in States, Accounted(s), NEW fds
  PROVE  Accounted(Close(s, fds))
<1> DEFINE r == Close(s, fds)
<1>1. /\ r.peer = [g \in Fds |-> IF g \in fds THEN NoPeer ELSE s.peer[g]]
      /\ r.conn = s.conn /\ r.tvinfo = s.tvinfo /\ r.online = s.online
      /\ r.out = s.out /\ r.stack = s.stack
  BY CloseFields
<1> HIDE DEF r
<1>2. Accounted(r)
  BY <1>1, QuietAccounted
<1>3. QED
  BY <1>2 DEF r

\* disconnectBySockfd: the sessions it ends, and the entries it removes, are accounted for.
LEMMA DisconnectAccounted ==
  ASSUME NEW s \in States, Kept(s), NEW ids, Reading(s, ids), Mutual(s), Alone(ids),
         Accounted(s), NEW fd \in Fds
  PROVE  Accounted(DisconnectBySockfd(s, fd)) /\ s.out \subseteq DisconnectBySockfd(s, fd).out
<1> DEFINE r == DisconnectBySockfd(s, fd)
<1>1. /\ r.peer = [g \in Fds |-> IF g \in TornFds(s, fd) THEN NoPeer ELSE s.peer[g]]
      /\ r.conn = [i \in Ids |-> IF i \in TornIds(s, fd) THEN NoConn ELSE s.conn[i]]
      /\ r.tvinfo = [t \in TVs |-> IF t \in TornIds(s, fd) THEN NoEntry ELSE s.tvinfo[t]]
      /\ r.online = s.online \ TornIds(s, fd)
      /\ s.out \subseteq r.out
      /\ r.stack = (s.stack \/ NeverReturns(s, Frames(s, fd)))
  BY DisconnectFields
<1>2. \A t \in TVs : t \in TornIds(s, fd) /\ s.conn[t].wid # NoPeer =>
        r.stack \/ HeardIn(r, s.conn[t].wid, {"tv_offline"}) \/ HeardIn(r, t, {"pc_offline"})
  BY TornTold
<1> HIDE DEF r
<1>3. Aging(s) /\ EndsTold(s) /\ EndsCleared(s) /\ DropsTold(s) /\ TVs \subseteq Ids
  BY DEF Accounted, Ids
<1>4. Aging(r)
  BY <1>1, <1>3 DEF Aging, NoConn
<1>5. ASSUME NEW t \in TVs, OverIn(r, t), ~OverIn(s, t)
      PROVE  t \in TornIds(s, fd) /\ s.conn[t].wid # NoPeer /\ s.conn[t].wid = conn[t].wid
  BY <1>1, <1>3, <1>5 DEF OverIn, Aging
<1>6. EndsTold(r)
  <2>1. SUFFICES ASSUME NEW t \in TVs, OverIn(r, t)
                 PROVE  \/ r.stack
                        \/ HeardIn(r, conn[t].wid, {"tv_offline", "another_pc"})
                        \/ HeardIn(r, t, {"pc_offline"})
    BY DEF EndsTold
  <2>2. CASE OverIn(s, t)
    BY <1>1, <1>3, <2>2, HeardLater DEF EndsTold
  <2>3. CASE ~OverIn(s, t)
    BY <1>2, <1>5, <2>1, <2>3 DEF HeardIn
  <2>4. QED
    BY <2>2, <2>3
<1>7. EndsCleared(r)
  <2>1. SUFFICES ASSUME NEW t \in TVs, OverIn(r, t),
                        ~HeardIn(r, conn[t].wid, {"another_pc", "tv_id"})
                 PROVE  t \notin r.online /\ r.tvinfo[t] = NoEntry
    BY DEF EndsCleared
  <2>2. CASE OverIn(s, t)
    BY <1>1, <1>3, <2>1, <2>2, HeardLater DEF EndsCleared
  <2>3. CASE ~OverIn(s, t)
    BY <1>1, <1>5, <2>1, <2>3
  <2>4. QED
    BY <2>2, <2>3
<1>8. DropsTold(r)
  <2>1. SUFFICES ASSUME NEW t \in TVs, tvinfo[t].dev = "pc", tvinfo[t].php \notin dead,
                        r.tvinfo[t].php # tvinfo[t].php
                 PROVE  \/ HeardIn(r, peer[tvinfo[t].php], {"ok", "refuse", "timeout", "replace"})
                        \/ \E g \in Fds : peer[g] = t /\ r.peer[g] = NoPeer
    BY DEF DropsTold
  <2>2. CASE s.tvinfo[t].php # tvinfo[t].php
    <3>1. \/ HeardIn(s, peer[tvinfo[t].php], {"ok", "refuse", "timeout", "replace"})
          \/ \E g \in Fds : peer[g] = t /\ s.peer[g] = NoPeer
      BY <1>3, <2>1, <2>2 DEF DropsTold
    <3>2. QED
      BY <1>1, <3>1, HeardLater
  <2>3. CASE s.tvinfo[t].php = tvinfo[t].php
    <3>1. t \in TornIds(s, fd)
      BY <1>1, <2>1, <2>3
    <3>2. PICK g \in TornFds(s, fd) : g \in Fds /\ s.peer[g] = t
      BY <3>1, TornCloses
    <3>3. peer[g] = t
      BY <1>3, <3>2, RelayAssumption DEF Aging, Ids, Devices
    <3>4. QED
      BY <1>1, <3>2, <3>3
  <2>4. QED
    BY <2>2, <2>3
<1>9. QED
  BY <1>1, <1>4, <1>6, <1>7, <1>8 DEF Accounted, r

\* What a write that goes through puts into a snapshot.
LEMMA DeliverHeard ==
  ASSUME NEW s \in States, NEW fd, NEW kind, NEW of
  PROVE  LET r == Deliver(s, fd, kind, of)
         IN  /\ s.out \subseteq r.out /\ HeardIn(r, s.peer[fd], {kind})
             /\ r.peer = s.peer /\ r.conn = s.conn /\ r.tvinfo = s.tvinfo
             /\ r.online = s.online /\ r.stack = s.stack
<1> DEFINE m == [to |-> s.peer[fd], kind |-> kind, of |-> of]
           r == Deliver(s, fd, kind, of)
<1>1. /\ r.out = s.out \union {m}
      /\ r.peer = s.peer /\ r.conn = s.conn /\ r.tvinfo = s.tvinfo
      /\ r.online = s.online /\ r.stack = s.stack
  BY DEF Deliver, States
<1>2. m.to = s.peer[fd] /\ m.kind = kind
  OBVIOUS
<1> HIDE DEF r, m
<1>3. QED
  BY <1>1, <1>2 DEF HeardIn, r

LEMMA WriteMsgAccounted ==
  ASSUME NEW s \in States, Kept(s), NEW ids, Reading(s, ids), Mutual(s), Alone(ids),
         Accounted(s), NEW fd \in Fds, NEW kind
  PROVE  Accounted(WriteMsg(s, fd, kind)) /\ s.out \subseteq WriteMsg(s, fd, kind).out
<1>1. CASE WriteFails(s, fd)
  BY <1>1, DisconnectAccounted DEF WriteMsg
<1>2. CASE ~WriteFails(s, fd)
  <2> DEFINE r == Deliver(s, fd, kind, NoPeer)
  <2>1. /\ s.out \subseteq r.out
        /\ r.peer = s.peer /\ r.conn = s.conn /\ r.tvinfo = s.tvinfo
        /\ r.online = s.online /\ r.stack = s.stack
    BY DEF Deliver, States
  <2>2. WriteMsg(s, fd, kind) = r
    BY <1>2 DEF WriteMsg
  <2> HIDE DEF r
  <2>3. QED
    BY <2>1, <2>2, QuietAccounted
<1>3. QED
  BY <1>1, <1>2

\* A message to a registered device arrives, or its session is over.
LEMMA WriteMsgHeard ==
  ASSUME NEW s \in States, Kept(s), NEW ids, Reading(s, ids), Mutual(s), Alone(ids),
         NEW i \in Ids \ ids, NEW fd \in Fds, s.conn[i].rfd = fd, NEW kind
  PROVE  LET r == WriteMsg(s, fd, kind)
         IN  \/ HeardIn(r, i, {kind})
             \/ r.conn[i] = NoConn
                /\ (s.conn[i].wid # NoPeer => r.conn[s.conn[i].wid] = NoConn)
<1>1. fd # NoFd /\ s.peer[fd] = i
  BY RelayAssumption DEF NoFd, Reading
<1>2. CASE ~WriteFails(s, fd)
  BY <1>1, <1>2, DeliverHeard DEF WriteMsg
<1>3. CASE WriteFails(s, fd)
  <2> DEFINE r == DisconnectBySockfd(s, fd)
  <2>1. WriteMsg(s, fd, kind) = r
    BY <1>3 DEF WriteMsg
  <2>2. r.conn = [j \in Ids |-> IF j \in TornIds(s, fd) THEN NoConn ELSE s.conn[j]]
    BY DisconnectFields
  <2> HIDE DEF r
  <2>3. fd \in Frames(s, fd) /\ \A j \in Ids : s.conn[j].rfd = s.conn[i].rfd => j = i
    BY <1>1, FramesType, SoleReader
  <2>4. i \in TornIds(s, fd) /\ s.conn[i].wid \in TornIds(s, fd)
    BY <2>3, SoleReaderFound DEF TornIds
  <2>5. s.conn[i].wid # NoPeer => s.conn[i].wid \in Ids
    BY DEF States, Connection
  <2>6. QED
    BY <2>1, <2>2, <2>4, <2>5
<1>4. QED
  BY <1>2, <1>3

\* disconnectToWebSocket and disconnectToTcpSocket.
LEMMA HangUpAccounted ==
  ASSUME NEW s \in States, Kept(s), NEW ids, Reading(s, ids), Mutual(s), Alone(ids),
         Accounted(s), NEW fd \in Fds, NEW kind \in Kinds
  PROVE  LET w == WriteMsg(s, fd, kind)
             r == HangUp(s, fd, kind)
         IN  /\ Accounted(r) /\ s.out \subseteq r.out /\ r.out = w.out /\ r.conn = w.conn
             /\ r.peer[fd] = NoPeer
<1> DEFINE w == WriteMsg(s, fd, kind)
           r == Close(w, {fd})
<1>1. w \in States /\ Accounted(w) /\ s.out \subseteq w.out
  BY WriteMsgType, WriteMsgAccounted
<1>2. HangUp(s, fd, kind) = r
  BY DEF HangUp
<1> HIDE DEF w
<1>3. /\ Accounted(r) /\ r.out = w.out /\ r.conn = w.conn
      /\ r.peer = [g \in Fds |-> IF g \in {fd} THEN NoPeer ELSE w.peer[g]]
  BY <1>1, CloseAccounted, CloseFields
<1> HIDE DEF r
<1>4. QED
  BY <1>1, <1>2, <1>3 DEF w

-----------------------------------------------------------------------------
(* From a handler's calls to its step.                                       *)

TellingStep == SessionEndIsToldStep /\ SessionEndClearsListsStep /\ EntryDropIsToldStep

LEMMA AccountedTelling ==
  ASSUME NEW s, Accounted(s), NEW timer, Becomes(s, timer)
  PROVE  TellingStep
<1>1. CASE s.stack
  BY <1>1 DEF Becomes, Dies, Survives, TellingStep,
              SessionEndIsToldStep, SessionEndClearsListsStep, EntryDropIsToldStep
<1>2. CASE ~s.stack
  <2>1. peer' = s.peer /\ conn' = s.conn /\ tvinfo' = s.tvinfo /\ online' = s.online /\ out' = s.out
    BY <1>2 DEF Becomes
  <2>2. \A d, kinds : HeardIn(s, d, kinds) => Told(d, kinds)
    BY <2>1 DEF HeardIn, Told
  <2>3. \A d, kinds : Told(d, kinds) => HeardIn(s, d, kinds)
    BY <2>1 DEF HeardIn, Told
  <2>4. SessionEndIsToldStep
    BY <1>2, <2>1, <2>2 DEF Accounted, EndsTold, OverIn, SessionOver, SessionEndIsToldStep
  <2>5. SessionEndClearsListsStep
    BY <2>1, <2>2, <2>3 DEF Accounted, EndsCleared, OverIn, SessionOver, SessionEndClearsListsStep
  <2>6. EntryDropIsToldStep
    <3>1. \A t \in TVs, g \in Fds : peer[g] = t /\ s.peer[g] = NoPeer => g \in Closed
      BY <2>1, RelayAssumption DEF Closed, Ids, Devices
    <3>2. QED
      BY <2>1, <2>2, <3>1 DEF Accounted, DropsTold, EntryDropIsToldStep
  <2>7. QED
    BY <2>4, <2>5, <2>6 DEF TellingStep
<1>3. QED
  BY <1>1, <1>2

LEMMA HandledTelling ==
  ASSUME NEW s, Accounted(s), NEW fd, Handled(fd, s)
  PROVE  TellingStep
<1>1. CASE Dies("freed")
  BY <1>1 DEF Dies, Survives, TellingStep,
              SessionEndIsToldStep, SessionEndClearsListsStep, EntryDropIsToldStep
<1>2. CASE Becomes(s, armed)
  BY <1>2, AccountedTelling
<1>3. QED
  BY <1>1, <1>2 DEF Handled

\* Where a handler starts.
LEMMA StartAccounted ==
  ASSUME Consistent, ~overlapped
  PROVE  /\ Accounted(Snapshot) /\ Snapshot \in States /\ Kept(Snapshot) /\ Sound(Snapshot)
         /\ Reading(Snapshot, {}) /\ Mutual(Snapshot) /\ Asking(Snapshot) /\ Alone({}) /\ TypeOK
         /\ Snapshot.peer = peer /\ Snapshot.conn = conn /\ Snapshot.tvinfo = tvinfo
         /\ Snapshot.online = online /\ Snapshot.stack = FALSE
<1>1. /\ Snapshot \in States /\ Kept(Snapshot) /\ Sound(Snapshot) /\ TypeOK
      /\ Reading(Snapshot, {}) /\ Mutual(Snapshot) /\ Asking(Snapshot)
      /\ Snapshot.peer = peer /\ Snapshot.conn = conn /\ Snapshot.tvinfo = tvinfo
      /\ Snapshot.online = online /\ Snapshot.stack = FALSE
  BY SnapshotType DEF Consistent, Sound, SoundBut
<1>2. Accounted(Snapshot)
  BY <1>1 DEF Accounted, Aging, EndsTold, EndsCleared, DropsTold, OverIn
<1>3. QED
  BY <1>1, <1>2 DEF Alone

\* A handler that leaves the registry alone has only its entries to account for.
LEMMA EntriesAccounted ==
  ASSUME NEW s, s.conn = conn, \A g \in Fds : s.peer[g] \in {peer[g], NoPeer}, DropsTold(s)
  PROVE  Accounted(s)
BY DEF Accounted, Aging, EndsTold, EndsCleared, OverIn

-----------------------------------------------------------------------------
(* One lemma per action.                                                     *)

LEMMA AcceptTelling ==
  ASSUME Consistent, \/ \E d \in Devices : Accept(d)
                     \/ \E fd \in Fds : LinkDies(fd)
  PROVE  TellingStep
<1>1. conn' = conn /\ tvinfo' = tvinfo
  BY DEF Accept, LinkDies
<1>2. QED
  BY <1>1 DEF TellingStep, SessionEndIsToldStep, SessionEndClearsListsStep, EntryDropIsToldStep,
              SessionOver

LEMMA AgeTelling ==
  ASSUME Consistent, NEW u \in TVs, Age(u)
  PROVE  TellingStep
<1>1. conn' = conn /\ tvinfo' = [tvinfo EXCEPT ![u].old = TRUE] /\ tvinfo \in [TVs -> TVInfoNode]
  BY DEF Age, Consistent, TypeOK
<1>2. \A t \in TVs : tvinfo'[t].php = tvinfo[t].php
  BY <1>1 DEF TVInfoNode
<1>3. QED
  BY <1>1, <1>2 DEF TellingStep, SessionEndIsToldStep, SessionEndClearsListsStep,
                    EntryDropIsToldStep, SessionOver

\* A waiting client's socket is open, and can be written unless its link is dead.
LEMMA WaitingWritable ==
  ASSUME Consistent, ~overlapped, NEW t \in TVs, tvinfo[t].dev = "pc", tvinfo[t].php \notin dead
  PROVE  /\ tvinfo[t].php \in Fds /\ tvinfo[t].php # NoFd
         /\ Snapshot.peer[tvinfo[t].php] = peer[tvinfo[t].php]
         /\ ~WriteFails(Snapshot, tvinfo[t].php)
<1>1. tvinfo[t].php # NoFd /\ tvinfo[t].php \in Fds
  BY StartAccounted DEF Kept, Entries, TypeOK, TVInfoNode
<1>2. peer[tvinfo[t].php] \in Phps
  BY StartAccounted DEF Asking
<1>3. peer[tvinfo[t].php] # NoPeer
  BY <1>2, RelayAssumption DEF Devices
<1>4. QED
  BY <1>1, <1>3, StartAccounted DEF WriteFails

LEMMA TickTelling ==
  ASSUME Consistent, ~overlapped, Tick
  PROVE  TellingStep
<1>1. conn' = conn /\ tvinfo' = [t \in TVs |-> IF t \in Expired THEN NoEntry ELSE tvinfo[t]]
  BY DEF Tick
<1>2. ASSUME NEW t \in TVs, tvinfo[t].dev = "pc", tvinfo[t].php \notin dead,
             tvinfo'[t].php # tvinfo[t].php
      PROVE  Told(peer[tvinfo[t].php], {"ok", "refuse", "timeout", "replace"})
  <2>1. t \in Expired
    BY <1>1, <1>2
  <2>2. tvinfo[t].php # NoFd /\ ~WriteFails(Snapshot, tvinfo[t].php)
    BY <1>2, WaitingWritable
  <2> DEFINE m == [to |-> peer[tvinfo[t].php], kind |-> "timeout", of |-> t]
  <2>3. m \in out'
    BY <2>1, <2>2 DEF Tick
  <2>4. m.to = peer[tvinfo[t].php] /\ m.kind = "timeout"
    OBVIOUS
  <2> HIDE DEF m
  <2>5. QED
    BY <2>3, <2>4 DEF Told
<1>3. QED
  BY <1>1, <1>2 DEF TellingStep, SessionEndIsToldStep, SessionEndClearsListsStep,
                    EntryDropIsToldStep, SessionOver

LEMMA DisconnectTelling ==
  ASSUME Consistent, ~overlapped, NEW fd \in Fds, Disconnect(fd) \/ TvExitCtrl(fd)
  PROVE  TellingStep
<1> DEFINE s == DisconnectBySockfd(Snapshot, fd)
<1>1. Accounted(s)
  BY StartAccounted, DisconnectAccounted
<1>2. Becomes(s, armed) \/ Handled(fd, s)
  BY DEF Disconnect, TvExitCtrl
<1> HIDE DEF s
<1>3. QED
  BY <1>1, <1>2, AccountedTelling, HandledTelling

LEMMA WriteTelling ==
  ASSUME Consistent, ~overlapped, NEW fd \in Fds,
         Handshake(fd) \/ \E target \in Ids : Forward(fd, target)
  PROVE  TellingStep
<1>1. ASSUME NEW g \in Fds, NEW kind,
             Becomes(WriteMsg(Snapshot, g, kind), armed) \/ Handled(fd, WriteMsg(Snapshot, g, kind))
      PROVE  TellingStep
  <2> DEFINE s == WriteMsg(Snapshot, g, kind)
  <2>1. Accounted(s)
    BY StartAccounted, WriteMsgAccounted
  <2>2. Becomes(s, armed) \/ Handled(fd, s)
    BY <1>1
  <2> HIDE DEF s
  <2>3. QED
    BY <2>1, <2>2, AccountedTelling, HandledTelling
<1>2. CASE Handshake(fd)
  BY <1>1, <1>2 DEF Handshake
<1>3. CASE \E target \in Ids : Forward(fd, target)
  <2>1. PICK target \in Ids : Forward(fd, target)
    BY <1>3
  <2>2. conn[target].rfd \in Fds
    BY <2>1 DEF Forward, Registered, Consistent, TypeOK, Connection
  <2>3. QED
    BY <1>1, <2>1, <2>2 DEF Forward
<1>4. QED
  BY <1>2, <1>3

\* A verdict a waiting client can be written is heard.
LEMMA PhpHears ==
  ASSUME NEW s \in States, NEW fd \in Fds, ~WriteFails(s, fd), NEW kind \in Kinds, NEW t \in TVs
  PROVE  LET r == WriteMsgToPhp(s, fd, kind, t)
         IN  /\ r \in States /\ SameRegistries(s, r) /\ HeardIn(r, s.peer[fd], {kind})
<1> DEFINE m == [to |-> s.peer[fd], kind |-> kind, of |-> t]
           r == WriteMsgToPhp(s, fd, kind, t)
<1>1. r \in States /\ SameRegistries(s, r)
  BY WriteMsgToPhpSame
<1>2. r.out = s.out \union {m}
  BY DEF WriteMsgToPhp, Deliver, States
<1>3. m.to = s.peer[fd] /\ m.kind = kind
  OBVIOUS
<1> HIDE DEF r, m
<1>4. HeardIn(r, s.peer[fd], {kind})
  BY <1>2, <1>3 DEF HeardIn
<1>5. QED
  BY <1>1, <1>4 DEF r

\* REG_TV and REJECT_HELP, the rendezvous: the client whose entry is answered hears the answer.
LEMMA VerdictAccounted ==
  ASSUME Consistent, ~overlapped, NEW t \in TVs, NEW kind \in {"ok", "refuse"},
         NEW entry \in TVInfoNode, entry.dev # "pc", entry.php = NoFd
  PROVE  LET s == IF tvinfo[t].dev = "pc"
                  THEN SetTvinfo(WriteMsgToPhp(Snapshot, tvinfo[t].php, kind, t), t, NoEntry)
                  ELSE SetTvinfo(Snapshot, t, entry)
         IN  Accounted(s)
<1> DEFINE w == WriteMsgToPhp(Snapshot, tvinfo[t].php, kind, t)
           s == IF tvinfo[t].dev = "pc" THEN SetTvinfo(w, t, NoEntry)
                                        ELSE SetTvinfo(Snapshot, t, entry)
<1>0. SUFFICES Accounted(s)
  OBVIOUS
<1>1. kind \in Kinds /\ NoEntry \in TVInfoNode
  BY DEF Kinds, NoEntry, TVInfoNode
<1>2. s.peer = peer /\ s.conn = conn
  BY <1>1, VerdictFields
<1>3. TypeOK /\ Snapshot \in States /\ Kept(Snapshot) /\ Snapshot.tvinfo = tvinfo
      /\ Snapshot.peer = peer
  BY StartAccounted
<1>4. CASE tvinfo[t].dev = "pc"
  <2>1. tvinfo[t].php \in Fds
    BY <1>3, <1>4 DEF Kept, Entries, TypeOK, TVInfoNode
  <2>2. w \in States /\ w.tvinfo = tvinfo
    BY <1>1, <1>3, <2>1, WriteMsgToPhpSame DEF SameRegistries
  <2>3. tvinfo[t].php \notin dead => HeardIn(w, peer[tvinfo[t].php], {kind})
    BY <1>1, <1>3, <1>4, WaitingWritable, PhpHears
  <2> HIDE DEF w
  <2>4. s.out = w.out /\ s.tvinfo = [tvinfo EXCEPT ![t] = NoEntry]
    BY <1>1, <1>4, <2>2, SetTvinfoFields
  <2> HIDE DEF s
  <2>5. \A u \in TVs \ {t} : s.tvinfo[u] = tvinfo[u]
    BY <1>3, <2>4 DEF TypeOK
  <2>6. tvinfo[t].php \notin dead =>
          HeardIn(s, peer[tvinfo[t].php], {"ok", "refuse", "timeout", "replace"})
    BY <2>3, <2>4 DEF HeardIn
  <2>7. DropsTold(s)
    BY <2>5, <2>6 DEF DropsTold
  <2>8. QED
    BY <1>2, <2>7, EntriesAccounted
<1>5. CASE tvinfo[t].dev # "pc"
  <2>1. s.tvinfo = [tvinfo EXCEPT ![t] = entry]
    BY <1>3, <1>5, SetTvinfoFields
  <2> HIDE DEF s
  <2>2. \A u \in TVs \ {t} : s.tvinfo[u] = tvinfo[u]
    BY <1>3, <2>1 DEF TypeOK
  <2>3. DropsTold(s)
    BY <1>5, <2>2 DEF DropsTold
  <2>4. QED
    BY <1>2, <2>3, EntriesAccounted
<1>6. QED
  BY <1>4, <1>5

LEMMA RejectHelpTelling ==
  ASSUME Consistent, ~overlapped, NEW fd \in Fds, RejectHelp(fd)
  PROVE  TellingStep
<1> DEFINE t == peer[fd]
           s == IF tvinfo[t].dev = "pc"
                THEN SetTvinfo(WriteMsgToPhp(Snapshot, tvinfo[t].php, "refuse", t), t, NoEntry)
                ELSE SetTvinfo(Snapshot, t, RefusedEntry)
<1>1. t \in TVs /\ Becomes(s, armed)
  BY DEF RejectHelp, Reads, Live
<1>2. RefusedEntry \in TVInfoNode /\ RefusedEntry.dev # "pc" /\ RefusedEntry.php = NoFd
  BY DEF RefusedEntry, TVInfoNode
<1>3. Accounted(s)
  BY <1>1, <1>2, VerdictAccounted
<1> HIDE DEF s
<1>4. QED
  BY <1>1, <1>3, AccountedTelling

\* REG_TV for a TV in no session ends none, whatever becomes of its reply.
LEMMA RegisterTvTelling ==
  ASSUME Consistent, ~overlapped, NEW fd \in Fds, peer[fd] \in TVs, ~InSession(peer[fd]),
         NEW s \in States, Kept(s), Sound(s), s.peer = peer, s.conn = conn, Accounted(s),
         Handled(fd, RegisterTv(s, fd, peer[fd]))
  PROVE  TellingStep
<1> DEFINE t == peer[fd]
           r == Registering(s, fd, t)
           w == WriteMsg(r, fd, "srv_id")
<1>1. t \in TVs /\ t \in Ids /\ t # NoPeer /\ s.conn[t].wid = NoPeer
  BY NoSession, RelayAssumption DEF Ids, Devices
<1>2. /\ r \in States /\ Kept(r) /\ Sound(r) /\ r.peer = s.peer /\ r.stack = s.stack
      /\ r.conn[t].wid = NoPeer /\ \A i \in Ids \ {t} : r.conn[i] = s.conn[i]
  BY <1>1, RegisteringSound
<1>3. r.out = s.out /\ r.tvinfo = s.tvinfo /\ r.online = s.online
  BY DEF Registering, States
<1>4. RegisterTv(s, fd, t) = w
  BY DEF RegisterTv, Registering
<1> HIDE DEF r
<1>5. \A u \in TVs : r.conn[u].wid = s.conn[u].wid
  BY <1>1, <1>2 DEF Ids
<1>6. Accounted(r)
  BY <1>2, <1>3, <1>5, QuietAccounted
<1>7. Reading(r, {}) /\ Mutual(r) /\ Alone({})
  BY <1>2 DEF Sound, SoundBut, Alone
<1>8. Accounted(w)
  BY <1>2, <1>6, <1>7, WriteMsgAccounted
<1> HIDE DEF w
<1>9. QED
  BY <1>4, <1>8, HandledTelling

LEMMA RegTvTelling ==
  ASSUME Consistent, ~overlapped', NEW fd \in Fds, RegTv(fd) \/ RegTvTest(fd)
  PROVE  TellingStep
<1> DEFINE t == peer[fd]
           s == IF tvinfo[t].dev = "pc"
                THEN SetTvinfo(WriteMsgToPhp(Snapshot, tvinfo[t].php, "ok", t), t, NoEntry)
                ELSE SetTvinfo(Snapshot, t, AcceptedEntry)
<1>1. t \in TVs /\ ~overlapped /\ ~InSession(t)
  BY DEF RegTv, RegTvTest, Reads, Live
<1>2. CASE RegTv(fd)
  <2>1. /\ AcceptedEntry \in TVInfoNode /\ AcceptedEntry.dev # "pc" /\ AcceptedEntry.php = NoFd
        /\ "ok" \in Kinds
    BY DEF AcceptedEntry, TVInfoNode, Kinds
  <2>2. s \in States /\ Kept(s) /\ Sound(s) /\ s.peer = peer /\ s.conn = conn
    BY <1>1, <2>1, VerdictFields
  <2>3. Accounted(s)
    BY <1>1, <2>1, VerdictAccounted
  <2>4. Handled(fd, RegisterTv(s, fd, t))
    BY <1>2 DEF RegTv
  <2> HIDE DEF s
  <2>5. QED
    BY <1>1, <2>2, <2>3, <2>4, RegisterTvTelling
<1>3. CASE RegTvTest(fd)
  <2>1. Handled(fd, RegisterTv(Snapshot, fd, t))
    BY <1>3 DEF RegTvTest
  <2>2. QED
    BY <1>1, <2>1, StartAccounted, RegisterTvTelling
<1>4. QED
  BY <1>2, <1>3

\* The handlers of the PHP port: only a newer client takes an entry away, and the older one hears it.
LEMMA PhpTelling ==
  ASSUME Consistent, ~overlapped, NEW fd \in Fds, PhpStep(fd)
  PROVE  TellingStep
<1> DEFINE t == Asked(fd)
           old == tvinfo[t].php
           Leaves(s) == /\ s \in States /\ s.conn = conn
                        /\ \A g \in Fds : s.peer[g] \in {peer[g], NoPeer}
<1>0. Live(fd, Phps)
  BY DEF PhpStep, PhpExist, PhpReplace, PhpVerdict, PhpWait, PhpDisconnect
<1>1. /\ t \in TVs /\ Snapshot \in States /\ Snapshot.peer = peer /\ Snapshot.conn = conn
      /\ Snapshot.tvinfo = tvinfo /\ Kept(Snapshot) /\ TypeOK
  BY <1>0, PhpType, StartAccounted
<1>2. {"ok", "refuse", "exist", "replace"} \subseteq Kinds
  BY DEF Kinds
<1>3. NoEntry \in TVInfoNode /\ PcEntry(fd) \in TVInfoNode
  BY DEF NoEntry, PcEntry, TVInfoNode
<1> HIDE DEF t
<1>4. ASSUME NEW s, Leaves(s), DropsTold(s), NEW timer, Becomes(s, timer)
      PROVE  TellingStep
  BY <1>4, EntriesAccounted, AccountedTelling
<1>5. ASSUME NEW g \in Fds, NEW kind \in Kinds
      PROVE  LET w == WriteMsgToPhp(Snapshot, g, kind, t)
             IN  Leaves(w) /\ w.tvinfo = tvinfo
  <2> DEFINE w == WriteMsgToPhp(Snapshot, g, kind, t)
  <2>1. w \in States /\ SameRegistries(Snapshot, w)
    BY <1>1, WriteMsgToPhpSame
  <2> HIDE DEF w
  <2>2. Leaves(w) /\ w.tvinfo = tvinfo
    BY <1>1, <2>1 DEF SameRegistries
  <2>3. QED
    BY <2>2 DEF w
<1>6. ASSUME NEW w, Leaves(w), NEW g
      PROVE  LET r == Close(w, {g})
             IN  Leaves(r) /\ r.tvinfo = w.tvinfo /\ r.out = w.out
  <2> DEFINE r == Close(w, {g})
  <2>1. /\ r \in States /\ r.conn = w.conn /\ r.tvinfo = w.tvinfo /\ r.out = w.out
        /\ r.peer = [f \in Fds |-> IF f \in {g} THEN NoPeer ELSE w.peer[f]]
    BY <1>6, CloseFields
  <2> HIDE DEF r
  <2>2. Leaves(r) /\ r.tvinfo = w.tvinfo /\ r.out = w.out
    BY <1>6, <2>1
  <2>3. QED
    BY <2>2 DEF r
<1>7. ASSUME NEW w, Leaves(w), NEW entry \in TVInfoNode
      PROVE  LET r == SetTvinfo(w, t, entry)
             IN  Leaves(r) /\ r.tvinfo = [w.tvinfo EXCEPT ![t] = entry] /\ r.out = w.out
  BY <1>1, <1>7, SetTvinfoFields
<1>8. ASSUME NEW s, \A u \in TVs : tvinfo[u].dev = "pc" => s.tvinfo[u] = tvinfo[u]
      PROVE  DropsTold(s)
  BY <1>8 DEF DropsTold
<1>9. CASE PhpExist(fd)
  <2> DEFINE w == WriteMsgToPhp(Snapshot, fd, "exist", t)
             s == Close(w, {fd})
  <2>1. Leaves(w) /\ w.tvinfo = tvinfo
    BY <1>2, <1>5
  <2>2. Becomes(s, TRUE)
    BY <1>9 DEF PhpExist, t
  <2> HIDE DEF w
  <2>3. Leaves(s) /\ s.tvinfo = tvinfo
    BY <1>6, <2>1
  <2> HIDE DEF s, Leaves
  <2>4. QED
    BY <1>4, <1>8, <2>2, <2>3
<1>10. CASE PhpReplace(fd)
  <2> DEFINE w == WriteMsgToPhp(Snapshot, old, "replace", t)
             r == Close(w, {old})
             s == SetTvinfo(r, t, PcEntry(fd))
  <2>1. tvinfo[t].dev = "pc" /\ Becomes(s, TRUE)
    BY <1>10 DEF PhpReplace, t
  <2>2. old \in Fds
    BY <1>1, <2>1 DEF Kept, Entries, TypeOK, TVInfoNode
  <2>3. Leaves(w) /\ w.tvinfo = tvinfo
    BY <1>2, <1>5, <2>2
  <2>4. old \notin dead => HeardIn(w, peer[old], {"replace"})
    BY <1>1, <1>2, <2>1, WaitingWritable, PhpHears
  <2> HIDE DEF w
  <2>5. Leaves(r) /\ r.tvinfo = tvinfo /\ r.out = w.out
    BY <1>6, <2>3
  <2> HIDE DEF r
  <2>6. Leaves(s) /\ s.tvinfo = [tvinfo EXCEPT ![t] = PcEntry(fd)] /\ s.out = w.out
    BY <1>3, <1>7, <2>5
  <2> HIDE DEF s, Leaves
  <2>7. \A u \in TVs \ {t} : s.tvinfo[u] = tvinfo[u]
    BY <1>1, <2>6 DEF TypeOK
  <2>8. old \notin dead => HeardIn(s, peer[old], {"ok", "refuse", "timeout", "replace"})
    BY <2>4, <2>6 DEF HeardIn
  <2>9. DropsTold(s)
    BY <2>7, <2>8 DEF DropsTold
  <2>10. QED
    BY <1>4, <2>1, <2>6, <2>9
<1>11. CASE PhpVerdict(fd)
  <2> DEFINE kind == IF tvinfo[t].refuse THEN "refuse" ELSE "ok"
             w == WriteMsgToPhp(Snapshot, fd, kind, t)
             r == SetTvinfo(w, t, NoEntry)
             s == Close(r, {fd})
  <2>1. Becomes(s, armed) /\ tvinfo[t].dev = "tv"
    BY <1>11 DEF PhpVerdict, t
  <2>2. kind \in Kinds
    BY <1>2
  <2> HIDE DEF kind
  <2>3. Leaves(w) /\ w.tvinfo = tvinfo
    BY <1>5, <2>2
  <2> HIDE DEF w
  <2>4. Leaves(r) /\ r.tvinfo = [tvinfo EXCEPT ![t] = NoEntry]
    BY <1>3, <1>7, <2>3
  <2> HIDE DEF r
  <2>5. Leaves(s) /\ s.tvinfo = [tvinfo EXCEPT ![t] = NoEntry]
    BY <1>6, <2>4
  <2> HIDE DEF s, Leaves
  <2>6. \A u \in TVs : tvinfo[u].dev = "pc" => s.tvinfo[u] = tvinfo[u]
    BY <1>1, <2>1, <2>5 DEF TypeOK
  <2>7. QED
    BY <1>4, <1>8, <2>1, <2>5, <2>6
<1>12. CASE PhpWait(fd)
  <2> DEFINE s == SetTvinfo(Snapshot, t, PcEntry(fd))
  <2>1. Becomes(s, TRUE) /\ tvinfo[t].dev = "none"
    BY <1>12 DEF PhpWait, t
  <2>2. Leaves(s) /\ s.tvinfo = [tvinfo EXCEPT ![t] = PcEntry(fd)]
    BY <1>1, <1>3, SetTvinfoFields
  <2> HIDE DEF s, Leaves
  <2>3. \A u \in TVs : tvinfo[u].dev = "pc" => s.tvinfo[u] = tvinfo[u]
    BY <1>1, <2>1, <2>2 DEF TypeOK
  <2>4. QED
    BY <1>4, <1>8, <2>1, <2>2, <2>3
<1>13. CASE PhpDisconnect(fd)
  <2> DEFINE s == Close(Snapshot, {fd})
  <2>1. Becomes(s, armed)
    BY <1>13 DEF PhpDisconnect
  <2>2. Leaves(s) /\ s.tvinfo = tvinfo
    BY <1>1, <1>6
  <2> HIDE DEF s, Leaves
  <2>3. QED
    BY <1>4, <1>8, <2>1, <2>2
<1>14. QED
  BY <1>9, <1>10, <1>11, <1>12, <1>13 DEF PhpStep

\* disconnectBySockfd with DISCONNECT_REPLACE, called for a TV: the older PC hears of the newer one.
LEMMA ReplaceAccounted ==
  ASSUME Consistent, ~overlapped, NEW fd \in Fds, peer[fd] \in TVs
  PROVE  Accounted(DisconnectReplace(Snapshot, fd))
<1> DEFINE s  == Snapshot
           s1 == RemoveFilters([s EXCEPT !.polled = @ \ {fd}], {fd})
           i  == ConnByReadFd(s, fd)
           c  == s.conn[i]
           j  == c.wid
           w  == WriteMsg(s1, c.wfd, "another_pc")
           h  == HangUp(s1, c.wfd, "another_pc")
           s2 == Close(h, {fd})
           s3 == RemoveConnections(s2, {j, i})
           s4 == RemoveFilters(s3, {c.wfd})
           r1 == RemoveConnections(s1, {i})
<1>1. /\ Accounted(s) /\ s \in States /\ Kept(s) /\ Sound(s) /\ Reading(s, {}) /\ Mutual(s)
      /\ Alone({}) /\ s.peer = peer /\ s.conn = conn
  BY StartAccounted
<1>2. DisconnectReplace(s, fd) =
        IF Readers(s, fd) = {} THEN s1 ELSE IF Paired(c) THEN s4 ELSE r1
  BY DEF DisconnectReplace
<1> HIDE DEF s
<1>3. /\ s1 \in States /\ Kept(s1) /\ s1.conn = conn /\ s1.peer = peer
      /\ Reading(s1, {}) /\ Mutual(s1)
  BY <1>1, ReplaceFirst DEF Sound, SoundBut
<1>4. s1.out = s.out /\ s1.tvinfo = s.tvinfo /\ s1.online = s.online /\ s1.stack = s.stack
  BY <1>1 DEF RemoveFilters, States
<1> HIDE DEF s1
<1>5. Accounted(s1)
  BY <1>1, <1>3, <1>4, QuietAccounted
<1>6. Readers(s, fd) # {} => i \in TVs /\ conn[i].rfd = fd
  BY <1>1, ReaderOf, ReaderIsPeer
<1>7. CASE Readers(s, fd) # {} /\ ~Paired(c)
  <2>1. conn[i].wid = NoPeer
    BY <1>1, <1>6, <1>7 DEF Paired, Kept, Shaped, Ids
  <2> HIDE DEF i
  <2>2. /\ r1.peer = s1.peer /\ r1.stack = s1.stack /\ r1.out = s1.out
        /\ r1.tvinfo = s1.tvinfo /\ r1.online = s1.online
        /\ r1.conn = [k \in Ids |-> IF k \in {i} THEN NoConn ELSE s1.conn[k]]
    BY <1>3, RemoveConnectionsFields
  <2> HIDE DEF r1
  <2>3. \A u \in TVs : r1.conn[u].wid = s1.conn[u].wid
    BY <1>3, <2>1, <2>2 DEF NoConn, Ids
  <2>4. Accounted(r1)
    BY <1>5, <2>2, <2>3, QuietAccounted
  <2>5. QED
    BY <1>2, <1>7, <2>4 DEF s
<1>8. CASE Readers(s, fd) # {} /\ Paired(c)
  <2>1. /\ i \in TVs /\ i \in Ids /\ j \in Ids /\ j \in PCs /\ j \notin TVs /\ j # NoPeer /\ c.wfd \in Fds
        /\ c = conn[i] /\ s1.conn[j].rfd = c.wfd /\ s1.conn[j].wid = i /\ i # NoPeer
    <3>1. i \in TVs /\ i \in Ids /\ c = conn[i] /\ i # NoPeer
      BY <1>1, <1>6, <1>8, RelayAssumption DEF Ids, Devices
    <3>2. j \in Ids /\ j # NoPeer /\ c.wfd \in Fds
      BY <1>1, <1>8, <3>1, PairedType
    <3>3. j \in PCs /\ s1.conn[j].rfd = c.wfd /\ s1.conn[j].wid = i
      BY <1>1, <1>3, <3>1, <3>2 DEF Mutual
    <3>4. QED
      BY <3>1, <3>2, <3>3, RelayAssumption
  <2> HIDE DEF i, c, j
  <2>2. w \in States /\ h \in States /\ "another_pc" \in Kinds
    BY <1>3, <2>1, WriteMsgType, HangUpType DEF Kinds
  <2>3. Accounted(h) /\ h.out = w.out /\ h.conn = w.conn
    BY <1>1, <1>3, <1>5, <2>1, <2>2, HangUpAccounted
  <2>4. HeardIn(w, j, {"another_pc"}) \/ w.conn[i] = NoConn
    BY <1>1, <1>3, <2>1, WriteMsgHeard
  <2> HIDE DEF w, h
  <2>5. s2 \in States /\ Accounted(s2) /\ s2.out = w.out /\ s2.conn = w.conn
    BY <2>2, <2>3, CloseFields, CloseAccounted
  <2> HIDE DEF s2
  <2> DEFINE gone == {j, i}
  <2> HIDE DEF gone
  <2>6. /\ RemoveConnections(s2, gone) \in States
        /\ RemoveConnections(s2, gone).peer = s2.peer
        /\ RemoveConnections(s2, gone).stack = s2.stack
        /\ RemoveConnections(s2, gone).out = s2.out
        /\ RemoveConnections(s2, gone).tvinfo = s2.tvinfo
        /\ RemoveConnections(s2, gone).online = s2.online
        /\ RemoveConnections(s2, gone).conn =
             [k \in Ids |-> IF k \in gone THEN NoConn ELSE s2.conn[k]]
    BY <2>5, RemoveConnectionsFields
  <2>7. /\ s3 \in States /\ s3.peer = s2.peer /\ s3.stack = s2.stack /\ s3.out = s2.out
        /\ s3.tvinfo = s2.tvinfo /\ s3.online = s2.online
        /\ s3.conn[i].wid = NoPeer /\ \A u \in TVs \ {i} : s3.conn[u].wid = s2.conn[u].wid
    BY <2>1, <2>6 DEF gone, NoConn, Ids
  <2> HIDE DEF s3
  <2>8. /\ s4.peer = s2.peer /\ s4.stack = s2.stack /\ s4.out = s2.out
        /\ s4.tvinfo = s2.tvinfo /\ s4.online = s2.online
        /\ s4.conn[i].wid = NoPeer /\ \A u \in TVs \ {i} : s4.conn[u].wid = s2.conn[u].wid
    BY <2>7, RemoveFiltersFields
  <2> HIDE DEF s4
  <2>9. OverIn(s2, i) \/ HeardIn(s4, conn[i].wid, {"another_pc"})
    BY <2>1, <2>4, <2>5, <2>8 DEF OverIn, HeardIn, NoConn, j
  <2>10. Accounted(s4)
    <3>1. Aging(s4)
      BY <2>5, <2>8 DEF Accounted, Aging
    <3>2. EndsTold(s4)
      BY <2>1, <2>5, <2>8, <2>9 DEF Accounted, EndsTold, OverIn, HeardIn
    <3>3. EndsCleared(s4)
      BY <2>1, <2>5, <2>8, <2>9 DEF Accounted, EndsCleared, OverIn, HeardIn
    <3>4. DropsTold(s4)
      BY <2>5, <2>8 DEF Accounted, DropsTold, HeardIn
    <3>5. QED
      BY <3>1, <3>2, <3>3, <3>4 DEF Accounted
  <2>11. QED
    BY <1>2, <1>8, <2>10 DEF s, c
<1> HIDE DEF r1, s4
<1>9. QED
  BY <1>2, <1>5, <1>7, <1>8 DEF s

LEMMA AnotherPcCtrlTelling ==
  ASSUME Consistent, ~overlapped, NEW fd \in Fds, AnotherPcCtrl(fd)
  PROVE  TellingStep
<1> DEFINE s == DisconnectReplace(Snapshot, fd)
<1>1. Handled(fd, s) /\ peer[fd] \in TVs
  BY DEF AnotherPcCtrl, Reads, Live
<1>2. Accounted(s)
  BY <1>1, ReplaceAccounted
<1> HIDE DEF s
<1>3. QED
  BY <1>1, <1>2, HandledTelling

\* PC_NEED_EXIT: the TV hears that its PC has gone, or a nested teardown has ended the session already.
LEMMA PcNeedExitTelling ==
  ASSUME Consistent, ~overlapped, NEW fd \in Fds, PcNeedExit(fd)
  PROVE  TellingStep
<1> DEFINE p  == peer[fd]
           c  == conn[p]
           t  == c.wid
           g  == c.wfd
           h  == HangUp(Snapshot, fd, "tv_offline")
           w  == WriteMsg(h, g, "pc_offline")
           s1 == HangUp(h, g, "pc_offline")
           s2 == RemoveConnections(s1, {p, t})
           s3 == RemoveFilters(s2, {fd, g})
           s  == RemoveTvinfo(s3, {t})
<1>1. /\ TypeOK /\ Snapshot \in States /\ Kept(Snapshot) /\ Sound(Snapshot)
      /\ Snapshot.peer = peer /\ Snapshot.conn = conn /\ Accounted(Snapshot)
      /\ Reading(Snapshot, {}) /\ Mutual(Snapshot) /\ Alone({})
  BY StartAccounted
<1>2. p \in PCs /\ p \notin Phps /\ p \in Ids /\ p \notin TVs /\ c.rfd # NoFd /\ Handled(fd, s)
  BY RelayAssumption DEF PcNeedExit, Reads, Live, Registered, Ids
<1>3. t # NoPeer /\ g # NoFd /\ t \in Ids /\ g \in Fds
  <2>1. t # NoPeer /\ g # NoFd
    BY <1>1, <1>2 DEF Kept, Shaped
  <2>2. QED
    BY <1>1, <1>2, <2>1 DEF TypeOK, Connection
<1>4. t \in TVs /\ conn[t].rfd = g /\ conn[t].wid = p /\ peer[g] = t
  <2>1. conn[t].rfd = g /\ conn[t].wid = p /\ t \in TVs
    BY <1>1, <1>2, <1>3, RelayAssumption DEF Mutual, Ids
  <2>2. QED
    BY <1>1, <1>3, <2>1, ReaderIsPeer
<1>5. p # NoPeer /\ "tv_offline" \in Kinds /\ "pc_offline" \in Kinds /\ Alone({p})
  BY <1>2, RelayAssumption DEF Kinds, Alone, Ids, Devices
<1>6. h \in States /\ Kept(h) /\ Shrinks(Snapshot, h) /\ Reading(h, {p}) /\ Mutual(h) /\ Accounted(h)
  <2>1. h \in States /\ Kept(h) /\ Shrinks(Snapshot, h)
    BY <1>1, <1>5, HangUpType, HangUpKept
  <2>2. SoundBut(Snapshot, {p}, {fd}, {})
    BY <1>1 DEF Sound, SoundBut, Filters, Reading
  <2>3. \A i \in Ids : Snapshot.conn[i].rfd = fd => i \in {p}
    BY <1>1, ReaderIsPeer
  <2>4. SoundBut(h, {p}, {fd}, {})
    BY <1>1, <1>2, <1>5, <2>2, <2>3, HangUpSound
  <2>5. Accounted(h)
    BY <1>1, <1>5, HangUpAccounted
  <2>6. QED
    BY <2>1, <2>4, <2>5 DEF SoundBut
<1> HIDE DEF p, c, t, g, h
<1>7. /\ s1 \in States /\ Accounted(s1) /\ s1.out = w.out /\ s1.conn = w.conn
      /\ s1.peer[g] = NoPeer /\ w \in States /\ Shrinks(h, w)
  BY <1>3, <1>5, <1>6, WriteMsgType, HangUpType, HangUpAccounted
<1>8. OverIn(s1, t) \/ HeardIn(s1, t, {"pc_offline"})
  <2>1. h.conn[t] = conn[t] \/ h.conn[t] = NoConn
    BY <1>1, <1>3, <1>6 DEF Shrinks
  <2>2. CASE h.conn[t] = NoConn
    <3>1. w.conn[t] = NoConn
      BY <1>3, <1>7, <2>2 DEF Shrinks
    <3>2. QED
      BY <1>2, <1>4, <1>5, <1>7, <3>1 DEF OverIn, NoConn
  <2>3. CASE h.conn[t] = conn[t]
    <3>1. t \in Ids \ {p} /\ h.conn[t].rfd = g
      BY <1>2, <1>3, <1>4, <2>3
    <3>2. HeardIn(w, t, {"pc_offline"}) \/ w.conn[t] = NoConn
      BY <1>3, <1>5, <1>6, <3>1, WriteMsgHeard
    <3>3. QED
      BY <1>4, <1>5, <1>7, <3>2 DEF OverIn, HeardIn, NoConn
  <2>4. QED
    BY <2>1, <2>2, <2>3
<1> HIDE DEF s1, w
<1>9. /\ s2 \in States /\ s2.peer = s1.peer /\ s2.stack = s1.stack /\ s2.out = s1.out
      /\ s2.tvinfo = s1.tvinfo /\ s2.online = s1.online
      /\ s2.conn[t].wid = NoPeer /\ \A u \in TVs \ {t} : s2.conn[u].wid = s1.conn[u].wid
  <2> DEFINE gone == {p, t}
  <2> HIDE DEF gone
  <2>1. /\ RemoveConnections(s1, gone) \in States
        /\ RemoveConnections(s1, gone).peer = s1.peer
        /\ RemoveConnections(s1, gone).stack = s1.stack
        /\ RemoveConnections(s1, gone).out = s1.out
        /\ RemoveConnections(s1, gone).tvinfo = s1.tvinfo
        /\ RemoveConnections(s1, gone).online = s1.online
        /\ RemoveConnections(s1, gone).conn =
             [i \in Ids |-> IF i \in gone THEN NoConn ELSE s1.conn[i]]
    BY <1>7, RemoveConnectionsFields
  <2>2. QED
    BY <1>2, <1>3, <2>1 DEF gone, NoConn, Ids
<1> HIDE DEF s2
<1>10. /\ s3 \in States /\ s3.peer = s2.peer /\ s3.stack = s2.stack /\ s3.conn = s2.conn
       /\ s3.out = s2.out /\ s3.tvinfo = s2.tvinfo /\ s3.online = s2.online
  BY <1>9, RemoveFiltersFields
<1> HIDE DEF s3
<1>11. /\ s.peer = s3.peer /\ s.stack = s3.stack /\ s.conn = s3.conn /\ s.out = s3.out
       /\ t \notin s.online /\ s.tvinfo[t] = NoEntry /\ s.online \subseteq s3.online
       /\ \A u \in TVs \ {t} : s.tvinfo[u] = s3.tvinfo[u]
  <2> DEFINE gone == {t}
  <2> HIDE DEF gone
  <2>1. /\ RemoveTvinfo(s3, gone).tvinfo =
             [u \in TVs |-> IF u \in gone THEN NoEntry ELSE s3.tvinfo[u]]
        /\ RemoveTvinfo(s3, gone).online = s3.online \ gone
        /\ RemoveTvinfo(s3, gone).peer = s3.peer
        /\ RemoveTvinfo(s3, gone).conn = s3.conn
        /\ RemoveTvinfo(s3, gone).out = s3.out
        /\ RemoveTvinfo(s3, gone).stack = s3.stack
    BY <1>10, RemoveTvinfoFields
  <2>2. QED
    BY <1>4, <2>1 DEF gone
<1>12. Handled(fd, s)
  BY <1>2
<1> HIDE DEF s
<1>13. Aging(s)
  BY <1>7, <1>9, <1>10, <1>11 DEF Accounted, Aging
<1>14. EndsTold(s)
  <2>1. ASSUME NEW u \in TVs \ {t}, OverIn(s, u) PROVE OverIn(s1, u)
    BY <1>9, <1>10, <1>11, <2>1 DEF OverIn
  <2>2. QED
    BY <1>7, <1>8, <1>9, <1>10, <1>11, <2>1 DEF Accounted, EndsTold, HeardIn
<1>15. EndsCleared(s)
  BY <1>7, <1>9, <1>10, <1>11 DEF Accounted, EndsCleared, OverIn, HeardIn
<1>16. DropsTold(s)
  BY <1>3, <1>4, <1>7, <1>9, <1>10, <1>11 DEF Accounted, DropsTold, HeardIn
<1>17. QED
  BY <1>12, <1>13, <1>14, <1>15, <1>16, HandledTelling DEF Accounted

\* REG_PC: a session that its replies end leaves the TV online only if the PC has heard the TV's id.
LEMMA RegPcTelling ==
  ASSUME Consistent, ~overlapped', NEW fd \in Fds, NEW t \in TVs, RegPc(fd, t)
  PROVE  TellingStep
<1> DEFINE p  == peer[fd]
           g  == conn[t].rfd
           s0 == Pair(Snapshot, fd, p, t)
           s1 == WriteMsg(s0, fd, "srv_id")
           s2 == WriteMsg(s1, fd, "tv_id")
           freed == s2.conn[t] = NoConn
           tell(f) == IF f = NoFd THEN s2 ELSE WriteMsg(s2, f, "pc_id")
<1>1. /\ ~overlapped /\ ~Overtakes(p, t) /\ ~freed
      /\ Handled(fd, InsertOnline(tell(g), t))
  BY DEF RegPc
<1>2. /\ TypeOK /\ Snapshot \in States /\ Kept(Snapshot) /\ Sound(Snapshot)
      /\ Snapshot.peer = peer /\ Snapshot.conn = conn /\ Accounted(Snapshot)
      /\ Reading(Snapshot, {}) /\ Mutual(Snapshot) /\ Alone({})
  BY <1>1, StartAccounted
<1>3. /\ p \in PCs /\ p \in Ids /\ t \in Ids /\ p # t /\ p # NoPeer /\ t # NoPeer
      /\ p \notin Phps /\ t \notin Phps /\ p \notin TVs
      /\ g # NoFd /\ g \in Fds /\ peer[g] = t
  <2>1. /\ p \in PCs /\ p \in Ids /\ t \in Ids /\ p # t /\ p # NoPeer /\ t # NoPeer
        /\ p \notin Phps /\ t \notin Phps /\ p \notin TVs /\ g # NoFd
    BY RelayAssumption DEF RegPc, Reads, Live, Registered, Ids, Devices
  <2>2. g \in Fds
    BY <1>2, <2>1 DEF TypeOK, Connection
  <2>3. QED
    BY <1>2, <2>1, <2>2, ReaderIsPeer
<1>4. /\ \A q \in PCs \ {p} : conn[q].wid # t
      /\ conn[p].wid \in {NoPeer, t} /\ conn[t].wid \in {NoPeer, p}
  <2>1. (\A q \in PCs \ {p} : conn[q].wid # t) /\ conn[p].wid \in {NoPeer, t}
    BY <1>1 DEF Overtakes
  <2>2. QED
    BY <1>2, <1>3, <2>1 DEF Mutual
<1>5. /\ s0 \in States /\ s0.peer = peer /\ s0.tvinfo = Snapshot.tvinfo
      /\ s0.online = Snapshot.online /\ s0.out = Snapshot.out /\ s0.stack = Snapshot.stack
      /\ s0.conn[p].rfd = fd /\ s0.conn[t].wid = p
      /\ \A i \in Ids \ {p, t} : s0.conn[i] = conn[i]
  <2> DEFINE S == Snapshot
  <2>1. s0.out = S.out /\ s0.stack = S.stack
    BY <1>2 DEF Pair, States
  <2> HIDE DEF S, p, s0
  <2>2. /\ Pair(S, fd, p, t) \in States /\ Pair(S, fd, p, t).peer = S.peer
        /\ Pair(S, fd, p, t).tvinfo = S.tvinfo /\ Pair(S, fd, p, t).online = S.online
        /\ Pair(S, fd, p, t).conn[p] = [rfd |-> fd, wfd |-> S.conn[t].rfd, wid |-> t]
        /\ Pair(S, fd, p, t).conn[t] = [rfd |-> S.conn[t].rfd, wfd |-> fd, wid |-> p]
        /\ \A i \in Ids \ {p, t} : Pair(S, fd, p, t).conn[i] = S.conn[i]
    BY <1>2, <1>3, PairFields DEF S
  <2>3. QED
    BY <1>2, <2>1, <2>2 DEF S, s0
<1>6. SoundBut(s0, {}, {}, {t}) /\ Kept(s0)
  BY <1>2, <1>3, <1>4, PairSound, PairKept
<1> HIDE DEF s0, p, g
<1>7. Accounted(s0)
  <2>1. \A u \in TVs : conn[u].wid # NoPeer => s0.conn[u].wid = conn[u].wid
    BY <1>3, <1>4, <1>5 DEF Ids
  <2>2. Aging(s0)
    BY <1>5, <2>1 DEF Aging
  <2>3. EndsTold(s0) /\ EndsCleared(s0)
    BY <2>1 DEF EndsTold, EndsCleared, OverIn
  <2>4. DropsTold(s0)
    BY <1>2, <1>5 DEF Accounted, DropsTold, HeardIn
  <2>5. QED
    BY <2>2, <2>3, <2>4 DEF Accounted
<1>8. {"srv_id", "tv_id", "pc_id"} \subseteq Kinds
  BY DEF Kinds
<1> DEFINE Going(s) == /\ s \in States /\ Kept(s) /\ SoundBut(s, {}, {}, {t}) /\ Accounted(s)
                       /\ s.peer[fd] \notin Phps /\ s.peer[g] \notin Phps
<1>9. ASSUME NEW s, Going(s), NEW f \in {fd, g}, NEW kind \in Kinds
      PROVE  LET r == WriteMsg(s, f, kind)
             IN  Going(r) /\ Shrinks(s, r) /\ s.out \subseteq r.out
  <2> DEFINE r == WriteMsg(s, f, kind)
  <2>1. f \in Fds /\ s.peer[f] \notin Phps /\ s \in States /\ Kept(s)
    BY <1>3, <1>9
  <2>2. r \in States /\ Shrinks(s, r) /\ Kept(r)
    BY <1>9, <2>1, WriteMsgType, WriteMsgKept
  <2>3. SoundBut(r, {}, {}, {t})
    BY <1>9, <2>1, WriteMsgSound
  <2>4. Accounted(r) /\ s.out \subseteq r.out
    BY <1>2, <1>9, <2>1, WriteMsgAccounted DEF SoundBut
  <2> HIDE DEF r
  <2>5. NoPeer \notin Phps
    BY RelayAssumption DEF Devices
  <2>6. Going(r) /\ Shrinks(s, r) /\ s.out \subseteq r.out
    BY <1>3, <1>9, <2>2, <2>3, <2>4, <2>5 DEF Shrinks
  <2>7. QED
    BY <2>6 DEF r
<1>10. Going(s0)
  BY <1>3, <1>5, <1>6, <1>7 DEF p
<1> HIDE DEF Going
<1>11. Going(s1) /\ Shrinks(s0, s1)
  BY <1>8, <1>9, <1>10
<1>12. Going(s2) /\ Shrinks(s1, s2)
  BY <1>8, <1>9, <1>11
<1>13. HeardIn(s2, p, {"tv_id"})
  <2>1. s2.conn[t] # NoConn
    BY <1>1
  <2>2. s1.conn[t] = s0.conn[t]
    BY <1>3, <1>11, <1>12, <2>1 DEF Shrinks
  <2>3. s1 \in States /\ Kept(s1) /\ Reading(s1, {}) /\ Mutual(s1)
    BY <1>11 DEF Going, SoundBut
  <2>4. s1.conn[p].wid = t
    BY <1>3, <1>5, <2>2, <2>3 DEF Mutual
  <2>5. s1.conn[p].rfd = fd
    BY <1>3, <1>5, <1>11, <2>4 DEF Shrinks, NoConn
  <2> HIDE DEF s1
  <2>6. \/ HeardIn(WriteMsg(s1, fd, "tv_id"), p, {"tv_id"})
        \/ /\ WriteMsg(s1, fd, "tv_id").conn[p] = NoConn
           /\ s1.conn[p].wid # NoPeer => WriteMsg(s1, fd, "tv_id").conn[s1.conn[p].wid] = NoConn
    BY <1>2, <1>3, <2>3, <2>5, WriteMsgHeard
  <2>7. QED
    BY <1>3, <2>1, <2>4, <2>6
<1> HIDE DEF s1, s2
<1>14. tell(g) = WriteMsg(s2, g, "pc_id")
  BY <1>3
<1>15. Going(tell(g)) /\ s2.out \subseteq tell(g).out
  BY <1>8, <1>9, <1>12, <1>14
<1> DEFINE q == tell(g)
           s == InsertOnline(q, t)
<1>16. Handled(fd, s)
  BY <1>1
<1>17. q \in States /\ Accounted(q) /\ HeardIn(q, p, {"tv_id"})
  BY <1>13, <1>15 DEF Going, HeardIn
<1> HIDE DEF tell, q
<1>18. /\ s.peer = q.peer /\ s.stack = q.stack /\ s.conn = q.conn /\ s.out = q.out
       /\ s.tvinfo = q.tvinfo /\ s.online = q.online \union {t}
  BY <1>17, InsertOnlineFields
<1> HIDE DEF s
<1>19. Aging(s) /\ DropsTold(s) /\ EndsTold(s)
  BY <1>17, <1>18 DEF Accounted, Aging, DropsTold, EndsTold, OverIn, HeardIn
<1>20. EndsCleared(s)
  <2>1. SUFFICES ASSUME NEW u \in TVs, OverIn(s, u),
                        ~HeardIn(s, conn[u].wid, {"another_pc", "tv_id"})
                 PROVE  u \notin s.online /\ s.tvinfo[u] = NoEntry
    BY DEF EndsCleared
  <2>2. u # t
    BY <1>4, <1>17, <1>18, <2>1 DEF OverIn, HeardIn
  <2>3. OverIn(q, u) /\ ~HeardIn(q, conn[u].wid, {"another_pc", "tv_id"})
    BY <1>18, <2>1 DEF OverIn, HeardIn
  <2>4. QED
    BY <1>17, <1>18, <2>2, <2>3 DEF Accounted, EndsCleared
<1>21. QED
  BY <1>16, <1>19, <1>20, HandledTelling DEF Accounted

-----------------------------------------------------------------------------
(* The theorems.                                                             *)

LEMMA NextTelling ==
  ASSUME Consistent, Next
  PROVE  TellingStep
<1>1. CASE overlapped'
  BY <1>1 DEF TellingStep, SessionEndIsToldStep, SessionEndClearsListsStep, EntryDropIsToldStep
<1>2. CASE \/ \E d \in Devices : Accept(d)
           \/ \E fd \in Fds : LinkDies(fd)
  BY <1>2, AcceptTelling
<1>3. ASSUME NEW t \in TVs, Age(t) PROVE TellingStep
  BY <1>3, AgeTelling
<1>4. CASE Tick /\ ~overlapped'
  BY <1>4, TickTelling DEF Tick
<1>5. ASSUME ~overlapped', NEW fd \in Fds, Disconnect(fd) \/ TvExitCtrl(fd) PROVE TellingStep
  BY <1>5, DisconnectTelling DEF Disconnect, TvExitCtrl
<1>6. ASSUME ~overlapped', NEW fd \in Fds, AnotherPcCtrl(fd) PROVE TellingStep
  BY <1>6, AnotherPcCtrlTelling DEF AnotherPcCtrl
<1>7. ASSUME ~overlapped', NEW fd \in Fds,
             Handshake(fd) \/ \E target \in Ids : Forward(fd, target)
      PROVE  TellingStep
  BY <1>7, WriteTelling DEF Handshake, Forward
<1>8. ASSUME ~overlapped', NEW fd \in Fds, RegTv(fd) \/ RegTvTest(fd) PROVE TellingStep
  BY <1>8, RegTvTelling
<1>9. ASSUME ~overlapped', NEW fd \in Fds, RejectHelp(fd) PROVE TellingStep
  BY <1>9, RejectHelpTelling DEF RejectHelp
<1>10. ASSUME ~overlapped', NEW fd \in Fds, NEW t \in TVs, RegPc(fd, t) PROVE TellingStep
  BY <1>10, RegPcTelling
<1>11. ASSUME ~overlapped', NEW fd \in Fds, PcNeedExit(fd) PROVE TellingStep
  BY <1>11, PcNeedExitTelling DEF PcNeedExit
<1>12. ASSUME ~overlapped', NEW fd \in Fds, PhpStep(fd) PROVE TellingStep
  <2>1. overlapped \in BOOLEAN
    BY DEF Consistent, TypeOK
  <2>2. ~overlapped
    BY <1>12, <2>1 DEF PhpStep, PhpExist, PhpReplace, PhpVerdict, PhpWait, PhpDisconnect
  <2>3. QED
    BY <1>12, <2>2, PhpTelling
<1>13. ASSUME ~overlapped', NEW fd \in Fds, TcpStep(fd) PROVE TellingStep
  BY <1>5, <1>6, <1>7, <1>8, <1>9, <1>13 DEF TcpStep, TvData, Ids
<1>14. ASSUME ~overlapped', NEW fd \in Fds, WebStep(fd) PROVE TellingStep
  BY <1>7, <1>10, <1>11, <1>14 DEF WebStep, PcData, Ids
<1>15. QED
  BY <1>1, <1>2, <1>3, <1>4, <1>5, <1>12, <1>13, <1>14 DEF Next, NetworkStep

\* disconnectBySockfd and the hand-over: whatever write fails and however the teardown nests, no
\* session ends without one of its two ends hearing of it.
THEOREM SpecSessionEndIsTold == Spec => SessionEndIsTold
<1>1. Consistent /\ [Next]_vars => [SessionEndIsToldStep]_vars
  BY NextTelling DEF TellingStep
<1>2. QED
  BY <1>1, SpecConsistent, PTL DEF Spec, SessionEndIsTold

\* TVListManager and TVOnlineListManager: a session that ends takes its TV off both lists, but for
\* the hand-over to another PC and a REG_PC whose replies end it.
THEOREM SpecSessionEndClearsLists == Spec => SessionEndClearsLists
<1>1. Consistent /\ [Next]_vars => [SessionEndClearsListsStep]_vars
  BY NextTelling DEF TellingStep
<1>2. QED
  BY <1>1, SpecConsistent, PTL DEF Spec, SessionEndClearsLists

\* The rendezvous: a waiting PHP client that can be written loses its entry only by hearing of it,
\* or because a socket of its TV is torn down.
THEOREM SpecEntryDropIsTold == Spec => EntryDropIsTold
<1>1. Consistent /\ [Next]_vars => [EntryDropIsToldStep]_vars
  BY NextTelling DEF TellingStep
<1>2. QED
  BY <1>1, SpecConsistent, PTL DEF Spec, EntryDropIsTold
=============================================================================
