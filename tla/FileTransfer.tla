---------------------------- MODULE FileTransfer ----------------------------
(***************************************************************************)
(* The file server: a TV opens a connection for each file, sends a header, *)
(* waits for a reply of four bytes, and sends the file.  When the count of *)
(* missing bytes reaches zero, the PC the header names is told the path.   *)
(*                                                                         *)
(* One action is one handler.  A header and a file are counted in units,   *)
(* which TCP groups into reads as it likes.  No socket of this server is   *)
(* ever closed, so a descriptor is a transfer.                             *)
(***************************************************************************)
EXTENDS Integers, Sequences, FiniteSetsExt

CONSTANTS
  Transfers,  \* the sockets TVs open, one for each file
  PCs,        \* the PCs a header may name
  Names,      \* file names
  Requests,   \* the headers: m_rw_type, name, size, target; eager is set if this TV does not wait
  Header,     \* units of a header
  OldSizes    \* sizes a file may have before the server starts

STORE == 0  \* m_rw_type: from the TV to the server
FETCH == 1  \* m_rw_type: from the server to the TV

ASSUME FileTransferAssumption ==
  /\ Transfers \subseteq Nat \ {0} /\ Header \in Nat \ {0} /\ OldSizes \subseteq Nat
  /\ Requests \subseteq [rw_type : {STORE, FETCH}, name : Names, size : Nat, target : PCs,
                         eager : BOOLEAN]

VARIABLES
  request,     \* what a TV's header says, once it has connected
  sent,        \* units the TV has sent
  taken,       \* units the server has read
  ended,       \* transfers whose TV has closed
  reset,       \* transfers whose connection is reset
  filter,      \* m_filter_map, and the epoll set: both lose a socket together
  cached,      \* FileDataFilter::m_cached_size
  render,      \* transfers that have, or had, a FileRender: m_is_get_header
  missing,     \* FileRender::m_data_size
  finished,    \* m_is_finish
  offset,      \* the file offset of m_filefd
  disk,        \* the files
  short,       \* transfers with a write to the disk that failed, or fell short
  registered,  \* the PCs that have a Connection
  told         \* notices sent for a transfer

wire    == <<request, sent, ended, reset>>
reading == <<cached, render, missing, finished, offset>>
vars    == <<wire, taken, filter, reading, disk, short, registered, told>>

Unit == (Transfers \union {0}) \X Nat

\* What a TV sends, and what was there before any of them came.
Contents(t, size) == [i \in 1 .. size |-> <<t, i>>]

Connected == {t \in Transfers : request[t] # <<>>}

TypeOK ==
  /\ request \in [Transfers -> Requests \union {<<>>}]
  /\ \A count \in {sent, taken, cached, offset, told} : count \in [Transfers -> Nat]
  /\ missing \in [Transfers -> Nat]
  /\ filter \subseteq Connected /\ render \subseteq Connected /\ finished \subseteq render
  /\ ended \subseteq Connected /\ reset \subseteq Connected /\ short \subseteq render
  /\ disk \in [Names -> Seq(Unit)] /\ registered \subseteq PCs

-----------------------------------------------------------------------------
(* FileDataFilter and FileRender.                                            *)

\* write at an offset: what lies beyond stays.
Overwritten(file, at, units) ==
  [i \in 1 .. Max({Len(file), at + Len(units)}) |->
     IF i \in at + 1 .. at + Len(units) THEN units[i - at] ELSE file[i]]

\* FileRender::FileRender opens a file to store without truncating it: what it held stays.
Opened(file) == file

\* Mutants: the count is compared with one unit to go, or before the read is subtracted.
FinishedEarly(left) == left =< 1
FinishedLate(left) == left < 0

Finished(left) == left = 0

HeaderComplete(size) == size >= Header

\* The n units that follow those the server has read.
Chunk(t, n) == [i \in 1 .. n |-> <<t, taken[t] - Header + i>>]

\* addData before the header is complete.  A file that is fetched is finished with the reply; units
\* behind the header stay in the cache, and are not counted.
AddHeader(t, n) ==
  /\ t \notin render
  /\ cached' = [cached EXCEPT ![t] = @ + n]
  /\ IF HeaderComplete(cached[t] + n)
     THEN /\ render' = render \union {t}
          /\ disk' = IF request[t].rw_type = STORE
                     THEN [disk EXCEPT ![request[t].name] = Opened(@)] ELSE disk
          /\ missing' = [missing EXCEPT ![t] = request[t].size]
          /\ finished' = IF request[t].rw_type = FETCH THEN finished \union {t} ELSE finished
     ELSE UNCHANGED <<render, disk, missing, finished>>
  /\ UNCHANGED <<offset, short>>

\* addData after that.  What writeToFile returns is ignored, and counted all the same.
AddFile(t, n) ==
  /\ t \in render /\ request[t].rw_type = STORE
  /\ \E k \in 0 .. n :
       /\ disk' = [disk EXCEPT ![request[t].name] =
                     Overwritten(@, offset[t], SubSeq(Chunk(t, n), 1, k))]
       /\ offset' = [offset EXCEPT ![t] = @ + k]
       /\ short' = IF k < n THEN short \union {t} ELSE short
  /\ missing' = [missing EXCEPT ![t] = @ - n]
  /\ finished' = IF Finished(missing[t] - n) THEN finished \union {t} ELSE finished
  /\ UNCHANGED <<cached, render>>

-----------------------------------------------------------------------------
(* FileDataFilterManager and FileSocketServer.                               *)

InsertFileFilter(t)         == filter' = filter \union {t}
GetFileFilterBySockfd(t)    == t \in filter
RemoveFileFilterBySockfd(t) == filter' = filter \ {t}

IsFinish(t)    == t \in finished
GetTargetId(t) == request[t].target

\* The rest of parseDataPackage: a finished file is announced after every read.
Notify(t) ==
  told' = IF IsFinish(t)' /\ request[t].rw_type = STORE /\ GetTargetId(t) \in registered
          THEN [told EXCEPT ![t] = @ + 1] ELSE told

\* receiverMsg, for n units of what the TV has sent.
Receive(t, n) ==
  /\ GetFileFilterBySockfd(t) /\ t \notin reset /\ n =< sent[t] - taken[t]
  /\ taken' = [taken EXCEPT ![t] = @ + n]
  /\ AddHeader(t, n) \/ AddFile(t, n)
  /\ Notify(t)
  /\ UNCHANGED <<wire, filter, registered>>

\* removeSockInEpoll and removeFileFilterBySockfd.  Units that were not read are lost.
Disconnect(t) ==
  /\ GetFileFilterBySockfd(t)
  /\ t \in reset \/ (t \in ended /\ taken[t] = sent[t])
  /\ RemoveFileFilterBySockfd(t)
  /\ UNCHANGED <<wire, taken, reading, disk, short, registered, told>>

-----------------------------------------------------------------------------
(* The TVs, the network and the PCs.                                         *)

\* accept and acceptConnect.
Connect(t, r) ==
  /\ t \notin Connected
  /\ request' = [request EXCEPT ![t] = r] /\ InsertFileFilter(t)
  /\ UNCHANGED <<sent, ended, reset, taken, reading, disk, short, registered, told>>

Total(t) == Header + (IF request[t].rw_type = STORE THEN request[t].size ELSE 0)

\* A TV that is not eager sends the file after the reply.
Send(t) ==
  /\ t \in Connected \ (ended \union reset) /\ sent[t] < Total(t)
  /\ sent[t] < Header \/ request[t].eager \/ t \in render
  /\ sent' = [sent EXCEPT ![t] = @ + 1]
  /\ UNCHANGED <<request, ended, reset, taken, filter, reading, disk, short, registered, told>>

Close(t) ==
  /\ t \in Connected \ (ended \union reset)
  /\ ended' = ended \union {t}
  /\ UNCHANGED <<request, sent, reset, taken, filter, reading, disk, short, registered, told>>

Reset(t) ==
  /\ t \in Connected \ reset
  /\ reset' = reset \union {t}
  /\ UNCHANGED <<request, sent, ended, taken, filter, reading, disk, short, registered, told>>

\* A PC's Connection comes and goes with its session.
PcRegisters(p) ==
  /\ p \notin registered
  /\ registered' = registered \union {p}
  /\ UNCHANGED <<wire, taken, filter, reading, disk, short, told>>

PcLeaves(p) ==
  /\ p \in registered
  /\ registered' = registered \ {p}
  /\ UNCHANGED <<wire, taken, filter, reading, disk, short, told>>

-----------------------------------------------------------------------------
Init ==
  /\ request = [t \in Transfers |-> <<>>]
  /\ sent = [t \in Transfers |-> 0] /\ taken = [t \in Transfers |-> 0]
  /\ ended = {} /\ reset = {} /\ filter = {}
  /\ cached = [t \in Transfers |-> 0] /\ render = {} /\ finished = {}
  /\ missing = [t \in Transfers |-> 0] /\ offset = [t \in Transfers |-> 0]
  /\ \E size \in [Names -> OldSizes] : disk = [name \in Names |-> Contents(0, size[name])]
  /\ short = {} /\ registered \in SUBSET PCs /\ told = [t \in Transfers |-> 0]

Receives(t) == \E n \in 1 .. sent[t] - taken[t] : Receive(t, n)

Next ==
  \/ \E t \in Transfers : \E r \in Requests : Connect(t, r)
  \/ \E t \in Transfers : Send(t) \/ Close(t) \/ Reset(t) \/ Receives(t) \/ Disconnect(t)
  \/ \E p \in PCs : PcRegisters(p) \/ PcLeaves(p)

\* The server's thread does nothing but read.
Fairness == \A t \in Transfers : WF_vars(Receives(t))

Spec == Init /\ [][Next]_vars /\ Fairness

-----------------------------------------------------------------------------
(* Properties.                                                               *)

\* Transfers that wrote, or may write, to the same name.
Sharing(t) == {u \in render \ {t} : request[u].rw_type = STORE /\ request[u].name = request[t].name}

\* A PC is told of a file only when all of it is on the disk, at the front of the file of that name,
\* unless a write fell short or another TV stores under the same name.
NoticeMeansStored ==
  \A t \in Transfers : told[t] > 0 /\ t \notin short /\ Sharing(t) = {} =>
    SubSeq(disk[request[t].name], 1, request[t].size) = Contents(t, request[t].size)

\* A file is announced once, though every read after the last would announce it again.
ToldOnce == \A t \in Transfers : told[t] =< 1

\* A transfer whose last unit was read is finished, unless there is no unit that could finish it
\* (an empty file), or units shared a read with the header and were dropped.
StuckNeedsMergedRead ==
  \A t \in filter : sent[t] = Total(t) /\ taken[t] = sent[t] /\ t \notin finished =>
    request[t].size = 0 \/ cached[t] > Header

\* The PC of a complete file that is not empty is told, if it stays registered, the TV waited for
\* the reply and the connection was not reset.
NoticeArrives ==
  \A p \in PCs : [](p \in registered) =>
    \A t \in Transfers :
      t \in Connected /\ request[t].target = p /\ request[t].rw_type = STORE /\ request[t].size > 0
        /\ ~request[t].eager /\ sent[t] = Total(t)
      ~> told[t] > 0 \/ t \in reset

\* The file at the path the PC is told is the one the TV sent, and nothing more.
PathIsTheFile ==
  \A t \in Transfers : told[t] > 0 /\ t \notin short /\ Sharing(t) = {} =>
    disk[request[t].name] = Contents(t, request[t].size)
=============================================================================
