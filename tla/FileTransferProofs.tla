------------------------- MODULE FileTransferProofs -------------------------
(***************************************************************************)
(* Proofs about FileTransfer, for any number of transfers, names and PCs,  *)
(* any sizes of files and any way TCP groups units into reads.             *)
(*                                                                         *)
(* The count of missing bytes is tied to what was read after the header;   *)
(* a finished transfer has therefore been read to its end, which is why it *)
(* is announced once.  What is on the disk up to the file's offset is what *)
(* the TV sent, as long as every write was whole and nobody shares a name. *)
(***************************************************************************)
EXTENDS FileTransfer, TLAPS, SequenceTheorems

\* What a header says, once its TV has connected.
Store(t) == request[t].rw_type = STORE
Size(t)  == request[t].size
Name(t)  == request[t].name

\* The cache and the count of missing bytes follow what the server has read.
Counts(t) ==
  /\ taken[t] =< sent[t]
  /\ t \notin Connected => sent[t] = 0
  /\ t \in Connected => sent[t] =< Total(t)
  /\ t \notin render => cached[t] = taken[t] /\ taken[t] < Header /\ offset[t] = 0
  /\ t \in render => Header =< cached[t] /\ cached[t] =< taken[t]
  /\ t \in render /\ ~Store(t) => t \in finished
  /\ t \in render /\ Store(t) =>
       /\ missing[t] = Size(t) - (taken[t] - cached[t])
       /\ missing[t] = 0 => t \in finished \/ Size(t) = 0
       /\ t \in finished => missing[t] = 0

\* A notice was given for a transfer that is finished, and only one.
Notices(t) == told[t] =< 1 /\ (told[t] > 0 => t \in finished /\ Store(t))

\* The offset of a file is within it.
Within(t) == t \in render /\ Store(t) => offset[t] =< Len(disk[Name(t)])

\* Up to its offset a file is what the TV sent.
Written(t) ==
  t \in render /\ Store(t) /\ t \notin short /\ cached[t] = Header /\ Sharing(t) = {} =>
    /\ offset[t] = taken[t] - Header
    /\ \A i \in 1 .. offset[t] : disk[Name(t)][i] = <<t, i>>

Consistent ==
  /\ TypeOK
  /\ \A t \in Transfers : Counts(t) /\ Notices(t) /\ Within(t) /\ Written(t)

\* A step that leaves what was read, and what became of it, alone.
Quiet ==
  /\ UNCHANGED <<request, taken, cached, render, missing, finished, offset, disk, short, told>>
  /\ sent' \in [Transfers -> Nat] /\ ended' \subseteq Connected /\ reset' \subseteq Connected
  /\ filter' \subseteq filter /\ registered' \subseteq PCs
  /\ \A t \in Transfers : sent'[t] >= sent[t]
       /\ (sent'[t] # sent[t] => t \in Connected /\ sent'[t] =< Total(t))

-----------------------------------------------------------------------------
(* Requests, and files that are written to.                                  *)

\* A header has all its fields, and is not the mark of a transfer that has none.
LEMMA RequestFields ==
  ASSUME NEW r \in Requests
  PROVE  /\ r # <<>>
         /\ r.rw_type \in {STORE, FETCH} /\ r.name \in Names /\ r.size \in Nat /\ r.target \in PCs
<1>1. r \in [rw_type : {STORE, FETCH}, name : Names, size : Nat, target : PCs, eager : BOOLEAN]
  BY FileTransferAssumption
<1>2. DOMAIN r = {"rw_type", "name", "size", "target", "eager"}
  BY <1>1
<1>3. DOMAIN <<>> = {}
  OBVIOUS
<1>4. QED
  BY <1>1, <1>2, <1>3

\* The greater of two numbers: the length of a file after a write.
LEMMA MaxOfTwo ==
  ASSUME NEW a \in Nat, NEW b \in Nat
  PROVE  Max({a, b}) = IF a >= b THEN a ELSE b
<1>1. \E x \in {a, b} : \A y \in {a, b} : x >= y
  <2>1. CASE a >= b
    BY <2>1
  <2>2. CASE b >= a
    BY <2>2
  <2>3. QED
    BY <2>1, <2>2
<1>2. Max({a, b}) \in {a, b} /\ \A y \in {a, b} : Max({a, b}) >= y
  BY <1>1 DEF Max
<1>3. QED
  BY <1>2

\* FileRender::writeToFile: the units land at the offset, and the rest of the file stays.
LEMMA OverwrittenFile ==
  ASSUME NEW S, NEW file \in Seq(S), NEW at \in 0 .. Len(file), NEW units \in Seq(S)
  PROVE  LET new == Overwritten(file, at, units)
         IN  /\ new \in Seq(S)
             /\ Len(new) >= Len(file) /\ Len(new) >= at + Len(units)
             /\ \A i \in 1 .. at : new[i] = file[i]
             /\ \A i \in 1 .. Len(units) : new[at + i] = units[i]
<1> DEFINE n == Max({Len(file), at + Len(units)})
           e(i) == IF i \in at + 1 .. at + Len(units) THEN units[i - at] ELSE file[i]
<1>1. Len(file) \in Nat /\ Len(units) \in Nat /\ at \in Nat /\ at =< Len(file)
  BY LenProperties
<1>2. n \in Nat /\ n >= Len(file) /\ n >= at + Len(units)
       /\ (n = Len(file) \/ n = at + Len(units))
  BY <1>1, MaxOfTwo
<1>3. \A i \in 1 .. Len(file) : file[i] \in S
  BY ElementOfSeq
<1>4. \A i \in 1 .. Len(units) : units[i] \in S
  BY ElementOfSeq
<1> HIDE DEF n
<1>5. \A i \in 1 .. n : e(i) \in S
  <2>1. SUFFICES ASSUME NEW i \in 1 .. n PROVE e(i) \in S
    OBVIOUS
  <2>2. CASE i \in at + 1 .. at + Len(units)
    <3>1. i - at \in 1 .. Len(units)
      BY <1>1, <2>2
    <3>2. QED
      BY <1>4, <2>2, <3>1
  <2>3. CASE i \notin at + 1 .. at + Len(units)
    <3>1. i \in 1 .. Len(file)
      BY <1>1, <1>2, <2>3
    <3>2. QED
      BY <1>3, <2>3, <3>1
  <2>4. QED
    BY <2>2, <2>3
<1>6. Overwritten(file, at, units) = [i \in 1 .. n |-> e(i)]
  BY DEF Overwritten, n
<1>7. [i \in 1 .. n |-> e(i)] \in Seq(S)
  <2> HIDE DEF e
  <2>1. QED
    BY <1>2, <1>5, IsASeq
<1>8. Len([i \in 1 .. n |-> e(i)]) = n
  BY <1>2
<1>9. \A i \in 1 .. at : i \in 1 .. n /\ e(i) = file[i]
  BY <1>1, <1>2
<1>10. \A i \in 1 .. Len(units) : at + i \in 1 .. n /\ e(at + i) = units[i]
  BY <1>1, <1>2
<1>11. QED
  BY <1>2, <1>6, <1>7, <1>8, <1>9, <1>10

-----------------------------------------------------------------------------
(* The initial state, and the steps that read nothing.                       *)

\* A transfer that is connected has a header.
LEMMA ConnectedHasRequest ==
  ASSUME TypeOK, NEW t \in Connected
  PROVE  /\ t \in Transfers /\ request[t] \in Requests
         /\ request[t].rw_type \in {STORE, FETCH} /\ Name(t) \in Names
         /\ Size(t) \in Nat /\ request[t].target \in PCs
<1>1. t \in Transfers /\ request[t] \in Requests
  BY DEF TypeOK, Connected
<1>2. QED
  BY <1>1, RequestFields DEF Name, Size

\* A server that starts has no transfer, and files that nobody is writing to.
LEMMA InitConsistent == Init => Consistent
<1>1. SUFFICES ASSUME Init PROVE Consistent
  OBVIOUS
<1>2. TypeOK
  <2>1. disk \in [Names -> Seq(Unit)]
    <3>1. PICK size \in [Names -> OldSizes] : disk = [name \in Names |-> Contents(0, size[name])]
      BY <1>1 DEF Init
    <3>2. ASSUME NEW n \in Nat PROVE Contents(0, n) \in Seq(Unit)
      <4>1. \A i \in 1 .. n : <<0, i>> \in Unit
        BY DEF Unit
      <4>2. QED
        BY <4>1, <3>2, IsASeq DEF Contents
    <3>3. \A name \in Names : size[name] \in Nat
      BY <3>1, FileTransferAssumption
    <3>4. QED
      BY <3>1, <3>2, <3>3
  <2>2. QED
    BY <1>1, <2>1 DEF Init, TypeOK
<1>3. \A t \in Transfers : t \notin Connected /\ t \notin render
  BY <1>1 DEF Init, Connected
<1>4. QED
  BY <1>1, <1>2, <1>3, FileTransferAssumption
  DEF Init, Consistent, Counts, Notices, Within, Written

\* accept of FileSocketServer: a new transfer has read nothing.
LEMMA ConnectConsistent ==
  ASSUME Consistent, NEW t \in Transfers, NEW r \in Requests, Connect(t, r)
  PROVE  Consistent'
<1>1. /\ TypeOK /\ t \notin Connected /\ request[t] = <<>> /\ r # <<>> /\ r.size \in Nat
      /\ r.rw_type \in {STORE, FETCH}
      /\ request' = [request EXCEPT ![t] = r] /\ filter' = filter \union {t}
      /\ UNCHANGED <<sent, ended, reset, taken, reading, disk, short, registered, told>>
  BY RequestFields DEF Consistent, Connect, InsertFileFilter, Connected
<1>2. /\ \A u \in Transfers \ {t} : request'[u] = request[u]
      /\ request'[t] = r /\ Connected' = Connected \union {t}
  BY <1>1 DEF TypeOK, Connected
<1>3. t \notin render /\ render \subseteq Transfers
  BY <1>1 DEF TypeOK, Connected
<1>4. TypeOK'
  BY <1>1, <1>2 DEF TypeOK, reading
<1>5. ASSUME NEW u \in Transfers PROVE (Counts(u) /\ Notices(u) /\ Within(u) /\ Written(u))'
  <2>1. Counts(u) /\ Notices(u) /\ Within(u) /\ Written(u)
    BY DEF Consistent
  <2>2. CASE u = t
    <3>1. sent[t] = 0 /\ taken[t] \in Nat /\ told[t] = 0
      BY <1>1, <1>3, <2>1, <2>2 DEF Counts, Notices, TypeOK
    <3>2. Total(t)' >= 0
      BY <1>1, <1>2, FileTransferAssumption DEF Total
    <3>3. Counts(t)'
      BY <1>1, <1>2, <1>3, <2>1, <2>2, <3>1, <3>2 DEF Counts, reading
    <3>4. Notices(t)' /\ Within(t)' /\ Written(t)'
      BY <1>1, <1>3, <3>1 DEF Notices, Within, Written, reading
    <3>5. QED
      BY <2>2, <3>3, <3>4
  <2>3. CASE u # t
    <3>1. request'[u] = request[u] /\ (u \in Connected' <=> u \in Connected)
      BY <1>2, <2>3
    <3>2. Sharing(u)' = Sharing(u)
      BY <1>1, <1>2, <1>3, <3>1 DEF Sharing, reading
    <3>3. QED
      BY <1>1, <2>1, <3>1, <3>2
      DEF Counts, Notices, Within, Written, Total, Store, Size, Name, reading
  <2>4. QED
    BY <2>2, <2>3
<1>6. QED
  BY <1>4, <1>5 DEF Consistent

\* Steps that leave what was read, and what became of it, alone.
LEMMA OthersConsistent ==
  ASSUME Consistent,
         \/ UNCHANGED vars
         \/ \E t \in Transfers : Send(t) \/ Close(t) \/ Reset(t) \/ Disconnect(t)
         \/ \E p \in PCs : PcRegisters(p) \/ PcLeaves(p)
  PROVE  Consistent'
<1>1. Quiet
  <2>1. TypeOK
    BY DEF Consistent
  <2>2. CASE UNCHANGED vars
    BY <2>1, <2>2 DEF Quiet, TypeOK, vars, wire, reading
  <2>3. ASSUME NEW t \in Transfers, Send(t) PROVE Quiet
    <3>1. /\ t \in Connected /\ sent[t] \in Nat /\ sent[t] < Total(t)
          /\ sent' = [sent EXCEPT ![t] = @ + 1]
      BY <2>1, <2>3 DEF Send, TypeOK
    <3>2. Total(t) \in Nat
      BY <2>1, <3>1, ConnectedHasRequest, FileTransferAssumption DEF Total, Size
    <3>3. \A u \in Transfers : sent'[u] = IF u = t THEN sent[t] + 1 ELSE sent[u]
      BY <2>1, <3>1 DEF TypeOK
    <3>4. sent' \in [Transfers -> Nat]
      BY <2>1, <3>1 DEF TypeOK
    <3>5. \A u \in Transfers : sent'[u] >= sent[u]
           /\ (sent'[u] # sent[u] => u \in Connected /\ sent'[u] =< Total(u))
      BY <2>1, <3>1, <3>2, <3>3 DEF TypeOK
    <3>6. QED
      BY <2>1, <2>3, <3>4, <3>5 DEF Quiet, Send, TypeOK, reading
  <2>4. ASSUME NEW t \in Transfers, Close(t) \/ Reset(t) \/ Disconnect(t) PROVE Quiet
    BY <2>1, <2>4 DEF Quiet, Close, Reset, Disconnect, RemoveFileFilterBySockfd, TypeOK, wire, reading
  <2>5. ASSUME NEW p \in PCs, PcRegisters(p) \/ PcLeaves(p) PROVE Quiet
    BY <2>1, <2>5 DEF Quiet, PcRegisters, PcLeaves, TypeOK, wire, reading
  <2>6. QED
    BY <2>2, <2>3, <2>4, <2>5
<1>2. Connected' = Connected
  BY <1>1 DEF Quiet, Connected
<1>3. TypeOK'
  BY <1>1, <1>2 DEF Quiet, Consistent, TypeOK
<1>4. ASSUME NEW t \in Transfers PROVE (Counts(t) /\ Notices(t) /\ Within(t) /\ Written(t))'
  <2>1. Counts(t) /\ Notices(t) /\ Within(t) /\ Written(t) /\ sent[t] \in Nat /\ taken[t] \in Nat
    BY DEF Consistent, TypeOK
  <2>2. Total(t)' = Total(t) /\ Sharing(t)' = Sharing(t)
    BY <1>1 DEF Quiet, Total, Sharing
  <2>3. taken'[t] =< sent'[t]
    BY <1>1, <2>1 DEF Quiet, Counts
  <2>4. (t \notin Connected => sent'[t] = 0) /\ (t \in Connected => sent'[t] =< Total(t))
    BY <1>1, <2>1 DEF Quiet, Counts
  <2>5. QED
    BY <1>1, <1>2, <2>1, <2>2, <2>3, <2>4
    DEF Quiet, Counts, Notices, Within, Written, Store, Size, Name
<1>5. QED
  BY <1>3, <1>4 DEF Consistent

-----------------------------------------------------------------------------
(* A read.                                                                   *)

\* What a read leaves alone, whoever's it is, and what it may take.
Reads(t, n) ==
  /\ UNCHANGED <<wire, filter, registered>> /\ t \in Connected
  /\ taken[t] + n =< sent[t] /\ sent[t] =< Total(t)
  /\ taken' = [taken EXCEPT ![t] = @ + n]

\* receiverMsg reads from a transfer that is in the map, no more than its TV sent.
LEMMA ReceiveReads ==
  ASSUME Consistent, NEW t \in Transfers, NEW n \in 1 .. sent[t] - taken[t], Receive(t, n)
  PROVE  Reads(t, n)
<1>1. t \in Connected /\ sent[t] \in Nat /\ taken[t] \in Nat
  BY DEF Consistent, TypeOK, Receive, GetFileFilterBySockfd
<1>2. sent[t] =< Total(t)
  BY <1>1 DEF Consistent, Counts
<1>3. QED
  BY <1>1, <1>2 DEF Receive, Reads

\* The transfers a read is not from keep what they have read.
LEMMA OtherTransfers ==
  ASSUME Consistent, NEW t \in Transfers, NEW n \in Nat \ {0}, Reads(t, n),
         NEW u \in Transfers \ {t},
         cached'[u] = cached[u], missing'[u] = missing[u], offset'[u] = offset[u],
         told'[u] = told[u], u \in render' <=> u \in render,
         u \in finished' <=> u \in finished, u \in short' <=> u \in short,
         render \subseteq render',
         u \in render /\ Store(u) => Len(disk'[Name(u)]) >= Len(disk[Name(u)]),
         u \in render /\ Store(u) /\ Sharing(u) = {} => disk'[Name(u)] = disk[Name(u)]
  PROVE  (Counts(u) /\ Notices(u) /\ Within(u) /\ Written(u))'
<1>1. request' = request /\ sent' = sent /\ taken'[u] = taken[u] /\ Connected' = Connected
  BY DEF Reads, wire, Consistent, TypeOK, Connected
<1>2. Sharing(u) \subseteq Sharing(u)'
  BY <1>1 DEF Sharing
<1>3. Counts(u) /\ Notices(u) /\ Within(u) /\ Written(u)
  BY DEF Consistent
<1>4. Store(u)' = Store(u) /\ Size(u)' = Size(u) /\ Name(u)' = Name(u) /\ Total(u)' = Total(u)
  BY <1>1 DEF Store, Size, Name, Total
<1>5. Counts(u)'
  BY <1>1, <1>3, <1>4 DEF Counts
<1>6. Notices(u)'
  BY <1>3, <1>4 DEF Notices
<1>7. Within(u)'
  <2>1. SUFFICES ASSUME u \in render', Store(u)' PROVE offset'[u] =< Len(disk'[Name(u)'])
    BY DEF Within
  <2>2. u \in render /\ Store(u) /\ offset[u] =< Len(disk[Name(u)])
    BY <1>3, <1>4, <2>1 DEF Within
  <2>3. offset[u] \in Nat /\ disk[Name(u)] \in Seq(Unit)
    BY <2>2, ConnectedHasRequest DEF Consistent, TypeOK
  <2>4. Name(u)' = Name(u) /\ Len(disk'[Name(u)]) >= Len(disk[Name(u)])
    BY <1>4, <2>2
  <2>5. QED
    BY <2>2, <2>3, <2>4, LenProperties
<1>8. Written(u)'
  BY <1>1, <1>2, <1>3, <1>4 DEF Written
<1>9. QED
  BY <1>5, <1>6, <1>7, <1>8

\* A read of the header: nothing of the file is stored, and nobody is told.
LEMMA AddHeaderConsistent ==
  ASSUME Consistent, NEW t \in Transfers, NEW n \in Nat \ {0}, Reads(t, n),
         AddHeader(t, n), Notify(t)
  PROVE  Consistent'
<1>1. /\ TypeOK /\ Counts(t) /\ Notices(t) /\ t \notin render /\ t \notin finished
      /\ t \notin short /\ t \in Connected
  BY DEF Consistent, TypeOK, AddHeader, Reads
<1>2. /\ request' = request /\ sent' = sent /\ Connected' = Connected
      /\ Store(t)' = Store(t) /\ Size(t)' = Size(t) /\ Name(t)' = Name(t) /\ Total(t)' = Total(t)
  BY DEF Reads, wire, Connected, Store, Size, Name, Total
<1>3. /\ request[t] \in Requests /\ request[t].rw_type \in {STORE, FETCH}
      /\ Name(t) \in Names /\ Size(t) \in Nat /\ Header \in Nat \ {0}
  BY <1>1, ConnectedHasRequest, FileTransferAssumption
<1>4. /\ cached[t] \in Nat /\ taken[t] \in Nat /\ cached[t] = taken[t] /\ taken[t] < Header
      /\ offset[t] = 0 /\ offset' = offset /\ short' = short
      /\ cached' = [cached EXCEPT ![t] = @ + n] /\ cached'[t] = cached[t] + n
      /\ taken'[t] = taken[t] + n /\ taken'[t] =< sent[t]
  BY <1>1 DEF Counts, TypeOK, AddHeader, Reads
<1>5. disk' = disk
  BY <1>1 DEF AddHeader, Opened, TypeOK
<1>6. told' = told /\ told[t] = 0
  <2>1. Store(t) => t \notin finished'
    BY <1>1 DEF AddHeader, Store, STORE, FETCH
  <2>2. told' = told
    BY <2>1 DEF Notify, IsFinish, Store
  <2>3. told[t] \in Nat
    BY <1>1 DEF TypeOK
  <2>4. QED
    BY <1>1, <2>2, <2>3 DEF Notices
<1>7. /\ cached' \in [Transfers -> Nat] /\ taken' \in [Transfers -> Nat]
      /\ missing' \in [Transfers -> Nat]
      /\ render \subseteq render' /\ finished \subseteq finished'
      /\ render' \subseteq render \union {t} /\ finished' \subseteq render'
      /\ finished' \subseteq finished \union {t}
      /\ \A u \in Transfers \ {t} : missing'[u] = missing[u] /\ cached'[u] = cached[u]
  <2>1. cached' \in [Transfers -> Nat] /\ taken' \in [Transfers -> Nat]
    BY <1>1, <1>4 DEF TypeOK, Reads
  <2>2. \A u \in Transfers \ {t} : cached'[u] = cached[u]
    BY <1>1, <1>4 DEF TypeOK
  <2>3. missing' \in [Transfers -> Nat] /\ \A u \in Transfers \ {t} : missing'[u] = missing[u]
    BY <1>1, <1>3 DEF TypeOK, AddHeader, Size
  <2>4. QED
    BY <1>1, <2>1, <2>2, <2>3 DEF AddHeader, TypeOK
<1>8. TypeOK'
  BY <1>1, <1>2, <1>4, <1>5, <1>6, <1>7 DEF TypeOK, Reads, wire
<1>9. (Counts(t) /\ Notices(t) /\ Within(t) /\ Written(t))'
  <2>1. Notices(t)'
    BY <1>6 DEF Notices
  <2>2. CASE HeaderComplete(cached[t] + n)
    <3>1. t \in render' /\ missing'[t] = Size(t) /\ cached'[t] >= Header
      BY <1>1, <1>4, <2>2 DEF AddHeader, HeaderComplete, TypeOK, Size
    <3>2. (Store(t) => t \notin finished') /\ (~Store(t) => t \in finished')
      BY <1>1, <1>3, <2>2 DEF AddHeader, Store, STORE, FETCH
    <3>3. Counts(t)'
      BY <1>1, <1>2, <1>3, <1>4, <3>1, <3>2 DEF Counts, Reads
    <3>4. Within(t)'
      <4>1. disk[Name(t)] \in Seq(Unit)
        BY <1>1, <1>3 DEF TypeOK
      <4>2. QED
        BY <1>2, <1>4, <1>5, <4>1, LenProperties DEF Within
    <3>5. Written(t)'
      BY <1>2, <1>3, <1>4 DEF Written
    <3>6. QED
      BY <2>1, <3>3, <3>4, <3>5
  <2>3. CASE ~HeaderComplete(cached[t] + n)
    <3>1. t \notin render' /\ t \notin finished' /\ cached'[t] < Header
      BY <1>1, <1>3, <1>4, <2>3 DEF AddHeader, HeaderComplete
    <3>2. QED
      BY <1>1, <1>2, <1>4, <2>1, <3>1 DEF Counts, Within, Written, Reads
  <2>4. QED
    BY <2>2, <2>3
<1>10. ASSUME NEW u \in Transfers \ {t}
       PROVE  (Counts(u) /\ Notices(u) /\ Within(u) /\ Written(u))'
  <2>1. u \in render /\ Store(u) => Len(disk[Name(u)]) \in Nat
    BY <1>1, ConnectedHasRequest, LenProperties DEF TypeOK
  <2>2. QED
    BY <1>4, <1>5, <1>6, <1>7, <2>1, OtherTransfers
<1>11. QED
  BY <1>8, <1>9, <1>10 DEF Consistent

\* The units of a read, and as many of them as a write takes.
LEMMA ChunkWritten ==
  ASSUME NEW t \in Transfers, NEW n \in Nat, NEW k \in 0 .. n,
         taken[t] \in Nat, taken[t] >= Header
  PROVE  LET units == SubSeq(Chunk(t, n), 1, k)
         IN  /\ units \in Seq(Unit) /\ Len(units) = k
             /\ \A i \in 1 .. k : units[i] = <<t, taken[t] - Header + i>>
<1>1. \A i \in 1 .. n : <<t, taken[t] - Header + i>> \in Unit
  BY FileTransferAssumption DEF Unit
<1>2. Chunk(t, n) \in Seq(Unit)
  BY <1>1, IsASeq DEF Chunk
<1>3. Len(Chunk(t, n)) = n /\ \A i \in 1 .. n : Chunk(t, n)[i] = <<t, taken[t] - Header + i>>
  BY DEF Chunk
<1>4. 1 \in 1 .. n + 1 /\ k \in 1 - 1 .. n
  OBVIOUS
<1> DEFINE c == Chunk(t, n)
<1> HIDE DEF c
<1>5. /\ SubSeq(c, 1, k) \in Seq(Unit) /\ Len(SubSeq(c, 1, k)) = k
      /\ \A i \in 1 .. k : SubSeq(c, 1, k)[i] = c[i]
  BY <1>2, <1>3, <1>4, SubSeqProperties DEF c
<1>6. QED
  BY <1>3, <1>5 DEF c

\* A read of the file: the count goes down by it, and what was written follows what was there.
LEMMA AddFileConsistent ==
  ASSUME Consistent, NEW t \in Transfers, NEW n \in Nat \ {0}, Reads(t, n),
         AddFile(t, n), Notify(t)
  PROVE  Consistent'
<1>1. /\ TypeOK /\ Counts(t) /\ Notices(t) /\ Within(t) /\ Written(t)
      /\ t \in render /\ Store(t) /\ t \in Connected
  BY DEF Consistent, AddFile, Reads, Store
<1>2. /\ request' = request /\ sent' = sent /\ Connected' = Connected
      /\ Store(t)' = Store(t) /\ Size(t)' = Size(t) /\ Name(t)' = Name(t) /\ Total(t)' = Total(t)
  BY DEF Reads, wire, Connected, Store, Size, Name, Total
<1>3. /\ request[t] \in Requests /\ Name(t) \in Names /\ Size(t) \in Nat /\ Header \in Nat \ {0}
      /\ disk[Name(t)] \in Seq(Unit)
  BY <1>1, ConnectedHasRequest, FileTransferAssumption DEF TypeOK
<1>4. PICK k \in 0 .. n :
        /\ disk' = [disk EXCEPT ![request[t].name] =
                      Overwritten(@, offset[t], SubSeq(Chunk(t, n), 1, k))]
        /\ offset' = [offset EXCEPT ![t] = @ + k]
        /\ short' = IF k < n THEN short \union {t} ELSE short
  BY DEF AddFile
<1>5. /\ cached' = cached /\ render' = render
      /\ missing' = [missing EXCEPT ![t] = @ - n]
      /\ finished' = IF missing[t] - n = 0 THEN finished \union {t} ELSE finished
  BY DEF AddFile, Finished
<1>6. /\ taken[t] \in Nat /\ cached[t] \in Nat /\ missing[t] \in Nat /\ offset[t] \in Nat
      /\ told[t] \in Nat /\ Header =< cached[t] /\ cached[t] =< taken[t]
      /\ taken[t] + n =< Header + Size(t) /\ missing[t] = Size(t) - (taken[t] - cached[t])
      /\ offset[t] \in 0 .. Len(disk[Name(t)]) /\ sent[t] \in Nat
  <2>1. Total(t) = Header + Size(t)
    BY <1>1 DEF Total, Store, Size
  <2>2. QED
    BY <1>1, <1>3, <2>1, LenProperties DEF Counts, Within, TypeOK, Reads
<1>7. /\ missing[t] - n \in Nat /\ missing'[t] = missing[t] - n /\ taken'[t] = taken[t] + n
      /\ offset'[t] = offset[t] + k
  <2>1. missing[t] - n \in Nat
    BY <1>3, <1>6
  <2>2. QED
    BY <1>1, <1>4, <1>5, <1>6, <2>1 DEF TypeOK, Reads
<1>8. t \notin finished /\ told[t] = 0
  <2>1. missing[t] > 0
    BY <1>6, <1>7
  <2>2. QED
    BY <1>1, <1>6, <2>1 DEF Counts, Notices
<1>9. /\ missing' \in [Transfers -> Nat] /\ offset' \in [Transfers -> Nat]
      /\ taken' \in [Transfers -> Nat] /\ told' \in [Transfers -> Nat]
      /\ told'[t] =< 1 /\ (told'[t] > 0 => t \in finished')
      /\ \A u \in Transfers \ {t} :
           missing'[u] = missing[u] /\ offset'[u] = offset[u] /\ told'[u] = told[u]
  <2>1. missing' \in [Transfers -> Nat]
    BY <1>1, <1>5, <1>7 DEF TypeOK
  <2>2. offset' \in [Transfers -> Nat] /\ taken' \in [Transfers -> Nat]
    BY <1>1, <1>4 DEF TypeOK, Reads
  <2>3. /\ told' \in [Transfers -> Nat] /\ told'[t] =< 1 /\ (told'[t] > 0 => t \in finished')
        /\ \A u \in Transfers \ {t} : told'[u] = told[u]
    BY <1>1, <1>8 DEF TypeOK, Notify, IsFinish
  <2>4. \A u \in Transfers \ {t} : missing'[u] = missing[u] /\ offset'[u] = offset[u]
    BY <1>1, <1>4, <1>5 DEF TypeOK
  <2>5. QED
    BY <2>1, <2>2, <2>3, <2>4
<1> DEFINE file  == disk[Name(t)]
           units == SubSeq(Chunk(t, n), 1, k)
           new   == Overwritten(file, offset[t], units)
<1>10. /\ units \in Seq(Unit) /\ Len(units) = k
       /\ \A i \in 1 .. k : units[i] = <<t, taken[t] - Header + i>>
  <2>1. taken[t] >= Header
    BY <1>3, <1>6
  <2>2. QED
    BY <1>6, <2>1, ChunkWritten
<1>11. /\ new \in Seq(Unit) /\ Len(new) >= Len(file) /\ Len(new) >= offset[t] + k
       /\ \A i \in 1 .. offset[t] : new[i] = file[i]
       /\ \A i \in 1 .. k : new[offset[t] + i] = units[i]
  <2> HIDE DEF units
  <2>1. /\ new \in Seq(Unit) /\ Len(new) >= Len(file) /\ Len(new) >= offset[t] + Len(units)
        /\ \A i \in 1 .. offset[t] : new[i] = file[i]
        /\ \A i \in 1 .. Len(units) : new[offset[t] + i] = units[i]
    <3> HIDE DEF file
    <3>1. file \in Seq(Unit) /\ units \in Seq(Unit) /\ offset[t] \in 0 .. Len(file)
      BY <1>3, <1>6, <1>10 DEF file
    <3>2. QED
      BY <3>1, OverwrittenFile
  <2>2. QED
    BY <1>10, <2>1
<1> HIDE DEF units, new
<1>12. /\ disk' \in [Names -> Seq(Unit)] /\ disk'[Name(t)] = new
       /\ \A name \in Names \ {Name(t)} : disk'[name] = disk[name]
  <2>1. disk' = [disk EXCEPT ![Name(t)] = new]
    BY <1>1, <1>3, <1>4 DEF TypeOK, Name, new, units
  <2>2. QED
    BY <1>1, <1>3, <1>11, <2>1 DEF TypeOK
<1>13. TypeOK'
  <2>1. finished' \subseteq render' /\ short' \subseteq render' /\ render' \subseteq Connected'
    BY <1>1, <1>2, <1>4, <1>5 DEF TypeOK
  <2>2. UNCHANGED <<request, sent, cached, ended, reset, filter, registered>>
    BY <1>5 DEF Reads, wire
  <2>3. QED
    BY <1>1, <1>2, <1>9, <1>12, <2>1, <2>2 DEF TypeOK
<1>14. (Counts(t) /\ Notices(t) /\ Within(t) /\ Written(t))'
  <2>1. Counts(t)'
    <3>1. missing'[t] = 0 <=> t \in finished'
      BY <1>5, <1>7, <1>8
    <3>2. missing'[t] = Size(t) - (taken'[t] - cached'[t])
      BY <1>3, <1>5, <1>6, <1>7
    <3>3. cached'[t] =< taken'[t] /\ taken'[t] =< sent'[t] /\ sent'[t] =< Total(t)
      BY <1>5, <1>6, <1>7 DEF Reads, wire
    <3>4. QED
      BY <1>1, <1>2, <1>5, <1>6, <3>1, <3>2, <3>3 DEF Counts
  <2>2. Notices(t)'
    BY <1>1, <1>2, <1>9 DEF Notices
  <2>3. Within(t)'
    BY <1>2, <1>6, <1>7, <1>11, <1>12 DEF Within
  <2>4. Written(t)'
    <3>1. SUFFICES ASSUME t \notin short', cached[t] = Header, Sharing(t)' = {}
                   PROVE  /\ offset'[t] = taken'[t] - Header
                          /\ \A i \in 1 .. offset'[t] : new[i] = <<t, i>>
      BY <1>2, <1>5, <1>12 DEF Written
    <3>2. t \notin short /\ k = n /\ Sharing(t) = {}
      BY <1>2, <1>4, <1>5, <3>1 DEF Sharing
    <3>3. offset[t] = taken[t] - Header /\ \A i \in 1 .. offset[t] : file[i] = <<t, i>>
      BY <1>1, <3>1, <3>2 DEF Written
    <3>4. offset'[t] = taken'[t] - Header
      BY <1>3, <1>6, <1>7, <3>2, <3>3
    <3>5. ASSUME NEW i \in 1 .. offset'[t] PROVE new[i] = <<t, i>>
      <4>1. CASE i =< offset[t]
        <5>1. i \in 1 .. offset[t]
          BY <1>6, <1>7, <4>1
        <5>2. QED
          BY <1>11, <3>3, <5>1
      <4>2. CASE i > offset[t]
        <5>1. i - offset[t] \in 1 .. k /\ i = offset[t] + (i - offset[t])
          BY <1>6, <1>7, <4>2
        <5>2. new[i] = units[i - offset[t]]
          BY <1>11, <5>1
        <5>3. units[i - offset[t]] = <<t, i>>
          BY <1>3, <1>6, <1>10, <3>3, <5>1
        <5>4. QED
          BY <5>2, <5>3
      <4>3. QED
        BY <1>6, <1>7, <4>1, <4>2
    <3>6. QED
      BY <3>4, <3>5
  <2>5. QED
    BY <2>1, <2>2, <2>3, <2>4
<1>15. ASSUME NEW u \in Transfers \ {t}
       PROVE  (Counts(u) /\ Notices(u) /\ Within(u) /\ Written(u))'
  <2>1. /\ cached'[u] = cached[u] /\ missing'[u] = missing[u] /\ offset'[u] = offset[u]
        /\ told'[u] = told[u] /\ render' = render
        /\ (u \in finished' <=> u \in finished) /\ (u \in short' <=> u \in short)
    BY <1>4, <1>5, <1>9
  <2>2. u \in render /\ Store(u) => Name(u) \in Names /\ Len(disk[Name(u)]) \in Nat
    BY <1>1, ConnectedHasRequest, LenProperties DEF TypeOK
  <2>3. u \in render /\ Store(u) => Len(disk'[Name(u)]) >= Len(disk[Name(u)])
    BY <1>11, <1>12, <2>2
  <2>4. Sharing(u) = {} => Name(u) # Name(t)
    BY <1>1 DEF Sharing, Store, Name
  <2>5. u \in render /\ Store(u) /\ Sharing(u) = {} => disk'[Name(u)] = disk[Name(u)]
    BY <1>12, <2>2, <2>4
  <2>6. QED
    BY <2>1, <2>3, <2>5, OtherTransfers
<1>16. QED
  BY <1>13, <1>14, <1>15 DEF Consistent

-----------------------------------------------------------------------------
(* The specification.                                                        *)

\* Every step keeps the counts, the notices and the files as they should be.
LEMMA NextConsistent == Consistent /\ [Next]_vars => Consistent'
<1>1. SUFFICES ASSUME Consistent, [Next]_vars PROVE Consistent'
  OBVIOUS
<1>2. CASE \E t \in Transfers : \E r \in Requests : Connect(t, r)
  BY <1>1, <1>2, ConnectConsistent
<1>3. CASE \E t \in Transfers : Receives(t)
  <2> PICK t \in Transfers : Receives(t)
    BY <1>3
  <2>1. PICK n \in 1 .. sent[t] - taken[t] : Receive(t, n)
    BY DEF Receives
  <2>2. Reads(t, n)
    BY <1>1, <2>1, ReceiveReads
  <2>3. n \in Nat \ {0}
    BY <1>1 DEF Consistent, TypeOK
  <2>4. CASE AddHeader(t, n)
    BY <1>1, <2>1, <2>2, <2>3, <2>4, AddHeaderConsistent DEF Receive
  <2>5. CASE AddFile(t, n)
    BY <1>1, <2>1, <2>2, <2>3, <2>5, AddFileConsistent DEF Receive
  <2>6. QED
    BY <2>1, <2>4, <2>5 DEF Receive
<1>4. CASE \/ UNCHANGED vars
           \/ \E t \in Transfers : Send(t) \/ Close(t) \/ Reset(t) \/ Disconnect(t)
           \/ \E p \in PCs : PcRegisters(p) \/ PcLeaves(p)
  BY <1>1, <1>4, OthersConsistent
<1>5. QED
  BY <1>1, <1>2, <1>3, <1>4 DEF Next

\* Everything a transfer counts agrees with what was read, in every state.
THEOREM SpecConsistent == Spec => []Consistent
<1>1. QED
  BY InitConsistent, NextConsistent, PTL DEF Spec

\* Every variable of the file server has its type; no count goes below zero.
THEOREM SpecTypeOK == Spec => []TypeOK
<1>1. Consistent => TypeOK
  BY DEF Consistent
<1>2. QED
  BY <1>1, SpecConsistent, PTL

\* FileSocketServer::parseDataPackage: however TCP groups a file into reads, its PC is told of it at
\* most once, since the read that finishes it is the last one.
THEOREM SpecToldOnce == Spec => []ToldOnce
<1>1. Consistent => ToldOnce
  BY DEF Consistent, Notices, ToldOnce
<1>2. QED
  BY <1>1, SpecConsistent, PTL

\* FileDataFilter::addData: a transfer whose last unit was read and that is not finished has an
\* empty file, or lost units that shared a read with its header.  There is no third way.
THEOREM SpecStuckNeedsMergedRead == Spec => []StuckNeedsMergedRead
<1>1. Consistent => StuckNeedsMergedRead
  <2>1. SUFFICES ASSUME Consistent, NEW t \in filter, sent[t] = Total(t), taken[t] = sent[t],
                        t \notin finished
                 PROVE  Size(t) = 0 \/ cached[t] > Header
    BY DEF StuckNeedsMergedRead, Size
  <2>2. TypeOK /\ t \in Connected
    BY <2>1 DEF Consistent, TypeOK
  <2>3. /\ t \in Transfers /\ request[t].rw_type \in {STORE, FETCH} /\ Size(t) \in Nat
        /\ Header \in Nat \ {0}
    BY <2>2, ConnectedHasRequest, FileTransferAssumption
  <2>4. cached[t] \in Nat /\ taken[t] \in Nat /\ missing[t] \in Nat
    BY <2>2, <2>3 DEF TypeOK
  <2>5. Counts(t)
    BY <2>1, <2>3 DEF Consistent
  <2>6. t \in render
    BY <2>1, <2>3, <2>4, <2>5 DEF Counts, Total, Size
  <2>7. Store(t) /\ Total(t) = Header + Size(t)
    BY <2>1, <2>5, <2>6 DEF Counts, Total, Store, Size
  <2>8. missing[t] = Size(t) - (taken[t] - cached[t]) /\ cached[t] >= Header
    BY <2>5, <2>6, <2>7 DEF Counts
  <2>9. CASE cached[t] = Header
    BY <2>1, <2>3, <2>4, <2>5, <2>6, <2>7, <2>8, <2>9 DEF Counts
  <2>10. QED
    BY <2>3, <2>4, <2>8, <2>9
<1>2. QED
  BY <1>1, SpecConsistent, PTL

\* FileDataFilter::addData and FileRender::writeToFile: when the PC is told, the file of that name
\* begins with all that the TV sent, whatever was in it before, unless a write fell short or another
\* TV stores under the name.
THEOREM SpecNoticeMeansStored == Spec => []NoticeMeansStored
<1>1. Consistent => NoticeMeansStored
  <2>1. SUFFICES ASSUME Consistent, NEW t \in Transfers, told[t] > 0, t \notin short,
                        Sharing(t) = {}
                 PROVE  SubSeq(disk[Name(t)], 1, Size(t)) = Contents(t, Size(t))
    BY DEF NoticeMeansStored, Size, Name
  <2>2. TypeOK /\ Counts(t) /\ Notices(t) /\ Within(t) /\ Written(t)
    BY <2>1 DEF Consistent
  <2>3. t \in finished /\ Store(t) /\ t \in render /\ t \in Connected
    BY <2>1, <2>2 DEF Notices, TypeOK
  <2>4. /\ Size(t) \in Nat /\ Header \in Nat \ {0} /\ disk[Name(t)] \in Seq(Unit)
        /\ cached[t] \in Nat /\ taken[t] \in Nat /\ offset[t] \in Nat /\ sent[t] \in Nat
    BY <2>2, <2>3, ConnectedHasRequest, FileTransferAssumption DEF TypeOK
  <2>5. taken[t] =< Header + Size(t)
    <3>1. taken[t] =< sent[t] /\ sent[t] =< Total(t) /\ Total(t) = Header + Size(t)
      BY <2>2, <2>3 DEF Counts, Total, Store, Size
    <3>2. QED
      BY <2>4, <3>1
  <2>6. 0 = Size(t) - (taken[t] - cached[t]) /\ Header =< cached[t]
    BY <2>2, <2>3 DEF Counts
  <2>7. cached[t] = Header /\ taken[t] - Header = Size(t)
    BY <2>4, <2>5, <2>6
  <2>8. offset[t] = Size(t) /\ \A i \in 1 .. Size(t) : disk[Name(t)][i] = <<t, i>>
    BY <2>1, <2>2, <2>3, <2>7 DEF Written
  <2>9. Size(t) =< Len(disk[Name(t)])
    BY <2>2, <2>3, <2>8 DEF Within
  <2> DEFINE file == disk[Name(t)]
             size == Size(t)
  <2> HIDE DEF file, size
  <2>10. /\ file \in Seq(Unit) /\ size \in Nat /\ size =< Len(file)
         /\ \A i \in 1 .. size : file[i] = <<t, i>>
    BY <2>4, <2>8, <2>9 DEF file, size
  <2>11. SubSeq(file, 1, size) = [i \in 1 .. size |-> file[i]]
    BY <2>10, LenProperties
  <2>12. [i \in 1 .. size |-> file[i]] = [i \in 1 .. size |-> <<t, i>>]
    BY <2>10
  <2>13. QED
    BY <2>11, <2>12 DEF file, size, Contents
<1>2. QED
  BY <1>1, SpecConsistent, PTL
=============================================================================
