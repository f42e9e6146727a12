--------------------------- MODULE ThreadsProofs ---------------------------
(***************************************************************************)
(* What is proved of Threads, for any scenes that ThreadsAssumption allows *)
(* and any number of threads: LinesKept, and StartsClean.                  *)
(***************************************************************************)
EXTENDS Threads, DataLemmas, TLAPS

-----------------------------------------------------------------------------
(* The shared state as a record.                                             *)

Fields ==
  {"peer", "dead", "filter", "loose", "conn", "heap", "tvinfo", "nodes", "online", "log", "inode", "lines",
   "dir", "now", "rename", "turned", "stamps", "units", "begun", "taken", "served", "junk", "out", "fate"}

\* The fields of the state the process starts in.
LEMMA EmptyFields == DOMAIN Empty = Fields
BY DEF Empty, Fields

\* What a call of the Logger, or of the accept loop, leaves of a shared state.
Leaves(m, n) ==
  /\ DOMAIN n = Fields /\ n.fate = m.fate
  /\ n.begun = m.begun /\ n.served = m.served /\ n.units = m.units /\ n.junk = m.junk /\ n.taken = m.taken

\* And what it leaves of the log's files unless it rotates the log.
LeavesFiles(m, n) ==
  /\ n.turned = m.turned /\ n.stamps = m.stamps /\ n.now = m.now /\ n.rename = m.rename

\* Close takes a number out of the descriptor table, and touches no file.
LEMMA CloseLeaves ==
  ASSUME NEW m, DOMAIN m = Fields, NEW fd, NEW i, i \in [Fds -> Nat], m.inode = i
  PROVE  LET n == Close(m, fd)
         IN  /\ Leaves(m, n) /\ LeavesFiles(m, n)
             /\ n.log = m.log /\ n.dir = m.dir /\ n.lines = m.lines
             /\ n.inode = IF fd \in Fds THEN [i EXCEPT ![fd] = Null] ELSE i
<1>1. CASE fd \in Fds
  <2> DEFINE p == [m.peer EXCEPT ![fd] = NoPeer]
             j == [i EXCEPT ![fd] = Null]
             d == m.dead \ {fd}
  <2>1. Close(m, fd) = [m EXCEPT !.peer = p, !.inode = j, !.dead = d]
    BY <1>1 DEF Close, Fields
  <2> HIDE DEF p, d
  <2>2. QED
    BY <1>1, <2>1 DEF Fields, Leaves, LeavesFiles
<1>2. CASE fd \notin Fds
  BY <1>2 DEF Close, Leaves, LeavesFiles
<1>3. QED
  BY <1>1, <1>2

\* A write to a socket touches no file.
LEMMA DeliverLeaves ==
  ASSUME NEW m, DOMAIN m = Fields, NEW fd, NEW kind
  PROVE  LET n == Deliver(m, fd, kind)
         IN  /\ Leaves(m, n) /\ LeavesFiles(m, n)
             /\ n.log = m.log /\ n.dir = m.dir /\ n.lines = m.lines /\ n.inode = m.inode
BY DEF Deliver, Fields, Leaves, LeavesFiles

\* A line goes to the file behind the Logger's descriptor, or to none.
LEMMA WriteLogLeaves ==
  ASSUME NEW m, DOMAIN m = Fields, NEW line
  PROVE  LET r == WriteLog(m, line)
             n == r.mem
             i == m.inode[m.log.fd]
         IN  /\ r.then = <<>> /\ Leaves(m, n) /\ LeavesFiles(m, n)
             /\ n.log = m.log /\ n.dir = m.dir /\ n.inode = m.inode
             /\ n.lines = IF m.log.fd \in Fds /\ i # Null
                          THEN [m.lines EXCEPT ![i] = @ \union {line}] ELSE m.lines
<1> DEFINE fd == m.log.fd
           i  == m.inode[fd]
           ls == [m.lines EXCEPT ![i] = @ \union {line}]
           r  == WriteLog(m, line)
<1>1. CASE fd \in Fds /\ i # Null
  <2>1. r.mem = [m EXCEPT !.lines = ls] /\ r.then = <<>>
    BY <1>1 DEF WriteLog, Then, Fields
  <2> HIDE DEF ls, r
  <2>2. /\ r.then = <<>> /\ Leaves(m, r.mem) /\ LeavesFiles(m, r.mem)
        /\ r.mem.log = m.log /\ r.mem.dir = m.dir /\ r.mem.inode = m.inode /\ r.mem.lines = ls
    BY <2>1 DEF Leaves, LeavesFiles, Fields
  <2>3. QED
    BY <1>1, <2>2 DEF r, ls
<1>2. CASE ~(fd \in Fds /\ i # Null)
  <2>1. r.then = <<>> /\ r.mem \in {m, Deliver(m, fd, "log")}
    BY <1>2 DEF WriteLog, Then
  <2>2. QED
    BY <1>2, <2>1, DeliverLeaves DEF Leaves, LeavesFiles
<1>3. QED
  BY <1>1, <1>2

\* Counting a line, keeping the date and resetting the count touch no file.
LEMMA CountLeaves ==
  ASSUME NEW m, DOMAIN m = Fields, NEW r, r \in {Count(m), SetDay(m), ResetSize(m)}
  PROVE  /\ r.then = <<>> /\ Leaves(m, r.mem) /\ LeavesFiles(m, r.mem)
         /\ r.mem.dir = m.dir /\ r.mem.lines = m.lines /\ r.mem.inode = m.inode
<1>1. CASE r = Count(m)
  BY <1>1 DEF Count, Then, Fields, Leaves, LeavesFiles
<1>2. CASE r = SetDay(m)
  BY <1>2 DEF SetDay, Then, Fields, Leaves, LeavesFiles
<1>3. CASE r = ResetSize(m)
  BY <1>3 DEF ResetSize, Then, Fields, Leaves, LeavesFiles
<1>4. QED
  BY <1>1, <1>2, <1>3

\* The file that setLogFile opens: the one that has the log's name, or a new one.
LogFileOf(m) ==
  IF Linked(m, LogName) = {} THEN Len(m.lines) + 1 ELSE (CHOOSE e \in Linked(m, LogName) : TRUE)[2]

\* openLog takes the least free number, and the file it names may be new.
LEMMA OpenLogLeaves ==
  ASSUME NEW m, DOMAIN m = Fields, DOMAIN m.log = {"fd", "size", "last", "old"}
  PROVE  LET r == OpenLog(m)
             n == r.mem
         IN  /\ r.then = <<>> /\ Leaves(m, n) /\ LeavesFiles(m, n)
             /\ n.log = [fd |-> Min(FreeFds(m)), size |-> m.log.size, last |-> m.now.day, old |-> m.now.day]
             /\ n.dir = m.dir \union {<<LogName, LogFileOf(m)>>}
             /\ n.inode = [m.inode EXCEPT ![Min(FreeFds(m))] = LogFileOf(m)]
             /\ n.lines = IF Linked(m, LogName) = {} THEN Append(m.lines, {}) ELSE m.lines
<1> DEFINE fd == Min(FreeFds(m))
           day == m.now.day
           ls == IF Linked(m, LogName) = {} THEN Append(m.lines, {}) ELSE m.lines
           d  == m.dir \union {<<LogName, LogFileOf(m)>>}
           i  == [m.inode EXCEPT ![fd] = LogFileOf(m)]
           g  == [fd |-> fd, size |-> m.log.size, last |-> day, old |-> day]
           m1 == [[[m EXCEPT !.lines = ls] EXCEPT !.dir = d] EXCEPT !.inode = i]
           m2 == [m1 EXCEPT !.log.fd = fd]
           m3 == [m2 EXCEPT !.log.last = day]
           m4 == [m3 EXCEPT !.log.old = day]
           r  == OpenLog(m)
<1>1. r.mem = m4 /\ r.then = <<>>
  BY DEF OpenLog, Then, Fields, LogFileOf
<1> HIDE DEF ls, d, i, fd, day
<1>2. DOMAIN m1 = Fields /\ m1.log = m.log /\ m1.dir = d /\ m1.inode = i /\ m1.lines = ls
      /\ Leaves(m, m1) /\ LeavesFiles(m, m1)
  BY DEF Leaves, LeavesFiles, Fields
<1> HIDE DEF m1
<1>3. /\ m2.log = [m.log EXCEPT !.fd = fd] /\ m2.dir = d /\ m2.inode = i /\ m2.lines = ls
      /\ Leaves(m, m2) /\ LeavesFiles(m, m2)
  BY <1>2 DEF Leaves, LeavesFiles, Fields
<1> HIDE DEF m2
<1>4. /\ m3.log = [[m.log EXCEPT !.fd = fd] EXCEPT !.last = day] /\ m3.dir = d /\ m3.inode = i /\ m3.lines = ls
      /\ Leaves(m, m3) /\ LeavesFiles(m, m3)
  BY <1>3 DEF Leaves, LeavesFiles, Fields
<1> HIDE DEF m3
<1>5. /\ m4.log = [[[m.log EXCEPT !.fd = fd] EXCEPT !.last = day] EXCEPT !.old = day]
      /\ m4.dir = d /\ m4.inode = i /\ m4.lines = ls /\ Leaves(m, m4) /\ LeavesFiles(m, m4)
  BY <1>4 DEF Leaves, LeavesFiles, Fields
<1> HIDE DEF m4
<1>6. m4.log = g
  BY <1>5
<1>7. QED
  BY <1>1, <1>5, <1>6 DEF ls, d, i, fd, day

\* closeLog closes what the Logger's number means, and the history has its line.
LEMMA CloseLogLeaves ==
  ASSUME NEW m, DOMAIN m = Fields, m.inode \in [Fds -> Nat], NEW line
  PROVE  LET r == CloseLog(m, line)
             n == r.mem
         IN  /\ r.then = <<>> /\ Leaves(m, n)
             /\ n.turned = m.turned \union {line}
             /\ n.stamps = m.stamps /\ n.now = m.now /\ n.rename = m.rename
             /\ n.log = m.log /\ n.dir = m.dir /\ n.lines = m.lines
             /\ n.inode = IF m.log.fd \in Fds THEN [m.inode EXCEPT ![m.log.fd] = Null] ELSE m.inode
<1> DEFINE c == Close(m, m.log.fd)
           r == CloseLog(m, line)
           i == IF m.log.fd \in Fds THEN [m.inode EXCEPT ![m.log.fd] = Null] ELSE m.inode
<1>1. /\ Leaves(m, c) /\ LeavesFiles(m, c)
      /\ c.log = m.log /\ c.dir = m.dir /\ c.lines = m.lines /\ c.inode = i
  BY CloseLeaves
<1>2. r.mem = [c EXCEPT !.turned = @ \union {line}] /\ r.then = <<>>
  BY DEF CloseLog, Then
<1> HIDE DEF c, r, i
<1>3. /\ r.then = <<>> /\ Leaves(m, r.mem)
      /\ r.mem.turned = m.turned \union {line}
      /\ r.mem.stamps = m.stamps /\ r.mem.now = m.now /\ r.mem.rename = m.rename
      /\ r.mem.log = m.log /\ r.mem.dir = m.dir /\ r.mem.lines = m.lines /\ r.mem.inode = i
  BY <1>1, <1>2 DEF Leaves, LeavesFiles, Fields
<1>4. QED
  BY <1>3 DEF r, i

\* The calls that follow renameLog.
Reopen == <<[do |-> "openLog"], [do |-> "writeLog", line |-> "notice"], [do |-> "count"]>>
Reset  == <<[do |-> "resetSize"]>>

\* renameLog gives the log's file a name by the date and the time, or fails.
LEMMA RenameLogLeaves ==
  ASSUME NEW m, DOMAIN m = Fields, NEW changed
  PROVE  LET r  == RenameLog(m, changed)
             n  == r.mem
             st == Stamp(m, changed)
         IN  /\ Leaves(m, n) /\ n.turned = m.turned /\ n.now = m.now
             /\ n.log = m.log /\ n.lines = m.lines /\ n.inode = m.inode
             /\ \/ n.stamps = m.stamps /\ n.dir = m.dir /\ r.then = Reopen
                \/ /\ n.stamps = Append(m.stamps, st) /\ r.then = Reopen \o Reset
                   /\ n.dir = (m.dir \ (Linked(m, LogName) \union Linked(m, st)))
                              \union {<<st, e[2]>> : e \in Linked(m, LogName)}
<1> DEFINE st == Stamp(m, changed)
           mv == {<<st, e[2]>> : e \in Linked(m, LogName)}
           d  == (m.dir \ (Linked(m, LogName) \union Linked(m, st))) \union mv
           r  == RenameLog(m, changed)
<1>1. CASE m.rename /\ mv # {}
  <2>1. r.mem = [m EXCEPT !.dir = d, !.stamps = Append(@, st)] /\ r.then = Reopen \o Reset
    BY <1>1 DEF RenameLog, Then, Fields, Reopen, Reset
  <2> HIDE DEF st, mv, d, r
  <2>2. /\ Leaves(m, r.mem) /\ r.mem.turned = m.turned /\ r.mem.now = m.now
        /\ r.mem.log = m.log /\ r.mem.lines = m.lines /\ r.mem.inode = m.inode
        /\ r.mem.stamps = Append(m.stamps, st) /\ r.mem.dir = d
    BY <2>1 DEF Leaves, Fields
  <2>3. QED
    BY <2>1, <2>2 DEF st, mv, d, r
<1>2. CASE ~(m.rename /\ mv # {})
  <2>1. r.mem = m /\ r.then = Reopen
    BY <1>2 DEF RenameLog, Then, Reopen
  <2>2. QED
    BY <2>1 DEF Leaves
<1>3. QED
  BY <1>1, <1>2

\* Time passes over everything.
LEMMA NextSecondLeaves ==
  ASSUME NEW m, DOMAIN m = Fields, m.now \in [day : Nat \ {0}, second : Nat \ {0}]
  PROVE  LET r == NextSecond(m)
             n == r.mem
         IN  /\ r.then = <<>> /\ Leaves(m, n) /\ n.turned = m.turned /\ n.stamps = m.stamps
             /\ n.now \in [day : Nat \ {0}, second : Nat \ {0}]
             /\ n.log = m.log /\ n.dir = m.dir /\ n.lines = m.lines /\ n.inode = m.inode
BY DEF NextSecond, Then, Fields, Leaves

-----------------------------------------------------------------------------
(* The files of the log.                                                     *)

Texts == STRING \union {"before", "notice"}
Times == [day : Nat \ {0}, second : Nat \ {0}]

LogTyped(m) ==
  /\ DOMAIN m = Fields
  /\ DOMAIN m.log = {"fd", "size", "last", "old"} /\ m.log.last \in Nat /\ m.log.old \in Nat
  /\ m.now \in Times
  /\ m.lines \in Seq(SUBSET Texts)
  /\ m.inode \in [Fds -> 0 .. Len(m.lines)]
  /\ m.stamps \in Seq(Nat \X Nat)
  /\ m.dir \subseteq (Nat \X Nat) \X (1 .. Len(m.lines))

\* Two rotations gave their files one name.
Collided(m) == \E i, j \in 1 .. Len(m.stamps) : i # j /\ m.stamps[i] = m.stamps[j]

\* No file is lost but to such a collision, and until the first rotation the log is the file of
\* the start.
LogKept(m) ==
  /\ LogTyped(m)
  /\ \A e \in m.dir : e[1] = LogName \/ \E i \in 1 .. Len(m.stamps) : m.stamps[i] = e[1]
  /\ Collided(m) \/ \A n \in 1 .. Len(m.lines) : \E e \in m.dir : e[2] = n
  /\ Len(m.lines) >= 1 /\ "before" \in m.lines[1]
  /\ m.turned = {} => m.log.fd \in Fds /\ m.inode[m.log.fd] = 1

\* The files only grow.
Grows(m, n) ==
  /\ Len(m.lines) =< Len(n.lines)
  /\ \A i \in 1 .. Len(m.lines) : m.lines[i] \subseteq n.lines[i]

\* Names that two rotations had are had still, and a name that was there is there twice.
LEMMA OneNameMore ==
  ASSUME NEW a, NEW b, NEW st, Len(a) \in Nat, Len(b) = Len(a) + 1,
         b[Len(b)] = st, \A i \in 1 .. Len(a) : b[i] = a[i],
         \/ \E i, j \in 1 .. Len(a) : i # j /\ a[i] = a[j]
         \/ \E i \in 1 .. Len(a) : a[i] = st
  PROVE  \E i, j \in 1 .. Len(b) : i # j /\ b[i] = b[j]
<1>1. CASE \E i, j \in 1 .. Len(a) : i # j /\ a[i] = a[j]
  <2>1. PICK i, j \in 1 .. Len(a) : i # j /\ a[i] = a[j]
    BY <1>1
  <2>2. i \in 1 .. Len(b) /\ j \in 1 .. Len(b) /\ b[i] = b[j]
    BY <2>1
  <2>3. QED
    BY <2>1, <2>2
<1>2. CASE \E i \in 1 .. Len(a) : a[i] = st
  <2>1. PICK i \in 1 .. Len(a) : a[i] = st
    BY <1>2
  <2>2. i \in 1 .. Len(b) /\ Len(b) \in 1 .. Len(b) /\ i # Len(b) /\ b[i] = b[Len(b)]
    BY <2>1
  <2>3. QED
    BY <2>2
<1>3. QED
  BY <1>1, <1>2

\* A call that touches neither the files nor the history keeps the log as it is.
LEMMA QuietKeeps ==
  ASSUME NEW m, LogKept(m), NEW n, DOMAIN n = Fields,
         DOMAIN n.log = {"fd", "size", "last", "old"}, n.log.last \in Nat, n.log.old \in Nat,
         n.log.fd = m.log.fd, n.now \in Times,
         n.lines = m.lines, n.inode = m.inode, n.dir = m.dir, n.stamps = m.stamps, n.turned = m.turned
  PROVE  LogKept(n) /\ Grows(m, n)
BY DEF LogKept, LogTyped, Collided, Grows

\* A line goes to a file, and to the first file until the first rotation.
LEMMA WriteKeeps ==
  ASSUME NEW m, LogKept(m), NEW line \in Texts
  PROVE  LET n == WriteLog(m, line).mem
         IN  LogKept(n) /\ Grows(m, n) /\ (m.turned = {} => line \in n.lines[1])
<1> DEFINE n == WriteLog(m, line).mem
           i == m.inode[m.log.fd]
<1>0. DOMAIN m = Fields /\ m.lines \in Seq(SUBSET Texts) /\ m.inode \in [Fds -> 0 .. Len(m.lines)]
  BY DEF LogKept, LogTyped
<1>1. /\ DOMAIN n = Fields /\ n.now = m.now
      /\ n.log = m.log /\ n.dir = m.dir /\ n.inode = m.inode /\ n.turned = m.turned /\ n.stamps = m.stamps
      /\ n.lines = IF m.log.fd \in Fds /\ i # Null THEN [m.lines EXCEPT ![i] = @ \union {line}] ELSE m.lines
  BY <1>0, WriteLogLeaves DEF Leaves, LeavesFiles
<1> HIDE DEF n
<1>2. CASE m.log.fd \in Fds /\ i # Null
  <2>1. i \in 1 .. Len(m.lines)
    BY <1>0, <1>2 DEF Null
  <2> DEFINE a == m.lines
             b == n.lines
  <2> HIDE DEF i, a, b
  <2>a. a \in Seq(SUBSET Texts) /\ i \in 1 .. Len(a) /\ b = [a EXCEPT ![i] = @ \union {line}]
    BY <1>0, <1>1, <1>2, <2>1 DEF i, a, b
  <2>b. /\ b \in Seq(SUBSET Texts) /\ Len(b) = Len(a)
        /\ \A k \in 1 .. Len(a) : b[k] = IF k = i THEN a[k] \union {line} ELSE a[k]
    <3>1. a \in [1 .. Len(a) -> SUBSET Texts] /\ Len(a) \in Nat
      BY <2>a
    <3>2. b \in [1 .. Len(a) -> SUBSET Texts]
      BY <2>a, <3>1
    <3>3. b \in Seq(SUBSET Texts) /\ Len(b) = Len(a)
      BY <3>1, <3>2
    <3>4. QED
      BY <2>a, <3>1, <3>3
  <2>2. /\ n.lines \in Seq(SUBSET Texts) /\ Len(n.lines) = Len(m.lines)
        /\ \A k \in 1 .. Len(m.lines) : n.lines[k] = IF k = i THEN m.lines[k] \union {line} ELSE m.lines[k]
    BY <2>b DEF a, b
  <2>3. LogTyped(n)
    BY <1>1, <2>2 DEF LogKept, LogTyped
  <2>4. QED
    BY <1>1, <1>2, <2>1, <2>2, <2>3 DEF LogKept, Collided, Grows, n, i
<1>3. CASE ~(m.log.fd \in Fds /\ i # Null)
  <2>1. LogKept(n) /\ Grows(m, n)
    BY <1>1, <1>3, QuietKeeps DEF LogKept, LogTyped
  <2>2. m.turned # {}
    BY <1>3 DEF LogKept, Null
  <2>3. QED
    BY <2>1, <2>2 DEF n
<1>4. QED
  BY <1>2, <1>3

\* The Logger's counters are no part of what is kept.
LEMMA CountKeeps ==
  ASSUME NEW m, LogKept(m), NEW r, r \in {Count(m), SetDay(m), ResetSize(m)}
  PROVE  LogKept(r.mem) /\ Grows(m, r.mem) /\ r.mem.turned = m.turned /\ r.mem.stamps = m.stamps
<1>1. /\ DOMAIN r.mem = Fields /\ r.mem.turned = m.turned /\ r.mem.stamps = m.stamps /\ r.mem.now = m.now
      /\ r.mem.dir = m.dir /\ r.mem.lines = m.lines /\ r.mem.inode = m.inode
  BY CountLeaves DEF LogKept, LogTyped, Leaves, LeavesFiles
<1>2. /\ DOMAIN r.mem.log = {"fd", "size", "last", "old"} /\ r.mem.log.last \in Nat /\ r.mem.log.old \in Nat
      /\ r.mem.log.fd = m.log.fd
  <2>1. DOMAIN m = Fields /\ DOMAIN m.log = {"fd", "size", "last", "old"} /\ m.log.last \in Nat /\ m.log.old \in Nat
        /\ m.now.day \in Nat
    BY DEF LogKept, LogTyped, Times
  <2>2. CASE r = Count(m)
    BY <2>1, <2>2 DEF Count, Then, Fields
  <2>3. CASE r = SetDay(m)
    BY <2>1, <2>3 DEF SetDay, Then, Fields
  <2>4. CASE r = ResetSize(m)
    BY <2>1, <2>4 DEF ResetSize, Then, Fields
  <2>5. QED
    BY <2>2, <2>3, <2>4
<1>3. m.now \in Times
  BY DEF LogKept, LogTyped
<1>4. QED
  BY <1>1, <1>2, <1>3, QuietKeeps

\* closeLog loses no file: the file keeps its name.
LEMMA CloseKeeps ==
  ASSUME NEW m, LogKept(m), NEW line
  PROVE  LET n == CloseLog(m, line).mem IN LogKept(n) /\ Grows(m, n)
<1> DEFINE n == CloseLog(m, line).mem
           fd == m.log.fd
<1>1. DOMAIN m = Fields /\ m.inode \in [Fds -> 0 .. Len(m.lines)] /\ m.inode \in [Fds -> Nat]
  BY DEF LogKept, LogTyped
<1>2. /\ DOMAIN n = Fields /\ n.now = m.now
      /\ n.log = m.log /\ n.dir = m.dir /\ n.lines = m.lines /\ n.stamps = m.stamps
      /\ n.turned = m.turned \union {line}
      /\ n.inode = IF fd \in Fds THEN [m.inode EXCEPT ![fd] = Null] ELSE m.inode
  BY <1>1, CloseLogLeaves DEF Leaves
<1> HIDE DEF n
<1>3. n.inode \in [Fds -> 0 .. Len(n.lines)]
  BY <1>1, <1>2 DEF Null, LogKept, LogTyped
<1>4. LogTyped(n)
  BY <1>2, <1>3 DEF LogKept, LogTyped
<1>6. Collided(n) <=> Collided(m)
  BY <1>2 DEF Collided
<1>7. LogKept(n) /\ Grows(m, n)
  BY <1>2, <1>4, <1>6 DEF LogKept, Grows
<1>5. QED
  BY <1>7 DEF n

\* openLog loses no file, and a new file gets the log's name.
LEMMA OpenKeeps ==
  ASSUME NEW m, LogKept(m), m.turned # {}
  PROVE  LET n == OpenLog(m).mem IN LogKept(n) /\ Grows(m, n)
<1> DEFINE n  == OpenLog(m).mem
           fd == Min(FreeFds(m))
           k  == LogFileOf(m)
           files == Linked(m, LogName)
<1>1. /\ DOMAIN n = Fields /\ n.now = m.now /\ n.stamps = m.stamps /\ n.turned = m.turned
      /\ n.log = [fd |-> fd, size |-> m.log.size, last |-> m.now.day, old |-> m.now.day]
      /\ n.dir = m.dir \union {<<LogName, k>>} /\ n.inode = [m.inode EXCEPT ![fd] = k]
      /\ n.lines = IF files = {} THEN Append(m.lines, {}) ELSE m.lines
  BY OpenLogLeaves DEF LogKept, LogTyped, Leaves, LeavesFiles
<1>2. LogTyped(m) /\ m.now.day \in Nat /\ m.lines \in Seq(SUBSET Texts) /\ Len(m.lines) \in Nat
  BY DEF LogKept, LogTyped, Times
<1>3. /\ n.lines \in Seq(SUBSET Texts) /\ Len(n.lines) \in {Len(m.lines), Len(m.lines) + 1}
      /\ k \in 1 .. Len(n.lines) /\ (Len(n.lines) = Len(m.lines) + 1 => k = Len(n.lines))
      /\ \A i \in 1 .. Len(m.lines) : n.lines[i] = m.lines[i]
  <2>1. CASE files = {}
    <3>1. n.lines = Append(m.lines, {}) /\ k = Len(m.lines) + 1
      BY <1>1, <2>1 DEF LogFileOf
    <3> HIDE DEF n, k
    <3>2. QED
      BY <1>2, <3>1
  <2>2. CASE files # {}
    <3>1. PICK e \in files : k = e[2]
      BY <2>2 DEF LogFileOf
    <3>2. n.lines = m.lines /\ k \in 1 .. Len(m.lines)
      BY <1>1, <1>2, <2>2, <3>1 DEF Linked, LogTyped
    <3> HIDE DEF n, k
    <3>3. QED
      BY <1>2, <3>2
  <2>3. QED
    BY <2>1, <2>2
<1> HIDE DEF n, k, fd, files
<1>4. LogTyped(n)
  <2>a. Len(n.lines) \in Nat /\ 0 .. Len(m.lines) \subseteq 0 .. Len(n.lines) /\ k \in 0 .. Len(n.lines)
    BY <1>2, <1>3
  <2>b. m.inode \in [Fds -> 0 .. Len(m.lines)]
    BY <1>2 DEF LogTyped
  <2>1. n.inode \in [Fds -> 0 .. Len(n.lines)]
    BY <1>1, <2>a, <2>b
  <2>2. LogName \in Nat \X Nat
    BY DEF LogName
  <2>3. n.dir \subseteq (Nat \X Nat) \X (1 .. Len(n.lines))
    BY <1>1, <1>2, <1>3, <2>2 DEF LogTyped
  <2>4. QED
    BY <1>1, <1>2, <1>3, <2>1, <2>3 DEF LogTyped
<1>5. \A e \in n.dir : e[1] = LogName \/ \E i \in 1 .. Len(n.stamps) : n.stamps[i] = e[1]
  BY <1>1 DEF LogKept
<1>6. Collided(n) \/ \A i \in 1 .. Len(n.lines) : \E e \in n.dir : e[2] = i
  <2>1. CASE Collided(m)
    BY <1>1, <2>1 DEF Collided
  <2>2. CASE \A i \in 1 .. Len(m.lines) : \E e \in m.dir : e[2] = i
    <3>1. <<LogName, k>> \in n.dir /\ <<LogName, k>>[2] = k /\ m.dir \subseteq n.dir
      BY <1>1
    <3>2. QED
      BY <1>2, <1>3, <2>2, <3>1
  <2>3. QED
    BY <2>1, <2>2 DEF LogKept
<1>7. LogKept(n) /\ Grows(m, n)
  BY <1>1, <1>2, <1>3, <1>4, <1>5, <1>6 DEF LogKept, Grows
<1>8. QED
  BY <1>7 DEF n

\* renameLog loses no file unless another rotation gave its file that name.
LEMMA RenameKeeps ==
  ASSUME NEW m, LogKept(m), NEW changed
  PROVE  LET n == RenameLog(m, changed).mem IN LogKept(n) /\ Grows(m, n)
<1> DEFINE n  == RenameLog(m, changed).mem
           st == Stamp(m, changed)
           files == Linked(m, LogName)
<1>1. /\ DOMAIN n = Fields /\ n.turned = m.turned /\ n.now = m.now
      /\ n.log = m.log /\ n.lines = m.lines /\ n.inode = m.inode
      /\ \/ n.stamps = m.stamps /\ n.dir = m.dir
         \/ /\ n.stamps = Append(m.stamps, st)
            /\ n.dir = (m.dir \ (files \union Linked(m, st))) \union {<<st, e[2]>> : e \in files}
  BY RenameLogLeaves DEF LogKept, LogTyped, Leaves
<1>2. st \in Nat \X Nat /\ st # LogName
  BY DEF Stamp, LogName, LogKept, LogTyped, Times
<1> HIDE DEF n, st
<1>3. CASE n.stamps = m.stamps /\ n.dir = m.dir
  <2>1. LogKept(n) /\ Grows(m, n)
    BY <1>1, <1>3, QuietKeeps DEF LogKept, LogTyped
  <2>2. QED
    BY <2>1 DEF n
<1>4. CASE /\ n.stamps = Append(m.stamps, st)
           /\ n.dir = (m.dir \ (files \union Linked(m, st))) \union {<<st, e[2]>> : e \in files}
  <2>1. m.stamps \in Seq(Nat \X Nat) /\ m.dir \subseteq (Nat \X Nat) \X (1 .. Len(m.lines))
    BY DEF LogKept, LogTyped
  <2>0. Collided(m) \/ (\E i \in 1 .. Len(m.stamps) : m.stamps[i] = st) => Collided(n)
    <3> DEFINE a == m.stamps
               b == n.stamps
    <3> HIDE DEF a, b
    <3>a. a \in Seq(Nat \X Nat) /\ b = Append(a, st)
      BY <1>4, <2>1 DEF a, b
    <3>1. /\ Len(a) \in Nat /\ Len(b) = Len(a) + 1 /\ b[Len(b)] = st
          /\ \A i \in 1 .. Len(a) : b[i] = a[i]
      BY <1>2, <3>a
    <3>2. (\E i, j \in 1 .. Len(a) : i # j /\ a[i] = a[j]) \/ (\E i \in 1 .. Len(a) : a[i] = st)
          => \E i, j \in 1 .. Len(b) : i # j /\ b[i] = b[j]
      BY <3>1, OneNameMore
    <3>3. QED
      BY <3>2 DEF a, b, Collided
  <2>2. /\ n.stamps \in Seq(Nat \X Nat) /\ Len(n.stamps) = Len(m.stamps) + 1 /\ Len(m.stamps) \in Nat
        /\ \A i \in 1 .. Len(m.stamps) : n.stamps[i] = m.stamps[i]
        /\ n.stamps[Len(n.stamps)] = st
    BY <1>2, <1>4, <2>1
  <2>3. LogTyped(n)
    <3>1. n.dir \subseteq (Nat \X Nat) \X (1 .. Len(m.lines))
      BY <1>2, <1>4, <2>1 DEF Linked
    <3>2. QED
      BY <1>1, <2>2, <3>1 DEF LogKept, LogTyped
  <2>4. \A e \in n.dir : e[1] = LogName \/ \E i \in 1 .. Len(n.stamps) : n.stamps[i] = e[1]
    <3>1. ASSUME NEW e \in n.dir
          PROVE  e \in m.dir \/ e[1] = st
      BY <1>4
    <3>2. QED
      BY <2>2, <3>1 DEF LogKept
  <2>5. Collided(n) \/ \A i \in 1 .. Len(n.lines) : \E e \in n.dir : e[2] = i
    <3>1. CASE Collided(m)
      BY <2>0, <3>1
    <3>2. CASE \E i \in 1 .. Len(m.stamps) : m.stamps[i] = st
      BY <2>0, <3>2
    <3>3. CASE /\ \A i \in 1 .. Len(m.lines) : \E e \in m.dir : e[2] = i
               /\ ~ \E i \in 1 .. Len(m.stamps) : m.stamps[i] = st
      <4>1. ASSUME NEW i \in 1 .. Len(n.lines)
            PROVE  \E e \in n.dir : e[2] = i
        <5>1. PICK e \in m.dir : e[2] = i
          BY <1>1, <3>3
        <5>2. CASE e[1] = LogName
          <6>1. <<st, e[2]>> \in n.dir /\ <<st, e[2]>>[2] = i
            BY <1>4, <5>1, <5>2 DEF Linked
          <6>2. QED
            BY <6>1
        <5>3. CASE e[1] # LogName
          <6>1. e[1] # st
            BY <3>3, <5>1, <5>3 DEF LogKept
          <6>2. e \in n.dir
            BY <1>4, <5>1, <5>3, <6>1 DEF Linked
          <6>3. QED
            BY <5>1, <6>2
        <5>4. QED
          BY <5>2, <5>3
      <4>2. QED
        BY <4>1
    <3>4. QED
      BY <3>1, <3>2, <3>3 DEF LogKept
  <2>6. LogKept(n) /\ Grows(m, n)
    BY <1>1, <2>3, <2>4, <2>5 DEF LogKept, Grows
  <2>7. QED
    BY <2>6 DEF n
<1>5. QED
  BY <1>1, <1>3, <1>4

-----------------------------------------------------------------------------
(* Where a thread is in its jobs.                                            *)

\* The calls in the lists of threads that log.
Numbers == Fds \union {Min({})}
Calls ==
  LogJobs \union [do : {"writeLog", "switchLogs", "closeLog"}, line : Texts]
  \union [do : {"count", "setDay", "openLog", "resetSize"}] \union [do : {"renameLog"}, changed : BOOLEAN]
  \union [do : {"setnonblocking", "epollAdd"}, fd : Numbers]
  \union [do : {"insertFilter"}, fd : Numbers, id : Devices]

WriteOf(l)  == [do |-> "writeLog", line |-> l]
Counting    == [do |-> "count"]
SwitchOf(l) == [do |-> "switchLogs", line |-> l]
DayOf       == [do |-> "setDay"]
CloseOf(l)  == [do |-> "closeLog", line |-> l]
RenameOf(b) == [do |-> "renameLog", changed |-> b]
Opening     == [do |-> "openLog"]
Resetting   == [do |-> "resetSize"]

Writing(l)  == {<<WriteOf(l), Counting, SwitchOf(l)>>}
Deciding(l) == {<<Counting, SwitchOf(l)>>, <<SwitchOf(l)>>}
               \union {<<DayOf, CloseOf(l), RenameOf(b)>> : b \in BOOLEAN}
               \union {<<CloseOf(l), RenameOf(b)>> : b \in BOOLEAN}
Turning     == {<<RenameOf(b)>> : b \in BOOLEAN}
Reopening   == {<<Opening, WriteOf("notice"), Counting>>, <<WriteOf("notice"), Counting>>, <<Counting>>,
                <<Opening, WriteOf("notice"), Counting, Resetting>>, <<WriteOf("notice"), Counting, Resetting>>,
                <<Counting, Resetting>>, <<Resetting>>}
AcceptCalls == {"setnonblocking", "epollAdd", "insertFilter"}

Stages == {"idle", "write", "decide", "turn", "reopen", "accept"}

\* A thread has begun k of its jobs, and has the calls of rest to make for the last of them.
Position(jobs, p) ==
  /\ p \in [k : 0 .. Len(jobs), stage : Stages, rest : Seq(Calls)]
  /\ p.stage = "idle" => p.rest = <<>>
  /\ p.stage \in {"write", "decide", "turn", "reopen"} => p.k > 0 /\ jobs[p.k].do = "log"
  /\ p.stage = "write" => p.rest \in Writing(jobs[p.k].line)
  /\ p.stage = "decide" => p.rest \in Deciding(jobs[p.k].line)
  /\ p.stage = "turn" => p.rest \in Turning
  /\ p.stage = "reopen" => p.rest \in Reopening
  /\ p.stage = "accept" => p.rest # <<>> /\ \A i \in 1 .. Len(p.rest) : p.rest[i].do \in AcceptCalls

Later(jobs, k) == SubSeq(jobs, k + 1, Len(jobs))

At(jobs, calls, p) == Position(jobs, p) /\ calls = p.rest \o Later(jobs, p.k)

\* What a thread has begun k of its jobs has still before it.
LEMMA LaterType ==
  ASSUME NEW jobs \in Seq(LogJobs), NEW k \in 0 .. Len(jobs)
  PROVE  /\ Later(jobs, k) \in Seq(Calls) /\ Len(Later(jobs, k)) = Len(jobs) - k
         /\ k < Len(jobs) => /\ Later(jobs, k) # <<>> /\ Head(Later(jobs, k)) = jobs[k + 1]
                             /\ Tail(Later(jobs, k)) = Later(jobs, k + 1)
<1>1. LogJobs \subseteq Calls
  BY DEF Calls
<1> HIDE DEF Calls
<1>2. jobs \in Seq(Calls)
  BY <1>1
<1>3. Later(jobs, k) \in Seq(Calls) /\ Len(Later(jobs, k)) = Len(jobs) - k
  BY <1>2, FirstAndRest DEF Later
<1>4. ASSUME k < Len(jobs)
      PROVE  /\ Later(jobs, k) # <<>> /\ Head(Later(jobs, k)) = jobs[k + 1]
             /\ Tail(Later(jobs, k)) = Later(jobs, k + 1)
  <2>1. Len(jobs) \in Nat
    OBVIOUS
  <2> DEFINE a == Later(jobs, k)
             b == Later(jobs, k + 1)
  <2>2. a # <<>> /\ Head(a) = jobs[k + 1]
    BY <1>2, <1>3, <1>4, <2>1 DEF Later
  <2>3. /\ Tail(a) \in Seq(Calls) /\ Len(Tail(a)) = Len(jobs) - k - 1
        /\ \A i \in 1 .. Len(jobs) - k - 1 : Tail(a)[i] = jobs[k + 1 + i]
    BY <1>2, <1>3, <1>4, <2>1, <2>2 DEF Later
  <2>4. /\ b \in Seq(Calls) /\ Len(b) = Len(jobs) - k - 1
        /\ \A i \in 1 .. Len(jobs) - k - 1 : b[i] = jobs[k + 1 + i]
    BY <1>2, <1>4, <2>1, FirstAndRest DEF Later
  <2> HIDE DEF a, b
  <2>5. Tail(a) = b
    BY <2>3, <2>4, SeqEqual
  <2>6. QED
    BY <2>2, <2>5 DEF a, b
<1>5. QED
  BY <1>3, <1>4

\* Lists of calls are joined in any grouping.
LEMMA RegroupCalls ==
  \A u, v, w \in Seq(Calls) : u \o (v \o w) = (u \o v) \o w
BY ConcatAssociative

\* The call a thread makes next, and its list when that call has put others in front.
LEMMA NextInJob ==
  ASSUME NEW jobs \in Seq(LogJobs), NEW calls, NEW p, At(jobs, calls, p), p.rest # <<>>,
         NEW then \in Seq(Calls)
  PROVE  /\ Head(calls) = p.rest[1]
         /\ then \o Tail(calls) = (then \o Tail(p.rest)) \o Later(jobs, p.k)
<1> DEFINE a == p.rest
           k == p.k
           b == Later(jobs, k)
<1>1. a \in Seq(Calls) /\ k \in 0 .. Len(jobs) /\ calls = a \o b
  BY DEF At, Position
<1>2. b \in Seq(Calls)
  BY <1>1, LaterType
<1>3. a # <<>>
  OBVIOUS
<1> HIDE DEF a, b, k, Calls
<1>4. Head(calls) = a[1] /\ Tail(calls) = Tail(a) \o b /\ Tail(a) \in Seq(Calls)
  BY <1>1, <1>2, <1>3
<1>5. then \o (Tail(a) \o b) = (then \o Tail(a)) \o b
  BY <1>2, <1>4, RegroupCalls
<1>6. QED
  BY <1>4, <1>5 DEF a, b, k

\* A thread that has nothing left of a job takes the next one.
LEMMA NextJob ==
  ASSUME NEW jobs \in Seq(LogJobs), NEW calls, NEW p, At(jobs, calls, p), p.rest = <<>>, calls # <<>>
  PROVE  /\ p.k + 1 \in 1 .. Len(jobs) /\ Head(calls) = jobs[p.k + 1]
         /\ Tail(calls) = Later(jobs, p.k + 1)
<1> DEFINE k == p.k
           b == Later(jobs, k)
<1>1. k \in 0 .. Len(jobs) /\ Len(jobs) \in Nat /\ calls = p.rest \o b
  BY DEF At, Position
<1>2. /\ b \in Seq(Calls) /\ Len(b) = Len(jobs) - k
      /\ k < Len(jobs) => b # <<>> /\ Head(b) = jobs[k + 1] /\ Tail(b) = Later(jobs, k + 1)
  BY <1>1, LaterType
<1> HIDE DEF b, k, Calls
<1>3. calls = b
  BY <1>1, <1>2
<1>4. k < Len(jobs)
  BY <1>1, <1>2, <1>3
<1>5. k + 1 \in 1 .. Len(jobs)
  BY <1>1, <1>4
<1>6. Head(calls) = jobs[k + 1] /\ Tail(calls) = Later(jobs, k + 1)
  BY <1>2, <1>3, <1>4
<1>7. QED
  BY <1>5, <1>6 DEF k

-----------------------------------------------------------------------------
(* One call of a thread.                                                     *)

\* The calls of the Logger, by their names.
LEMMA PerformsLog ==
  ASSUME NEW m, NEW c
  PROVE  /\ c.do = "log" => Perform(m, c) = Log(m, c.line)
         /\ c.do = "writeLog" => Perform(m, c) = WriteLog(m, c.line)
         /\ c.do = "count" => Perform(m, c) = Count(m)
         /\ c.do = "switchLogs" => Perform(m, c) = SwitchLogs(m, c.line)
         /\ c.do = "setDay" => Perform(m, c) = SetDay(m)
         /\ c.do = "closeLog" => Perform(m, c) = CloseLog(m, c.line)
         /\ c.do = "renameLog" => Perform(m, c) = RenameLog(m, c.changed)
         /\ c.do = "openLog" => Perform(m, c) = OpenLog(m)
         /\ c.do = "resetSize" => Perform(m, c) = ResetSize(m)
         /\ c.do = "nextSecond" => Perform(m, c) = NextSecond(m)
BY DEF Perform, LogCalls, PerformLog

\* The calls of the start, by their names.
LEMMA PerformsStart ==
  ASSUME NEW m, NEW c
  PROVE  /\ c.do = "load" => Perform(m, c) = Load(m, c.order)
         /\ c.do = "loaded" => Perform(m, c) = Loaded(m, c.unit)
         /\ c.do = "create" => Perform(m, c) = Create(m, c.who)
         /\ c.do = "useUnit" => Perform(m, c) = UseUnit(m, c.unit)
         /\ c.do = "serve" => Perform(m, c) = Serve(m, c.who)
BY DEF Perform, LogCalls, StartCalls, PerformStart

\* The calls of the accept loop, by their names.
LEMMA PerformsAccept ==
  ASSUME NEW m, NEW c
  PROVE  /\ c.do = "accept" => Perform(m, c) = Accept(m, c.id)
         /\ c.do = "setnonblocking" => Perform(m, c) = SetNonblocking(m, c.fd)
         /\ c.do = "epollAdd" => Perform(m, c) = EpollAdd(m, c.fd)
         /\ c.do = "insertFilter" => Perform(m, c) = Then(InsertConnFilterMap(m, c.fd, c.id), <<>>)
<1>1. c.do = "accept" => Perform(m, c) = Accept(m, c.id)
  BY DEF Perform, LogCalls, StartCalls, PerformHandler
<1>2. c.do = "setnonblocking" => Perform(m, c) = SetNonblocking(m, c.fd)
  BY DEF Perform, LogCalls, StartCalls, PerformHandler
<1>3. c.do = "epollAdd" => Perform(m, c) = EpollAdd(m, c.fd)
  BY DEF Perform, LogCalls, StartCalls, PerformHandler
<1>4. c.do = "insertFilter" => Perform(m, c) = Then(InsertConnFilterMap(m, c.fd, c.id), <<>>)
  BY DEF Perform, LogCalls, StartCalls, PerformHandler
<1>5. QED
  BY <1>1, <1>2, <1>3, <1>4

\* Short lists of calls, joined.
LEMMA JoinTwoOne ==
  ASSUME NEW x \in Calls, NEW y \in Calls, NEW z \in Calls
  PROVE  <<x, y>> \o <<z>> = <<x, y, z>>
<1> DEFINE a == <<x, y>> \o <<z>>
           b == <<x, y, z>>
<1>1. <<x, y>> \in Seq(Calls) /\ <<z>> \in Seq(Calls) /\ b \in Seq(Calls)
  OBVIOUS
<1>2. Len(a) = 3 /\ a \in Seq(Calls)
  BY <1>1
<1>3. \A i \in 1 .. 3 : a[i] = b[i]
  <2>1. a[1] = x /\ a[2] = y /\ a[3] = z
    BY <1>1
  <2>2. QED
    BY <2>1
<1>4. QED
  BY <1>1, <1>2, <1>3, SeqEqual

\* One call and two.
LEMMA JoinOneTwo ==
  ASSUME NEW x \in Calls, NEW y \in Calls, NEW z \in Calls
  PROVE  <<x>> \o <<y, z>> = <<x, y, z>>
<1> DEFINE a == <<x>> \o <<y, z>>
           b == <<x, y, z>>
<1>1. <<x>> \in Seq(Calls) /\ <<y, z>> \in Seq(Calls) /\ b \in Seq(Calls)
  OBVIOUS
<1>2. Len(a) = 3 /\ a \in Seq(Calls)
  BY <1>1
<1>3. \A i \in 1 .. 3 : a[i] = b[i]
  <2>1. a[1] = x /\ a[2] = y /\ a[3] = z
    BY <1>1
  <2>2. QED
    BY <2>1
<1>4. QED
  BY <1>1, <1>2, <1>3, SeqEqual

\* Three calls and one: the calls after a rename that worked.
LEMMA JoinThreeOne ==
  ASSUME NEW x \in Calls, NEW y \in Calls, NEW z \in Calls, NEW w \in Calls
  PROVE  <<x, y, z>> \o <<w>> = <<x, y, z, w>>
<1> DEFINE a == <<x, y, z>> \o <<w>>
           b == <<x, y, z, w>>
<1>1. <<x, y, z>> \in Seq(Calls) /\ <<w>> \in Seq(Calls) /\ b \in Seq(Calls)
  OBVIOUS
<1>2. Len(a) = 4 /\ a \in Seq(Calls)
  BY <1>1
<1>3. \A i \in 1 .. 4 : a[i] = b[i]
  <2>1. a[1] = x /\ a[2] = y /\ a[3] = z /\ a[4] = w
    BY <1>1
  <2>2. QED
    BY <2>1
<1>4. QED
  BY <1>1, <1>2, <1>3, SeqEqual

\* Nothing put in front.
LEMMA JoinNone ==
  \A s \in Seq(Calls) : <<>> \o s = s /\ s \o <<>> = s
BY ConcatEmptySeq

Same(m, n) == n.turned = m.turned /\ n.stamps = m.stamps

\* A thread begins its next job.
Begins(jobs, p, q, m, n) ==
  /\ p.stage = "idle" /\ q.k = p.k + 1 /\ Same(m, n)
  /\ q.stage = "write" \/ (q.stage \in {"idle", "accept"} /\ jobs[q.k].do # "log")

\* It goes on with a job, up to the end perhaps.
GoesOn(p, q, m, n) ==
  /\ q.k = p.k /\ Same(m, n)
  /\ q.stage = p.stage \/ (p.stage \in {"decide", "reopen", "accept"} /\ q.stage = "idle")

\* The line is written.
Writes(jobs, p, q, m, n) ==
  /\ p.stage = "write" /\ q.stage = "decide" /\ q.k = p.k /\ Same(m, n)
  /\ m.turned = {} => jobs[p.k].line \in n.lines[1]

\* The log is rotated.
Closes(jobs, p, q, m, n) ==
  /\ p.stage = "decide" /\ q.stage = "turn" /\ q.k = p.k
  /\ n.turned = m.turned \union {jobs[p.k].line} /\ n.stamps = m.stamps
Renames(p, q, m, n) ==
  /\ p.stage = "turn" /\ q.stage = "reopen" /\ q.k = p.k
  /\ n.turned = m.turned /\ Len(n.stamps) \in {Len(m.stamps), Len(m.stamps) + 1}

Moves(jobs, p, q, m, n) ==
  \/ Begins(jobs, p, q, m, n) \/ GoesOn(p, q, m, n) \/ Writes(jobs, p, q, m, n)
  \/ Closes(jobs, p, q, m, n) \/ Renames(p, q, m, n)

\* A thread's call in a scene of the log: what it does to the log, and where it takes the thread.
Stepped(jobs, p, m, r, calls) ==
  /\ LogKept(r.mem) /\ Grows(m, r.mem)
  /\ \E q : At(jobs, calls, q) /\ Moves(jobs, p, q, m, r.mem)

\* The calls of a LOG are calls.
LEMMA CallTypes ==
  /\ \A l \in Texts : WriteOf(l) \in Calls /\ SwitchOf(l) \in Calls /\ CloseOf(l) \in Calls
  /\ Counting \in Calls /\ DayOf \in Calls /\ Opening \in Calls /\ Resetting \in Calls
  /\ \A b \in BOOLEAN : RenameOf(b) \in Calls
  /\ "notice" \in Texts
<1>1. "notice" \in Texts
  BY DEF Texts
<1>2. \A l \in Texts : WriteOf(l) \in Calls /\ SwitchOf(l) \in Calls /\ CloseOf(l) \in Calls
  BY DEF Calls, WriteOf, SwitchOf, CloseOf
<1>3. Counting \in Calls /\ DayOf \in Calls /\ Opening \in Calls /\ Resetting \in Calls
  BY DEF Calls, Counting, DayOf, Opening, Resetting
<1>4. \A b \in BOOLEAN : RenameOf(b) \in Calls
  BY DEF Calls, RenameOf
<1>5. QED
  BY <1>1, <1>2, <1>3, <1>4

\* A job of a thread that logs.
LEMMA JobType ==
  ASSUME NEW jobs \in Seq(LogJobs), NEW k \in 1 .. Len(jobs)
  PROVE  LET c == jobs[k]
         IN  /\ c \in LogJobs /\ c \in Calls
             /\ c.do \in {"log", "accept", "nextSecond"}
             /\ c.do = "log" => c.line \in Texts
             /\ c.do = "accept" => c.id \in Devices
<1>1. jobs[k] \in LogJobs
  OBVIOUS
<1>2. QED
  BY <1>1 DEF LogJobs, Calls, Texts

\* The number accept takes; Min of no number at all is some value too.
LEMMA AcceptNumber ==
  ASSUME NEW m
  PROVE  Min(FreeFds(m)) \in Numbers
<1>1. FreeFds(m) \subseteq Fds /\ Fds \subseteq Nat
  BY SharedAssumption DEF FreeFds
<1>2. CASE FreeFds(m) = {}
  BY <1>2 DEF Numbers
<1>3. CASE FreeFds(m) # {}
  BY <1>1, <1>3, MinInSet DEF Numbers
<1>4. QED
  BY <1>2, <1>3

\* What a call put in front is what comes next of the job.
LEMMA Continues ==
  ASSUME NEW jobs \in Seq(LogJobs), NEW calls, NEW p, At(jobs, calls, p), calls # <<>>,
         NEW then \in Seq(Calls), NEW q, Position(jobs, q),
         \/ p.rest # <<>> /\ q.k = p.k /\ q.rest = then \o Tail(p.rest)
         \/ p.rest = <<>> /\ q.k = p.k + 1 /\ q.rest = then
  PROVE  At(jobs, then \o Tail(calls), q)
<1>1. CASE p.rest # <<>> /\ q.k = p.k /\ q.rest = then \o Tail(p.rest)
  <2>1. then \o Tail(calls) = (then \o Tail(p.rest)) \o Later(jobs, p.k)
    BY <1>1, NextInJob
  <2>2. QED
    BY <1>1, <2>1 DEF At
<1>2. CASE p.rest = <<>> /\ q.k = p.k + 1 /\ q.rest = then
  <2>1. then \o Tail(calls) = then \o Later(jobs, p.k + 1)
    BY <1>2, NextJob
  <2>2. QED
    BY <1>2, <2>1 DEF At
<1>3. QED
  BY <1>1, <1>2

\* A call that touches neither the files nor the Logger.
LEMMA QuietCall ==
  ASSUME NEW m, LogKept(m), NEW n, Leaves(m, n), Same(m, n), n.now \in Times,
         n.log = m.log, n.dir = m.dir, n.lines = m.lines, n.inode = m.inode
  PROVE  LogKept(n) /\ Grows(m, n)
<1>1. DOMAIN m.log = {"fd", "size", "last", "old"} /\ m.log.last \in Nat /\ m.log.old \in Nat
  BY DEF LogKept, LogTyped
<1>2. DOMAIN n = Fields /\ n.turned = m.turned /\ n.stamps = m.stamps
  BY DEF Leaves, Same
<1>3. QED
  BY <1>1, <1>2, QuietKeeps

\* A thread begins a job: a LOG call, an accept, or a second passes.
LEMMA BeginStep ==
  ASSUME NEW jobs \in Seq(LogJobs), NEW calls, NEW p, NEW m, At(jobs, calls, p), calls # <<>>,
         LogKept(m), p.stage = "idle",
         NEW r, r = Perform(m, Head(calls))
  PROVE  Stepped(jobs, p, m, r, r.then \o Tail(calls))
<1> DEFINE k == p.k + 1
           c == jobs[k]
<1>0. p.rest = <<>> /\ <<>> \in Seq(Calls)
  BY DEF At, Position
<1>1. k \in 1 .. Len(jobs) /\ Head(calls) = c
  BY <1>0, NextJob
<1> HIDE DEF k, c
<1>2. /\ c.do \in {"log", "accept", "nextSecond"}
      /\ c.do = "log" => c.line \in Texts
      /\ c.do = "accept" => c.id \in Devices
  BY <1>1, JobType DEF c
<1>3. CASE c.do = "log"
  <2> DEFINE l == c.line
             t == <<WriteOf(l), Counting, SwitchOf(l)>>
             q == [k |-> k, stage |-> "write", rest |-> t]
  <2>1. r = [mem |-> m, then |-> t]
    BY <1>1, <1>3, PerformsLog DEF Log, Then, WriteOf, Counting, SwitchOf
  <2>2. t \in Seq(Calls)
    BY <1>2, <1>3, CallTypes
  <2>3. Position(jobs, q)
    BY <1>1, <1>3, <2>2 DEF Position, Stages, Writing, c
  <2>4. At(jobs, r.then \o Tail(calls), q)
    <3> HIDE DEF t
    <3>1. r.then = t /\ q.k = p.k + 1 /\ q.rest = t
      BY <2>1 DEF k
    <3> HIDE DEF q
    <3>2. QED
      BY <1>0, <2>2, <2>3, <3>1, Continues
  <2>5. Begins(jobs, p, q, m, r.mem)
    BY <2>1 DEF Begins, Same, k
  <2>6. Grows(m, r.mem)
    BY <2>1 DEF Grows, LogKept, LogTyped
  <2>7. QED
    BY <2>1, <2>4, <2>5, <2>6 DEF Stepped, Moves
<1>4. CASE c.do = "accept"
  <2> DEFINE d == c.id
             fd == Min(FreeFds(m))
             n == [m EXCEPT !.peer[fd] = d]
             t == <<[do |-> "setnonblocking", fd |-> fd], [do |-> "epollAdd", fd |-> fd]>>
                  \o IF d \in Ids THEN <<[do |-> "insertFilter", fd |-> fd, id |-> d]>> ELSE <<>>
             q == [k |-> k, stage |-> "accept", rest |-> t]
  <2>1. r = [mem |-> n, then |-> t]
    BY <1>1, <1>4, PerformsAccept DEF Accept, Then
  <2>2. LogKept(n) /\ Grows(m, n) /\ Same(m, n)
    <3>1. DOMAIN m = Fields /\ m.now \in Times
      BY DEF LogKept, LogTyped
    <3>2. /\ Leaves(m, n) /\ LeavesFiles(m, n)
          /\ n.log = m.log /\ n.dir = m.dir /\ n.lines = m.lines /\ n.inode = m.inode
      <4> HIDE DEF fd, d
      <4>1. QED
        BY <3>1 DEF Fields, Leaves, LeavesFiles
    <3> HIDE DEF n
    <3>3. QED
      <4>1. Same(m, n) /\ n.now \in Times
        BY <3>1, <3>2 DEF LeavesFiles, Same
      <4>2. QED
        BY <3>2, <4>1, QuietCall
  <2>3. fd \in Numbers
    BY AcceptNumber
  <2> HIDE DEF fd, d
  <2>4. /\ [do |-> "setnonblocking", fd |-> fd] \in Calls /\ [do |-> "epollAdd", fd |-> fd] \in Calls
        /\ [do |-> "insertFilter", fd |-> fd, id |-> d] \in Calls
    BY <1>2, <1>4, <2>3 DEF Calls, d
  <2>5. t \in Seq(Calls) /\ t # <<>> /\ \A i \in 1 .. Len(t) : t[i].do \in AcceptCalls
    <3>1. CASE d \in Ids
      <4> DEFINE x == [do |-> "setnonblocking", fd |-> fd]
                 y == [do |-> "epollAdd", fd |-> fd]
                 z == [do |-> "insertFilter", fd |-> fd, id |-> d]
      <4>1. t = <<x, y, z>>
        <5>1. t = <<x, y>> \o <<z>>
          BY <3>1
        <5> HIDE DEF x, y, z, t
        <5>2. x \in Calls /\ y \in Calls /\ z \in Calls
          BY <2>4 DEF x, y, z
        <5>3. QED
          BY <5>1, <5>2, JoinTwoOne
      <4>2. QED
        BY <2>4, <4>1 DEF AcceptCalls
    <3>2. CASE d \notin Ids
      <4>1. t = <<[do |-> "setnonblocking", fd |-> fd], [do |-> "epollAdd", fd |-> fd]>>
        BY <3>2
      <4>2. QED
        BY <2>4, <4>1 DEF AcceptCalls
    <3>3. QED
      BY <3>1, <3>2
  <2> HIDE DEF t, n
  <2>6. Position(jobs, q)
    BY <1>1, <2>5 DEF Position, Stages
  <2>7. At(jobs, r.then \o Tail(calls), q)
    BY <1>0, <2>1, <2>5, <2>6, Continues DEF k
  <2>8. Begins(jobs, p, q, m, r.mem)
    BY <1>4, <2>1, <2>2 DEF Begins, k, c
  <2>9. QED
    BY <2>1, <2>2, <2>7, <2>8 DEF Stepped, Moves
<1>5. CASE c.do = "nextSecond"
  <2> DEFINE n == r.mem
             q == [k |-> k, stage |-> "idle", rest |-> <<>>]
  <2>1. r = NextSecond(m)
    BY <1>1, <1>5, PerformsLog
  <2>2. DOMAIN m = Fields /\ m.now \in [day : Nat \ {0}, second : Nat \ {0}]
    BY DEF LogKept, LogTyped, Times
  <2>3. /\ r.then = <<>> /\ Leaves(m, n) /\ n.turned = m.turned /\ n.stamps = m.stamps
        /\ n.now \in Times
        /\ n.log = m.log /\ n.dir = m.dir /\ n.lines = m.lines /\ n.inode = m.inode
    BY <2>1, <2>2, NextSecondLeaves DEF Times
  <2> HIDE DEF n
  <2>4. LogKept(n) /\ Grows(m, n) /\ Same(m, n)
    <3>1. Same(m, n)
      BY <2>3 DEF Same
    <3>2. QED
      BY <2>3, <3>1, QuietCall
  <2>5. Position(jobs, q)
    BY <1>0, <1>1 DEF Position, Stages
  <2>6. At(jobs, r.then \o Tail(calls), q)
    BY <1>0, <2>3, <2>5, Continues DEF k
  <2>7. Begins(jobs, p, q, m, n)
    BY <1>5, <2>4 DEF Begins, k, c
  <2>8. QED
    BY <2>4, <2>6, <2>7 DEF Stepped, Moves, n
<1>6. QED
  BY <1>2, <1>3, <1>4, <1>5

\* Lists of one to four calls: the next one, and what is left.
LEMMA OneLeft ==
  ASSUME NEW jobs \in Seq(LogJobs), NEW calls, NEW p, At(jobs, calls, p),
         NEW x \in Calls, p.rest = <<x>>
  PROVE  Head(calls) = x /\ p.rest # <<>> /\ Tail(p.rest) = <<>> /\ <<>> \in Seq(Calls)
<1> HIDE DEF Calls
<1>1. p.rest[1] = x /\ p.rest # <<>> /\ Tail(p.rest) = <<>> /\ <<>> \in Seq(Calls)
  OBVIOUS
<1>2. QED
  BY <1>1, NextInJob

\* Two calls left.
LEMMA TwoLeft ==
  ASSUME NEW jobs \in Seq(LogJobs), NEW calls, NEW p, At(jobs, calls, p),
         NEW x \in Calls, NEW y \in Calls, p.rest = <<x, y>>
  PROVE  Head(calls) = x /\ p.rest # <<>> /\ Tail(p.rest) = <<y>> /\ <<y>> \in Seq(Calls)
<1> HIDE DEF Calls
<1>1. p.rest[1] = x /\ p.rest # <<>> /\ Tail(p.rest) = <<y>> /\ <<y>> \in Seq(Calls) /\ <<>> \in Seq(Calls)
  OBVIOUS
<1>2. QED
  BY <1>1, NextInJob

\* Three calls left.
LEMMA ThreeLeft ==
  ASSUME NEW jobs \in Seq(LogJobs), NEW calls, NEW p, At(jobs, calls, p),
         NEW x \in Calls, NEW y \in Calls, NEW z \in Calls, p.rest = <<x, y, z>>
  PROVE  Head(calls) = x /\ p.rest # <<>> /\ Tail(p.rest) = <<y, z>> /\ <<y, z>> \in Seq(Calls)
<1> HIDE DEF Calls
<1>1. /\ p.rest[1] = x /\ p.rest # <<>> /\ Tail(p.rest) = <<y, z>> /\ <<y, z>> \in Seq(Calls)
      /\ <<>> \in Seq(Calls)
  OBVIOUS
<1>2. QED
  BY <1>1, NextInJob

\* Four calls left.
LEMMA FourLeft ==
  ASSUME NEW jobs \in Seq(LogJobs), NEW calls, NEW p, At(jobs, calls, p),
         NEW x \in Calls, NEW y \in Calls, NEW z \in Calls, NEW w \in Calls, p.rest = <<x, y, z, w>>
  PROVE  Head(calls) = x /\ p.rest # <<>> /\ Tail(p.rest) = <<y, z, w>> /\ <<y, z, w>> \in Seq(Calls)
<1> HIDE DEF Calls
<1>1. /\ p.rest[1] = x /\ p.rest # <<>> /\ Tail(p.rest) = <<y, z, w>> /\ <<y, z, w>> \in Seq(Calls)
      /\ <<>> \in Seq(Calls)
  OBVIOUS
<1>2. QED
  BY <1>1, NextInJob

\* A call that puts nothing in front.
LEMMA RestContinues ==
  ASSUME NEW jobs \in Seq(LogJobs), NEW calls, NEW p, At(jobs, calls, p), calls # <<>>, p.rest # <<>>,
         NEW t \in Seq(Calls), t = Tail(p.rest),
         NEW q, Position(jobs, q), q.k = p.k, q.rest = t
  PROVE  At(jobs, <<>> \o Tail(calls), q)
<1> HIDE DEF Calls
<1>1. <<>> \o t = t /\ <<>> \in Seq(Calls)
  BY JoinNone
<1>2. q.rest = <<>> \o Tail(p.rest)
  BY <1>1
<1>3. QED
  BY <1>1, <1>2, Continues

\* The line is written.
LEMMA WriteStep ==
  ASSUME NEW jobs \in Seq(LogJobs), NEW calls, NEW p, NEW m, At(jobs, calls, p), calls # <<>>,
         LogKept(m), p.stage = "write",
         NEW r, r = Perform(m, Head(calls))
  PROVE  Stepped(jobs, p, m, r, r.then \o Tail(calls))
<1> DEFINE k == p.k
           l == jobs[k].line
           t == <<Counting, SwitchOf(l)>>
           q == [k |-> k, stage |-> "decide", rest |-> t]
<1>1. /\ k \in 1 .. Len(jobs) /\ k \in 0 .. Len(jobs) /\ jobs[k].do = "log"
      /\ p.rest = <<WriteOf(l), Counting, SwitchOf(l)>>
  BY DEF At, Position, Writing
<1>2. l \in Texts
  BY <1>1, JobType
<1> HIDE DEF l, k
<1>2a. WriteOf(l) \in Calls /\ Counting \in Calls /\ SwitchOf(l) \in Calls
  BY <1>2, CallTypes
<1>3. Head(calls) = WriteOf(l) /\ Tail(p.rest) = t /\ p.rest # <<>> /\ t \in Seq(Calls)
  BY <1>1, <1>2a, ThreeLeft
<1>4. r = WriteLog(m, l)
  BY <1>3, PerformsLog DEF WriteOf
<1>5. r.then = <<>> /\ Same(m, r.mem)
  <2>1. DOMAIN m = Fields
    BY DEF LogKept, LogTyped
  <2>2. r.then = <<>> /\ LeavesFiles(m, r.mem)
    BY <1>4, <2>1, WriteLogLeaves
  <2>3. QED
    BY <2>2 DEF LeavesFiles, Same
<1>6. LogKept(r.mem) /\ Grows(m, r.mem) /\ (m.turned = {} => l \in r.mem.lines[1])
  BY <1>2, <1>4, WriteKeeps
<1>7. Position(jobs, q)
  BY <1>1, <1>3 DEF Position, Stages, Deciding, l
<1>8. At(jobs, r.then \o Tail(calls), q)
  <2> HIDE DEF t
  <2>1. q.k = p.k /\ q.rest = t
    BY DEF k
  <2> HIDE DEF q
  <2>2. QED
    BY <1>3, <1>5, <1>7, <2>1, RestContinues
<1>9. Writes(jobs, p, q, m, r.mem)
  BY <1>5, <1>6 DEF Writes, k, l
<1>10. QED
  BY <1>6, <1>8, <1>9 DEF Stepped, Moves

\* A call between the writing of a line and the closing of the log.
LEMMA CountStep ==
  ASSUME NEW jobs \in Seq(LogJobs), NEW calls, NEW p, NEW m, At(jobs, calls, p), calls # <<>>,
         LogKept(m), p.stage = "decide",
         NEW l \in Texts, l = jobs[p.k].line,
         p.rest = <<Counting, SwitchOf(l)>> \/ \E b \in BOOLEAN : p.rest = <<DayOf, CloseOf(l), RenameOf(b)>>,
         NEW r, r = Perform(m, Head(calls))
  PROVE  Stepped(jobs, p, m, r, r.then \o Tail(calls))
<1> DEFINE k == p.k
           t == Tail(p.rest)
           q == [k |-> k, stage |-> "decide", rest |-> t]
<1>1. k \in 0 .. Len(jobs) /\ k > 0 /\ jobs[k].do = "log"
  BY DEF At, Position
<1>2. Head(calls) \in {Counting, DayOf} /\ p.rest # <<>> /\ t \in Deciding(l) /\ t \in Seq(Calls)
  <2>1. CASE p.rest = <<Counting, SwitchOf(l)>>
    <3>1. Counting \in Calls /\ SwitchOf(l) \in Calls
      BY CallTypes
    <3>2. Head(calls) = Counting /\ p.rest # <<>> /\ t = <<SwitchOf(l)>> /\ <<SwitchOf(l)>> \in Seq(Calls)
      BY <2>1, <3>1, TwoLeft
    <3> HIDE DEF t, Calls
    <3>3. QED
      BY <3>2 DEF Deciding
  <2>2. CASE \E b \in BOOLEAN : p.rest = <<DayOf, CloseOf(l), RenameOf(b)>>
    <3>1. PICK b \in BOOLEAN : p.rest = <<DayOf, CloseOf(l), RenameOf(b)>>
      BY <2>2
    <3>2. DayOf \in Calls /\ CloseOf(l) \in Calls /\ RenameOf(b) \in Calls
      BY CallTypes
    <3>3. /\ Head(calls) = DayOf /\ p.rest # <<>> /\ t = <<CloseOf(l), RenameOf(b)>>
          /\ <<CloseOf(l), RenameOf(b)>> \in Seq(Calls)
      BY <3>1, <3>2, ThreeLeft
    <3> HIDE DEF t, Calls
    <3>4. <<CloseOf(l), RenameOf(b)>> \in Deciding(l)
      BY DEF Deciding
    <3>5. QED
      BY <3>3, <3>4
  <2>3. QED
    BY <2>1, <2>2
<1>3. r \in {Count(m), SetDay(m), ResetSize(m)}
  BY <1>2, PerformsLog DEF Counting, DayOf
<1>4. LogKept(r.mem) /\ Grows(m, r.mem) /\ Same(m, r.mem)
  BY <1>3, CountKeeps DEF Same
<1>5. r.then = <<>>
  BY <1>3, CountLeaves DEF LogKept, LogTyped
<1> HIDE DEF t, k
<1>6. Position(jobs, q)
  BY <1>1, <1>2 DEF Position, Stages, k
<1>7. At(jobs, r.then \o Tail(calls), q)
  <2>1. q.k = p.k /\ q.rest = t /\ t = Tail(p.rest)
    BY DEF k, t
  <2> HIDE DEF q
  <2>2. QED
    BY <1>2, <1>5, <1>6, <2>1, RestContinues
<1>8. GoesOn(p, q, m, r.mem)
  BY <1>4 DEF GoesOn, k
<1>9. QED
  BY <1>4, <1>7, <1>8 DEF Stepped, Moves

\* What switchLogs puts in front.
LEMMA Switches ==
  ASSUME NEW m, NEW l \in Texts
  PROVE  LET b == m.log.last # m.now.day
             r == SwitchLogs(m, l)
         IN  r.mem = m /\ r.then \in {<<>>, <<DayOf, CloseOf(l), RenameOf(b)>>, <<CloseOf(l), RenameOf(b)>>}
<1> DEFINE b == m.log.last # m.now.day
           f == m.log.size >= MaxSize
           x == DayOf
           y == CloseOf(l)
           z == RenameOf(b)
           r == SwitchLogs(m, l)
<1>1. r.mem = m /\ r.then = (IF b THEN <<x>> ELSE <<>>) \o (IF b \/ f THEN <<y, z>> ELSE <<>>)
  BY DEF SwitchLogs, Then, DayOf, CloseOf, RenameOf
<1>2. b \in BOOLEAN
  OBVIOUS
<1> HIDE DEF b, f, r
<1>3. x \in Calls /\ y \in Calls /\ z \in Calls
  BY <1>2, CallTypes
<1> HIDE DEF x, y, z, Calls
<1>4. <<>> \in Seq(Calls) /\ <<y, z>> \in Seq(Calls)
  BY <1>3
<1>5. r.then \in {<<>>, <<x, y, z>>, <<y, z>>}
  <2>1. CASE b
    <3>1. r.then = <<x>> \o <<y, z>>
      BY <1>1, <2>1
    <3>2. QED
      BY <1>3, <3>1, JoinOneTwo
  <2>2. CASE ~b /\ f
    <3>1. r.then = <<>> \o <<y, z>>
      BY <1>1, <2>2
    <3>2. QED
      BY <1>4, <3>1, JoinNone
  <2>3. CASE ~b /\ ~f
    <3>1. r.then = <<>> \o <<>>
      BY <1>1, <2>3
    <3>2. QED
      BY <1>4, <3>1, JoinNone
  <2>4. QED
    BY <2>1, <2>2, <2>3
<1>6. QED
  BY <1>1, <1>5 DEF b, r, x, y, z

\* switchLogs decides whether the LOG call rotates the log.
LEMMA SwitchStep ==
  ASSUME NEW jobs \in Seq(LogJobs), NEW calls, NEW p, NEW m, At(jobs, calls, p), calls # <<>>,
         LogKept(m), p.stage = "decide",
         NEW l \in Texts, l = jobs[p.k].line, p.rest = <<SwitchOf(l)>>,
         NEW r, r = Perform(m, Head(calls))
  PROVE  Stepped(jobs, p, m, r, r.then \o Tail(calls))
<1> DEFINE k == p.k
           b == m.log.last # m.now.day
           t == r.then
           s == IF t = <<>> THEN "idle" ELSE "decide"
           q == [k |-> k, stage |-> s, rest |-> t]
<1>1. k \in 0 .. Len(jobs) /\ k > 0 /\ jobs[k].do = "log"
  BY DEF At, Position
<1>2. Head(calls) = SwitchOf(l) /\ p.rest # <<>> /\ Tail(p.rest) = <<>> /\ <<>> \in Seq(Calls)
  BY OneLeft, CallTypes
<1>3. r = SwitchLogs(m, l)
  BY <1>2, PerformsLog DEF SwitchOf
<1>4. r.mem = m /\ t \in {<<>>, <<DayOf, CloseOf(l), RenameOf(b)>>, <<CloseOf(l), RenameOf(b)>>}
  BY <1>3, Switches
<1>5. b \in BOOLEAN
  OBVIOUS
<1> HIDE DEF b, t
<1>6. DayOf \in Calls /\ CloseOf(l) \in Calls /\ RenameOf(b) \in Calls
  BY <1>5, CallTypes
<1>7. t \in Seq(Calls)
  <2> HIDE DEF Calls
  <2>1. <<DayOf, CloseOf(l), RenameOf(b)>> \in Seq(Calls) /\ <<CloseOf(l), RenameOf(b)>> \in Seq(Calls)
    BY <1>6
  <2>2. QED
    BY <1>2, <1>4, <2>1
<1>8. t # <<>> => t \in Deciding(l)
  BY <1>4, <1>5 DEF Deciding
<1> HIDE DEF k
<1>9. Position(jobs, q)
  BY <1>1, <1>7, <1>8 DEF Position, Stages, k
<1>10. At(jobs, r.then \o Tail(calls), q)
  <2>1. q.k = p.k /\ q.rest = t /\ r.then = t
    BY DEF k, t
  <2> HIDE DEF q
  <2>2. t \o <<>> = t
    BY <1>7, JoinNone
  <2>3. q.rest = t \o Tail(p.rest)
    BY <1>2, <2>1, <2>2
  <2>4. QED
    BY <1>2, <1>7, <1>9, <2>1, <2>3, Continues
<1>11. GoesOn(p, q, m, r.mem)
  BY <1>4 DEF GoesOn, Same, k
<1>12. Grows(m, r.mem)
  BY <1>4 DEF Grows, LogKept, LogTyped
<1>13. QED
  BY <1>4, <1>10, <1>11, <1>12 DEF Stepped, Moves

\* What closeLog does to the history.
LEMMA CloseTurns ==
  ASSUME NEW m, LogKept(m), NEW line
  PROVE  LET r == CloseLog(m, line)
         IN  r.then = <<>> /\ r.mem.turned = m.turned \union {line} /\ r.mem.stamps = m.stamps
<1> DEFINE r == CloseLog(m, line)
           fd == m.log.fd
<1>1. DOMAIN m = Fields /\ m.inode \in [Fds -> 0 .. Len(m.lines)] /\ m.inode \in [Fds -> Nat]
  BY DEF LogKept, LogTyped
<1>2. /\ r.then = <<>> /\ r.mem.turned = m.turned \union {line} /\ r.mem.stamps = m.stamps
      /\ r.mem.inode = IF fd \in Fds THEN [m.inode EXCEPT ![fd] = Null] ELSE m.inode
  BY <1>1, CloseLogLeaves DEF Leaves
<1> HIDE DEF r
<1>3. QED
  BY <1>2 DEF r

\* The log is closed.
LEMMA CloseStep ==
  ASSUME NEW jobs \in Seq(LogJobs), NEW calls, NEW p, NEW m, At(jobs, calls, p), calls # <<>>,
         LogKept(m), p.stage = "decide",
         NEW l \in Texts, l = jobs[p.k].line, NEW b \in BOOLEAN, p.rest = <<CloseOf(l), RenameOf(b)>>,
         NEW r, r = Perform(m, Head(calls))
  PROVE  Stepped(jobs, p, m, r, r.then \o Tail(calls))
<1> DEFINE k == p.k
           t == <<RenameOf(b)>>
           q == [k |-> k, stage |-> "turn", rest |-> t]
<1>1. k \in 0 .. Len(jobs) /\ k > 0 /\ jobs[k].do = "log"
  BY DEF At, Position
<1>2. Head(calls) = CloseOf(l) /\ p.rest # <<>> /\ Tail(p.rest) = t /\ t \in Seq(Calls)
  BY TwoLeft, CallTypes
<1>3. r = CloseLog(m, l)
  BY <1>2, PerformsLog DEF CloseOf
<1>4. LogKept(r.mem) /\ Grows(m, r.mem)
  BY <1>3, CloseKeeps
<1>5. r.then = <<>> /\ r.mem.turned = m.turned \union {l} /\ r.mem.stamps = m.stamps
  BY <1>3, CloseTurns
<1> HIDE DEF k
<1>6. Position(jobs, q)
  BY <1>1, <1>2 DEF Position, Stages, Turning, k
<1>7. At(jobs, r.then \o Tail(calls), q)
  <2> HIDE DEF t
  <2>1. q.k = p.k /\ q.rest = t
    BY DEF k
  <2> HIDE DEF q
  <2>2. QED
    BY <1>2, <1>5, <1>6, <2>1, RestContinues
<1>8. Closes(jobs, p, q, m, r.mem)
  BY <1>5 DEF Closes, k
<1>9. QED
  BY <1>4, <1>7, <1>8 DEF Stepped, Moves

\* Whatever a LOG call does between its write and closeLog.
LEMMA DecideStep ==
  ASSUME NEW jobs \in Seq(LogJobs), NEW calls, NEW p, NEW m, At(jobs, calls, p), calls # <<>>,
         LogKept(m), p.stage = "decide",
         NEW r, r = Perform(m, Head(calls))
  PROVE  Stepped(jobs, p, m, r, r.then \o Tail(calls))
<1> DEFINE l == jobs[p.k].line
<1>1. l \in Texts
  BY JobType DEF At, Position
<1>2. p.rest \in Deciding(l)
  BY DEF At, Position
<1> HIDE DEF l
<1>3. l = jobs[p.k].line
  BY DEF l
<1>4. CASE p.rest = <<Counting, SwitchOf(l)>> \/ \E b \in BOOLEAN : p.rest = <<DayOf, CloseOf(l), RenameOf(b)>>
  BY <1>1, <1>3, <1>4, CountStep
<1>5. CASE p.rest = <<SwitchOf(l)>>
  BY <1>1, <1>3, <1>5, SwitchStep
<1>6. CASE \E b \in BOOLEAN : p.rest = <<CloseOf(l), RenameOf(b)>>
  BY <1>1, <1>3, <1>6, CloseStep
<1>7. QED
  BY <1>2, <1>4, <1>5, <1>6 DEF Deciding

\* What renameLog puts in front.
LEMMA Reopens ==
  ASSUME NEW m, LogKept(m), NEW b
  PROVE  LET r == RenameLog(m, b)
         IN  /\ r.then \in Reopening /\ r.then \in Seq(Calls)
             /\ r.mem.turned = m.turned /\ Len(r.mem.stamps) \in {Len(m.stamps), Len(m.stamps) + 1}
<1> DEFINE r == RenameLog(m, b)
           x == Opening
           y == WriteOf("notice")
           z == Counting
           w == Resetting
           st == Stamp(m, b)
<1>1. DOMAIN m = Fields /\ m.stamps \in Seq(Nat \X Nat)
  BY DEF LogKept, LogTyped
<1>2. /\ r.mem.turned = m.turned
      /\ \/ r.then = Reopen /\ r.mem.stamps = m.stamps
         \/ r.then = Reopen \o Reset /\ r.mem.stamps = Append(m.stamps, st)
  BY <1>1, RenameLogLeaves
<1> HIDE DEF r, st
<1>3. Len(r.mem.stamps) \in {Len(m.stamps), Len(m.stamps) + 1}
  <2>1. Len(Append(m.stamps, st)) = Len(m.stamps) + 1
    BY <1>1
  <2>2. QED
    BY <1>2, <2>1
<1>4. x \in Calls /\ y \in Calls /\ z \in Calls /\ w \in Calls
  BY CallTypes
<1>5. Reopen = <<x, y, z>> /\ Reset = <<w>>
  BY DEF Reopen, Reset, Opening, WriteOf, Counting, Resetting
<1>6. <<x, y, z>> \in Reopening /\ <<x, y, z, w>> \in Reopening
  BY DEF Reopening
<1> HIDE DEF x, y, z, w, Calls, Reopening
<1>7. <<x, y, z>> \o <<w>> = <<x, y, z, w>>
  BY <1>4, JoinThreeOne
<1>8. r.then \in {<<x, y, z>>, <<x, y, z, w>>}
  BY <1>2, <1>5, <1>7
<1>9. <<x, y, z>> \in Seq(Calls) /\ <<x, y, z, w>> \in Seq(Calls)
  BY <1>4
<1>10. r.then \in Reopening /\ r.then \in Seq(Calls)
  BY <1>6, <1>8, <1>9
<1>11. QED
  BY <1>2, <1>3, <1>10 DEF r

\* The log is renamed.
LEMMA TurnStep ==
  ASSUME NEW jobs \in Seq(LogJobs), NEW calls, NEW p, NEW m, At(jobs, calls, p), calls # <<>>,
         LogKept(m), p.stage = "turn",
         NEW r, r = Perform(m, Head(calls))
  PROVE  Stepped(jobs, p, m, r, r.then \o Tail(calls))
<1> DEFINE k == p.k
           t == r.then
           q == [k |-> k, stage |-> "reopen", rest |-> t]
<1>1. k \in 0 .. Len(jobs) /\ k > 0 /\ jobs[k].do = "log" /\ p.rest \in Turning
  BY DEF At, Position
<1>2. PICK b \in BOOLEAN : p.rest = <<RenameOf(b)>>
  BY <1>1 DEF Turning
<1>3. Head(calls) = RenameOf(b) /\ p.rest # <<>> /\ Tail(p.rest) = <<>>
  BY <1>2, OneLeft, CallTypes
<1>4. r = RenameLog(m, b)
  BY <1>3, PerformsLog DEF RenameOf
<1>5. LogKept(r.mem) /\ Grows(m, r.mem)
  BY <1>4, RenameKeeps
<1>6. /\ t \in Reopening /\ t \in Seq(Calls)
      /\ r.mem.turned = m.turned /\ Len(r.mem.stamps) \in {Len(m.stamps), Len(m.stamps) + 1}
  BY <1>4, Reopens
<1> HIDE DEF k, t
<1>7. Position(jobs, q)
  BY <1>1, <1>6 DEF Position, Stages, k
<1>8. At(jobs, r.then \o Tail(calls), q)
  <2>1. q.k = p.k /\ q.rest = t /\ r.then = t
    BY DEF k, t
  <2> HIDE DEF q
  <2>2. t \o <<>> = t
    BY <1>6, JoinNone
  <2>3. q.rest = t \o Tail(p.rest)
    BY <1>3, <2>1, <2>2
  <2>4. QED
    BY <1>3, <1>6, <1>7, <2>1, <2>3, Continues
<1>9. Renames(p, q, m, r.mem)
  BY <1>6 DEF Renames, k
<1>10. QED
  BY <1>5, <1>8, <1>9 DEF Stepped, Moves

\* The calls that follow a rotation: none touches its history, and none puts another in front.
LEMMA ReopenCall ==
  ASSUME NEW m, LogKept(m), m.turned # {},
         NEW c \in {Opening, WriteOf("notice"), Counting, Resetting}, NEW r, r = Perform(m, c)
  PROVE  r.then = <<>> /\ LogKept(r.mem) /\ Grows(m, r.mem) /\ Same(m, r.mem)
<1>1. DOMAIN m = Fields /\ DOMAIN m.log = {"fd", "size", "last", "old"}
  BY DEF LogKept, LogTyped
<1>2. CASE c = Opening
  <2>1. r = OpenLog(m)
    BY <1>2, PerformsLog DEF Opening
  <2>2. LogKept(r.mem) /\ Grows(m, r.mem)
    BY <2>1, OpenKeeps
  <2>3. r.then = <<>> /\ LeavesFiles(m, r.mem)
    BY <1>1, <2>1, OpenLogLeaves
  <2>4. QED
    BY <2>2, <2>3 DEF LeavesFiles, Same
<1>3. CASE c = WriteOf("notice")
  <2>1. r = WriteLog(m, "notice")
    BY <1>3, PerformsLog DEF WriteOf
  <2>2. LogKept(r.mem) /\ Grows(m, r.mem)
    BY <2>1, WriteKeeps, CallTypes
  <2>3. r.then = <<>> /\ LeavesFiles(m, r.mem)
    BY <1>1, <2>1, WriteLogLeaves
  <2>4. QED
    BY <2>2, <2>3 DEF LeavesFiles, Same
<1>4. CASE c \in {Counting, Resetting}
  <2>1. r \in {Count(m), SetDay(m), ResetSize(m)}
    BY <1>4, PerformsLog DEF Counting, Resetting
  <2>2. QED
    BY <1>1, <2>1, CountKeeps, CountLeaves DEF Same
<1>5. QED
  BY <1>2, <1>3, <1>4

\* Of the calls that follow a rename, the next and what is left.
LEMMA ReopenLeft ==
  ASSUME NEW jobs \in Seq(LogJobs), NEW calls, NEW p, At(jobs, calls, p), p.rest \in Reopening
  PROVE  /\ Head(calls) \in {Opening, WriteOf("notice"), Counting, Resetting} /\ p.rest # <<>>
         /\ Tail(p.rest) \in Seq(Calls) /\ (Tail(p.rest) = <<>> \/ Tail(p.rest) \in Reopening)
<1> DEFINE x == Opening
           y == WriteOf("notice")
           z == Counting
           w == Resetting
           t == Tail(p.rest)
<1>1. x \in Calls /\ y \in Calls /\ z \in Calls /\ w \in Calls
  BY CallTypes
<1>2. \/ p.rest = <<x, y, z>> \/ p.rest = <<y, z>> \/ p.rest = <<z>>
      \/ p.rest = <<x, y, z, w>> \/ p.rest = <<y, z, w>> \/ p.rest = <<z, w>> \/ p.rest = <<w>>
  BY DEF Reopening
<1>3. /\ <<y, z>> \in Reopening /\ <<z>> \in Reopening
      /\ <<y, z, w>> \in Reopening /\ <<z, w>> \in Reopening /\ <<w>> \in Reopening
  BY DEF Reopening
<1> HIDE DEF x, y, z, w, Calls, Reopening
<1>4. Head(calls) \in {x, y, z, w} /\ p.rest # <<>> /\ t \in Seq(Calls) /\ (t = <<>> \/ t \in Reopening)
  <2>1. CASE p.rest = <<x, y, z>>
    BY <1>1, <1>3, <2>1, ThreeLeft
  <2>2. CASE p.rest = <<y, z, w>>
    BY <1>1, <1>3, <2>2, ThreeLeft
  <2>3. CASE p.rest = <<y, z>>
    BY <1>1, <1>3, <2>3, TwoLeft
  <2>4. CASE p.rest = <<z, w>>
    BY <1>1, <1>3, <2>4, TwoLeft
  <2>5. CASE p.rest = <<z>>
    BY <1>1, <2>5, OneLeft
  <2>6. CASE p.rest = <<w>>
    BY <1>1, <2>6, OneLeft
  <2>7. CASE p.rest = <<x, y, z, w>>
    BY <1>1, <1>3, <2>7, FourLeft
  <2>8. QED
    BY <1>2, <2>1, <2>2, <2>3, <2>4, <2>5, <2>6, <2>7
<1>5. QED
  BY <1>4 DEF x, y, z, w

\* The log is opened again, and its first line written.
LEMMA ReopenStep ==
  ASSUME NEW jobs \in Seq(LogJobs), NEW calls, NEW p, NEW m, At(jobs, calls, p), calls # <<>>,
         LogKept(m), p.stage = "reopen", m.turned # {},
         NEW r, r = Perform(m, Head(calls))
  PROVE  Stepped(jobs, p, m, r, r.then \o Tail(calls))
<1> DEFINE k == p.k
           t == Tail(p.rest)
           q == [k |-> k, stage |-> IF t = <<>> THEN "idle" ELSE "reopen", rest |-> t]
<1>1. k \in 0 .. Len(jobs) /\ k > 0 /\ jobs[k].do = "log" /\ p.rest \in Reopening
  BY DEF At, Position
<1>2. /\ Head(calls) \in {Opening, WriteOf("notice"), Counting, Resetting} /\ p.rest # <<>>
      /\ t \in Seq(Calls) /\ (t = <<>> \/ t \in Reopening)
  BY <1>1, ReopenLeft
<1>3. r.then = <<>> /\ LogKept(r.mem) /\ Grows(m, r.mem) /\ Same(m, r.mem)
  BY <1>2, ReopenCall
<1> HIDE DEF k, t
<1>4. Position(jobs, q)
  BY <1>1, <1>2 DEF Position, Stages, k
<1>5. At(jobs, r.then \o Tail(calls), q)
  <2>1. q.k = p.k /\ q.rest = t /\ t = Tail(p.rest)
    BY DEF k, t
  <2> HIDE DEF q
  <2>2. QED
    BY <1>2, <1>3, <1>4, <2>1, RestContinues
<1>6. GoesOn(p, q, m, r.mem)
  BY <1>3 DEF GoesOn, k
<1>7. QED
  BY <1>3, <1>5, <1>6 DEF Stepped, Moves

\* The calls that follow accept, unless one ends the process.
LEMMA AcceptCall ==
  ASSUME NEW m, LogKept(m), m.fate = "running",
         NEW c, c.do \in AcceptCalls, NEW r, r = Perform(m, c), r.mem.fate = "running"
  PROVE  r.then = <<>> /\ LogKept(r.mem) /\ Grows(m, r.mem) /\ Same(m, r.mem)
<1>1. DOMAIN m = Fields /\ m.now \in Times
  BY DEF LogKept, LogTyped
<1>2. [m EXCEPT !.fate = "exit"].fate # "running"
  BY <1>1 DEF Fields
<1>3. Grows(m, m)
  BY DEF Grows, LogKept, LogTyped
<1>4. CASE c.do = "setnonblocking"
  <2>1. r = SetNonblocking(m, c.fd)
    BY <1>4, PerformsAccept
  <2>2. r.mem = m /\ r.then = <<>>
    BY <1>2, <2>1 DEF SetNonblocking, Then, Dies
  <2>3. QED
    BY <1>3, <2>2 DEF Same
<1>5. CASE c.do = "epollAdd"
  <2>1. r = EpollAdd(m, c.fd)
    BY <1>5, PerformsAccept
  <2>2. r.mem = m /\ r.then = <<>>
    BY <1>2, <2>1 DEF EpollAdd, Then, Dies
  <2>3. QED
    BY <1>3, <2>2 DEF Same
<1>6. CASE c.do = "insertFilter"
  <2> DEFINE fd == c.fd
             d == c.id
             n == [m EXCEPT !.filter[fd] = d]
  <2>1. r = [mem |-> n, then |-> <<>>]
    BY <1>6, PerformsAccept DEF InsertConnFilterMap, Then
  <2> HIDE DEF fd, d
  <2>2. /\ Leaves(m, n) /\ LeavesFiles(m, n)
        /\ n.log = m.log /\ n.dir = m.dir /\ n.lines = m.lines /\ n.inode = m.inode
    BY <1>1 DEF Fields, Leaves, LeavesFiles
  <2> HIDE DEF n
  <2>3. Same(m, n) /\ n.now \in Times
    BY <1>1, <2>2 DEF LeavesFiles, Same
  <2>4. LogKept(n) /\ Grows(m, n)
    BY <2>2, <2>3, QuietCall
  <2>5. QED
    BY <2>1, <2>3, <2>4
<1>7. QED
  BY <1>4, <1>5, <1>6 DEF AcceptCalls

\* An accepted connection is prepared.
LEMMA AcceptStep ==
  ASSUME NEW jobs \in Seq(LogJobs), NEW calls, NEW p, NEW m, At(jobs, calls, p), calls # <<>>,
         LogKept(m), m.fate = "running", p.stage = "accept",
         NEW r, r = Perform(m, Head(calls)), r.mem.fate = "running"
  PROVE  Stepped(jobs, p, m, r, r.then \o Tail(calls))
<1> DEFINE k == p.k
           a == p.rest
           t == Tail(a)
           q == [k |-> k, stage |-> IF t = <<>> THEN "idle" ELSE "accept", rest |-> t]
<1>1. /\ k \in 0 .. Len(jobs) /\ a \in Seq(Calls) /\ a # <<>>
      /\ \A i \in 1 .. Len(a) : a[i].do \in AcceptCalls
  BY DEF At, Position
<1>2. <<>> \in Seq(Calls)
  OBVIOUS
<1>3. Head(calls) = a[1]
  BY <1>1, <1>2, NextInJob
<1> HIDE DEF a, Calls
<1>4. 1 \in 1 .. Len(a) /\ t \in Seq(Calls) /\ \A i \in 1 .. Len(t) : i + 1 \in 1 .. Len(a) /\ t[i] = a[i + 1]
  BY <1>1
<1>5. \A i \in 1 .. Len(t) : t[i].do \in AcceptCalls
  BY <1>1, <1>4
<1>6. r.then = <<>> /\ LogKept(r.mem) /\ Grows(m, r.mem) /\ Same(m, r.mem)
  BY <1>1, <1>3, <1>4, AcceptCall
<1> HIDE DEF k, t
<1>7. Position(jobs, q)
  BY <1>1, <1>4, <1>5 DEF Position, Stages
<1>8. At(jobs, r.then \o Tail(calls), q)
  <2>1. q.k = p.k /\ q.rest = t /\ t = Tail(p.rest) /\ p.rest # <<>>
    BY <1>1 DEF k, t, a
  <2> HIDE DEF q
  <2>2. QED
    BY <1>4, <1>6, <1>7, <2>1, RestContinues
<1>9. GoesOn(p, q, m, r.mem)
  BY <1>6 DEF GoesOn, k
<1>10. QED
  BY <1>6, <1>8, <1>9 DEF Stepped, Moves

\* Whatever a thread is about to call.
LEMMA JobStep ==
  ASSUME NEW jobs \in Seq(LogJobs), NEW calls, NEW p, NEW m, At(jobs, calls, p), calls # <<>>,
         LogKept(m), m.fate = "running", p.stage = "reopen" => m.turned # {},
         NEW r, r = Perform(m, Head(calls)), r.mem.fate = "running"
  PROVE  Stepped(jobs, p, m, r, r.then \o Tail(calls))
<1>1. p.stage \in Stages
  BY DEF At, Position
<1>2. CASE p.stage = "idle"
  BY <1>2, BeginStep
<1>3. CASE p.stage = "write"
  BY <1>3, WriteStep
<1>4. CASE p.stage = "decide"
  BY <1>4, DecideStep
<1>5. CASE p.stage = "turn"
  BY <1>5, TurnStep
<1>6. CASE p.stage = "reopen"
  BY <1>6, ReopenStep
<1>7. CASE p.stage = "accept"
  BY <1>7, AcceptStep
<1>8. QED
  BY <1>1, <1>2, <1>3, <1>4, <1>5, <1>6, <1>7 DEF Stages

-----------------------------------------------------------------------------
(* The threads together.                                                     *)

\* How far the LOG call that is job i has come when its thread is at p.
Written(p, i) == i < p.k \/ (i = p.k /\ p.stage # "write")
Closed(p, i)  == i < p.k \/ (i = p.k /\ p.stage \notin {"write", "decide"})
Renamed(p, i) == i < p.k \/ (i = p.k /\ p.stage \notin {"write", "decide", "turn"})

\* A move takes a thread forward, and tells the history what it has done.
LEMMA Progress ==
  ASSUME NEW jobs \in Seq(LogJobs), NEW p, NEW q, Position(jobs, p), Position(jobs, q),
         NEW m, NEW n, Moves(jobs, p, q, m, n)
  PROVE  /\ \A i \in Nat : Closed(p, i) => Closed(q, i)
         /\ \A i \in Nat : Renamed(p, i) => Renamed(q, i)
         /\ \A i \in 1 .. Len(jobs) :
              jobs[i].do = "log" /\ Written(q, i) => Written(p, i) \/ (i = p.k /\ Writes(jobs, p, q, m, n))
         /\ n.turned = m.turned \/ Closes(jobs, p, q, m, n)
         /\ n.stamps = m.stamps \/ Renames(p, q, m, n)
         /\ q.stage = "turn" => (p.stage = "turn" /\ q.k = p.k) \/ Closes(jobs, p, q, m, n)
         /\ q.stage = "reopen" => p.stage = "reopen" \/ Renames(p, q, m, n)
<1> DEFINE k == p.k
           h == q.k
           s == p.stage
           u == q.stage
<1>1. k \in Nat /\ h \in Nat
  BY DEF Position
<1>2. \/ h = k + 1 /\ s = "idle" /\ (u = "write" \/ (u \in {"idle", "accept"} /\ jobs[h].do # "log"))
      \/ h = k /\ (u = s \/ (s \in {"decide", "reopen", "accept"} /\ u = "idle"))
      \/ h = k /\ s = "write" /\ u = "decide" /\ Writes(jobs, p, q, m, n)
      \/ h = k /\ s = "decide" /\ u = "turn" /\ Closes(jobs, p, q, m, n)
      \/ h = k /\ s = "turn" /\ u = "reopen" /\ Renames(p, q, m, n)
  BY DEF Moves, Begins, GoesOn, Writes, Closes, Renames
<1>3. /\ n.turned = m.turned \/ Closes(jobs, p, q, m, n)
      /\ n.stamps = m.stamps \/ Renames(p, q, m, n)
  BY DEF Moves, Begins, GoesOn, Writes, Closes, Renames, Same
<1> HIDE DEF k, h, s, u
<1>4. \A i \in Nat : i < k \/ (i = k /\ s \notin {"write", "decide"})
                     => i < h \/ (i = h /\ u \notin {"write", "decide"})
  BY <1>1, <1>2
<1>5. \A i \in Nat : i < k \/ (i = k /\ s \notin {"write", "decide", "turn"})
                     => i < h \/ (i = h /\ u \notin {"write", "decide", "turn"})
  BY <1>1, <1>2
<1>6. \A i \in 1 .. Len(jobs) :
        jobs[i].do = "log" /\ (i < h \/ (i = h /\ u # "write"))
        => i < k \/ (i = k /\ s # "write") \/ (i = k /\ Writes(jobs, p, q, m, n))
  <2>1. SUFFICES ASSUME NEW i \in 1 .. Len(jobs), jobs[i].do = "log", i < h \/ (i = h /\ u # "write")
                 PROVE  i < k \/ (i = k /\ s # "write") \/ (i = k /\ Writes(jobs, p, q, m, n))
    OBVIOUS
  <2>2. i \in Nat
    OBVIOUS
  <2>3. QED
    BY <1>1, <1>2, <2>1, <2>2
<1>7. /\ u = "turn" => (s = "turn" /\ h = k) \/ Closes(jobs, p, q, m, n)
      /\ u = "reopen" => s = "reopen" \/ Renames(p, q, m, n)
  BY <1>2
<1>8. QED
  BY <1>3, <1>4, <1>5, <1>6, <1>7 DEF Closed, Renamed, Written, k, h, s, u

\* Every LOG call of the threads has a line of its own.
OneLineEach(J) ==
  \A x, y \in DOMAIN J : \A i \in 1 .. Len(J[x]), j \in 1 .. Len(J[y]) :
    J[x][i].do = "log" /\ J[y][j].do = "log" /\ J[x][i].line = J[y][j].line => x = y /\ i = j

\* A line is listed once its call has closed the log, and each call about to rename has listed its own.
TurnedClosed(J, A, m) ==
  \A l \in m.turned : \E x \in DOMAIN J : \E i \in 1 .. Len(J[x]) :
    J[x][i].do = "log" /\ J[x][i].line = l /\ Closed(A[x], i)
RotatorListed(J, A, m) ==
  \A x \in DOMAIN J :
    /\ A[x].stage = "turn" => J[x][A[x].k].line \in m.turned
    /\ A[x].stage = "reopen" => m.turned # {}

\* A line written is in a file, unless another call has rotated the log.
WrittenKept(J, A, m) ==
  \A x \in DOMAIN J : \A i \in 1 .. Len(J[x]) :
    J[x][i].do = "log" /\ Written(A[x], i) =>
      (\E f \in 1 .. Len(m.lines) : J[x][i].line \in m.lines[f]) \/ m.turned \ {J[x][i].line} # {}

\* Each name given to a file was given by another call.
NameGiven(J, A, m) ==
  Len(m.stamps) >= 1 =>
    \E x \in DOMAIN J : \E i \in 1 .. Len(J[x]) :
      J[x][i].do = "log" /\ J[x][i].line \in m.turned /\ Renamed(A[x], i)
TwoTurned(m) == Len(m.stamps) >= 2 => \E l1, l2 \in m.turned : l1 # l2

Rotations(J, A, m) ==
  /\ TurnedClosed(J, A, m) /\ RotatorListed(J, A, m) /\ WrittenKept(J, A, m) /\ NameGiven(J, A, m)
  /\ TwoTurned(m)

\* What is known of the rotations is known after any thread's move.  The rotation of another
\* thread counts as another's because each LOG call has a line of its own.
LEMMA RotationsStep ==
  ASSUME NEW T, NEW J, DOMAIN J = T, \A x \in T : J[x] \in Seq(LogJobs), OneLineEach(J),
         NEW A, NEW B, NEW th \in T,
         \A x \in T \ {th} : B[x] = A[x],
         \A x \in T : Position(J[x], A[x]) /\ Position(J[x], B[x]),
         NEW m, NEW n, Moves(J[th], A[th], B[th], m, n), Grows(m, n),
         Len(m.lines) \in Nat, Len(n.lines) \in Nat, Len(m.lines) >= 1, Len(m.stamps) \in Nat,
         Rotations(J, A, m)
  PROVE  Rotations(J, B, n)
<1> DEFINE p == A[th]
           q == B[th]
           jobs == J[th]
           l == jobs[p.k].line
<1>1. /\ jobs \in Seq(LogJobs) /\ Position(jobs, p) /\ Position(jobs, q) /\ Moves(jobs, p, q, m, n)
      /\ DOMAIN J = T
  OBVIOUS
<1>2. /\ \A i \in Nat : Closed(p, i) => Closed(q, i)
      /\ \A i \in Nat : Renamed(p, i) => Renamed(q, i)
      /\ \A i \in 1 .. Len(jobs) :
           jobs[i].do = "log" /\ Written(q, i) => Written(p, i) \/ (i = p.k /\ Writes(jobs, p, q, m, n))
      /\ n.turned = m.turned \/ Closes(jobs, p, q, m, n)
      /\ n.stamps = m.stamps \/ Renames(p, q, m, n)
      /\ q.stage = "turn" => (p.stage = "turn" /\ q.k = p.k) \/ Closes(jobs, p, q, m, n)
      /\ q.stage = "reopen" => p.stage = "reopen" \/ Renames(p, q, m, n)
  <2> HIDE DEF p, q, jobs
  <2>1. QED
    BY <1>1, Progress
<1>3. /\ p.k \in 0 .. Len(jobs) /\ Len(jobs) \in Nat
      /\ p.stage \in {"write", "decide", "turn", "reopen"} => p.k \in 1 .. Len(jobs) /\ jobs[p.k].do = "log"
  BY <1>1 DEF Position
<1>4. \A x \in T : Len(J[x]) \in Nat
  OBVIOUS
<1>5. \A x \in T : \A i \in 1 .. Len(J[x]) : (Closed(A[x], i) => Closed(B[x], i))
                                             /\ (Renamed(A[x], i) => Renamed(B[x], i))
  BY <1>2, <1>4
<1>6. m.turned \subseteq n.turned
  BY <1>2 DEF Closes
<1>7. TurnedClosed(J, B, n)
  <2>1. ASSUME NEW w \in m.turned
        PROVE  \E x \in T : \E i \in 1 .. Len(J[x]) : J[x][i].do = "log" /\ J[x][i].line = w /\ Closed(B[x], i)
    BY <1>1, <1>5 DEF Rotations, TurnedClosed
  <2>2. CASE n.turned = m.turned
    BY <1>1, <2>1, <2>2 DEF TurnedClosed
  <2>3. CASE Closes(jobs, p, q, m, n)
    <3>1. n.turned = m.turned \union {l} /\ Closed(q, p.k) /\ p.k \in 1 .. Len(jobs) /\ jobs[p.k].do = "log"
      BY <1>3, <2>3 DEF Closes, Closed
    <3>2. \E x \in T : \E i \in 1 .. Len(J[x]) : J[x][i].do = "log" /\ J[x][i].line = l /\ Closed(B[x], i)
      BY <3>1
    <3>3. QED
      BY <1>1, <2>1, <3>1, <3>2 DEF TurnedClosed
  <2>4. QED
    BY <1>2, <2>2, <2>3
<1>8. RotatorListed(J, B, n)
  <2>1. ASSUME NEW x \in T, x # th
        PROVE  /\ B[x].stage = "turn" => J[x][B[x].k].line \in n.turned
               /\ B[x].stage = "reopen" => n.turned # {}
    BY <1>1, <1>6, <2>1 DEF Rotations, RotatorListed
  <2>2. q.stage = "turn" => jobs[q.k].line \in n.turned
    BY <1>1, <1>2, <1>6 DEF Rotations, RotatorListed, Closes
  <2>3. q.stage = "reopen" => n.turned # {}
    BY <1>1, <1>2, <1>6 DEF Rotations, RotatorListed, Renames
  <2>4. QED
    BY <1>1, <2>1, <2>2, <2>3 DEF RotatorListed
<1>9. WrittenKept(J, B, n)
  <2>1. ASSUME NEW x \in T, NEW i \in 1 .. Len(J[x]), J[x][i].do = "log", Written(A[x], i)
        PROVE  (\E f \in 1 .. Len(n.lines) : J[x][i].line \in n.lines[f]) \/ n.turned \ {J[x][i].line} # {}
    <3> DEFINE w == J[x][i].line
    <3>1. (\E f \in 1 .. Len(m.lines) : w \in m.lines[f]) \/ m.turned \ {w} # {}
      BY <1>1, <2>1 DEF Rotations, WrittenKept
    <3> HIDE DEF w
    <3>2. ASSUME NEW f \in 1 .. Len(m.lines), w \in m.lines[f]
          PROVE  \E g \in 1 .. Len(n.lines) : w \in n.lines[g]
      <4>1. f \in 1 .. Len(n.lines) /\ w \in n.lines[f]
        BY <3>2 DEF Grows
      <4>2. QED
        BY <4>1
    <3>3. m.turned \ {w} # {} => n.turned \ {w} # {}
      BY <1>6
    <3>4. (\E g \in 1 .. Len(n.lines) : w \in n.lines[g]) \/ n.turned \ {w} # {}
      BY <3>1, <3>2, <3>3
    <3>5. QED
      BY <3>4 DEF w
  <2>2. ASSUME NEW i \in 1 .. Len(jobs), jobs[i].do = "log", Written(q, i)
        PROVE  (\E f \in 1 .. Len(n.lines) : jobs[i].line \in n.lines[f]) \/ n.turned \ {jobs[i].line} # {}
    <3>1. CASE Written(p, i)
      BY <2>1, <2>2, <3>1
    <3>2. CASE i = p.k /\ Writes(jobs, p, q, m, n)
      <4>1. m.turned = {} => l \in n.lines[1]
        BY <3>2 DEF Writes
      <4>2. 1 \in 1 .. Len(n.lines)
        BY DEF Grows
      <4>3. l \notin m.turned
        <5>1. SUFFICES ASSUME l \in m.turned PROVE FALSE
          OBVIOUS
        <5>2. PICK x \in T : \E j \in 1 .. Len(J[x]) : J[x][j].do = "log" /\ J[x][j].line = l /\ Closed(A[x], j)
          BY <1>1, <5>1 DEF Rotations, TurnedClosed
        <5>3. PICK j \in 1 .. Len(J[x]) : J[x][j].do = "log" /\ J[x][j].line = l /\ Closed(A[x], j)
          BY <5>2
        <5>4. x = th /\ j = i
          BY <1>1, <2>2, <3>2, <5>3 DEF OneLineEach
        <5>5. ~ Closed(p, p.k)
          BY <1>3, <3>2 DEF Closed, Writes
        <5>6. QED
          BY <3>2, <5>3, <5>4, <5>5
      <4>4. QED
        BY <1>6, <3>2, <4>1, <4>2, <4>3
    <3>3. QED
      BY <1>2, <2>2, <3>1, <3>2
  <2>3. QED
    BY <1>1, <2>1, <2>2 DEF WrittenKept
<1>10. NameGiven(J, B, n) /\ TwoTurned(n)
  <2>1. CASE n.stamps = m.stamps
    <3>1. NameGiven(J, B, n)
      BY <1>1, <1>5, <1>6, <2>1 DEF Rotations, NameGiven
    <3>2. TwoTurned(n)
      BY <1>6, <2>1 DEF Rotations, TwoTurned
    <3>3. QED
      BY <3>1, <3>2
  <2>2. CASE Renames(p, q, m, n)
    <3>1. /\ p.stage = "turn" /\ q.stage = "reopen" /\ q.k = p.k /\ n.turned = m.turned
          /\ Len(n.stamps) \in {Len(m.stamps), Len(m.stamps) + 1}
      BY <2>2 DEF Renames
    <3>2. p.k \in 1 .. Len(jobs) /\ jobs[p.k].do = "log" /\ l \in n.turned /\ Renamed(q, p.k)
      BY <1>1, <1>3, <3>1 DEF Rotations, RotatorListed, Renamed
    <3>3. NameGiven(J, B, n)
      BY <1>1, <3>2 DEF NameGiven
    <3>4. TwoTurned(n)
      <4>1. SUFFICES ASSUME Len(n.stamps) >= 2 PROVE \E l1, l2 \in n.turned : l1 # l2
        BY DEF TwoTurned
      <4>2. Len(m.stamps) >= 1
        BY <3>1, <4>1
      <4>3. PICK x \in T : \E i \in 1 .. Len(J[x]) :
                             J[x][i].do = "log" /\ J[x][i].line \in m.turned /\ Renamed(A[x], i)
        BY <1>1, <4>2 DEF Rotations, NameGiven
      <4>4. PICK i \in 1 .. Len(J[x]) : J[x][i].do = "log" /\ J[x][i].line \in m.turned /\ Renamed(A[x], i)
        BY <4>3
      <4>5. ~ Renamed(p, p.k)
        BY <1>3, <3>1 DEF Renamed
      <4>6. J[x][i].line # l
        BY <1>1, <3>2, <4>4, <4>5 DEF OneLineEach
      <4>7. QED
        BY <3>1, <3>2, <4>4, <4>6
    <3>5. QED
      BY <3>3, <3>4
  <2>3. QED
    BY <1>2, <2>1, <2>2
<1>11. QED
  BY <1>7, <1>8, <1>9, <1>10 DEF Rotations

-----------------------------------------------------------------------------
(* The invariant of a scene of the log.                                      *)

Places == [k : Nat, stage : Stages, rest : Seq(Calls)]

\* While the process runs, every thread is somewhere in its jobs, and the rotations so far are
\* accounted for.
LogGoesOn(s, m, calls) ==
  /\ LogKept(m)
  /\ \E A \in [DOMAIN calls -> Places] :
       /\ \A x \in DOMAIN calls : At(s.jobs[x], calls[x], A[x])
       /\ Rotations(s.jobs, A, m)

LogInv ==
  scene.kind = "log" =>
    /\ DOMAIN todo = DOMAIN scene.jobs
    /\ mem.fate = "running" => LogGoesOn(scene, mem, todo)

\* What the scenes of the log give.
LEMMA SceneOfLog ==
  ASSUME NEW s \in Scenes, s.kind = "log"
  PROVE  LogOpens(s.mem) /\ (\A x \in DOMAIN s.jobs : s.jobs[x] \in Seq(LogJobs)) /\ OneLineEach(s.jobs)
<1>1. LogScene(s)
  BY ThreadsAssumption
<1>2. \A x \in DOMAIN s.jobs : s.jobs[x] \in Seq(LogJobs)
  BY <1>1 DEF LogScene
<1>3. \A x \in DOMAIN s.jobs : DOMAIN s.jobs[x] = 1 .. Len(s.jobs[x])
  BY <1>2
<1>4. QED
  BY <1>1, <1>2, <1>3 DEF LogScene, OneLineEach

\* A log that is open, and never rotated, is kept.
LEMMA LogOpensKept ==
  ASSUME NEW m, LogOpens(m)
  PROVE  LogKept(m)
<1> DEFINE ls == m.lines
           st == m.stamps
<1>1. DOMAIN m = Fields /\ ls = <<{"before"}>> /\ st = <<>>
  BY EmptyFields DEF LogOpens
<1>2. /\ ls \in Seq(SUBSET Texts) /\ Len(ls) = 1 /\ ls[1] = {"before"}
      /\ st \in Seq(Nat \X Nat) /\ Len(st) = 0
  <2>1. "before" \in Texts /\ {"before"} \in SUBSET Texts
    BY DEF Texts
  <2> HIDE DEF Texts
  <2>2. QED
    BY <1>1, <2>1
<1>3. /\ DOMAIN m.log = {"fd", "size", "last", "old"} /\ m.log.last \in Nat /\ m.log.old \in Nat
      /\ m.log.fd \in Fds /\ m.inode[m.log.fd] = 1 /\ m.now \in Times
      /\ m.inode \in [Fds -> {0, 1}] /\ m.dir = {<<LogName, 1>>}
  BY DEF LogOpens, Times, Null
<1> HIDE DEF ls, st
<1>4. LogName \in Nat \X Nat
  BY DEF LogName
<1>5. LogTyped(m)
  <2>1. m.inode \in [Fds -> 0 .. Len(ls)] /\ m.dir \subseteq (Nat \X Nat) \X (1 .. Len(ls))
    BY <1>2, <1>3, <1>4
  <2>2. QED
    BY <1>1, <1>2, <1>3, <2>1 DEF LogTyped, ls, st
<1>6. \A e \in m.dir : e[1] = LogName
  BY <1>3
<1>7. \A n \in 1 .. Len(ls) : \E e \in m.dir : e[2] = n
  BY <1>2, <1>3
<1>8. QED
  BY <1>2, <1>3, <1>5, <1>6, <1>7 DEF LogKept, ls

\* Where the threads of the log begin.
LEMMA LogInit ==
  ASSUME NEW s \in Scenes, s.kind = "log"
  PROVE  LogGoesOn(s, s.mem, s.jobs)
<1> DEFINE J == s.jobs
           p == [k |-> 0, stage |-> "idle", rest |-> <<>>]
           A == [x \in DOMAIN J |-> p]
<1>1. LogOpens(s.mem) /\ \A x \in DOMAIN J : J[x] \in Seq(LogJobs)
  BY SceneOfLog
<1>2. LogKept(s.mem)
  BY <1>1, LogOpensKept
<1> HIDE DEF J
<1>3. p \in Places
  BY DEF Places, Stages
<1>4. ASSUME NEW x \in DOMAIN J
      PROVE  At(J[x], J[x], p)
  <2> DEFINE jobs == J[x]
             b == Later(jobs, 0)
  <2>1. jobs \in Seq(LogJobs) /\ 0 \in 0 .. Len(jobs)
    BY <1>1
  <2> HIDE DEF jobs
  <2>2. Position(jobs, p)
    BY <2>1 DEF Position, Stages
  <2>3. b \in Seq(Calls) /\ Len(b) = Len(jobs)
    BY <2>1, LaterType
  <2>4. jobs \in Seq(Calls) /\ \A i \in 1 .. Len(jobs) : b[i] = jobs[i]
    BY <2>1 DEF Later, Calls
  <2> HIDE DEF b
  <2>5. b = jobs
    BY <2>3, <2>4, SeqEqual
  <2>6. <<>> \o b = b
    BY <2>3, JoinNone
  <2>7. QED
    BY <2>2, <2>5, <2>6 DEF At, b, jobs
<1>5. Rotations(J, A, s.mem)
  <2>1. s.mem.turned = {} /\ s.mem.stamps = <<>>
    BY <1>1 DEF LogOpens
  <2>2. \A x \in DOMAIN J : A[x].k = 0 /\ A[x].stage = "idle"
    OBVIOUS
  <2> HIDE DEF A
  <2>3. TurnedClosed(J, A, s.mem) /\ RotatorListed(J, A, s.mem)
    BY <2>1, <2>2 DEF TurnedClosed, RotatorListed
  <2>4. WrittenKept(J, A, s.mem)
    BY <1>1, <2>2 DEF WrittenKept, Written
  <2>5. NameGiven(J, A, s.mem) /\ TwoTurned(s.mem)
    BY <2>1 DEF NameGiven, TwoTurned
  <2>6. QED
    BY <2>3, <2>4, <2>5 DEF Rotations
<1>6. A \in [DOMAIN J -> Places] /\ \A x \in DOMAIN J : A[x] = p
  BY <1>3
<1> HIDE DEF A, p
<1>7. \A x \in DOMAIN J : At(J[x], J[x], A[x])
  BY <1>4, <1>6
<1>8. QED
  BY <1>2, <1>5, <1>6, <1>7 DEF LogGoesOn, J

\* A step after which the process still runs.
LEMMA RunsOn ==
  ASSUME NEW m, NEW calls, NEW e, e = After(m, calls), NEW r, r = Perform(m, Head(calls)),
         e.mem.fate = "running"
  PROVE  r.mem.fate = "running"
<1> DEFINE rest == r.then \o Tail(calls)
           f == [r.mem EXCEPT !.fate = "stack"]
<1>1. e = IF r.mem.fate # "running" THEN [mem |-> r.mem, todo |-> <<>>]
          ELSE IF Len(rest) > MaxCalls THEN [mem |-> f, todo |-> <<>>] ELSE [mem |-> r.mem, todo |-> rest]
  BY DEF After
<1> HIDE DEF rest, f
<1>2. QED
  BY <1>1

\* A call of any thread, after which the process still runs.
LEMMA LogStep ==
  ASSUME NEW s \in Scenes, s.kind = "log", NEW m, m.fate = "running", NEW calls, DOMAIN calls = DOMAIN s.jobs,
         LogGoesOn(s, m, calls), NEW th \in DOMAIN calls, calls[th] # <<>>,
         NEW e, e = After(m, calls[th]), e.mem.fate = "running",
         NEW next, next = [calls EXCEPT ![th] = e.todo]
  PROVE  LogGoesOn(s, e.mem, next)
<1> DEFINE J == s.jobs
           T == DOMAIN calls
           r == Perform(m, Head(calls[th]))
           n == r.mem
<1>1. DOMAIN J = T /\ (\A x \in T : J[x] \in Seq(LogJobs)) /\ OneLineEach(J)
  BY SceneOfLog
<1>2. PICK A \in [T -> Places] : /\ \A x \in T : At(J[x], calls[x], A[x])
                                 /\ Rotations(J, A, m)
  BY DEF LogGoesOn
<1>3. LogKept(m)
  BY DEF LogGoesOn
<1> DEFINE jobs == J[th]
           p == A[th]
           l == calls[th]
<1> HIDE DEF J, T
<1>4. jobs \in Seq(LogJobs) /\ At(jobs, l, p) /\ l # <<>> /\ th \in T /\ (p.stage = "reopen" => m.turned # {})
  BY <1>1, <1>2 DEF Rotations, RotatorListed, T
<1>5. r.mem.fate = "running" => Stepped(jobs, p, m, r, r.then \o Tail(l))
  <2> DEFINE rr == r
  <2>1. rr = Perform(m, Head(l))
    OBVIOUS
  <2> HIDE DEF jobs, p, l, rr
  <2>2. rr.mem.fate = "running" => Stepped(jobs, p, m, rr, rr.then \o Tail(l))
    BY <1>3, <1>4, <2>1, JobStep
  <2>3. QED
    BY <2>2 DEF rr, l
<1>6. r.mem.fate = "running" => DOMAIN r.mem = Fields
  BY <1>5 DEF Stepped, LogKept, LogTyped
<1>7. n.fate = "running" /\ e.mem = n /\ e.todo = r.then \o Tail(l)
  <2> DEFINE u == calls[th]
             rr == Perform(m, Head(u))
             rest == rr.then \o Tail(u)
             f == [rr.mem EXCEPT !.fate = "stack"]
  <2>1. e = After(m, u) /\ e.mem.fate = "running" /\ rr = Perform(m, Head(u))
    OBVIOUS
  <2>2. e = IF rr.mem.fate # "running" THEN [mem |-> rr.mem, todo |-> <<>>]
            ELSE IF Len(rest) > MaxCalls THEN [mem |-> f, todo |-> <<>>] ELSE [mem |-> rr.mem, todo |-> rest]
    BY <2>1 DEF After
  <2> HIDE DEF u, rr
  <2>3. rr.mem.fate = "running"
    BY <2>1, RunsOn
  <2>4. DOMAIN rr.mem = Fields
    BY <1>6, <2>3 DEF u, rr
  <2>5. f.fate = "stack"
    BY <2>4 DEF Fields
  <2> HIDE DEF rest, f
  <2>6. e.mem = rr.mem /\ e.todo = rest
    BY <2>1, <2>2, <2>3, <2>5
  <2>7. QED
    BY <2>3, <2>6 DEF u, rr, rest
<1>8. LogKept(n) /\ Grows(m, n) /\ \E q : At(jobs, e.todo, q) /\ Moves(jobs, p, q, m, n)
  BY <1>5, <1>7 DEF Stepped
<1>9. PICK q : At(jobs, e.todo, q) /\ Moves(jobs, p, q, m, n)
  BY <1>8
<1>10. q \in Places
  BY <1>4, <1>9 DEF At, Position, Places
<1> DEFINE B == [A EXCEPT ![th] = q]
<1>11. B \in [T -> Places] /\ B[th] = q /\ \A x \in T \ {th} : B[x] = A[x]
  BY <1>2, <1>4, <1>10
<1>12. DOMAIN next = T /\ next[th] = e.todo /\ \A x \in T \ {th} : next[x] = calls[x]
  BY <1>4 DEF T
<1> HIDE DEF B, n, r
<1>13. \A x \in T : At(J[x], next[x], B[x])
  BY <1>2, <1>9, <1>11, <1>12
<1>14. \A x \in T : Position(J[x], A[x]) /\ Position(J[x], B[x])
  BY <1>2, <1>13 DEF At
<1>15. /\ Len(m.lines) \in Nat /\ Len(n.lines) \in Nat /\ Len(m.lines) >= 1 /\ Len(m.stamps) \in Nat
  BY <1>3, <1>8 DEF LogKept, LogTyped
<1>16. Moves(J[th], A[th], B[th], m, n) /\ Grows(m, n)
  BY <1>8, <1>9, <1>11
<1>17. Rotations(J, B, n)
  BY <1>1, <1>2, <1>4, <1>11, <1>14, <1>15, <1>16, RotationsStep
<1>18. QED
  BY <1>7, <1>8, <1>11, <1>12, <1>13, <1>17 DEF LogGoesOn, J

\* What the threads leave when they are done.
LEMMA LogEnds ==
  ASSUME NEW s \in Scenes, s.kind = "log", NEW m, NEW calls, DOMAIN calls = DOMAIN s.jobs,
         LogGoesOn(s, m, calls), \A th \in DOMAIN calls : calls[th] = <<>>
  PROVE  /\ \A th \in DOMAIN calls : \A i \in 1 .. Len(s.jobs[th]) :
              LET c == s.jobs[th][i]
              IN  c.do = "log" => (\E e \in m.dir : c.line \in m.lines[e[2]]) \/ m.turned \ {c.line} # {}
         /\ (\E e \in m.dir : "before" \in m.lines[e[2]]) \/ Collided(m)
<1>1. PICK A \in [DOMAIN calls -> Places] :
        /\ \A x \in DOMAIN calls : At(s.jobs[x], calls[x], A[x])
        /\ Rotations(s.jobs, A, m)
  BY DEF LogGoesOn
<1>2. LogKept(m)
  BY DEF LogGoesOn
<1>3. ASSUME NEW th \in DOMAIN calls, NEW i \in 1 .. Len(s.jobs[th])
      PROVE  Written(A[th], i)
  <2> DEFINE jobs == s.jobs[th]
             p == A[th]
             a == p.rest
             k == p.k
             b == Later(jobs, k)
  <2>1. jobs \in Seq(LogJobs) /\ Position(jobs, p) /\ <<>> = a \o b
    BY <1>1, SceneOfLog DEF At
  <2> HIDE DEF jobs
  <2>2. k \in 0 .. Len(jobs) /\ a \in Seq(Calls) /\ (p.stage = "write" => a # <<>>)
    <3>1. k \in 0 .. Len(jobs) /\ a \in Seq(Calls)
      BY <2>1 DEF Position
    <3>2. p.stage = "write" => \E x, y, z : a = <<x, y, z>>
      BY <2>1 DEF Position, Writing
    <3> HIDE DEF a
    <3>3. p.stage = "write" => a # <<>>
      <4>1. \A x, y, z : <<x, y, z>> # <<>>
        OBVIOUS
      <4>2. QED
        BY <3>2, <4>1
    <3>4. QED
      BY <3>1, <3>3
  <2>3. b \in Seq(Calls) /\ Len(b) = Len(jobs) - k
    BY <2>1, <2>2, LaterType
  <2>4. Len(jobs) \in Nat
    BY <2>1
  <2> HIDE DEF a, b, Calls
  <2>5. Len(a) = 0 /\ Len(b) = 0
    <3> DEFINE c == a \o b
    <3>1. Len(c) = Len(a) + Len(b) /\ Len(a) \in Nat /\ Len(b) \in Nat
      BY <2>2, <2>3
    <3>2. c = <<>>
      BY <2>1
    <3> HIDE DEF c
    <3>3. Len(c) = 0
      BY <3>2
    <3>4. QED
      BY <3>1, <3>3
  <2>6. a = <<>> /\ Len(jobs) = k
    BY <2>2, <2>3, <2>4, <2>5
  <2>7. QED
    BY <2>2, <2>6 DEF Written, jobs
<1>4. CASE Collided(m)
  <2>1. Len(m.stamps) >= 2
    <3>1. PICK i, j \in 1 .. Len(m.stamps) : i # j
      BY <1>4 DEF Collided
    <3>2. Len(m.stamps) \in Nat
      BY <1>2 DEF LogKept, LogTyped
    <3>3. QED
      BY <3>1, <3>2
  <2>2. \E l1, l2 \in m.turned : l1 # l2
    BY <1>1, <2>1 DEF Rotations, TwoTurned
  <2>3. \A l : m.turned \ {l} # {}
    BY <2>2
  <2>4. QED
    BY <1>4, <2>3
<1>5. CASE ~ Collided(m)
  <2>1. \A f \in 1 .. Len(m.lines) : \E e \in m.dir : e[2] = f
    BY <1>2, <1>5 DEF LogKept
  <2>2. \E e \in m.dir : "before" \in m.lines[e[2]]
    <3>1. PICK e \in m.dir : e[2] = 1
      BY <1>2, <2>1 DEF LogKept, LogTyped
    <3>2. "before" \in m.lines[1]
      BY <1>2 DEF LogKept
    <3>3. QED
      BY <3>1, <3>2
  <2>3. ASSUME NEW th \in DOMAIN calls, NEW i \in 1 .. Len(s.jobs[th]), s.jobs[th][i].do = "log"
        PROVE  LET l == s.jobs[th][i].line
               IN  (\E e \in m.dir : l \in m.lines[e[2]]) \/ m.turned \ {l} # {}
    <3> DEFINE l == s.jobs[th][i].line
    <3>1. (\E f \in 1 .. Len(m.lines) : l \in m.lines[f]) \/ m.turned \ {l} # {}
      BY <1>1, <1>3, <2>3 DEF Rotations, WrittenKept
    <3> HIDE DEF l
    <3>2. ASSUME NEW f \in 1 .. Len(m.lines), l \in m.lines[f]
          PROVE  \E e \in m.dir : l \in m.lines[e[2]]
      BY <2>1, <3>2
    <3>3. QED
      BY <3>1, <3>2 DEF l
  <2>4. QED
    BY <2>2, <2>3
<1>6. QED
  BY <1>4, <1>5

-----------------------------------------------------------------------------
(* The start of the process.                                                 *)

\* The calls of startThread, and those of the main thread.
Work ==
  {[do |-> "useUnit", unit |-> "Logger"], Opening, WriteOf("notice"), Counting}
  \union [do : {"create"}, who : {Servers[i] : i \in DOMAIN Servers}]
Loading == [do : {"loaded"}, unit : STRING] \union [do : {"load"}, order : Seq(STRING)]
MainCalls == Work \union Loading

LoggerFields == {"fd", "size", "last", "old"}
Alive(m) == DOMAIN m = Fields /\ DOMAIN m.log = LoggerFields

\* What a call of these threads never takes back.
Holds(m, n) ==
  /\ Alive(n) /\ n.junk = m.junk
  /\ m.served \subseteq n.served /\ m.units \subseteq n.units /\ m.begun \subseteq n.begun

\* startThread is work.
LEMMA StartThreadWork == StartThread \in Seq(Work)
<1> DEFINE x == [do |-> "useUnit", unit |-> "Logger"]
           y == Opening
           z == WriteOf("notice")
           w == Counting
           c == [i \in DOMAIN Servers |-> [do |-> "create", who |-> Servers[i]]]
<1>1. x \in Work /\ y \in Work /\ z \in Work /\ w \in Work
  BY DEF Work
<1>2. c \in Seq(Work)
  <2>1. DOMAIN Servers = 1 .. 6
    BY DEF Servers
  <2>2. \A i \in DOMAIN Servers : [do |-> "create", who |-> Servers[i]] \in Work
    BY DEF Work
  <2> HIDE DEF Work, Servers
  <2>3. c \in [1 .. 6 -> Work]
    BY <2>1, <2>2
  <2>4. QED
    BY <2>3
<1>3. StartThread = <<x>> \o <<y, z, w>> \o c
  BY DEF StartThread, Initialize, Opening, WriteOf, Counting
<1> HIDE DEF x, y, z, w, c, Work
<1>4. <<x>> \in Seq(Work) /\ <<y, z, w>> \in Seq(Work)
  BY <1>1
<1>5. QED
  BY <1>2, <1>3, <1>4

\* A call of startThread ends the process only if the Logger is not initialised yet.
LEMMA WorkCall ==
  ASSUME NEW m, Alive(m), m.fate = "running", NEW c \in Work, NEW r, r = Perform(m, c)
  PROVE  /\ r.then = <<>> /\ Holds(m, r.mem) /\ r.mem.fate \in {"running", "null"}
         /\ r.mem.fate = "null" => "Logger" \notin m.units
<1>1. DOMAIN m = Fields /\ DOMAIN m.log = {"fd", "size", "last", "old"}
  BY DEF Alive, LoggerFields
<1>2. CASE c = [do |-> "useUnit", unit |-> "Logger"]
  <2>1. r = UseUnit(m, "Logger")
    BY <1>2, PerformsStart
  <2> DEFINE n == [m EXCEPT !.fate = "null"]
  <2>2. Holds(m, n) /\ n.fate = "null"
    BY <1>1 DEF Holds, Alive, Fields, LoggerFields
  <2>3. Holds(m, m)
    BY DEF Holds
  <2>4. r = IF "Logger" \in m.units THEN [mem |-> m, then |-> <<>>] ELSE [mem |-> n, then |-> <<>>]
    BY <2>1 DEF UseUnit, Then, Dies
  <2> HIDE DEF n
  <2>5. QED
    BY <2>2, <2>3, <2>4
<1>3. CASE c = Opening
  <2>1. r = OpenLog(m)
    BY <1>3, PerformsLog DEF Opening
  <2>2. r.then = <<>> /\ Leaves(m, r.mem)
    BY <1>1, <2>1, OpenLogLeaves
  <2>3. r.mem.log = [fd |-> Min(FreeFds(m)), size |-> m.log.size, last |-> m.now.day, old |-> m.now.day]
    BY <1>1, <2>1, OpenLogLeaves
  <2>4. DOMAIN r.mem.log = LoggerFields
    BY <2>3 DEF LoggerFields
  <2>5. QED
    BY <2>2, <2>4 DEF Leaves, Holds, Alive
<1>4. CASE c = WriteOf("notice")
  <2>1. r = WriteLog(m, "notice")
    BY <1>4, PerformsLog DEF WriteOf
  <2>2. r.then = <<>> /\ Leaves(m, r.mem)
    BY <1>1, <2>1, WriteLogLeaves
  <2>3. r.mem.log = m.log
    BY <1>1, <2>1 DEF WriteLog, Then, Deliver, Fields
  <2>4. QED
    BY <2>2, <2>3 DEF Leaves, Holds, Alive
<1>5. CASE c = Counting
  <2>1. r = Count(m)
    BY <1>5, PerformsLog DEF Counting
  <2>2. r.then = <<>> /\ Leaves(m, r.mem)
    BY <1>1, <2>1, CountLeaves
  <2>3. DOMAIN r.mem.log = LoggerFields
    BY <1>1, <2>1 DEF Count, Then, Fields, LoggerFields
  <2>4. QED
    BY <2>2, <2>3 DEF Leaves, Holds, Alive
<1>6. CASE c \in [do : {"create"}, who : {Servers[i] : i \in DOMAIN Servers}]
  <2> DEFINE w == c.who
             n == [m EXCEPT !.begun = @ \union {w}]
  <2>1. r = [mem |-> n, then |-> <<>>]
    BY <1>6, PerformsStart DEF Create, Then
  <2> HIDE DEF w
  <2>2. Holds(m, n) /\ n.fate = m.fate
    BY <1>1 DEF Holds, Alive, Fields, LoggerFields
  <2> HIDE DEF n
  <2>3. QED
    BY <2>1, <2>2
<1>7. QED
  BY <1>2, <1>3, <1>4, <1>5, <1>6 DEF Work

\* Only the thread that creates threads begins any.
LEMMA OnlyWorkBegins ==
  ASSUME NEW m, Alive(m), NEW u, NEW r, r \in {Loaded(m, u), UseUnit(m, u), Serve(m, u)}
  PROVE  r.then = <<>> /\ Holds(m, r.mem) /\ r.mem.begun = m.begun
<1> DEFINE n1 == [m EXCEPT !.units = @ \union {u}]
           n2 == [m EXCEPT !.fate = "null"]
           n3 == [m EXCEPT !.served = @ \union {u}]
           n4 == [m EXCEPT !.fate = "exit"]
<1>1. /\ Holds(m, n1) /\ n1.begun = m.begun /\ Holds(m, n2) /\ n2.begun = m.begun
      /\ Holds(m, n3) /\ n3.begun = m.begun /\ Holds(m, n4) /\ n4.begun = m.begun /\ Holds(m, m)
  BY DEF Holds, Alive, Fields, LoggerFields
<1>2. r.mem \in {m, n1, n2, n3, n4} /\ r.then = <<>>
  BY DEF Loaded, UseUnit, Serve, Then, Dies
<1> HIDE DEF n1, n2, n3, n4
<1>3. QED
  BY <1>1, <1>2

\* The main thread: it has loaded k - 1 units and is at the last step of loading one more, or it has
\* loaded them all.
Remaining(order, k) == SubSeq(order, k + 1, Len(order))

Loads(order, t, units, k) ==
  /\ \A i \in 1 .. Len(order) : i < k => order[i] \in units
  /\ t[Len(t)] = [do |-> "load", order |-> Remaining(order, k)]
  /\ Len(t) = 1 /\ k > 0 => order[k] \in units
  /\ Len(t) > 1 => k > 0 /\ t[Len(t) - 1] = [do |-> "loaded", unit |-> order[k]]
  /\ Len(t) > 2 => order[k] = "ProcessManager"
  /\ \A i \in 1 .. Len(t) : i < Len(t) - 1 => t[i] \in Work

MainLoads(order, t, units) ==
  /\ t \in Seq(MainCalls)
  /\ t = <<>> \/ \E k \in 0 .. Len(order) : Loads(order, t, units, k)

\* The units initialised before ProcessManager's.
LoadedBefore(order, units) ==
  \E k \in 1 .. Len(order) :
    order[k] = "ProcessManager" /\ \A i \in 1 .. Len(order) : i < k => order[i] \in units

\* The units still to load.
LEMMA RemainingType ==
  ASSUME NEW order \in Seq(STRING), NEW k \in 0 .. Len(order)
  PROVE  /\ Remaining(order, k) \in Seq(STRING) /\ (Remaining(order, k) # <<>> => k < Len(order))
         /\ k < Len(order) => /\ Head(Remaining(order, k)) = order[k + 1]
                              /\ Tail(Remaining(order, k)) = Remaining(order, k + 1)
<1> DEFINE a == Remaining(order, k)
           b == Remaining(order, k + 1)
           N == Len(order)
<1>1. N \in Nat /\ k \in Nat /\ k =< N /\ \A i \in 1 .. N : order[i] \in STRING
  OBVIOUS
<1>2. a \in Seq(STRING) /\ Len(a) = N - k /\ \A i \in 1 .. N - k : a[i] = order[k + i]
  BY <1>1 DEF Remaining
<1>3. a # <<>> => k < N
  BY <1>1, <1>2
<1>4. ASSUME k < N
      PROVE  Head(a) = order[k + 1] /\ Tail(a) = b
  <2>1. b \in Seq(STRING) /\ Len(b) = N - k - 1 /\ \A i \in 1 .. N - k - 1 : b[i] = order[k + 1 + i]
    BY <1>1, <1>4 DEF Remaining
  <2> HIDE DEF a, b, N
  <2>2. /\ Head(a) = order[k + 1] /\ Tail(a) \in Seq(STRING) /\ Len(Tail(a)) = N - k - 1
        /\ \A i \in 1 .. N - k - 1 : Tail(a)[i] = a[i + 1]
    BY <1>1, <1>2, <1>4
  <2>3. \A i \in 1 .. N - k - 1 : Tail(a)[i] = b[i]
    BY <1>1, <1>2, <1>4, <2>1, <2>2
  <2>4. Tail(a) = b
    BY <2>1, <2>2, <2>3, SeqEqual
  <2>5. QED
    BY <2>2, <2>4
<1>5. QED
  BY <1>2, <1>3, <1>4

\* A list with its last two calls, and the work before them.
LEMMA WorkThenTwo ==
  ASSUME NEW v \in Seq(Work), NEW x \in MainCalls, NEW y \in MainCalls
  PROVE  LET w == v \o <<x, y>>
         IN  /\ w \in Seq(MainCalls) /\ Len(w) \in Nat /\ Len(w) > 1
             /\ w[Len(w)] = y /\ w[Len(w) - 1] = x /\ (Len(w) > 2 => v # <<>>)
             /\ \A i \in 1 .. Len(w) : i < Len(w) - 1 => w[i] \in Work
<1> DEFINE w == v \o <<x, y>>
<1>1. Work \subseteq MainCalls
  BY DEF MainCalls
<1> HIDE DEF MainCalls, Work
<1>2. v \in Seq(MainCalls) /\ <<x, y>> \in Seq(MainCalls) /\ Len(v) \in Nat
  BY <1>1
<1>3. /\ w \in Seq(MainCalls) /\ Len(w) = Len(v) + 2
      /\ w[Len(v) + 1] = x /\ w[Len(v) + 2] = y /\ \A i \in 1 .. Len(v) : w[i] = v[i]
  BY <1>2
<1>4. \A i \in 1 .. Len(v) : v[i] \in Work
  OBVIOUS
<1> HIDE DEF w
<1>5. Len(w) - 1 = Len(v) + 1 /\ Len(w) > 1 /\ Len(w) \in Nat
  BY <1>2, <1>3
<1>6. w[Len(w)] = y /\ w[Len(w) - 1] = x
  BY <1>3, <1>5
<1>7. Len(w) > 2 => v # <<>>
  BY <1>2, <1>3
<1>8. \A i \in 1 .. Len(w) : i < Len(w) - 1 => w[i] \in Work
  BY <1>2, <1>3, <1>4, <1>5
<1>9. QED
  BY <1>3, <1>5, <1>6, <1>7, <1>8 DEF w

\* A call that puts nothing in front, and is not the last.
LEMMA MainPops ==
  ASSUME NEW order, NEW k \in Nat, NEW t, t \in Seq(MainCalls), Len(t) > 1,
         NEW units, NEW more, units \subseteq more, Loads(order, t, units, k),
         Len(t) = 2 => order[k] \in more
  PROVE  <<>> \o Tail(t) \in Seq(MainCalls) /\ Loads(order, <<>> \o Tail(t), more, k)
<1> DEFINE u == Tail(t)
<1> HIDE DEF MainCalls
<1>1. /\ u \in Seq(MainCalls) /\ Len(t) \in Nat /\ Len(u) = Len(t) - 1
      /\ \A i \in 1 .. Len(t) - 1 : u[i] = t[i + 1]
  OBVIOUS
<1>2. <<>> \o u = u
  BY <1>1, ConcatEmptySeq
<1> HIDE DEF u
<1> DEFINE N == Len(t)
           n == Len(u)
<1>3. N \in Nat /\ N > 1 /\ n = N - 1
  BY <1>1
<1>4. u[n] = t[N] /\ (n > 1 => u[n - 1] = t[N - 1])
  BY <1>1, <1>3
<1> HIDE DEF N
<1>5. \A i \in 1 .. n : i < n - 1 => i + 1 \in 1 .. N /\ i + 1 < N - 1 /\ u[i] = t[i + 1]
  BY <1>1, <1>3 DEF N
<1> HIDE DEF n
<1>6. Loads(order, u, more, k)
  <2>1. /\ \A i \in 1 .. Len(order) : i < k => order[i] \in more
        /\ t[N] = [do |-> "load", order |-> Remaining(order, k)]
        /\ k > 0 /\ t[N - 1] = [do |-> "loaded", unit |-> order[k]]
        /\ N > 2 => order[k] = "ProcessManager"
        /\ \A i \in 1 .. N : i < N - 1 => t[i] \in Work
    BY <1>3 DEF Loads, N
  <2>2. n = 1 => order[k] \in more
    BY <1>3 DEF N
  <2>3. \A i \in 1 .. n : i < n - 1 => u[i] \in Work
    BY <1>5, <2>1
  <2>4. n > 2 => N > 2
    BY <1>3
  <2>5. QED
    BY <1>4, <2>1, <2>2, <2>3, <2>4 DEF Loads, n
<1>7. QED
  BY <1>1, <1>2, <1>6 DEF u

\* What a load puts in front.
LEMMA LoadCalls ==
  ASSUME NEW m, NEW a, a # <<>>
  PROVE  Load(m, a).then = (IF Head(a) = "ProcessManager" THEN StartThread ELSE <<>>)
                           \o <<[do |-> "loaded", unit |-> Head(a)], [do |-> "load", order |-> Tail(a)]>>
BY DEF Load, Then

\* A call of the main thread.
LEMMA MainStep ==
  ASSUME NEW order \in Seq(STRING), NEW m, Alive(m), m.fate = "running",
         NEW t, t # <<>>, MainLoads(order, t, m.units), m.begun # {} => LoadedBefore(order, m.units),
         NEW r, r = Perform(m, Head(t))
  PROVE  /\ Holds(m, r.mem) /\ r.mem.fate \in {"running", "null"}
         /\ MainLoads(order, r.then \o Tail(t), r.mem.units)
         /\ r.mem.begun # {} => LoadedBefore(order, r.mem.units)
         /\ r.mem.fate = "null" => "Logger" \notin m.units /\ LoadedBefore(order, m.units)
<1>1. PICK k \in 0 .. Len(order) : Loads(order, t, m.units, k)
  BY DEF MainLoads
<1>2. t \in Seq(MainCalls) /\ Len(t) \in Nat /\ Len(t) > 0 /\ Head(t) = t[1] /\ k \in Nat /\ Len(order) \in Nat
  <2>1. t \in Seq(MainCalls)
    BY DEF MainLoads
  <2> HIDE DEF MainCalls
  <2>2. QED
    BY <2>1
<1>3. CASE Len(t) > 2
  <2>1. Head(t) \in Work
    <3>1. 1 \in 1 .. Len(t) /\ 1 < Len(t) - 1
      BY <1>2, <1>3
    <3>2. QED
      BY <1>1, <1>2, <3>1 DEF Loads
  <2>2. /\ r.then = <<>> /\ Holds(m, r.mem) /\ r.mem.fate \in {"running", "null"}
        /\ r.mem.fate = "null" => "Logger" \notin m.units
    BY <2>1, WorkCall
  <2>3. m.units \subseteq r.mem.units
    BY <2>2 DEF Holds
  <2>4. <<>> \o Tail(t) \in Seq(MainCalls) /\ Loads(order, <<>> \o Tail(t), r.mem.units, k)
    <3> DEFINE more == r.mem.units
               units == m.units
    <3>0. Loads(order, t, units, k) /\ units \subseteq more
      BY <1>1, <2>3
    <3>1. Len(t) > 1 /\ ~ (Len(t) = 2)
      <4> DEFINE N == Len(t)
      <4>1. N \in Nat /\ N > 2
        BY <1>2, <1>3
      <4> HIDE DEF N
      <4>2. N > 1 /\ ~ (N = 2)
        BY <4>1
      <4>3. QED
        BY <4>2 DEF N
    <3> HIDE DEF more, units
    <3>2. <<>> \o Tail(t) \in Seq(MainCalls) /\ Loads(order, <<>> \o Tail(t), more, k)
      BY <1>2, <3>0, <3>1, MainPops
    <3>3. QED
      BY <3>2 DEF more
  <2>5. LoadedBefore(order, m.units)
    <3>1. k \in 1 .. Len(order) /\ order[k] = "ProcessManager"
      BY <1>1, <1>2, <1>3 DEF Loads
    <3>2. QED
      BY <1>1, <3>1 DEF Loads, LoadedBefore
  <2>6. LoadedBefore(order, r.mem.units)
    BY <2>3, <2>5 DEF LoadedBefore
  <2>7. QED
    BY <2>2, <2>4, <2>5, <2>6 DEF MainLoads
<1>4. CASE Len(t) = 2
  <2> DEFINE u == order[k]
             n == [m EXCEPT !.units = @ \union {u}]
  <2>1. Head(t) = [do |-> "loaded", unit |-> u]
    BY <1>1, <1>2, <1>4 DEF Loads
  <2>2. r = [mem |-> n, then |-> <<>>]
    BY <2>1, PerformsStart DEF Loaded, Then
  <2>3. r = Loaded(m, u)
    BY <2>1, PerformsStart
  <2> HIDE DEF u
  <2>4. Holds(m, r.mem) /\ r.mem.begun = m.begun
    BY <2>3, OnlyWorkBegins
  <2>5. n.units = m.units \union {u} /\ n.fate = m.fate
    BY DEF Alive, Fields
  <2> HIDE DEF n
  <2>6. <<>> \o Tail(t) \in Seq(MainCalls) /\ Loads(order, <<>> \o Tail(t), r.mem.units, k)
    <3> DEFINE more == r.mem.units
               units == m.units
    <3>1. Loads(order, t, units, k) /\ units \subseteq more /\ Len(t) > 1 /\ order[k] \in more
      BY <1>1, <1>2, <1>4, <2>2, <2>5 DEF u
    <3> HIDE DEF more, units
    <3>2. <<>> \o Tail(t) \in Seq(MainCalls) /\ Loads(order, <<>> \o Tail(t), more, k)
      BY <1>2, <3>1, MainPops
    <3>3. QED
      BY <3>2 DEF more
  <2>7. r.mem.begun # {} => LoadedBefore(order, r.mem.units)
    BY <2>2, <2>4, <2>5 DEF LoadedBefore
  <2>8. r.then = <<>> /\ r.mem.fate = "running"
    BY <2>2, <2>5
  <2>9. MainLoads(order, r.then \o Tail(t), r.mem.units)
    BY <2>6, <2>8 DEF MainLoads
  <2>10. QED
    BY <2>4, <2>7, <2>8, <2>9
<1>5. CASE Len(t) = 1
  <2> DEFINE a == Remaining(order, k)
             g == order[k + 1]
             b == Remaining(order, k + 1)
             v == IF g = "ProcessManager" THEN StartThread ELSE <<>>
             x == [do |-> "loaded", unit |-> g]
             y == [do |-> "load", order |-> b]
             w == v \o <<x, y>>
  <2>1. Head(t) = [do |-> "load", order |-> a] /\ Tail(t) = <<>>
    <3>1. Tail(t) = <<>>
      <4> DEFINE z == Tail(t)
      <4> HIDE DEF MainCalls
      <4>1. z \in Seq(MainCalls) /\ Len(z) = 0
        BY <1>2, <1>5
      <4> HIDE DEF z
      <4>2. z = <<>>
        BY <4>1
      <4>3. QED
        BY <4>2 DEF z
    <3>2. QED
      BY <1>1, <1>2, <1>5, <3>1 DEF Loads
  <2>2. r = Load(m, a)
    BY <2>1, PerformsStart
  <2>3. r.mem = m /\ Holds(m, m)
    BY <2>2 DEF Load, Then, Holds
  <2>4. MainLoads(order, r.then \o Tail(t), m.units)
    <3>1. CASE a = <<>>
      <4>1. r.then = <<>>
        BY <2>2, <3>1 DEF Load, Then, Processs
      <4>2. <<>> \in Seq(MainCalls)
        OBVIOUS
      <4> HIDE DEF MainCalls
      <4>3. <<>> \o <<>> = <<>>
        BY <4>2, ConcatEmptySeq
      <4>4. QED
        BY <2>1, <4>1, <4>2, <4>3 DEF MainLoads
    <3>2. CASE a # <<>>
      <4>1. k < Len(order) /\ Head(a) = g /\ Tail(a) = b
        BY <1>2, <3>2, RemainingType
      <4>2. r.then = w
        <5>1. r.then = (IF Head(a) = "ProcessManager" THEN StartThread ELSE <<>>)
                       \o <<[do |-> "loaded", unit |-> Head(a)], [do |-> "load", order |-> Tail(a)]>>
          BY <2>2, <3>2, LoadCalls
        <5> HIDE DEF a, g, b
        <5>2. QED
          BY <4>1, <5>1
      <4>3. g \in STRING /\ b \in Seq(STRING)
        <5>1. k + 1 \in 0 .. Len(order) /\ k + 1 \in 1 .. Len(order)
          BY <1>2, <4>1
        <5>2. b \in Seq(STRING)
          BY <5>1, RemainingType
        <5>3. g \in STRING
          BY <5>1
        <5>4. QED
          BY <5>2, <5>3
      <4>4. x \in MainCalls /\ y \in MainCalls
        BY <4>3 DEF MainCalls, Loading
      <4>5. v \in Seq(Work)
        BY StartThreadWork
      <4>6. v # <<>> => g = "ProcessManager"
        OBVIOUS
      <4> HIDE DEF x, y, v
      <4>7. /\ w \in Seq(MainCalls) /\ Len(w) \in Nat /\ Len(w) > 1
            /\ w[Len(w)] = y /\ w[Len(w) - 1] = x /\ (Len(w) > 2 => v # <<>>)
            /\ \A i \in 1 .. Len(w) : i < Len(w) - 1 => w[i] \in Work
        BY <4>4, <4>5, WorkThenTwo
      <4> HIDE DEF w, MainCalls
      <4>8. w \o <<>> = w
        BY <4>7, ConcatEmptySeq
      <4>9. \A i \in 1 .. Len(order) : i < k + 1 => order[i] \in m.units
        <5>1. k > 0 => order[k] \in m.units
          BY <1>1, <1>5 DEF Loads
        <5>2. \A i \in 1 .. Len(order) : i < k => order[i] \in m.units
          BY <1>1 DEF Loads
        <5>3. \A i \in 1 .. Len(order) : i < k + 1 => i < k \/ (i = k /\ k > 0)
          BY <1>2
        <5>4. QED
          BY <5>1, <5>2, <5>3
      <4>10. Loads(order, w, m.units, k + 1)
        <5>1. k + 1 > 0 /\ ~ (Len(w) = 1)
          BY <1>2, <4>7
        <5>2. QED
          BY <4>6, <4>7, <4>9, <5>1 DEF Loads, x, y
      <4>11. k + 1 \in 0 .. Len(order)
        BY <1>2, <4>1
      <4>12. MainLoads(order, w, m.units)
        BY <4>7, <4>10, <4>11 DEF MainLoads
      <4>13. QED
        BY <2>1, <4>2, <4>8, <4>12
    <3>3. QED
      BY <3>1, <3>2
  <2>5. QED
    BY <2>3, <2>4
<1>6. Len(t) > 2 \/ Len(t) = 2 \/ Len(t) = 1
  <2> DEFINE N == Len(t)
  <2>1. N \in Nat /\ N > 0
    BY <1>2
  <2> HIDE DEF N
  <2>2. N > 2 \/ N = 2 \/ N = 1
    BY <2>1
  <2>3. QED
    BY <2>2 DEF N
<1>7. QED
  BY <1>3, <1>4, <1>5, <1>6

UnitUses(order) == [do : {"useUnit"}, unit : Range(order) \ {"ProcessManager"}]

\* A server has not begun to serve, or serves and uses units that are initialised before its thread is.
Serves(s, m, th, t) ==
  \/ t = s.jobs[th]
  \/ m.begun # {} /\ (th \in m.served \/ m.junk) /\ t \in Seq(UnitUses(s.order))

StartGoesOn(s, m, calls) ==
  /\ Alive(m) /\ m.junk = s.mem.junk
  /\ MainLoads(s.order, calls["main"], m.units)
  /\ m.begun # {} => LoadedBefore(s.order, m.units)
  /\ \A th \in DOMAIN calls \ {"main"} : Serves(s, m, th, calls[th])

StartInv ==
  scene.kind = "start" =>
    /\ DOMAIN todo = DOMAIN scene.jobs
    /\ mem.fate = "running" => StartGoesOn(scene, mem, todo)
    /\ mem.fate = "null" => Last(scene.order) # "ProcessManager"

\* What the scenes of the start give.
LEMMA SceneOfStart ==
  ASSUME NEW s \in Scenes, s.kind = "start"
  PROVE  /\ s.mem = [Empty EXCEPT !.taken = s.mem.taken, !.junk = s.mem.junk]
         /\ s.order \in Seq(STRING) /\ IsInjective(s.order) /\ "Logger" \in Range(s.order)
         /\ "main" \in DOMAIN s.jobs /\ s.jobs["main"] = <<[do |-> "load", order |-> s.order]>>
         /\ \A th \in DOMAIN s.jobs \ {"main"} :
              /\ s.jobs[th] # <<>> /\ Head(s.jobs[th]) = [do |-> "serve", who |-> th]
              /\ Tail(s.jobs[th]) \in Seq(UnitUses(s.order))
BY ThreadsAssumption DEF StartScene, UnitUses

\* When ProcessManager's unit is the last, all the others are loaded before a thread begins.
LEMMA LastLoaded ==
  ASSUME NEW order \in Seq(STRING), IsInjective(order), Last(order) = "ProcessManager",
         NEW units, LoadedBefore(order, units), NEW u \in Range(order) \ {"ProcessManager"}
  PROVE  u \in units
<1>1. DOMAIN order = 1 .. Len(order) /\ Len(order) \in Nat
  OBVIOUS
<1>2. PICK k \in 1 .. Len(order) : order[k] = "ProcessManager" /\ \A i \in 1 .. Len(order) : i < k => order[i] \in units
  BY DEF LoadedBefore
<1>3. Len(order) \in DOMAIN order /\ order[Len(order)] = "ProcessManager"
  BY <1>1, <1>2 DEF Last
<1>4. k = Len(order)
  BY <1>1, <1>2, <1>3 DEF IsInjective
<1>5. PICK i \in 1 .. Len(order) : order[i] = u
  BY <1>1 DEF Range
<1>6. i # k
  BY <1>2, <1>5
<1>7. i < k
  <2> DEFINE N == Len(order)
  <2>1. N \in Nat /\ i \in 1 .. N /\ k = N /\ i # k
    BY <1>1, <1>4, <1>6
  <2> HIDE DEF N
  <2>2. QED
    BY <2>1
<1>8. QED
  BY <1>2, <1>5, <1>7

\* A server that runs on after its init serves, or its epoll descriptor is a chance one.
LEMMA ServeCall ==
  ASSUME NEW m, Alive(m), m.fate = "running", NEW th, NEW r, r = Serve(m, th)
  PROVE  /\ r.then = <<>> /\ Holds(m, r.mem) /\ r.mem.begun = m.begun /\ r.mem.fate # "null"
         /\ r.mem.fate = "running" => th \in r.mem.served \/ r.mem.junk
<1> DEFINE n3 == [m EXCEPT !.served = @ \union {th}]
           n4 == [m EXCEPT !.fate = "exit"]
<1>1. r.then = <<>> /\ Holds(m, r.mem) /\ r.mem.begun = m.begun
  BY OnlyWorkBegins
<1>2. \/ r.mem = n3
      \/ r.mem = m /\ m.junk
      \/ r.mem = n4
  BY DEF Serve, Then, Dies
<1>3. n3.fate = "running" /\ th \in n3.served /\ n4.fate = "exit"
  BY DEF Alive, Fields
<1> HIDE DEF n3, n4
<1>4. QED
  BY <1>1, <1>2, <1>3

\* A unit is used.
LEMMA UseCall ==
  ASSUME NEW m, Alive(m), m.fate = "running", NEW u, NEW r, r = UseUnit(m, u)
  PROVE  /\ r.then = <<>> /\ Holds(m, r.mem) /\ r.mem.begun = m.begun
         /\ r.mem.fate = "running" => r.mem = m
         /\ r.mem.fate = "null" => u \notin m.units
<1> DEFINE n == [m EXCEPT !.fate = "null"]
<1>1. r.then = <<>> /\ Holds(m, r.mem) /\ r.mem.begun = m.begun
  BY OnlyWorkBegins
<1>2. (u \in m.units /\ r.mem = m) \/ (u \notin m.units /\ r.mem = n)
  BY DEF UseUnit, Then, Dies
<1>3. n.fate = "null"
  BY DEF Alive, Fields
<1> HIDE DEF n
<1>4. QED
  BY <1>1, <1>2, <1>3

\* A call of a server's thread.
LEMMA ServerStep ==
  ASSUME NEW s \in Scenes, s.kind = "start", NEW m, Alive(m), m.fate = "running",
         NEW th \in DOMAIN s.jobs \ {"main"}, NEW t, t # <<>>, Serves(s, m, th, t),
         Head(t).do = "serve" => th \in m.begun, m.begun # {} => LoadedBefore(s.order, m.units),
         NEW r, r = Perform(m, Head(t))
  PROVE  /\ Holds(m, r.mem) /\ r.mem.begun = m.begun
         /\ r.mem.fate = "running" => Serves(s, r.mem, th, r.then \o Tail(t))
         /\ r.mem.fate = "null" => Last(s.order) # "ProcessManager"
<1> DEFINE U == UnitUses(s.order)
           v == Tail(t)
<1>1. CASE t = s.jobs[th]
  <2>1. Head(t) = [do |-> "serve", who |-> th] /\ v \in Seq(U)
    BY <1>1, SceneOfStart
  <2>2. r = Serve(m, th) /\ th \in m.begun
    BY <2>1, PerformsStart
  <2>3. /\ r.then = <<>> /\ Holds(m, r.mem) /\ r.mem.begun = m.begun /\ r.mem.fate # "null"
        /\ r.mem.fate = "running" => th \in r.mem.served \/ r.mem.junk
    BY <2>2, ServeCall
  <2> HIDE DEF U, v
  <2>4. <<>> \o v = v
    BY <2>1, ConcatEmptySeq
  <2>5. r.mem.fate = "running" => Serves(s, r.mem, th, r.then \o v)
    BY <2>1, <2>2, <2>3, <2>4 DEF Serves, U
  <2>6. QED
    BY <2>3, <2>5 DEF v
<1>2. CASE m.begun # {} /\ (th \in m.served \/ m.junk) /\ t \in Seq(U)
  <2> DEFINE c == Head(t)
             u == c.unit
  <2>1. c \in U /\ v \in Seq(U)
    <3> HIDE DEF U
    <3>1. QED
      BY <1>2
  <2>2. c.do = "useUnit" /\ u \in Range(s.order) \ {"ProcessManager"}
    BY <2>1 DEF UnitUses
  <2> HIDE DEF U, v
  <2>3. r = UseUnit(m, u)
    BY <2>2, PerformsStart
  <2> HIDE DEF c, u
  <2>4. /\ r.then = <<>> /\ Holds(m, r.mem) /\ r.mem.begun = m.begun
        /\ r.mem.fate = "running" => r.mem = m
        /\ r.mem.fate = "null" => u \notin m.units
    BY <2>3, UseCall
  <2>5. <<>> \o v = v
    BY <2>1, ConcatEmptySeq
  <2>6. r.mem.fate = "running" => Serves(s, r.mem, th, r.then \o v)
    BY <1>2, <2>1, <2>4, <2>5 DEF Serves, U
  <2>7. ASSUME r.mem.fate = "null", Last(s.order) = "ProcessManager"
        PROVE  FALSE
    <3> DEFINE order == s.order
               units == m.units
    <3>1. order \in Seq(STRING) /\ IsInjective(order) /\ Last(order) = "ProcessManager"
          /\ LoadedBefore(order, units) /\ u \in Range(order) \ {"ProcessManager"}
      BY <1>2, <2>2, <2>7, SceneOfStart
    <3> HIDE DEF order, units
    <3>2. u \in units
      BY <3>1, LastLoaded
    <3>3. QED
      BY <2>4, <2>7, <3>2 DEF units
  <2>8. QED
    BY <2>4, <2>6, <2>7 DEF v
<1>3. QED
  BY <1>1, <1>2 DEF Serves

\* Where the start begins.
LEMMA StartInit ==
  ASSUME NEW s \in Scenes, s.kind = "start"
  PROVE  StartGoesOn(s, s.mem, s.jobs) /\ s.mem.fate # "null"
<1> DEFINE m == s.mem
           order == s.order
           J == s.jobs
           t == <<[do |-> "load", order |-> order]>>
           x == m.taken
           y == m.junk
<1>1. /\ m = [Empty EXCEPT !.taken = x, !.junk = y]
      /\ order \in Seq(STRING) /\ J["main"] = t
  BY SceneOfStart
<1> HIDE DEF m, order, J, x, y
<1>2. Alive(m) /\ m.begun = {} /\ m.fate = "running"
  BY <1>1, EmptyFields DEF Alive, Empty, LoggerFields, NewLogger
<1>3. Remaining(order, 0) = order
  <2> DEFINE a == Remaining(order, 0)
  <2>1. a \in Seq(STRING) /\ Len(a) = Len(order) /\ \A i \in 1 .. Len(order) : a[i] = order[i]
    BY <1>1 DEF Remaining
  <2> HIDE DEF a
  <2>2. a = order
    BY <1>1, <2>1, SeqEqual
  <2>3. QED
    BY <2>2 DEF a
<1>4. MainLoads(order, t, m.units)
  <2> DEFINE c == [do |-> "load", order |-> order]
  <2>1. c \in MainCalls
    BY <1>1 DEF MainCalls, Loading
  <2>2. c = [do |-> "load", order |-> Remaining(order, 0)]
    BY <1>3
  <2> HIDE DEF c, MainCalls
  <2>3. <<c>> \in Seq(MainCalls) /\ Len(<<c>>) = 1 /\ <<c>>[1] = c
    BY <2>1
  <2>4. Loads(order, <<c>>, m.units, 0)
    BY <1>1, <2>2, <2>3 DEF Loads
  <2>5. 0 \in 0 .. Len(order)
    BY <1>1
  <2>6. QED
    BY <2>3, <2>4, <2>5 DEF MainLoads, c
<1>5. \A th \in DOMAIN J \ {"main"} : Serves(s, m, th, J[th])
  BY DEF Serves, J
<1>6. QED
  BY <1>1, <1>2, <1>4, <1>5 DEF StartGoesOn, m, order, J

\* A thread's step, as After describes it, with the process running on or not.
LEMMA StartStep ==
  ASSUME NEW s \in Scenes, s.kind = "start", NEW m, m.fate = "running",
         NEW calls, DOMAIN calls = DOMAIN s.jobs, StartGoesOn(s, m, calls),
         NEW th \in DOMAIN calls, calls[th] # <<>>, Head(calls[th]).do = "serve" => th \in m.begun,
         NEW e, e = After(m, calls[th]), NEW next, next = [calls EXCEPT ![th] = e.todo]
  PROVE  /\ e.mem.fate = "running" => StartGoesOn(s, e.mem, next)
         /\ e.mem.fate = "null" => Last(s.order) # "ProcessManager"
<1> DEFINE t == calls[th]
           r == Perform(m, Head(t))
           n == r.mem
           rest == r.then \o Tail(t)
           f == [n EXCEPT !.fate = "stack"]
           T == DOMAIN calls
           order == s.order
<1>1. e = IF n.fate # "running" THEN [mem |-> n, todo |-> <<>>]
          ELSE IF Len(rest) > MaxCalls THEN [mem |-> f, todo |-> <<>>] ELSE [mem |-> n, todo |-> rest]
  BY DEF After
<1>2. /\ Alive(m) /\ m.junk = s.mem.junk
      /\ MainLoads(order, calls["main"], m.units)
      /\ m.begun # {} => LoadedBefore(order, m.units)
      /\ \A x \in T \ {"main"} : Serves(s, m, x, calls[x])
  BY DEF StartGoesOn
<1>3. order \in Seq(STRING) /\ IsInjective(order) /\ "Logger" \in Range(order) /\ "main" \in T
  BY SceneOfStart
<1>4. /\ Holds(m, n)
      /\ n.begun # {} => LoadedBefore(order, n.units)
      /\ n.fate = "null" => Last(order) # "ProcessManager"
      /\ th = "main" => MainLoads(order, rest, n.units)
      /\ th # "main" /\ n.fate = "running" => Serves(s, n, th, rest)
  <2>1. CASE th = "main"
    <3>1. MainLoads(order, t, m.units) /\ t # <<>> /\ r = Perform(m, Head(t))
      BY <1>2, <2>1
    <3>2. /\ Holds(m, n) /\ n.fate \in {"running", "null"}
          /\ MainLoads(order, rest, n.units)
          /\ n.begun # {} => LoadedBefore(order, n.units)
          /\ n.fate = "null" => "Logger" \notin m.units /\ LoadedBefore(order, m.units)
      <4> DEFINE rr == r
      <4>0. rr = Perform(m, Head(t))
        OBVIOUS
      <4> HIDE DEF t, rr, order
      <4>1. /\ Holds(m, rr.mem) /\ rr.mem.fate \in {"running", "null"}
            /\ MainLoads(order, rr.then \o Tail(t), rr.mem.units)
            /\ rr.mem.begun # {} => LoadedBefore(order, rr.mem.units)
            /\ rr.mem.fate = "null" => "Logger" \notin m.units /\ LoadedBefore(order, m.units)
        BY <1>2, <1>3, <3>1, <4>0, MainStep
      <4>2. QED
        BY <4>1 DEF rr
    <3> HIDE DEF r, n, rest, t, order
    <3>3. n.fate = "null" => Last(order) # "ProcessManager"
      <4>1. "Logger" \in Range(order) \ {"ProcessManager"}
        BY <1>3
      <4> DEFINE units == m.units
      <4>2. n.fate = "null" => "Logger" \notin units /\ LoadedBefore(order, units)
        BY <3>2
      <4> HIDE DEF units
      <4>3. Last(order) = "ProcessManager" /\ LoadedBefore(order, units) => "Logger" \in units
        BY <1>3, <4>1, LastLoaded
      <4>4. QED
        BY <4>2, <4>3
    <3>4. QED
      BY <2>1, <3>2, <3>3
  <2>2. CASE th # "main"
    <3>1. th \in DOMAIN s.jobs \ {"main"} /\ Serves(s, m, th, t) /\ t # <<>> /\ (Head(t).do = "serve" => th \in m.begun)
      BY <1>2, <2>2
    <3>2. /\ Holds(m, n) /\ n.begun = m.begun
          /\ n.fate = "running" => Serves(s, n, th, rest)
          /\ n.fate = "null" => Last(order) # "ProcessManager"
      <4> DEFINE rr == r
      <4>0. rr = Perform(m, Head(t))
        OBVIOUS
      <4> HIDE DEF t, rr
      <4>1. /\ Holds(m, rr.mem) /\ rr.mem.begun = m.begun
            /\ rr.mem.fate = "running" => Serves(s, rr.mem, th, rr.then \o Tail(t))
            /\ rr.mem.fate = "null" => Last(s.order) # "ProcessManager"
        BY <1>2, <3>1, <4>0, ServerStep
      <4>2. QED
        BY <4>1 DEF rr
    <3> HIDE DEF r, n, rest, t, order
    <3>3. n.begun # {} => LoadedBefore(order, n.units)
      BY <1>2, <3>2 DEF Holds, LoadedBefore
    <3>4. QED
      BY <2>2, <3>2, <3>3
  <2>3. QED
    BY <2>1, <2>2
<1>5. f.fate = "stack"
  BY <1>4 DEF Holds, Alive, Fields
<1> HIDE DEF r, n, rest, f, t, T, order
<1>6. /\ e.mem.fate = "null" => n.fate = "null"
      /\ e.mem.fate = "running" => n.fate = "running" /\ e.mem = n /\ e.todo = rest
  BY <1>1, <1>5
<1>7. ASSUME e.mem.fate = "running"
      PROVE  StartGoesOn(s, n, next)
  <2>1. DOMAIN next = T /\ next[th] = rest /\ \A x \in T \ {th} : next[x] = calls[x]
    BY <1>6, <1>7 DEF T
  <2>2. m.units \subseteq n.units /\ m.served \subseteq n.served /\ m.begun \subseteq n.begun /\ n.junk = m.junk
    BY <1>4 DEF Holds
  <2>3. MainLoads(order, next["main"], n.units)
    <3>1. CASE th = "main"
      BY <1>4, <2>1, <3>1
    <3>2. CASE th # "main"
      <4>1. next["main"] = calls["main"]
        BY <1>3, <2>1, <3>2
      <4>2. MainLoads(order, calls["main"], n.units)
        BY <1>2, <2>2 DEF MainLoads, Loads
      <4>3. QED
        BY <4>1, <4>2
    <3>3. QED
      BY <3>1, <3>2
  <2>4. ASSUME NEW x \in T \ {"main"}
        PROVE  Serves(s, n, x, next[x])
    <3>1. CASE x = th
      BY <1>4, <1>6, <1>7, <2>1, <2>4, <3>1
    <3>2. CASE x # th
      BY <1>2, <2>1, <2>2, <2>4, <3>2 DEF Serves
    <3>3. QED
      BY <3>1, <3>2
  <2>5. QED
    BY <1>2, <1>4, <2>1, <2>2, <2>3, <2>4 DEF StartGoesOn, Holds, order
<1>8. QED
  BY <1>4, <1>6, <1>7 DEF order

-----------------------------------------------------------------------------
(* Theorems.                                                                 *)

\* The inductive invariant: what goes on in the scenes of the log and of the start.
Inv == scene \in Scenes /\ LogInv /\ StartInv

\* The invariant holds at first.
LEMMA InvInit == Init => Inv
<1> SUFFICES ASSUME Init PROVE Inv
  OBVIOUS
<1>1. scene \in Scenes /\ mem = scene.mem /\ todo = scene.jobs
  BY DEF Init
<1>2. LogInv
  BY <1>1, LogInit DEF LogInv
<1>3. StartInv
  BY <1>1, StartInit DEF StartInv
<1>4. QED
  BY <1>1, <1>2, <1>3 DEF Inv

\* Every step keeps it.
LEMMA InvNext == Inv /\ [Next]_vars => Inv'
<1> SUFFICES ASSUME Inv, [Next]_vars PROVE Inv'
  OBVIOUS
<1>1. CASE UNCHANGED vars
  BY <1>1 DEF Inv, LogInv, StartInv, vars
<1>2. ASSUME NEW th \in DOMAIN todo, Step(th)
      PROVE  Inv'
  <2> DEFINE e == After(mem, todo[th])
  <2>1. /\ mem.fate = "running" /\ todo[th] # <<>> /\ Ready(th) /\ scene' = scene
        /\ mem' = e.mem /\ todo' = [todo EXCEPT ![th] = e.todo]
    BY <1>2 DEF Step
  <2>2. scene \in Scenes /\ LogInv /\ StartInv
    BY DEF Inv
  <2>3. DOMAIN todo' = DOMAIN todo
    BY <2>1
  <2> HIDE DEF e
  <2>4. LogInv'
    <3>1. SUFFICES ASSUME scene.kind = "log"
                   PROVE  /\ DOMAIN todo' = DOMAIN scene.jobs
                          /\ e.mem.fate = "running" => LogGoesOn(scene, e.mem, todo')
      BY <2>1 DEF LogInv
    <3>2. DOMAIN todo = DOMAIN scene.jobs /\ LogGoesOn(scene, mem, todo)
      BY <2>1, <2>2, <3>1 DEF LogInv
    <3>3. e.mem.fate = "running" => LogGoesOn(scene, e.mem, todo')
      BY <1>2, <2>1, <2>2, <3>1, <3>2, LogStep DEF e
    <3>4. QED
      BY <2>3, <3>2, <3>3
  <2>5. StartInv'
    <3>1. SUFFICES ASSUME scene.kind = "start"
                   PROVE  /\ DOMAIN todo' = DOMAIN scene.jobs
                          /\ e.mem.fate = "running" => StartGoesOn(scene, e.mem, todo')
                          /\ e.mem.fate = "null" => Last(scene.order) # "ProcessManager"
      BY <2>1 DEF StartInv
    <3>2. DOMAIN todo = DOMAIN scene.jobs /\ StartGoesOn(scene, mem, todo)
      BY <2>1, <2>2, <3>1 DEF StartInv
    <3>3. /\ e.mem.fate = "running" => StartGoesOn(scene, e.mem, todo')
          /\ e.mem.fate = "null" => Last(scene.order) # "ProcessManager"
      BY <1>2, <2>1, <2>2, <3>1, <3>2, StartStep DEF e, Ready
    <3>4. QED
      BY <2>3, <3>2, <3>3
  <2>6. QED
    BY <2>1, <2>2, <2>4, <2>5 DEF Inv
<1>3. QED
  BY <1>1, <1>2 DEF Next

\* It implies LinesKept.
LEMMA InvLinesKept == Inv => LinesKept
<1> SUFFICES ASSUME Inv, Done, scene.kind = "log", mem.fate = "running"
             PROVE  /\ \A c \in UNION {Range(scene.jobs[th]) : th \in DOMAIN todo} :
                         c.do = "log" => Stored(c.line) \/ mem.turned \ {c.line} # {}
                    /\ Stored("before") \/ \E i, j \in DOMAIN mem.stamps : i # j /\ mem.stamps[i] = mem.stamps[j]
  BY DEF LinesKept
<1>1. scene \in Scenes /\ DOMAIN todo = DOMAIN scene.jobs /\ LogGoesOn(scene, mem, todo)
  BY DEF Inv, LogInv
<1>2. \A th \in DOMAIN todo : todo[th] = <<>>
  BY DEF Done
<1>3. \A th \in DOMAIN todo : scene.jobs[th] \in Seq(LogJobs)
  BY <1>1, SceneOfLog
<1>4. /\ \A th \in DOMAIN todo : \A i \in 1 .. Len(scene.jobs[th]) :
           LET c == scene.jobs[th][i]
           IN  c.do = "log" => (\E e \in mem.dir : c.line \in mem.lines[e[2]]) \/ mem.turned \ {c.line} # {}
      /\ (\E e \in mem.dir : "before" \in mem.lines[e[2]]) \/ Collided(mem)
  <2> DEFINE s == scene
             m == mem
             calls == todo
  <2>1. s \in Scenes /\ s.kind = "log" /\ DOMAIN calls = DOMAIN s.jobs /\ LogGoesOn(s, m, calls)
        /\ \A th \in DOMAIN calls : calls[th] = <<>>
    BY <1>1, <1>2
  <2> HIDE DEF s, m, calls
  <2>2. /\ \A th \in DOMAIN calls : \A i \in 1 .. Len(s.jobs[th]) :
             LET c == s.jobs[th][i]
             IN  c.do = "log" => (\E e \in m.dir : c.line \in m.lines[e[2]]) \/ m.turned \ {c.line} # {}
        /\ (\E e \in m.dir : "before" \in m.lines[e[2]]) \/ Collided(m)
    BY <2>1, LogEnds
  <2>3. QED
    BY <2>2 DEF s, m, calls
<1>5. ASSUME NEW c \in UNION {Range(scene.jobs[th]) : th \in DOMAIN todo}, c.do = "log"
      PROVE  Stored(c.line) \/ mem.turned \ {c.line} # {}
  <2>1. PICK th \in DOMAIN todo : c \in Range(scene.jobs[th])
    OBVIOUS
  <2>2. DOMAIN scene.jobs[th] = 1 .. Len(scene.jobs[th])
    BY <1>3
  <2>3. PICK i \in 1 .. Len(scene.jobs[th]) : c = scene.jobs[th][i]
    BY <2>1, <2>2 DEF Range
  <2>4. QED
    BY <1>4, <1>5, <2>3 DEF Stored
<1>6. Stored("before") \/ \E i, j \in DOMAIN mem.stamps : i # j /\ mem.stamps[i] = mem.stamps[j]
  <2>1. DOMAIN mem.stamps = 1 .. Len(mem.stamps)
    <3>1. mem.stamps \in Seq(Nat \X Nat)
      BY <1>1 DEF LogGoesOn, LogKept, LogTyped
    <3>2. QED
      BY <3>1
  <2>2. QED
    BY <1>4, <2>1 DEF Stored, Collided
<1>7. QED
  BY <1>5, <1>6

\* It implies StartsClean.
LEMMA InvStartsClean == Inv => StartsClean
<1> SUFFICES ASSUME Inv, scene.kind = "start"
             PROVE  /\ Done /\ mem.fate = "running" => scene.mem.junk \/ DOMAIN todo \ {"main"} \subseteq mem.served
                    /\ mem.fate = "null" => Last(scene.order) # "ProcessManager"
  BY DEF StartsClean
<1>1. /\ scene \in Scenes /\ DOMAIN todo = DOMAIN scene.jobs
      /\ mem.fate = "running" => StartGoesOn(scene, mem, todo)
      /\ mem.fate = "null" => Last(scene.order) # "ProcessManager"
  BY DEF Inv, StartInv
<1>2. ASSUME Done, mem.fate = "running", ~ scene.mem.junk, NEW th \in DOMAIN todo \ {"main"}
      PROVE  th \in mem.served
  <2>1. todo[th] = <<>>
    BY <1>2 DEF Done
  <2>2. ~ mem.junk /\ Serves(scene, mem, th, todo[th])
    BY <1>1, <1>2 DEF StartGoesOn
  <2>3. scene.jobs[th] # <<>>
    BY <1>1, <1>2, SceneOfStart
  <2>4. QED
    BY <2>1, <2>2, <2>3 DEF Serves
<1>3. QED
  BY <1>1, <1>2

\* However the LOG calls of any number of threads interleave, a line is lost only to another thread's
\* rotation, and what the log held before only to two rotations that gave their files one name (utils/logger).
THEOREM SpecLinesKept == Spec => []LinesKept
<1>1. QED
  BY InvInit, InvNext, InvLinesKept, PTL DEF Spec

\* Whatever the order of the static initialisers and of the threads, the process serves all its ports
\* or exits, and meets no missing manager when ProcessManager's unit comes last (ProcessManager).
THEOREM SpecStartsClean == Spec => []StartsClean
<1>1. QED
  BY InvInit, InvNext, InvStartsClean, PTL DEF Spec
=============================================================================
