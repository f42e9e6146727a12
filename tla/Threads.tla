------------------------------ MODULE Threads ------------------------------
(***************************************************************************)
(* The threads of the process, between their calls.  Relay takes a handler *)
(* for one step; here the handlers of two threads are interleaved call by  *)
(* call, from every shared state of a small instance in which they can be  *)
(* under way together, and so are threads that log, and the threads that   *)
(* start while the static initialisers still run.                          *)
(***************************************************************************)
EXTENDS Handlers, LogFile, Startup, SequencesExt

CONSTANTS
  Scenes,   \* what may be under way: a shared state, and the first calls of some threads
  MaxCalls  \* bound: a thread with more calls to make has nested its teardowns without end

VARIABLES
  scene,  \* where it began
  mem,    \* the shared state
  todo    \* the calls each thread has still to make

vars == <<scene, mem, todo>>

\* The log is open, and its one file holds one line; no LOG call has rotated it yet.
LogOpens(m) ==
  /\ DOMAIN m = DOMAIN Empty
  /\ m.fate = "running" /\ m.turned = {} /\ m.stamps = <<>>
  /\ m.log \in [fd : Fds, size : Nat, last : Nat, old : Nat]
  /\ m.inode \in [Fds -> {Null, 1}] /\ m.inode[m.log.fd] = 1
  /\ m.lines = <<{"before"}>> /\ m.dir = {<<LogName, 1>>}
  /\ m.now \in [day : Nat \ {0}, second : Nat \ {0}]

\* What threads do around a rotation; a line stands for the LOG call that writes it.
LogJobs ==
  [do : {"log"}, line : STRING] \union [do : {"accept"}, id : Devices] \union [do : {"nextSecond"}]

LogScene(s) ==
  /\ LogOpens(s.mem)
  /\ \A th \in DOMAIN s.jobs : s.jobs[th] \in Seq(LogJobs)
  /\ \A th1, th2 \in DOMAIN s.jobs : \A i \in DOMAIN s.jobs[th1], j \in DOMAIN s.jobs[th2] :
       /\ s.jobs[th1][i].do = "log" /\ s.jobs[th2][j].do = "log"
       /\ s.jobs[th1][i].line = s.jobs[th2][j].line
       => th1 = th2 /\ i = j

\* The main thread loads each unit once; a server serves and then uses other units than the one
\* that starts it.
StartScene(s) ==
  /\ s.mem = [Empty EXCEPT !.taken = s.mem.taken, !.junk = s.mem.junk]
  /\ s.order \in Seq(STRING) /\ IsInjective(s.order) /\ "Logger" \in Range(s.order)
  /\ "main" \in DOMAIN s.jobs /\ s.jobs["main"] = <<[do |-> "load", order |-> s.order]>>
  /\ \A th \in DOMAIN s.jobs \ {"main"} :
       /\ s.jobs[th] # <<>> /\ Head(s.jobs[th]) = [do |-> "serve", who |-> th]
       /\ Tail(s.jobs[th]) \in Seq([do : {"useUnit"}, unit : Range(s.order) \ {"ProcessManager"}])

ASSUME ThreadsAssumption ==
  \A s \in Scenes : (s.kind = "log" => LogScene(s)) /\ (s.kind = "start" => StartScene(s))

Perform(m, c) ==
  IF c.do \in LogCalls THEN PerformLog(m, c)
  ELSE IF c.do \in StartCalls THEN PerformStart(m, c)
  ELSE PerformHandler(m, c)

\* One call, and what is left to do; nothing is once the process has ended.
After(m, calls) ==
  LET r    == Perform(m, Head(calls))
      rest == r.then \o Tail(calls)
  IN  IF r.mem.fate # "running" THEN [mem |-> r.mem, todo |-> <<>>]
      ELSE IF Len(rest) > MaxCalls THEN [mem |-> [r.mem EXCEPT !.fate = "stack"], todo |-> <<>>]
      ELSE [mem |-> r.mem, todo |-> rest]

Init ==
  /\ scene \in Scenes
  /\ mem = scene.mem
  /\ todo = scene.jobs

\* A server's thread waits until it has been created.
Ready(th) == Head(todo[th]).do = "serve" => th \in mem.begun

Step(th) ==
  /\ mem.fate = "running" /\ todo[th] # <<>> /\ Ready(th)
  /\ LET r == After(mem, todo[th])
     IN  mem' = r.mem /\ todo' = [todo EXCEPT ![th] = r.todo]
  /\ UNCHANGED scene

Next == \E th \in DOMAIN todo : Step(th)

Spec == Init /\ [][Next]_vars

Done == mem.fate # "running" \/ \A th \in DOMAIN todo : todo[th] = <<>>

-----------------------------------------------------------------------------
(* Properties.  Those of two handlers of the relay are in OneByOne.          *)

Stored(line) == \E e \in mem.dir : line \in mem.lines[e[2]]

\* A line is lost only to a rotation by another thread, and what the log held before only to two
\* rotations that gave their files one name; a rename that fails loses nothing.
LinesKept ==
  Done /\ scene.kind = "log" /\ mem.fate = "running" =>
    /\ \A c \in UNION {Range(scene.jobs[th]) : th \in DOMAIN todo} :
         c.do = "log" => Stored(c.line) \/ mem.turned \ {c.line} # {}
    /\ Stored("before") \/ \E i, j \in DOMAIN mem.stamps : i # j /\ mem.stamps[i] = mem.stamps[j]

\* The process serves all its ports or exits, whatever the order of the static initialisers and of
\* the threads; and no thread meets a manager that does not exist when ProcessManager's unit is
\* the last to be initialised.
StartsClean ==
  scene.kind = "start" =>
    /\ Done /\ mem.fate = "running" => scene.mem.junk \/ DOMAIN todo \ {"main"} \subseteq mem.served
    /\ mem.fate = "null" => Last(scene.order) # "ProcessManager"
=============================================================================
