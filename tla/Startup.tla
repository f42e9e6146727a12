------------------------------- MODULE Startup -------------------------------
(***************************************************************************)
(* The start of the process, call by call.  ProcessManager is a static     *)
(* object: its constructor starts the threads while the initialisers of    *)
(* the translation units linked after it are still to run.                 *)
(***************************************************************************)
EXTENDS SharedState

Servers == <<"php", "tcp", "web", "file", "log", "logweb">>

\* initialize: the log is opened and one line written, before rotation is switched on.
Initialize ==
  <<[do |-> "openLog"], [do |-> "writeLog", line |-> "notice"], [do |-> "count"]>>

\* startThread: the log, and a thread for each server.
StartThread == <<[do |-> "useUnit", unit |-> "Logger"]>> \o Initialize
               \o [i \in DOMAIN Servers |-> [do |-> "create", who |-> Servers[i]]]

\* main sleeps for ever.
Processs == <<>>

\* The main thread: the initialisers in link order, and main.
Load(m, order) ==
  Then(m, IF order = <<>> THEN Processs
          ELSE (IF Head(order) = "ProcessManager" THEN StartThread ELSE <<>>)
               \o <<[do |-> "loaded", unit |-> Head(order)], [do |-> "load", order |-> Tail(order)]>>)

Loaded(m, unit) == Then([m EXCEPT !.units = @ \union {unit}], <<>>)

\* pthread_create.
Create(m, who) == Then([m EXCEPT !.begun = @ \union {who}], <<>>)

\* GetInstance of a unit that is not initialised returns NULL, and the caller uses it.
UseUnit(m, unit) == IF unit \in m.units THEN Then(m, <<>>) ELSE Dies(m, "null")

\* init stops where it fails to bind, before it makes an epoll instance.
Bound(m, who) == who \notin m.taken

\* Mutant: an error of epoll_wait is ignored.
ServeOnError(m, who) ==
  Then(IF ~Bound(m, who) THEN m ELSE [m EXCEPT !.served = @ \union {who}], <<>>)

\* The constructor runs init and ignores what it returns.  If the port is taken, m_epollfd is
\* never set; epoll_wait fails on it and the process exits, unless it names an epoll by chance.
Serve(m, who) ==
  IF Bound(m, who) THEN Then([m EXCEPT !.served = @ \union {who}], <<>>)
  ELSE IF m.junk THEN Then(m, <<>>) ELSE Dies(m, "exit")

StartCalls == {"load", "loaded", "create", "useUnit", "serve"}

PerformStart(m, c) ==
  CASE c.do = "load"    -> Load(m, c.order)
    [] c.do = "loaded"  -> Loaded(m, c.unit)
    [] c.do = "create"  -> Create(m, c.who)
    [] c.do = "useUnit" -> UseUnit(m, c.unit)
    [] c.do = "serve"   -> Serve(m, c.who)
=============================================================================
