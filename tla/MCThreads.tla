----------------------------- MODULE MCThreads -----------------------------
EXTENDS OneByOne, TLC

MCTVs == {2, 6}
MCPCs == {1, 3, 7}
MCPhps == {4, 5, 8}
MCFds == 11 .. 18

On(fd, handler) == [do |-> "parse", fd |-> fd, handler |-> handler]

Base(session, entry) ==
  [Empty EXCEPT
    !.peer = [fd \in Fds |-> CASE fd = 11 -> 2 [] fd = 12 -> 1 [] fd = 13 -> 3 [] fd = 14 -> 4
                               [] fd = 15 -> 5 [] OTHER -> NoPeer],
    !.filter = [fd \in Fds |-> CASE fd = 11 -> 2 [] fd = 12 -> 1 [] fd = 13 -> 3 [] OTHER -> NoPeer],
    !.heap = CASE session = "none" -> <<>>
               [] session = "tv" -> <<Connection(11, 2)>>
               [] session = "pair" -> <<[Connection(11, 2) EXCEPT !.wfd = 12, !.wid = 1],
                                        [Connection(12, 1) EXCEPT !.wfd = 11, !.wid = 2]>>,
    !.conn = [i \in Ids |-> CASE i = 2 /\ session # "none" -> 1 [] i = 1 /\ session = "pair" -> 2 [] OTHER -> Null],
    !.online = IF session = "pair" THEN {2} ELSE {},
    !.nodes = IF entry = "none" THEN 0 ELSE 1,
    !.tvinfo[2] = CASE entry = "none" -> NoEntry
                    [] entry = "waits" -> [TVInfoNode("pc", FALSE, 14, TRUE) EXCEPT !.node = 1]
                    [] entry = "agreed" -> [TVInfoNode("tv", FALSE, NoFd, TRUE) EXCEPT !.node = 1]
                    [] entry = "refused" -> [TVInfoNode("tv", TRUE, NoFd, TRUE) EXCEPT !.node = 1]]

Bases == {Base(s, e) : s \in {"none", "tv", "pair"}, e \in {"none", "waits", "agreed", "refused"}}

\* What each thread may have under way.  The PC 3 seeks the TV that the PC 1 may have.
Jobs == [
  tcp  |-> {On(11, [do |-> "regTv", fd |-> 11, id |-> 2]),
            On(11, [do |-> "regTvTest", fd |-> 11, id |-> 2]),
            On(11, [do |-> "rejectHelp", id |-> 2]),
            On(11, [do |-> "replace", fd |-> 11]),
            On(11, [do |-> "forward", id |-> 1]),
            [do |-> "disconnect", fd |-> 11],
            [do |-> "accept", id |-> 6]},
  web  |-> {On(12, [do |-> "regPc", fd |-> 12, id |-> 1, tv |-> 2]),
            On(13, [do |-> "regPc", fd |-> 13, id |-> 3, tv |-> 2]),
            On(12, [do |-> "pcNeedExit", fd |-> 12, id |-> 1]),
            On(12, [do |-> "forward", id |-> 2]),
            [do |-> "disconnect", fd |-> 12],
            [do |-> "accept", id |-> 7]},
  php  |-> {[do |-> "php", fd |-> 15, id |-> 2], [do |-> "close", fd |-> 14], [do |-> "accept", id |-> 8]},
  file |-> {[do |-> "forward", id |-> 1]},
  main |-> {[do |-> "tick", id |-> 2]}]

Pairs == {p \in (DOMAIN Jobs) \X (DOMAIN Jobs) : p[1] # p[2]}

Together(p, bases) ==
  {[kind |-> "relay", mem |-> b, jobs |-> p[1] :> <<x>> @@ p[2] :> <<y>>] :
     b \in bases, x \in Jobs[p[1]], y \in Jobs[p[2]]}

RelayScenes == UNION {Together(p, Bases) : p \in Pairs}

\* A client is accepted while a handler writes to a socket whose link is dead.
Accepts(s) == \E th \in DOMAIN s.jobs : Head(s.jobs[th]).do = "accept"

DeadLinkScenes ==
  {s \in UNION {Together(p, {[Base(session, "none") EXCEPT !.dead = {fd}] :
                               session \in {"none", "tv", "pair"}, fd \in 11 .. 13}) : p \in Pairs} :
     Accepts(s)}

\* A client of the PHP port is accepted while two others are served.
Trios ==
  UNION {{[kind |-> "relay", mem |-> b,
           jobs |-> "php" :> <<[do |-> "accept", id |-> 8]>> @@ "tcp" :> <<x>> @@ "web" :> <<y>>] :
            x \in Jobs["tcp"], y \in Jobs["web"]} : b \in {Base(s, "none") : s \in {"none", "tv", "pair"}}}

\* The log is open on 16, with one line written before; it is due, or not, to be rotated.
LogBase(size, last, rename) ==
  [Empty EXCEPT !.inode[16] = 1, !.lines = <<{"before"}>>, !.dir = {<<LogName, 1>>},
    !.log = [fd |-> 16, size |-> size, last |-> last, old |-> last],
    !.now = [day |-> 2, second |-> 1], !.rename = rename]

LogScenes ==
  {[kind |-> "log", mem |-> LogBase(size, last, rename), jobs |-> jobs] :
     size \in 0 .. MaxSize, last \in {1, 2}, rename \in BOOLEAN,
     jobs \in {"tcp" :> <<[do |-> "log", line |-> "first"]>> @@ "web" :> other
               @@ "clock" :> <<[do |-> "nextSecond"]>> :
                 other \in {<<[do |-> "log", line |-> "second"]>>,
                            <<[do |-> "accept", id |-> 7], [do |-> "log", line |-> "second"]>>}}}

\* The order of the makefile; the same with src/ in another order, as $(wildcard) may give it; and
\* ProcessManager last.
LinkOrders ==
  {<<"Logger", "ConnectionManager", "ProcessManager", "TVListManager">>,
   <<"Logger", "ProcessManager", "TVListManager", "ConnectionManager">>,
   <<"Logger", "TVListManager", "ConnectionManager", "ProcessManager">>}

\* The first managers that an event of its port makes a server use.
Uses(th) == CASE th = "php" -> <<"TVListManager">>
              [] th = "tcp" -> <<"ConnectionManager", "TVListManager">>
              [] th \in {"web", "file"} -> <<"ConnectionManager">>
              [] OTHER -> <<>>

Server(th) == <<[do |-> "serve", who |-> th]>>
              \o [i \in DOMAIN Uses(th) |-> [do |-> "useUnit", unit |-> Uses(th)[i]]]

StartScenes ==
  {[kind |-> "start", order |-> order, mem |-> [Empty EXCEPT !.taken = taken, !.junk = junk],
    jobs |-> [th \in Range(Servers) \union {"main"} |->
                IF th = "main" THEN <<[do |-> "load", order |-> order]>> ELSE Server(th)]] :
     order \in LinkOrders, taken \in {{}, {"php"}, {"web"}, {"log"}}, junk \in BOOLEAN}

MCScenes == RelayScenes \union DeadLinkScenes \union Trios \union LogScenes \union StartScenes
=============================================================================
