------------------------------ MODULE OneByOne ------------------------------
(***************************************************************************)
(* When two handlers of the relay overlap, is that as good as one handler  *)
(* after the other?  Relay takes it for granted; Threads interleaves them. *)
(***************************************************************************)
EXTENDS Threads

RECURSIVE Run(_, _)
Run(m, calls) ==
  IF calls = <<>> THEN m ELSE LET r == After(m, calls) IN Run(r.mem, r.todo)

\* What of a shared state a client or a later handler can see.
Seen(m) ==
  IF m.fate # "running" THEN [fate |-> m.fate]
  ELSE [peer |-> m.peer, filter |-> m.filter, online |-> m.online, out |-> m.out,
        conn |-> [i \in Ids |-> IF m.conn[i] = Null THEN Connection(NoFd, i) ELSE m.heap[m.conn[i]]],
        tvinfo |-> [t \in TVs |-> [m.tvinfo[t] EXCEPT !.node = Null]]]

\* One after the other, in an order of the threads.
InOrder(order) == Seen(Run(scene.mem, FlattenSeq([i \in DOMAIN order |-> scene.jobs[order[i]]])))

Orders == {InOrder(order) : order \in SetToSeqs(DOMAIN todo)}

Handler(th) ==
  LET c == Head(scene.jobs[th]) IN IF c.do = "parse" THEN c.handler.do ELSE c.do

Relays == scene.kind = "relay"
UnderWay == {Handler(th) : th \in DOMAIN todo}

InSession == \E i \in Ids : scene.mem.conn[i] # Null
Teardowns == {"disconnect", "replace", "pcNeedExit"}

\* By a handler under way, or by a write to a dead link.
SessionMayEnd == InSession /\ (UnderWay \intersect Teardowns # {} \/ scene.mem.dead # {})

\* By one teardown at most: no other thread serves an end of it, and no write tears down the other.
EndsOnce == scene.mem.dead = {} /\ Cardinality({th \in DOMAIN todo : Handler(th) # "accept"}) < 2

\* The handlers that look a rendezvous entry up in one call and change it in another.
Rendezvous == {"php", "regTv", "rejectHelp", "tick"}

-----------------------------------------------------------------------------
(* Properties.                                                               *)

\* Relay's reading of the code, one handler as one step, is right for two handlers that overlap:
\* what they leave and what they have written is what one after the other would have, unless a
\* registered device may be torn down, or both are at the rendezvous entry of the TV.
AsIfOneByOne ==
  /\ Done /\ Relays /\ ~SessionMayEnd
  /\ Cardinality(UnderWay \intersect Rendezvous) < 2
  => Seen(mem) \in Orders

\* A client accepted while another thread tears a session down keeps its socket, though its number
\* may be one just closed; and its reader, unless the partner's number was reused before
\* removeConnFilter(wsockfd).  Nothing is promised when the session may end twice, by another
\* thread or by a failed write: a number is closed a second time then, which is perhaps the
\* newcomer's, or accept's epoll_ctl fails on it and exits the process.
NewcomerKept ==
  Done /\ Relays /\ (SessionMayEnd => EndsOnce) =>
    /\ mem.fate # "exit"
    /\ mem.fate = "running" => \A th \in DOMAIN todo : Handler(th) = "accept" =>
      \E fd \in Fds :
        /\ mem.peer[fd] = Head(scene.jobs[th]).id
        /\ mem.peer[fd] \in Ids => mem.filter[fd] = mem.peer[fd] \/ SessionMayEnd
=============================================================================
