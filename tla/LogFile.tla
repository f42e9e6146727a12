------------------------------- MODULE LogFile -------------------------------
(***************************************************************************)
(* The Logger, call by call.  Every thread calls LOG, and the Logger has   *)
(* no lock: between any two of these calls another thread's may come.      *)
(***************************************************************************)
EXTENDS SharedState

LogName == <<0, 0>>   \* DEFAULT_LOG_FILE; a rotated file is named by a date and a time

Linked(m, name) == {e \in m.dir : e[1] = name}

\* LOG: write the line, count it, and see whether the file must be switched.
Log(m, line) ==
  Then(m, <<[do |-> "writeLog", line |-> line], [do |-> "count"], [do |-> "switchLogs", line |-> line]>>)

\* write to m_filefd, whatever that number means by now.
WriteLog(m, line) ==
  LET fd == m.log.fd
  IN  Then(IF fd \notin Fds THEN m
           ELSE IF m.inode[fd] # Null THEN [m EXCEPT !.lines[m.inode[fd]] = @ \union {line}]
           ELSE IF WriteFails(m, fd) THEN m ELSE Deliver(m, fd, "log"), <<>>)

Count(m) == Then([m EXCEPT !.log.size = @ + 1], <<>>)

\* switchLogs: the size and the date are looked at first; getDayChanged goes on to keep the date.
SwitchLogs(m, line) ==
  LET changed == m.log.last # m.now.day
  IN  Then(m, (IF changed THEN <<[do |-> "setDay"]>> ELSE <<>>)
              \o (IF changed \/ m.log.size >= MaxSize
                  THEN <<[do |-> "closeLog", line |-> line], [do |-> "renameLog", changed |-> changed]>>
                  ELSE <<>>))

SetDay(m) == Then([m EXCEPT !.log.old = m.log.last, !.log.last = m.now.day], <<>>)

CloseLog(m, line) == Then([Close(m, m.log.fd) EXCEPT !.turned = @ \union {line}], <<>>)

\* The name of a rotated file: a date, and the time of day to the second.
Stamp(m, changed) == <<IF changed THEN m.log.old ELSE m.now.day, m.now.second>>

\* rename replaces a file that has the name already, and fails if there is no file to rename.
RenameLog(m, changed) ==
  LET stamp  == Stamp(m, changed)
      moved  == {<<stamp, e[2]>> : e \in Linked(m, LogName)}
      notice == <<[do |-> "openLog"], [do |-> "writeLog", line |-> "notice"], [do |-> "count"]>>
  IN  IF m.rename /\ moved # {}
      THEN Then([m EXCEPT !.dir = (@ \ (Linked(m, LogName) \union Linked(m, stamp))) \union moved,
                          !.stamps = Append(@, stamp)],
                notice \o <<[do |-> "resetSize"]>>)
      ELSE Then(m, notice)

ResetSize(m) == Then([m EXCEPT !.log.size = 0], <<>>)

\* Mutant: the file is emptied when it is opened, as the comments have it.
OpenLogEmpty(m) ==
  LET fd    == Min(FreeFds(m))
      files == Linked(m, LogName)
      n     == IF files = {} THEN Len(m.lines) + 1 ELSE (CHOOSE e \in files : TRUE)[2]
  IN  Then([m EXCEPT !.lines = IF files = {} THEN Append(@, {}) ELSE [@ EXCEPT ![n] = {}],
                     !.dir = @ \union {<<LogName, n>>}, !.inode[fd] = n, !.log.fd = fd,
                     !.log.last = m.now.day, !.log.old = m.now.day], <<>>)

\* setLogFile: open for appending, whatever `append` says; the descriptor it had is not closed.
OpenLog(m) ==
  LET fd    == Min(FreeFds(m))
      files == Linked(m, LogName)
      n     == IF files = {} THEN Len(m.lines) + 1 ELSE (CHOOSE e \in files : TRUE)[2]
  IN  Then([m EXCEPT !.lines = IF files = {} THEN Append(@, {}) ELSE @,
                     !.dir = @ \union {<<LogName, n>>}, !.inode[fd] = n, !.log.fd = fd,
                     !.log.last = m.now.day, !.log.old = m.now.day], <<>>)

\* Time passes.
NextSecond(m) == Then([m EXCEPT !.now.second = @ + 1], <<>>)

LogCalls == {"log", "writeLog", "count", "switchLogs", "setDay", "closeLog", "renameLog", "openLog",
             "resetSize", "nextSecond"}

PerformLog(m, c) ==
  CASE c.do = "log"        -> Log(m, c.line)
    [] c.do = "writeLog"   -> WriteLog(m, c.line)
    [] c.do = "count"      -> Count(m)
    [] c.do = "switchLogs" -> SwitchLogs(m, c.line)
    [] c.do = "setDay"     -> SetDay(m)
    [] c.do = "closeLog"   -> CloseLog(m, c.line)
    [] c.do = "renameLog"  -> RenameLog(m, c.changed)
    [] c.do = "openLog"    -> OpenLog(m)
    [] c.do = "resetSize"  -> ResetSize(m)
    [] c.do = "nextSecond" -> NextSecond(m)
=============================================================================
