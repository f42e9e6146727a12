---------------------------- MODULE PackageStream ----------------------------
(***************************************************************************)
(* What the inbound path of the TCP port promises its handlers: the        *)
(* packages a device sends are handled in the order sent, each once and    *)
(* whole, until the connection is over.                                    *)
(***************************************************************************)
EXTENDS Naturals, Sequences

CONSTANT Package

VARIABLES
  sent,      \* the packages the device has sent
  handled,   \* the packages parseDataPackage has seen
  over       \* the server has closed the connection

streamVars == <<sent, handled, over>>

Init == sent = <<>> /\ handled = <<>> /\ over = FALSE

Send ==
  /\ \E p \in Package : sent' = Append(sent, p)
  /\ UNCHANGED <<handled, over>>

\* One read may complete any number of packages.
Handle ==
  /\ ~over
  /\ \E n \in Len(handled) + 1 .. Len(sent) : handled' = SubSeq(sent, 1, n)
  /\ UNCHANGED <<sent, over>>

End == ~over /\ over' = TRUE /\ UNCHANGED <<sent, handled>>

Next == Send \/ Handle \/ End

Spec == Init /\ [][Next]_streamVars
=============================================================================
