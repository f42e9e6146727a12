------------------------------ MODULE MCRelay ------------------------------
(***************************************************************************)
(* Small instances of Relay.  Ids are numbers because                      *)
(* getConnByReadSockfd returns the first match in id order, so they are    *)
(* chosen to put TVs before and after PCs.                                 *)
(***************************************************************************)
EXTENDS Relay, TLC

\* One TV, two PCs that compete for it.
OneTV   == {2}
TwoPCs  == {1, 3}
OnePC   == {3}
\* Two TVs, each asked for by a PHP client.
TwoTVs  == {1, 3}
\* PHP clients.
TwoPhps == {4, 5}
NoPhps  == {}
NoPCs   == {}
BothAskTheTV  == [c \in TwoPhps |-> 2]
EachAsksOneTV == [c \in TwoPhps |-> IF c = 4 THEN 1 ELSE 3]
NobodyAsks    == <<>>

TwoFds   == 8..9
ThreeFds == 7..9

\* VIEW of the safety runs: all but `out`, which no action and no guard reads.  Action properties
\* speak of out', and TLC evaluates them on every step, to a state seen before or not.
Unheard == <<peer, dead, polled, filter, conn, tvinfo, online, armed, fate, overlapped>>
=============================================================================
