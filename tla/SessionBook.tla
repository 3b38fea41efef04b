----------------------------- MODULE SessionBook -----------------------------
(***************************************************************************)
(* What the signaling hub promises of the sessions it lists: a session is  *)
(* listed by one player with room for at least that player, players are    *)
(* admitted one at a time and never beyond PeerCap, a change of host keeps *)
(* the players that were counted, and a session leaves the list as a whole.*)
(***************************************************************************)
EXTENDS Integers

CONSTANTS Uid, Sid, PeerCap, None

VARIABLES host, peers

Init ==
    /\ host = [s \in Sid |-> None]
    /\ peers = [s \in Sid |-> 0]

List(s) ==
    /\ peers[s] = 0
    /\ peers' = [peers EXCEPT ![s] = 1]
    /\ \E u \in Uid : host' = [host EXCEPT ![s] = u]

Admit(s) ==
    /\ peers[s] \in 1..PeerCap - 1
    /\ peers' = [peers EXCEPT ![s] = @ + 1]
    /\ UNCHANGED host

ChangeHost(s) ==
    /\ peers[s] > 0
    /\ \E u \in Uid : host' = [host EXCEPT ![s] = u]
    /\ UNCHANGED peers

Drop(gone) ==
    /\ host' = [s \in Sid |-> IF s \in gone THEN None ELSE host[s]]
    /\ peers' = [s \in Sid |-> IF s \in gone THEN 0 ELSE peers[s]]

Next ==
    \/ \E s \in Sid : List(s) \/ Admit(s) \/ ChangeHost(s)
    \/ \E gone \in SUBSET Sid : Drop(gone)

Spec == Init /\ [][Next]_<<host, peers>>
=============================================================================
