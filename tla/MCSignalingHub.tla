--------------------------- MODULE MCSignalingHub ---------------------------
(* Small instances of SignalingHub for TLC.  The connections are
   interchangeable, and so are the players.                                *)
EXTENDS SignalingHub, TLC

CONSTANT Spoken   \* the kinds of message the players of a run send

Symmetry == Permutations(Uid) \cup Permutations(Conn)

SpokenMessage(c) ==
    \/ "malformed" \in Spoken /\ Malformed(c)
    \/ "publish" \in Spoken /\ \E s \in Sid : Publish(c, s, 0)
    \/ "offer" \in Spoken /\ \E u \in Uid : Offer(c, u)
    \/ "update_host" \in Spoken /\ \E s \in Sid, u \in Uid : UpdateHost(c, s, u)

(* The hub when only messages of these kinds are sent.                     *)
SpokenNext ==
    \/ \E c \in Conn : \/ \E u \in Uid : Connect(c, u)
                       \/ LinkDown(c)
                       \/ SpokenMessage(c)
                       \/ HandlerStep(c)
                       \/ PumpStep(c)
                       \/ PumpWrote(c)
    \/ \E s \in Sid : Idle(s)
    \/ PruneIdle

SpokenSpec == Init /\ [][SpokenNext]_vars
FairSpokenSpec == SpokenSpec /\ Fairness
=============================================================================
