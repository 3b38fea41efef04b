--------------------------- MODULE MCNetworkManager -------------------------
(* Small instances of NetworkManager for TLC.                              *)
EXTENDS NetworkManager, TLC

CONSTANTS anna, ben, cleo

CleoOutdated == [n \in Node |-> IF n = cleo THEN 1 ELSE 2]
SameBuild == [n \in Node |-> 1]

(* Three players who join once each.                                       *)
ThreePlayers == [joins |-> [n \in Node |-> 1], events |-> 0, unstable |-> {},
                 flushing |-> BOOLEAN]

(* One client who joins up to three times over links that break.           *)
OneRejoins == [joins |-> [n \in Node |-> IF n = ben THEN 3 ELSE 0], events |-> 0,
               unstable |-> {l \in Node \X Node : l[1] # l[2]}, flushing |-> BOOLEAN]

JoiningSettings == {[ThreePlayers EXCEPT !.events = 1], OneRejoins}
LivenessSettings == {[ThreePlayers EXCEPT !.flushing = {TRUE}]}
ElectionSettings == {ThreePlayers}
=============================================================================
