--------------------------- MODULE SessionRegistry --------------------------
(***************************************************************************)
(* The SessionRegistry autoload (src/autoload/session_registry.gd): the    *)
(* peers a player knows of, the build each one reported, and the local     *)
(* election of a new host.  Every player has a registry of its own; the    *)
(* operators below take one and return the next one.                       *)
(*                                                                         *)
(* peers is _peer_list in the order of its keys (a GDScript dictionary     *)
(* keeps insertion order); told is the set of ids with an entry in         *)
(* _peer_protocol_version.  The round-trip times are not kept: that of a   *)
(* registered peer is always INF (Pong of Keepalive), and                  *)
(* absf(INF - INF) is NaN, which makes the comparison of the election      *)
(* false both ways; the sort then leaves the keys in insertion order.      *)
(***************************************************************************)
EXTENDS Integers, Sequences, SequencesExt

CONSTANTS
    Node,    \* the players
    HostId,  \* peer id 1, which always names the server of the session
    Version, \* BuildInfo.PROTOCOL_VERSION of each player's build
    None

Id == Node \cup {HostId}

ASSUME HostIdAssumption == HostId \notin Node
ASSUME NoneIdAssumption == None \notin Id
ASSUME VersionAssumption == Version \in [Node -> Nat]

NoPeers == [peers |-> <<>>, told |-> {}]

IsRegistry(r) == r \in [peers : Seq(Id), told : SUBSET Node]

Registered(r) == {r.peers[i] : i \in DOMAIN r.peers}

(* register_peer: a known key keeps its place in the dictionary.           *)
RegisterPeer(r, i) ==
    IF i \in Registered(r) THEN r ELSE [r EXCEPT !.peers = Append(@, i)]

(* unregister_peer: a key has one place in the dictionary.                 *)
UnregisterPeer(r, i) ==
    [peers |-> IF i \in Registered(r)
               THEN RemoveAt(r.peers, CHOOSE k \in DOMAIN r.peers : r.peers[k] = i)
               ELSE r.peers,
     told |-> r.told \ {i}]

(* set_peer_protocol_version                                               *)
SetVersion(r, i) == [r EXCEPT !.told = @ \cup {i}]

(* is_protocol_version_compatible, as player n sees it: a player that has
   reported nothing yet counts as compatible.                              *)
Compatible(r, n, i) == i \in r.told => Version[i] = Version[n]

(* set_surviving_peers(1) and compute_elected_host on player n.  The result
   is None when there is no candidate: the code then returns the player's
   own id.                                                                 *)
ElectedHost(r, n) ==
    LET survivors == {k \in DOMAIN r.peers : r.peers[k] # HostId}
        candidates == IF survivors = {} THEN DOMAIN r.peers ELSE survivors
        compatible == {k \in candidates : Compatible(r, n, r.peers[k])}
        ranked == IF compatible = {} THEN candidates ELSE compatible
    IN  IF ranked = {} THEN None ELSE r.peers[Min(ranked)]
=============================================================================
