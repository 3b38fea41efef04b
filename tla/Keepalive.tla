------------------------------ MODULE Keepalive -----------------------------
(***************************************************************************)
(* The host's keepalive (src/autoload/network_manager.gd): a ping to every *)
(* registered peer each second, the count of pings a peer has left         *)
(* unanswered, the laggy warning, the time-out, and the round-trip times   *)
(* that the pongs feed (src/autoload/session_registry.gd).  Pings and      *)
(* pongs travel unreliably.                                                *)
(***************************************************************************)
EXTENDS Integers, FiniteSets

CONSTANTS
    Peer,          \* the clients of the session
    WarnThreshold, \* KEEPALIVE_WARN_THRESHOLD
    DropThreshold, \* KEEPALIVE_TIMEOUT_S / KEEPALIVE_INTERVAL_S
    MaxFlight      \* bound on the pings (and on the pongs) of a peer under way

ASSUME ThresholdAssumption ==
    WarnThreshold \in Nat /\ DropThreshold \in Nat /\ 0 < WarnThreshold
        /\ WarnThreshold < DropThreshold
ASSUME FlightAssumption == MaxFlight \in Nat

VARIABLES
    registered, \* keys of SessionRegistry._peer_list; all have an open link
    miss,       \* _keepalive_miss_count (0 where there is no entry)
    laggy,      \* _laggy_peers
    shown,      \* the last of peer_laggy(true), peer_laggy(false) emitted
    rtt,        \* SessionRegistry._rtt_rolling_avg: no entry, INF or a time
    pings,      \* keepalive_ping RPCs under way to a peer
    pongs       \* keepalive_pong RPCs under way from a peer

vars == <<registered, miss, laggy, shown, rtt, pings, pongs>>

TypeOK ==
    /\ registered \subseteq Peer
    /\ miss \in [Peer -> 0..(DropThreshold - 1)]
    /\ laggy \subseteq Peer
    /\ shown \in [Peer -> {"steady", "laggy"}]
    /\ rtt \in [Peer -> {"none", "INF", "ms"}]
    /\ pings \in [Peer -> 0..MaxFlight]
    /\ pongs \in [Peer -> 0..MaxFlight]

Init ==
    /\ registered = {} /\ laggy = {}
    /\ miss = [p \in Peer |-> 0]
    /\ shown = [p \in Peer |-> "steady"]
    /\ rtt = [p \in Peer |-> "none"]
    /\ pings = [p \in Peer |-> 0]
    /\ pongs = [p \in Peer |-> 0]

(* _on_peer_connected and register_peer                                    *)
Connect(p) ==
    /\ p \notin registered
    /\ registered' = registered \cup {p}
    /\ miss' = [miss EXCEPT ![p] = 0]
    /\ rtt' = [rtt EXCEPT ![p] = "INF"]
    /\ UNCHANGED <<laggy, shown, pings, pongs>>

(* _disconnect_peer for the peers P; what was under way on their links is
   gone, and a listener forgets what it showed of them.                    *)
Disconnected(P, count) ==
    /\ registered' = registered \ P
    /\ miss' = [p \in Peer |-> IF p \in P THEN 0 ELSE count[p]]
    /\ rtt' = [p \in Peer |-> IF p \in P THEN "none" ELSE rtt[p]]
    /\ pongs' = [p \in Peer |-> IF p \in P THEN 0 ELSE pongs[p]]

(* A peer leaves, is kicked, or its link breaks.                           *)
Disconnect(p) ==
    /\ p \in registered
    /\ Disconnected({p}, miss)
    /\ laggy' = laggy \ {p}
    /\ shown' = [shown EXCEPT ![p] = "steady"]
    /\ pings' = [pings EXCEPT ![p] = 0]

(* Mutants: a peer is dropped one tick too late; a peer is dropped at the
   warning; the peers that timed out are not dropped.                      *)
TickDropLate ==
    LET count == [p \in Peer |-> IF p \in registered THEN miss[p] + 1 ELSE miss[p]]
        late == {p \in Peer : count[p] = WarnThreshold /\ p \notin laggy}
        gone == {p \in Peer : count[p] > DropThreshold}
    IN  /\ Disconnected(gone, count)
        /\ laggy' = (laggy \cup late) \ gone
        /\ shown' = [p \in Peer |-> IF p \in late THEN "laggy"
                                    ELSE IF p \in gone THEN "steady" ELSE shown[p]]
        /\ UNCHANGED pings

TickDropAtWarning ==
    LET count == [p \in Peer |-> IF p \in registered THEN miss[p] + 1 ELSE miss[p]]
        gone == {p \in Peer : count[p] >= WarnThreshold}
    IN  /\ Disconnected(gone, count)
        /\ laggy' = laggy \ gone
        /\ shown' = [p \in Peer |-> IF p \in gone THEN "steady" ELSE shown[p]]
        /\ pings' = [p \in Peer |->
                        IF p \in gone THEN 0
                        ELSE IF p \in registered /\ pings[p] < MaxFlight
                        THEN pings[p] + 1 ELSE pings[p]]

TickPingOnly ==
    LET late == {p \in registered : miss[p] + 1 = WarnThreshold /\ p \notin laggy}
    IN  /\ miss' = [p \in Peer |->
                        IF p \in registered /\ miss[p] < DropThreshold - 1
                        THEN miss[p] + 1 ELSE miss[p]]
        /\ laggy' = laggy \cup late
        /\ shown' = [p \in Peer |-> IF p \in late THEN "laggy" ELSE shown[p]]
        /\ pings' = [p \in Peer |-> IF p \in registered /\ pings[p] < MaxFlight
                                    THEN pings[p] + 1 ELSE pings[p]]
        /\ UNCHANGED <<registered, rtt, pongs>>

(* One keepalive tick of _process: _send_keepalive_to_all_peers, then
   _check_peer_timeouts.  A ping that exceeds MaxFlight is lost.           *)
Tick ==
    LET count == [p \in Peer |-> IF p \in registered THEN miss[p] + 1 ELSE miss[p]]
        late == {p \in Peer : count[p] = WarnThreshold /\ p \notin laggy}
        gone == {p \in Peer : count[p] >= DropThreshold} \ late
    IN  /\ Disconnected(gone, count)
        /\ laggy' = (laggy \cup late) \ gone
        /\ shown' = [p \in Peer |-> IF p \in late THEN "laggy"
                                    ELSE IF p \in gone THEN "steady" ELSE shown[p]]
        /\ pings' = [p \in Peer |->
                        IF p \in gone THEN 0
                        ELSE IF p \in registered /\ pings[p] < MaxFlight
                        THEN pings[p] + 1 ELSE pings[p]]

(* _keepalive_ping on the peer                                             *)
Answer(p) ==
    /\ pings[p] > 0 /\ pongs[p] < MaxFlight
    /\ pings' = [pings EXCEPT ![p] = @ - 1]
    /\ pongs' = [pongs EXCEPT ![p] = @ + 1]
    /\ UNCHANGED <<registered, miss, laggy, shown, rtt>>

Lose(p) ==
    /\ \/ pings[p] > 0 /\ pings' = [pings EXCEPT ![p] = @ - 1] /\ UNCHANGED pongs
       \/ pongs[p] > 0 /\ pongs' = [pongs EXCEPT ![p] = @ - 1] /\ UNCHANGED pings
    /\ UNCHANGED <<registered, miss, laggy, shown, rtt>>

(* Mutant: a pong clears the count but not the warning.                    *)
PongKeepsWarning(p) ==
    /\ pongs[p] > 0
    /\ pongs' = [pongs EXCEPT ![p] = @ - 1]
    /\ rtt' = [rtt EXCEPT ![p] = IF @ = "INF" THEN "INF" ELSE "ms"]
    /\ miss' = [miss EXCEPT ![p] = 0]
    /\ UNCHANGED <<registered, laggy, shown, pings>>

(* _keepalive_pong and update_peer_rtt.  The average starts from INF, and
   INF * 0.9 + rtt * 0.1 is INF.                                           *)
Pong(p) ==
    /\ pongs[p] > 0
    /\ pongs' = [pongs EXCEPT ![p] = @ - 1]
    /\ rtt' = [rtt EXCEPT ![p] = IF @ = "INF" THEN "INF" ELSE "ms"]
    /\ miss' = [miss EXCEPT ![p] = 0]
    /\ laggy' = laggy \ {p}
    /\ shown' = [shown EXCEPT ![p] = "steady"]
    /\ UNCHANGED <<registered, pings>>

Next ==
    \/ Tick
    \/ \E p \in Peer : \/ Connect(p) \/ Disconnect(p) \/ Answer(p) \/ Lose(p) \/ Pong(p)

Spec == Init /\ [][Next]_vars

(* _process runs every frame, so the tick comes again and again.           *)
FairSpec == Spec /\ WF_vars(Tick)

(***************************************************************************)
(* Properties.                                                             *)
(***************************************************************************)

(* The warning shown for a peer is the truth at every moment: it is on
   exactly while the peer has left WarnThreshold pings unanswered, across
   recoveries, departures and returns (_check_peer_timeouts shows it only
   when the count equals the threshold, and relies on _laggy_peers).       *)
WarningIsTrue ==
    \A p \in Peer : shown[p] = "laggy" <=> miss[p] >= WarnThreshold

(* The keepalive drops only a peer that the players were warned about.     *)
DroppedOnlyAfterWarning ==
    [][Tick => \A p \in registered \ registered' : shown[p] = "laggy"]_vars

(* A peer that stops answering is dropped: no unanswered count lasts.      *)
SilentPeerDropped ==
    \A p \in Peer : miss[p] > 0 ~> miss[p] = 0
=============================================================================
