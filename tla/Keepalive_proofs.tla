-------------------------- MODULE Keepalive_proofs --------------------------
(***************************************************************************)
(* Theorems about Keepalive, for any set of clients, any thresholds with   *)
(* the warning before the drop, and any number of pings under way.         *)
(***************************************************************************)
EXTENDS Keepalive, TLAPS

(* What is shown, the set of laggy peers and the unanswered counts agree,
   and nothing is counted or under way for a peer that is not registered: a
   pong can reach only a registered peer.                                    *)
KeepaliveInv ==
    /\ TypeOK
    /\ WarningIsTrue
    /\ laggy = {p \in Peer : miss[p] >= WarnThreshold}
    /\ \A p \in Peer \ registered : miss[p] = 0 /\ pings[p] = 0 /\ pongs[p] = 0

LEMMA KeepaliveInit == Init => KeepaliveInv
  BY ThresholdAssumption, FlightAssumption
  DEF Init, KeepaliveInv, TypeOK, WarningIsTrue

(* The peers that time out and those that get the warning in a tick.  A peer
   whose count reaches the drop threshold has had its warning.               *)
Counted == [p \in Peer |-> IF p \in registered THEN miss[p] + 1 ELSE miss[p]]
Late == {p \in Peer : Counted[p] = WarnThreshold /\ p \notin laggy}
Gone == {p \in Peer : Counted[p] >= DropThreshold} \ Late

LEMMA TickSets ==
    ASSUME KeepaliveInv
    PROVE  /\ Counted \in [Peer -> 0..DropThreshold]
           /\ Late = {p \in Peer : Counted[p] = WarnThreshold /\ p \in registered}
           /\ Gone = {p \in Peer : Counted[p] = DropThreshold}
           /\ Gone \subseteq registered
           /\ \A p \in Gone : shown[p] = "laggy"
<1> USE ThresholdAssumption DEF KeepaliveInv, TypeOK, WarningIsTrue
<1>1. Counted \in [Peer -> 0..DropThreshold]
  BY DEF Counted
<1>2. Late = {p \in Peer : Counted[p] = WarnThreshold /\ p \in registered}
  BY DEF Counted, Late
<1>3. Gone = {p \in Peer : Counted[p] = DropThreshold} /\ Gone \subseteq registered
  BY DEF Counted, Late, Gone
<1>4. \A p \in Gone : shown[p] = "laggy"
  BY <1>3 DEF Counted
<1> QED
  BY <1>1, <1>2, <1>3, <1>4

LEMMA KeepaliveTick == KeepaliveInv /\ Tick => KeepaliveInv'
<1> SUFFICES ASSUME KeepaliveInv, Tick PROVE KeepaliveInv'
  OBVIOUS
<1> USE ThresholdAssumption, FlightAssumption
<1>1. /\ Disconnected(Gone, Counted)
      /\ laggy' = (laggy \cup Late) \ Gone
      /\ shown' = [p \in Peer |-> IF p \in Late THEN "laggy"
                                  ELSE IF p \in Gone THEN "steady" ELSE shown[p]]
      /\ pings' = [p \in Peer |->
                      IF p \in Gone THEN 0
                      ELSE IF p \in registered /\ pings[p] < MaxFlight
                      THEN pings[p] + 1 ELSE pings[p]]
  BY Zenon DEF Tick, Gone, Late, Counted
<1>2. /\ Counted \in [Peer -> 0..DropThreshold]
      /\ Late = {p \in Peer : Counted[p] = WarnThreshold /\ p \in registered}
      /\ Gone = {p \in Peer : Counted[p] = DropThreshold}
      /\ Gone \subseteq registered
  BY TickSets
<1>3. \A p \in Peer : Counted[p] = IF p \in registered THEN miss[p] + 1 ELSE miss[p]
  BY DEF Counted
<1>4. miss' = [p \in Peer |-> IF p \in Gone THEN 0 ELSE Counted[p]]
  BY <1>1 DEF Disconnected
<1>5. TypeOK'
  <2>1. miss' \in [Peer -> 0..(DropThreshold - 1)]
    BY <1>2, <1>4
  <2>2. pings' \in [Peer -> 0..MaxFlight]
    BY <1>1 DEF KeepaliveInv, TypeOK
  <2>3. shown' \in [Peer -> {"steady", "laggy"}] /\ laggy' \subseteq Peer
    BY <1>1, <1>2 DEF KeepaliveInv, TypeOK
  <2> QED
    BY <1>1, <2>1, <2>2, <2>3 DEF KeepaliveInv, TypeOK, Disconnected
<1>6. WarningIsTrue'
  <2> SUFFICES ASSUME NEW p \in Peer
               PROVE  shown'[p] = "laggy" <=> miss'[p] >= WarnThreshold
    BY DEF WarningIsTrue
  <2>1. CASE p \in Gone
    BY <1>1, <1>2, <1>4, <2>1
  <2>2. CASE p \in Late
    BY <1>1, <1>2, <1>4, <2>2
  <2>3. CASE p \notin Gone /\ p \notin Late
    BY <1>1, <1>2, <1>3, <1>4, <2>3 DEF KeepaliveInv, TypeOK, WarningIsTrue
  <2> QED
    BY <2>1, <2>2, <2>3
<1>7. laggy' = {p \in Peer : miss'[p] >= WarnThreshold}
  <2> SUFFICES ASSUME NEW p \in Peer
               PROVE  p \in laggy' <=> miss'[p] >= WarnThreshold
    BY <1>5 DEF TypeOK
  <2>1. CASE p \in Gone
    BY <1>1, <1>4, <2>1
  <2>2. CASE p \in Late
    BY <1>1, <1>2, <1>4, <2>2
  <2>3. CASE p \notin Gone /\ p \notin Late
    BY <1>1, <1>2, <1>3, <1>4, <2>3 DEF KeepaliveInv, TypeOK
  <2> QED
    BY <2>1, <2>2, <2>3
<1>8. \A p \in Peer \ registered' : miss'[p] = 0 /\ pings'[p] = 0 /\ pongs'[p] = 0
  BY <1>1, <1>2, <1>3, <1>4 DEF KeepaliveInv, TypeOK, Disconnected
<1> QED
  BY <1>5, <1>6, <1>7, <1>8 DEF KeepaliveInv

LEMMA KeepaliveStep == KeepaliveInv /\ [Next]_vars => KeepaliveInv'
<1> SUFFICES ASSUME KeepaliveInv, [Next]_vars PROVE KeepaliveInv'
  OBVIOUS
<1> USE ThresholdAssumption, FlightAssumption
    DEF KeepaliveInv, TypeOK, WarningIsTrue
<1>1. CASE Tick
  BY <1>1, KeepaliveTick
<1>2. ASSUME NEW p \in Peer, Connect(p) PROVE KeepaliveInv'
  BY <1>2 DEF Connect
<1>3. ASSUME NEW p \in Peer, Disconnect(p) PROVE KeepaliveInv'
  BY <1>3 DEF Disconnect, Disconnected
<1>4. ASSUME NEW p \in Peer, Answer(p) PROVE KeepaliveInv'
  BY <1>4 DEF Answer
<1>5. ASSUME NEW p \in Peer, Lose(p) PROVE KeepaliveInv'
  BY <1>5 DEF Lose
<1>6. ASSUME NEW p \in Peer, Pong(p) PROVE KeepaliveInv'
  BY <1>6 DEF Pong
<1>7. CASE UNCHANGED vars
  BY <1>7 DEF vars
<1> QED
  BY <1>1, <1>2, <1>3, <1>4, <1>5, <1>6, <1>7 DEF Next

LEMMA KeepaliveInvariant == Spec => []KeepaliveInv
  BY KeepaliveInit, KeepaliveStep, PTL DEF Spec

(* Every variable keeps its type: in particular no count ever stands at the
   drop threshold between two ticks.                                         *)
THEOREM TypeCorrect == Spec => []TypeOK
<1>1. KeepaliveInv => TypeOK
  BY DEF KeepaliveInv
<1> QED
  BY <1>1, KeepaliveInvariant, PTL

(* The laggy warning shown for a peer is the truth at every moment, across
   recoveries, departures and returns.                                       *)
THEOREM WarningIsTrueCorrect == Spec => []WarningIsTrue
<1>1. KeepaliveInv => WarningIsTrue
  BY DEF KeepaliveInv
<1> QED
  BY <1>1, KeepaliveInvariant, PTL

(* The keepalive drops only a peer that the players were warned about.       *)
THEOREM DroppedOnlyAfterWarningCorrect == Spec => DroppedOnlyAfterWarning
<1>1. KeepaliveInv /\ [Next]_vars =>
          [Tick => \A p \in registered \ registered' : shown[p] = "laggy"]_vars
  <2> SUFFICES ASSUME KeepaliveInv, Tick, NEW p \in registered \ registered'
               PROVE  shown[p] = "laggy"
    OBVIOUS
  <2>1. Disconnected(Gone, Counted)
    BY Zenon DEF Tick, Gone, Late, Counted
  <2> QED
    BY <2>1, TickSets DEF Disconnected
<1> QED
  BY <1>1, KeepaliveInvariant, PTL DEF Spec, DroppedOnlyAfterWarning
=============================================================================
