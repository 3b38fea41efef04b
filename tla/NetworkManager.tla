---------------------------- MODULE NetworkManager --------------------------
(***************************************************************************)
(* The session state machine of the NetworkManager autoload                *)
(* (src/autoload/network_manager.gd), run by every player: hosting,        *)
(* joining, the version gate, kicking, and the hand-over to a new host     *)
(* when the old one is lost.                                               *)
(*                                                                         *)
(* Players exchange RPCs over WebRTC links that are reliable and ordered   *)
(* while they are open.  chan[<<a, b>>] is what b has still to process of  *)
(* its link with a: the opening, the RPCs, the closing.  Closing a link    *)
(* may lose the RPCs that were under way.  Offers, answers and ICE are     *)
(* abstracted to the action Open; the keepalive to the action              *)
(* KeepaliveTimeout (module Keepalive has its counters).                   *)
(***************************************************************************)
EXTENDS SessionRegistry, FiniteSets

CONSTANTS
    FirstHost,  \* the player who starts the session
    Settings    \* what the players and their links may do: the bounds of the model

ASSUME FirstHostAssumption == FirstHost \in Node
ASSUME NodeAssumption == IsFiniteSet(Node)

(* joins: bound on the times each player calls start_peer; events: bound on
   Inventory events under way on one link; unstable: pairs <<server, client>>
   whose link may break by itself; flushing: may a closing link deliver what
   was under way (TRUE), lose it (FALSE), or either?                       *)
ASSUME SettingsAssumption ==
    \A c \in Settings : /\ c.joins \in [Node -> Nat] /\ c.events \in Nat
                        /\ c.unstable \subseteq {l \in Node \X Node : l[1] # l[2]}
                        /\ c.flushing \subseteq BOOLEAN /\ c.flushing # {}

VARIABLES
    setting,    \* the member of Settings this behaviour is bounded by; never changes
    state,      \* _state
    role,       \* what _rtc_mp was created as
    server,     \* the player that peer id 1 names for this player
    dialing,    \* an offer was sent and no link has opened yet
    conn,       \* players this one has an open link with
    chan,       \* what is under way on each link
    reg,        \* SessionRegistry
    pending,    \* _pending_version_peers
    announced,  \* ids for which peer_connected was the last signal emitted
    dropping,   \* peers to be disconnected in the next frame
    timer,      \* which of the one-shot timers are running
    published,  \* host of the session according to the signaling server
    joins,      \* number of calls of start_peer
    verdict     \* history: the last election of each player

vars == <<state, role, server, dialing, conn, chan, reg, pending, announced,
          dropping, timer, published, joins, verdict>>

State == {"IDLE", "CONNECTING", "CONNECTED_AS_HOST", "CONNECTED_AS_PEER",
          "FAILOVER_DETECTING", "FAILOVER_PROMOTING", "FAILOVER_WAITING",
          "RECONNECTING", "DISCONNECTED", "CRASHED"}

Timer == {"connecting", "failover", "grace"}

Link == Node \X Node

Kind == {"opened", "closed", "report", "sync", "rejected", "kicked",
         "snapshot", "event", "leaving", "add", "del"}

AboutPeer == {"add", "del", "sync"}

Msg == [kind : Kind \ AboutPeer, id : {None}] \cup [kind : AboutPeer, id : Node]

M(kind) == [kind |-> kind, id |-> None]
MOf(kind, i) == [kind |-> kind, id |-> i]

Election == [lost : Node, winner : Id]

TypeOK ==
    /\ state \in [Node -> State]
    /\ role \in [Node -> {"none", "client", "server"}]
    /\ server \in [Node -> Node \cup {None}]
    /\ dialing \in [Node -> BOOLEAN]
    /\ conn \in [Node -> SUBSET Node]
    /\ chan \in [Link -> Seq(Msg)]
    /\ DOMAIN reg = Node /\ \A n \in Node : IsRegistry(reg[n])
    /\ pending \in [Node -> SUBSET Node]
    /\ announced \in [Node -> SUBSET Id]
    /\ dropping \in [Node -> SUBSET Node]
    /\ timer \in [Node -> SUBSET Timer]
    /\ published \in Node \cup {None}
    /\ setting \in Settings
    /\ DOMAIN joins = Node /\ \A n \in Node : joins[n] \in 0..setting.joins[n]
    /\ verdict \in [Node -> Election \cup {None}]

Init ==
    /\ setting \in Settings
    /\ state = [n \in Node |-> "IDLE"]
    /\ role = [n \in Node |-> "none"]
    /\ server = [n \in Node |-> None]
    /\ dialing = [n \in Node |-> FALSE]
    /\ conn = [n \in Node |-> {}]
    /\ chan = [l \in Link |-> <<>>]
    /\ reg = [n \in Node |-> NoPeers]
    /\ pending = [n \in Node |-> {}]
    /\ announced = [n \in Node |-> {}]
    /\ dropping = [n \in Node |-> {}]
    /\ timer = [n \in Node |-> {}]
    /\ published = None
    /\ joins = [n \in Node |-> 0]
    /\ verdict = [n \in Node |-> None]

(***************************************************************************)
(* Links and RPCs.                                                         *)
(***************************************************************************)

(* b's inbox after it has taken the message at its head.                   *)
Taken(a, b) == [chan EXCEPT ![<<a, b>>] = Tail(@)]

Arrives(a, b, kind) == chan[<<a, b>>] # <<>> /\ Head(chan[<<a, b>>]).kind = kind

(* A link that either end has closed carries nothing any more.             *)
Carries(ch, l) ==
    /\ l[2] \in conn[l[1]] /\ l[1] \in conn[l[2]]
    /\ ch[l] # <<>> => Last(ch[l]).kind # "closed"

(* ch after n has sent m to the players P                                  *)
Sent(ch, n, P, m) ==
    [l \in Link |-> IF l[1] = n /\ l[2] \in P /\ Carries(ch, l)
                    THEN Append(ch[l], m) ELSE ch[l]]

(* What a link that closes still delivers: all that was under way, or
   nothing but the opening, which comes first.                             *)
Delivered(s, flushed) ==
    IF flushed THEN s ELSE IF s # <<>> /\ Head(s).kind = "opened" THEN <<Head(s)>> ELSE <<>>

(* ch after n has closed its links with P.  The other end sees the closing
   after what is still delivered.                                          *)
Cut(ch, n, P, flushed) ==
    [l \in Link |->
        IF l[2] = n /\ l[1] \in P THEN <<>>
        ELSE IF l[1] = n /\ l[2] \in P /\ Carries(ch, l)
        THEN Append(Delivered(ch[l], flushed), M("closed"))
        ELSE ch[l]]

(* The clients the engine of server s has admitted: their link's opening
   has been processed.                                                     *)
Admitted(s) ==
    {p \in conn[s] : \A i \in DOMAIN chan[<<p, s>>] :
                        chan[<<p, s>>][i].kind # "opened"}
(***************************************************************************)
(* Starting, leaving, crashing.                                            *)
(***************************************************************************)

(* start_host                                                              *)
StartHost(n) ==
    /\ n = FirstHost /\ state[n] = "IDLE"
    /\ state' = [state EXCEPT ![n] = "CONNECTED_AS_HOST"]
    /\ role' = [role EXCEPT ![n] = "server"]
    /\ server' = [server EXCEPT ![n] = n]
    /\ published' = n
    /\ UNCHANGED <<dialing, conn, chan, reg, pending, announced, dropping,
                   timer, joins, verdict>>

(* Mutant: start_peer forgets the bounded wait.                            *)
StartPeerUnbounded(n) ==
    /\ state[n] \in {"IDLE", "DISCONNECTED"} /\ role[n] # "server"
    /\ published \notin {None, n} /\ joins[n] < setting.joins[n]
    /\ state' = [state EXCEPT ![n] = "CONNECTING"]
    /\ role' = [role EXCEPT ![n] = "client"]
    /\ dialing' = [dialing EXCEPT ![n] = TRUE]
    /\ chan' = Cut(chan, n, conn[n], FALSE)
    /\ conn' = [conn EXCEPT ![n] = {}]
    /\ joins' = [joins EXCEPT ![n] = @ + 1]
    /\ UNCHANGED <<server, reg, pending, announced, dropping, timer, published, verdict>>

(* start_peer, from the menu or from the retry button of the problem
   screen.  The registry keeps what an earlier session left in it.  A player
   who has hosted does not join again within the bounds of the model.      *)
StartPeer(n) ==
    /\ state[n] \in {"IDLE", "DISCONNECTED"} /\ role[n] # "server"
    /\ published \notin {None, n} /\ joins[n] < setting.joins[n]
    /\ state' = [state EXCEPT ![n] = "CONNECTING"]
    /\ role' = [role EXCEPT ![n] = "client"]
    /\ dialing' = [dialing EXCEPT ![n] = TRUE]
    /\ chan' = Cut(chan, n, conn[n], FALSE)
    /\ conn' = [conn EXCEPT ![n] = {}]
    /\ timer' = [timer EXCEPT ![n] = @ \cup {"connecting"}]
    /\ joins' = [joins EXCEPT ![n] = @ + 1]
    /\ UNCHANGED <<server, reg, pending, announced, dropping, published, verdict>>

(* The offer and its answer have crossed and a data channel opens between
   client n and the published host.                                        *)
Open(s, n) ==
    /\ dialing[n] /\ role[n] = "client" /\ s = published /\ s # n
    /\ role[s] = "server" /\ state[s] \in {"CONNECTED_AS_HOST", "FAILOVER_PROMOTING"}
    /\ n \notin conn[s] /\ chan[<<n, s>>] = <<>>
    /\ dialing' = [dialing EXCEPT ![n] = FALSE]
    /\ server' = [server EXCEPT ![n] = s]
    /\ conn' = [conn EXCEPT ![n] = {s}, ![s] = @ \cup {n}]
    /\ chan' = [chan EXCEPT ![<<s, n>>] = <<M("opened")>>, ![<<n, s>>] = <<M("opened")>>]
    /\ UNCHANGED <<state, role, reg, pending, announced, dropping, timer,
                   published, joins, verdict>>

(* A link breaks by itself; both ends learn of it.                         *)
LinkBreaks(s, n) ==
    /\ <<s, n>> \in setting.unstable
    /\ Carries(chan, <<s, n>>)
    /\ chan' = [chan EXCEPT ![<<s, n>>] = Append(Delivered(@, FALSE), M("closed")),
                            ![<<n, s>>] = Append(Delivered(@, FALSE), M("closed"))]
    /\ UNCHANGED <<state, role, server, dialing, conn, reg, pending, announced,
                   dropping, timer, published, joins, verdict>>

(* begin_graceful_disconnect: registry, version gate and timers keep what
   they hold.                                                              *)
Leave(n) ==
    /\ state[n] \notin {"IDLE", "DISCONNECTED", "CRASHED"}
    /\ \E flushed \in setting.flushing :
          chan' = Cut(Sent(chan, n, conn[n], M("leaving")), n, conn[n], flushed)
    /\ conn' = [conn EXCEPT ![n] = {}]
    /\ dialing' = [dialing EXCEPT ![n] = FALSE]
    /\ state' = [state EXCEPT ![n] = "DISCONNECTED"]
    /\ UNCHANGED <<role, server, reg, pending, announced, dropping, timer,
                   published, joins, verdict>>

(* The host's process dies.                                                *)
Crash(n) ==
    /\ state[n] = "CONNECTED_AS_HOST"
    /\ \E flushed \in setting.flushing : chan' = Cut(chan, n, conn[n], flushed)
    /\ conn' = [conn EXCEPT ![n] = {}]
    /\ state' = [state EXCEPT ![n] = "CRASHED"]
    /\ reg' = [reg EXCEPT ![n] = NoPeers]
    /\ pending' = [pending EXCEPT ![n] = {}]
    /\ announced' = [announced EXCEPT ![n] = {}]
    /\ dropping' = [dropping EXCEPT ![n] = {}]
    /\ timer' = [timer EXCEPT ![n] = {}]
    /\ UNCHANGED <<role, server, dialing, published, joins, verdict>>

(***************************************************************************)
(* The host's side of a link.                                              *)
(***************************************************************************)

(* _disconnect_peer(p) on server s, given what is under way (ch).  The
   engine tells the other clients, and peer_disconnected is emitted.       *)
DisconnectPeer(s, p, ch) ==
    /\ \E flushed \in setting.flushing :
          chan' = Sent(Cut(ch, s, {p} \cap conn[s], flushed), s,
                       IF p \in conn[s] THEN Admitted(s) \ {p} ELSE {}, MOf("del", p))
    /\ conn' = [conn EXCEPT ![s] = @ \ {p}]
    /\ reg' = [reg EXCEPT ![s] = UnregisterPeer(@, p)]
    /\ pending' = [pending EXCEPT ![s] = @ \ {p}]
    /\ announced' = [announced EXCEPT ![s] = @ \ {p}]

(* _on_peer_connected(p) on the server: the engine introduces p and the
   other clients to each other; p waits for the version gate, unless this
   host is being promoted: then p gets a snapshot and is announced.        *)
PeerOpened(s, p) ==
    /\ role[s] = "server" /\ Arrives(p, s, "opened")
    /\ reg' = [reg EXCEPT ![s] = RegisterPeer(@, p)]
    /\ LET others == Admitted(s) \ {p}
           told == Sent(Taken(p, s), s, others, MOf("add", p))
           introduced == [told EXCEPT ![<<s, p>>] =
                IF Carries(told, <<s, p>>)
                THEN @ \o [i \in 1..Cardinality(others) |->
                             MOf("add", SetToSeq(others)[i])]
                ELSE @]
       IN  IF state[s] = "FAILOVER_PROMOTING"
           THEN /\ chan' = Sent(introduced, s, {p}, M("snapshot"))
                /\ announced' = [announced EXCEPT ![s] = @ \cup {p}]
                /\ state' = [state EXCEPT ![s] = "CONNECTED_AS_HOST"]
                /\ UNCHANGED pending
           ELSE /\ chan' = introduced
                /\ pending' = [pending EXCEPT ![s] = @ \cup {p}]
                /\ UNCHANGED <<announced, state>>
    /\ UNCHANGED <<role, server, dialing, conn, dropping, timer, published,
                   joins, verdict>>

(* Mutants: the comparison of the builds is left out; the mismatch ends the
   handler without a rejection; the rejection is not sent.                 *)
VersionReportedLenient(s, p) ==
    /\ role[s] = "server" /\ Arrives(p, s, "report")
    /\ reg' = [reg EXCEPT ![s] = SetVersion(@, p)]
    /\ pending' = [pending EXCEPT ![s] = @ \ {p}]
    /\ chan' = Sent(Taken(p, s), s, Admitted(s), MOf("sync", p))
    /\ announced' = IF p \in pending[s] THEN [announced EXCEPT ![s] = @ \cup {p}]
                    ELSE announced
    /\ UNCHANGED <<state, role, server, dialing, conn, dropping, timer, published,
                   joins, verdict>>

VersionReportedIgnored(s, p) ==
    /\ role[s] = "server" /\ Arrives(p, s, "report")
    /\ reg' = [reg EXCEPT ![s] = SetVersion(@, p)]
    /\ pending' = [pending EXCEPT ![s] = @ \ {p}]
    /\ chan' = Sent(Taken(p, s), s, Admitted(s), MOf("sync", p))
    /\ announced' = IF p \in pending[s] /\ Version[p] = Version[s]
                    THEN [announced EXCEPT ![s] = @ \cup {p}] ELSE announced
    /\ UNCHANGED <<state, role, server, dialing, conn, dropping, timer, published,
                   joins, verdict>>

VersionReportedUntold(s, p) ==
    /\ role[s] = "server" /\ Arrives(p, s, "report")
    /\ reg' = [reg EXCEPT ![s] = SetVersion(@, p)]
    /\ pending' = [pending EXCEPT ![s] = @ \ {p}]
    /\ chan' = Sent(Taken(p, s), s, Admitted(s), MOf("sync", p))
    /\ IF Version[p] # Version[s]
       THEN /\ dropping' = [dropping EXCEPT ![s] = @ \cup {p}]
            /\ UNCHANGED announced
       ELSE /\ announced' = IF p \in pending[s]
                            THEN [announced EXCEPT ![s] = @ \cup {p}]
                            ELSE announced
            /\ UNCHANGED dropping
    /\ UNCHANGED <<state, role, server, dialing, conn, timer, published, joins,
                   verdict>>

(* _handle_reported_protocol_version: an equal build passes the gate, any
   other is told and disconnected in the next frame.                       *)
VersionReported(s, p) ==
    /\ role[s] = "server" /\ Arrives(p, s, "report")
    /\ reg' = [reg EXCEPT ![s] = SetVersion(@, p)]
    /\ pending' = [pending EXCEPT ![s] = @ \ {p}]
    /\ LET synced == Sent(Taken(p, s), s, Admitted(s), MOf("sync", p))
       IN  IF Version[p] # Version[s]
           THEN /\ chan' = Sent(synced, s, {p}, M("rejected"))
                /\ dropping' = [dropping EXCEPT ![s] = @ \cup {p}]
                /\ UNCHANGED announced
           ELSE /\ chan' = synced
                /\ announced' = IF p \in pending[s]
                                THEN [announced EXCEPT ![s] = @ \cup {p}]
                                ELSE announced
                /\ UNCHANGED dropping
    /\ UNCHANGED <<state, role, server, dialing, conn, timer, published, joins,
                   verdict>>

(* kick_peer, up to its await                                              *)
KickPeer(s, p) ==
    /\ role[s] = "server" /\ state[s] = "CONNECTED_AS_HOST" /\ p \in announced[s]
    /\ p \notin dropping[s]
    /\ chan' = Sent(chan, s, {p}, M("kicked"))
    /\ dropping' = [dropping EXCEPT ![s] = @ \cup {p}]
    /\ UNCHANGED <<state, role, server, dialing, conn, reg, pending, announced,
                   timer, published, joins, verdict>>

(* The rest of kick_peer and of _reject_connecting_peer, one frame later.  *)
DropAfterFrame(s, p) ==
    /\ p \in dropping[s]
    /\ dropping' = [dropping EXCEPT ![s] = @ \ {p}]
    /\ DisconnectPeer(s, p, chan)
    /\ UNCHANGED <<state, role, server, dialing, timer, published, joins, verdict>>

(* _check_peer_timeouts drops a peer whose pongs have not arrived.         *)
KeepaliveTimeout(s, p) ==
    /\ state[s] = "CONNECTED_AS_HOST" /\ <<s, p>> \in setting.unstable
    /\ p \in Registered(reg[s])
    /\ DisconnectPeer(s, p, chan)
    /\ UNCHANGED <<state, role, server, dialing, dropping, timer, published,
                   joins, verdict>>

(* peer_disconnected(p), or p said that it leaves (_disconnecting_gracefully) *)
PeerLeft(s, p) ==
    /\ role[s] = "server"
    /\ Arrives(p, s, "closed") \/ Arrives(p, s, "leaving")
    /\ DisconnectPeer(s, p, Taken(p, s))
    /\ UNCHANGED <<state, role, server, dialing, dropping, timer, published,
                   joins, verdict>>

(* broadcast_event: the RPC goes to every client the engine has admitted.  *)
BroadcastEvent(s) ==
    /\ role[s] = "server" /\ state[s] = "CONNECTED_AS_HOST"
    /\ \A p \in Admitted(s) :
          Cardinality({i \in DOMAIN chan[<<s, p>>] : chan[<<s, p>>][i].kind = "event"})
            < setting.events
    /\ Admitted(s) # {}
    /\ chan' = Sent(chan, s, Admitted(s), M("event"))
    /\ UNCHANGED <<state, role, server, dialing, conn, reg, pending, announced,
                   dropping, timer, published, joins, verdict>>
(***************************************************************************)
(* The client's side of a link.                                            *)
(***************************************************************************)

(* Mutant: a client, too, holds what it connects to at the version gate.   *)
HostOpenedGated(n) ==
    LET s == server[n]
    IN  /\ role[n] = "client" /\ s # None /\ Arrives(s, n, "opened")
        /\ reg' = [reg EXCEPT ![n] = RegisterPeer(@, HostId)]
        /\ timer' = [timer EXCEPT ![n] = @ \ {"connecting"}]
        /\ state' = [state EXCEPT ![n] =
                        IF @ = "CONNECTING" THEN "CONNECTED_AS_PEER" ELSE @]
        /\ pending' = [pending EXCEPT ![n] = @ \cup {HostId}]
        /\ chan' = Sent(Taken(s, n), n, {s}, M("report"))
        /\ UNCHANGED <<role, server, dialing, conn, announced, dropping, published,
                       joins, verdict>>

(* _on_peer_connected(1): the wait of start_peer ends, and the player tells
   the host its build.  A link that opens after the connecting timer has
   given up is used all the same.                                          *)
HostOpened(n) ==
    LET s == server[n]
    IN  /\ role[n] = "client" /\ s # None /\ Arrives(s, n, "opened")
        /\ reg' = [reg EXCEPT ![n] = RegisterPeer(@, HostId)]
        /\ timer' = [timer EXCEPT ![n] = @ \ {"connecting"}]
        /\ state' = [state EXCEPT ![n] =
                        IF @ = "CONNECTING" THEN "CONNECTED_AS_PEER" ELSE @]
        /\ announced' = [announced EXCEPT ![n] = @ \cup {HostId}]
        /\ chan' = Sent(Taken(s, n), n, {s}, M("report"))
        /\ UNCHANGED <<role, server, dialing, conn, pending, dropping, published,
                       joins, verdict>>

(* peer_connected and peer_disconnected of another client, relayed by the
   engine of the host; and _sync_peer_protocol_version.                    *)
HostTells(n) ==
    LET s == server[n]
        m == Head(chan[<<s, n>>])
    IN  /\ role[n] = "client" /\ s # None
        /\ \E k \in AboutPeer : Arrives(s, n, k)
        /\ reg' = [reg EXCEPT ![n] = CASE m.kind = "add" -> RegisterPeer(@, m.id)
                                       [] m.kind = "del" -> UnregisterPeer(@, m.id)
                                       [] m.kind = "sync" -> SetVersion(@, m.id)]
        /\ announced' = [announced EXCEPT ![n] =
                CASE m.kind = "add" -> @ \cup {m.id}
                  [] m.kind = "del" -> @ \ {m.id}
                  [] m.kind = "sync" -> @]
        /\ chan' = Taken(s, n)
        /\ UNCHANGED <<state, role, server, dialing, conn, pending, dropping,
                       timer, published, joins, verdict>>

(* _receive_replicated_event                                               *)
EventReceived(n) ==
    LET s == server[n]
    IN  /\ role[n] = "client" /\ s # None /\ Arrives(s, n, "event")
        /\ chan' = Taken(s, n)
        /\ UNCHANGED <<state, role, server, dialing, conn, reg, pending, announced,
                       dropping, timer, published, joins, verdict>>

(* _receive_connection_rejected and _receive_kicked_notice                 *)
TurnedAway(n) ==
    LET s == server[n]
    IN  /\ role[n] = "client" /\ s # None
        /\ Arrives(s, n, "rejected") \/ Arrives(s, n, "kicked")
        /\ \E flushed \in setting.flushing : chan' = Cut(Taken(s, n), n, {s}, flushed)
        /\ conn' = [conn EXCEPT ![n] = {}]
        /\ state' = [state EXCEPT ![n] = "DISCONNECTED"]
        /\ UNCHANGED <<role, server, dialing, reg, pending, announced, dropping,
                       timer, published, joins, verdict>>

(* _receive_snapshot_reset, with _on_snapshot_received_during_failover     *)
SnapshotReceived(n) ==
    LET s == server[n]
    IN  /\ role[n] = "client" /\ s # None /\ Arrives(s, n, "snapshot")
        /\ timer' = [timer EXCEPT ![n] = @ \ {"grace"}]
        /\ state' = [state EXCEPT ![n] = "CONNECTED_AS_PEER"]
        /\ chan' = Taken(s, n)
        /\ UNCHANGED <<role, server, dialing, conn, reg, pending, announced,
                       dropping, published, joins, verdict>>

(* Mutant: the second signal unregisters the host without peer_disconnected. *)
HostClosedQuietly(n) ==
    LET s == server[n]
        failover == state[n] = "CONNECTED_AS_PEER"
    IN  /\ role[n] = "client" /\ s # None /\ Arrives(s, n, "closed")
        /\ conn' = [conn EXCEPT ![n] = @ \ {s}]
        /\ chan' = Taken(s, n)
        /\ state' = IF failover THEN [state EXCEPT ![n] = "FAILOVER_DETECTING"]
                    ELSE state
        /\ timer' = IF failover THEN [timer EXCEPT ![n] = @ \cup {"failover"}]
                    ELSE timer
        /\ reg' = [reg EXCEPT ![n] = UnregisterPeer(@, HostId)]
        /\ UNCHANGED <<role, server, dialing, pending, announced, dropping, published,
                       joins, verdict>>

(* The link to the host has closed: peer_disconnected(1) and
   server_disconnected.  The one that comes first starts the failover
   (_on_host_disconnected); when that is server_disconnected, the other
   one unregisters the host, as it does in every other state.              *)
HostClosed(n) ==
    LET s == server[n]
        failover == state[n] = "CONNECTED_AS_PEER"
    IN  /\ role[n] = "client" /\ s # None /\ Arrives(s, n, "closed")
        /\ conn' = [conn EXCEPT ![n] = @ \ {s}]
        /\ chan' = Taken(s, n)
        /\ state' = IF failover THEN [state EXCEPT ![n] = "FAILOVER_DETECTING"]
                    ELSE state
        /\ timer' = IF failover THEN [timer EXCEPT ![n] = @ \cup {"failover"}]
                    ELSE timer
        /\ \E serverSignalFirst \in BOOLEAN :
             IF failover /\ ~serverSignalFirst
             THEN UNCHANGED <<reg, announced>>
             ELSE /\ reg' = [reg EXCEPT ![n] = UnregisterPeer(@, HostId)]
                  /\ announced' = [announced EXCEPT ![n] = @ \ {HostId}]
        /\ UNCHANGED <<role, server, dialing, pending, dropping, published, joins,
                       verdict>>

(***************************************************************************)
(* Timers and the failover.                                                *)
(***************************************************************************)

(* _on_connecting_timeout                                                  *)
ConnectingTimeout(n) ==
    /\ "connecting" \in timer[n]
    /\ timer' = [timer EXCEPT ![n] = @ \ {"connecting"}]
    /\ state' = IF state[n] = "CONNECTING" THEN [state EXCEPT ![n] = "DISCONNECTED"]
                ELSE state
    /\ UNCHANGED <<role, server, dialing, conn, chan, reg, pending, announced,
                   dropping, published, joins, verdict>>

(* _do_failover_elected: the registry is cleared, the signaling server is
   told who hosts now.                                                     *)
Promote(n) ==
    /\ state' = [state EXCEPT ![n] = "FAILOVER_PROMOTING"]
    /\ role' = [role EXCEPT ![n] = "server"]
    /\ server' = [server EXCEPT ![n] = n]
    /\ chan' = Cut(chan, n, conn[n], FALSE)
    /\ conn' = [conn EXCEPT ![n] = {}]
    /\ reg' = [reg EXCEPT ![n] = NoPeers]
    /\ published' = n
    /\ timer' = [timer EXCEPT ![n] = @ \ {"failover"}]

(* _do_failover_waiting                                                    *)
Await(n) ==
    /\ state' = [state EXCEPT ![n] = "FAILOVER_WAITING"]
    /\ timer' = [timer EXCEPT ![n] = (@ \ {"failover"}) \cup {"grace"}]
    /\ UNCHANGED <<role, server, chan, conn, reg, published>>

(* Mutant: the handler of the failover timer does not look at the state.   *)
FailoverTimeoutAnyState(n) ==
    LET winner == ElectedHost(reg[n], n)
    IN  /\ "failover" \in timer[n] /\ server[n] # None
        /\ \E me \in {n, HostId} :
              /\ verdict' = [verdict EXCEPT ![n] =
                    [lost |-> server[n],
                     winner |-> IF winner \in {None, me} THEN n ELSE winner]]
              /\ IF winner \in {None, me} THEN Promote(n) ELSE Await(n)
        /\ UNCHANGED <<dialing, pending, announced, dropping, joins>>

(* _on_failover_timer_timeout with am_i_elected.  A player is elected when
   there is nobody to elect, or when the id elected is the one the engine
   reports for a player without a link: its own or 1.                      *)
FailoverTimeout(n) ==
    LET winner == ElectedHost(reg[n], n)
    IN  /\ "failover" \in timer[n]
        /\ IF state[n] # "FAILOVER_DETECTING"
           THEN /\ timer' = [timer EXCEPT ![n] = @ \ {"failover"}]
                /\ UNCHANGED <<state, role, server, chan, conn, reg, published, verdict>>
           ELSE \E me \in {n, HostId} :
                  /\ verdict' = [verdict EXCEPT ![n] =
                        [lost |-> server[n],
                         winner |-> IF winner \in {None, me} THEN n ELSE winner]]
                  /\ IF winner \in {None, me} THEN Promote(n) ELSE Await(n)
        /\ UNCHANGED <<dialing, pending, announced, dropping, joins>>

(* Mutant: a new host that is announced counts as reached.                 *)
NewHostAnnouncedReached(n) ==
    /\ state[n] = "FAILOVER_WAITING" /\ published \notin {None, n, server[n]}
    /\ state' = [state EXCEPT ![n] = "CONNECTED_AS_PEER"]
    /\ dialing' = [dialing EXCEPT ![n] = TRUE]
    /\ UNCHANGED <<role, server, conn, chan, reg, pending, announced, dropping,
                   timer, published, joins, verdict>>

(* "update_host" while FAILOVER_WAITING: _do_failover_waiting_reconnect    *)
NewHostAnnounced(n) ==
    /\ state[n] = "FAILOVER_WAITING" /\ published \notin {None, n, server[n]}
    /\ state' = [state EXCEPT ![n] = "RECONNECTING"]
    /\ dialing' = [dialing EXCEPT ![n] = TRUE]
    /\ UNCHANGED <<role, server, conn, chan, reg, pending, announced, dropping,
                   timer, published, joins, verdict>>

(* Mutants: the handler of the grace timer acts in every state; it leaves
   out RECONNECTING.                                                       *)
GraceTimeoutAnyState(n) ==
    /\ "grace" \in timer[n]
    /\ timer' = [timer EXCEPT ![n] = @ \ {"grace"}]
    /\ state' = [state EXCEPT ![n] = "DISCONNECTED"]
    /\ UNCHANGED <<role, server, dialing, conn, chan, reg, pending, announced,
                   dropping, published, joins, verdict>>

GraceTimeoutWaitingOnly(n) ==
    /\ "grace" \in timer[n]
    /\ timer' = [timer EXCEPT ![n] = @ \ {"grace"}]
    /\ state' = IF state[n] = "FAILOVER_WAITING"
                THEN [state EXCEPT ![n] = "DISCONNECTED"] ELSE state
    /\ UNCHANGED <<role, server, dialing, conn, chan, reg, pending, announced,
                   dropping, published, joins, verdict>>

(* _on_reconnect_grace_timeout                                             *)
GraceTimeout(n) ==
    /\ "grace" \in timer[n]
    /\ timer' = [timer EXCEPT ![n] = @ \ {"grace"}]
    /\ state' = IF state[n] \in {"FAILOVER_WAITING", "RECONNECTING"}
                THEN [state EXCEPT ![n] = "DISCONNECTED"] ELSE state
    /\ UNCHANGED <<role, server, dialing, conn, chan, reg, pending, announced,
                   dropping, published, joins, verdict>>

HostStep(s, p) ==
    \/ PeerOpened(s, p) \/ VersionReported(s, p) \/ PeerLeft(s, p) \/ DropAfterFrame(s, p)

ClientStep(n) ==
    \/ HostOpened(n) \/ HostTells(n) \/ EventReceived(n) \/ TurnedAway(n)
    \/ SnapshotReceived(n) \/ HostClosed(n)

TimerStep(n) == ConnectingTimeout(n) \/ FailoverTimeout(n) \/ GraceTimeout(n)

Next ==
    /\ UNCHANGED setting
    /\ \/ \E n \in Node : \/ StartHost(n) \/ StartPeer(n) \/ Leave(n) \/ Crash(n)
                          \/ BroadcastEvent(n) \/ NewHostAnnounced(n)
                          \/ ClientStep(n) \/ TimerStep(n)
       \/ \E s, p \in Node : \/ Open(s, p) \/ LinkBreaks(s, p) \/ KickPeer(s, p)
                             \/ KeepaliveTimeout(s, p) \/ HostStep(s, p)

Spec == Init /\ [][Next]_<<vars, setting>>

(* Godot's main loop runs timers and polls the links of every player that
   has not crashed; nothing obliges a player, or the signaling server.     *)
FairSpec ==
    /\ Spec
    /\ \A n \in Node : /\ WF_vars(ClientStep(n))
                       /\ WF_vars(ConnectingTimeout(n))
                       /\ WF_vars(FailoverTimeout(n))
                       /\ WF_vars(GraceTimeout(n))
    /\ \A s, p \in Node : WF_vars(HostStep(s, p))

(***************************************************************************)
(* Properties.                                                             *)
(***************************************************************************)

(* A client shows its player exactly the players its registry holds:
   every peer_connected and peer_disconnected comes with the registration
   it speaks of, whatever the order of openings, relayed arrivals, closings
   and retries (_on_peer_connected, _disconnect_peer).                     *)
PlayersShownRegistered ==
    \A n \in Node : role[n] # "server" => announced[n] = Registered(reg[n])

(* The version gate: outside a promotion a host never announces a player
   with another build, in whatever order the opening, the report, a kick
   and the closing of its link arrive.                                     *)
GateHolds ==
    [][\A s, p \in Node :
        /\ role[s] = "server" /\ state[s] # "FAILOVER_PROMOTING"
        /\ p \in announced'[s] \ announced[s]
        => Version[p] = Version[s]]_vars

(* A player takes over only while it has no link with the host it lost: a
   failover timer left over from an earlier session promotes nobody.       *)
PromotedOnlyWhenCutOff ==
    [][\A n \in Node : role[n] = "client" /\ role'[n] = "server"
            => conn[n] = {}]_vars

(* A player in a session stays in it until its link to the host is closed,
   the host turns it away, or it leaves; no timer of an earlier attempt
   ends the session.                                                       *)
ConnectedUntilToldOrLost ==
    [][\A n \in Node : state[n] = "CONNECTED_AS_PEER" /\ state'[n] # state[n]
            => conn'[n] = {}]_vars

(* Whoever gets back into a session has a link to its host: no message that was
   under way when a link closed, and no snapshot that comes after the grace
   window has given up, brings a player back into a session it is cut off
   from (_on_snapshot_received_during_failover does not look at the state).  *)
BackOnlyWithLink ==
    [][\A n \in Node : state[n] # "CONNECTED_AS_PEER" /\ state'[n] = "CONNECTED_AS_PEER"
            => server'[n] \in conn'[n]]_vars

(* On a player's first attempt to join a hand-over is under way only when the
   host it replaces is gone.  (On a later one it may be under way although
   the host lives: the disconnection of a kick is carried out one frame
   later, on whatever link the player has by then.)                        *)
HandoverOnlyWhenHostGone ==
    \A n \in Node :
        state[n] \in {"FAILOVER_DETECTING", "FAILOVER_PROMOTING", "FAILOVER_WAITING"}
            => state[FirstHost] # "CONNECTED_AS_HOST"

(* Two players that know of each other and lose the same host elect the
   same new one.                                                           *)
SurvivorsAgree ==
    \A n, m \in Node :
        /\ verdict[n] # None /\ verdict[m] # None
        /\ verdict[n].lost = verdict[m].lost
        /\ m \in Registered(reg[n]) /\ n \in Registered(reg[m])
        => verdict[n].winner = verdict[m].winner

(* Joining never hangs: the attempt ends in a session or in the problem
   screen.                                                                 *)
ConnectingResolves ==
    \A n \in Node : state[n] = "CONNECTING" ~> state[n] # "CONNECTING"

(* A player whose host is lost ends up hosting, in a session, or out of it:
   the grace window covers both the wait and the reconnection.             *)
FailoverResolves ==
    \A n \in Node :
        state[n] \in {"FAILOVER_DETECTING", "FAILOVER_WAITING", "RECONNECTING"}
            ~> state[n] \notin {"FAILOVER_DETECTING", "FAILOVER_WAITING", "RECONNECTING"}

(* A player with another build does not stay registered with a host.       *)
OtherBuildLeaves ==
    \A s, p \in Node :
        Version[p] # Version[s] /\ state[s] = "CONNECTED_AS_HOST"
                                /\ p \in Registered(reg[s])
            ~> p \notin Registered(reg[s]) \/ state[s] # "CONNECTED_AS_HOST"
=============================================================================
