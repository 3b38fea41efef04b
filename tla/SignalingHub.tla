---------------------------- MODULE SignalingHub ----------------------------
(***************************************************************************)
(* The WebSocket signaling hub (signaling-server/internal/hub): client     *)
(* connections, the registry of published game sessions, and the relay of  *)
(* WebRTC offers, answers and ICE candidates between players.              *)
(*                                                                         *)
(* Every connection is served by two goroutines, the handler (HandleConn   *)
(* and its read loop) and the write pump, which share the connection's     *)
(* buffered send channel; a third goroutine prunes idle sessions.  Each    *)
(* action below is the code between two points where the mutex is          *)
(* released, an HTTP call is made or a channel operation may block.        *)
(***************************************************************************)
EXTENDS Integers, FiniteSets

CONSTANTS
    Uid,         \* player accounts (JWT subjects)
    Sid,         \* session identifiers chosen by the hosts
    Conn,        \* connections (Client objects); the bound on reconnects
    SendBuffer,  \* sendBufferSize, 64 in the code
    PeerCap,     \* the limit of four players per session
    None         \* nil

ASSUME SendBufferAssumption == SendBuffer \in Nat \ {0}
ASSUME PeerCapAssumption == PeerCap \in Nat \ {0}
ASSUME NoneAssumption == None \notin Uid /\ None \notin Sid /\ None \notin Conn

VARIABLES
    clients,   \* Hub.clients: the connection registered for a uid
    sessions,  \* SessionRegistry.sessions
    uid,       \* Client.uid
    joined,    \* Client.sessionID
    link,      \* Client.conn: the WebSocket, as the server sees it
    buffered,  \* number of messages in Client.send
    closed,    \* has Client.send been closed?
    pump,      \* where the write pump of a connection is
    pc,        \* where the handler of a connection is
    loc        \* the local variables of that handler

vars == <<clients, sessions, uid, joined, link, buffered, closed, pump, pc, loc>>

Session == [host : Uid, peers : Nat, max : 1..PeerCap, idle : BOOLEAN]

ASSUME NoSessionAssumption == None \notin Session

(* Control points of a handler: reading from the socket, blocked on sending
   a reply to its own client, the two HTTP gates of an offer, the counting
   of a peer, the stages of a relay, the stages of update_host, clean-up.  *)
Stage == {"unused", "read", "reply", "block", "consent", "count", "route",
          "nack", "deliver", "hostCheck", "hostSet", "hostNotify", "cleanup",
          "done", "panicked"}

Ended == {"done", "panicked"}

Local == [sess : Sid \cup {None},    \* session the handler works on
          host : Uid \cup {None},    \* s.HostUID as read before the gates
          max : 0..PeerCap,          \* s.MaxPeers of the object Get returned
          dest : Uid \cup {None},    \* to_uid or new_host_uid
          target : Conn \cup {None}, \* *Client found for dest
          replies : 0..2]            \* messages still to be put on client.send

NoLocal == [sess |-> None, host |-> None, max |-> 0, dest |-> None,
            target |-> None, replies |-> 0]

TypeOK ==
    /\ clients \in [Uid -> Conn \cup {None}]
    /\ sessions \in [Sid -> Session \cup {None}]
    /\ uid \in [Conn -> Uid \cup {None}]
    /\ joined \in [Conn -> Sid \cup {None}]
    /\ link \in [Conn -> {"none", "up", "down"}]
    /\ buffered \in [Conn -> 0..SendBuffer]
    /\ closed \in [Conn -> BOOLEAN]
    /\ pump \in [Conn -> {"off", "idle", "writing"}]
    /\ pc \in [Conn -> Stage]
    /\ loc \in [Conn -> Local]

Init ==
    /\ clients = [u \in Uid |-> None]
    /\ sessions = [s \in Sid |-> None]
    /\ uid = [c \in Conn |-> None]
    /\ joined = [c \in Conn |-> None]
    /\ link = [c \in Conn |-> "none"]
    /\ buffered = [c \in Conn |-> 0]
    /\ closed = [c \in Conn |-> FALSE]
    /\ pump = [c \in Conn |-> "off"]
    /\ pc = [c \in Conn |-> "unused"]
    /\ loc = [c \in Conn |-> NoLocal]

connVars == <<uid, link, closed>>
chanVars == <<buffered, pump>>

-----------------------------------------------------------------------------
(* Control flow of a handler.                                              *)

GoTo(c, stage, l) ==
    /\ pc' = [pc EXCEPT ![c] = stage]
    /\ loc' = [loc EXCEPT ![c] = l]

BackToRead(c) == GoTo(c, "read", NoLocal)

(* client.send <- message, n times: the handler may block on each.         *)
ReplyWith(c, n) == GoTo(c, "reply", [NoLocal EXCEPT !.replies = n])

(* A send on a closed channel panics.  net/http recovers the panic of the
   handler goroutine: the deferred cancel() runs, the clean-up below the
   read loop does not.                                                     *)
Panic(c) == GoTo(c, "panicked", NoLocal)

-----------------------------------------------------------------------------
(* HandleConn: a verified, upgraded connection replaces the one registered
   for the same uid, closing its send channel but not its socket.          *)
Connect(c, u) ==
    /\ pc[c] = "unused"
    /\ clients' = [clients EXCEPT ![u] = c]
    /\ closed' = [x \in Conn |-> closed[x] \/ x = clients[u]]
    /\ uid' = [uid EXCEPT ![c] = u]
    /\ link' = [link EXCEPT ![c] = "up"]
    /\ pump' = [pump EXCEPT ![c] = "idle"]
    /\ BackToRead(c)
    /\ UNCHANGED <<sessions, joined, buffered>>

(* The socket goes down: the player quits or the network fails.            *)
LinkDown(c) ==
    /\ link[c] = "up"
    /\ link' = [link EXCEPT ![c] = "down"]
    /\ UNCHANGED <<clients, sessions, uid, joined, buffered, closed, pump, pc, loc>>

(* readLoop: Read fails on a dead socket and the loop returns.             *)
ReadError(c) ==
    /\ pc[c] = "read"
    /\ link[c] = "down"
    /\ GoTo(c, "cleanup", NoLocal)
    /\ UNCHANGED <<clients, sessions, joined, connVars, chanVars>>

(* Mutant: the entry is removed without asking whose it is.                *)
CleanUpAnyEntry(c) ==
    /\ pc[c] = "cleanup"
    /\ clients' = [clients EXCEPT ![uid[c]] = None]
    /\ link' = [link EXCEPT ![c] = "down"]
    /\ GoTo(c, "done", NoLocal)
    /\ UNCHANGED <<sessions, uid, joined, buffered, closed, pump>>

(* Mutant: the channel is closed, the entry stays.                         *)
CleanUpClosing(c) ==
    /\ pc[c] = "cleanup"
    /\ closed' = [closed EXCEPT ![c] = TRUE]
    /\ link' = [link EXCEPT ![c] = "down"]
    /\ GoTo(c, "done", NoLocal)
    /\ UNCHANGED <<clients, sessions, uid, joined, buffered, pump>>

(* The end of HandleConn: unregister, unless a newer connection took over. *)
CleanUp(c) ==
    /\ pc[c] = "cleanup"
    /\ clients' = [clients EXCEPT ![uid[c]] = IF @ = c THEN None ELSE @]
    /\ link' = [link EXCEPT ![c] = "down"]
    /\ GoTo(c, "done", NoLocal)
    /\ UNCHANGED <<sessions, uid, joined, buffered, closed, pump>>

(* Mutant: a reply to a replaced connection waits for room in its buffer.  *)
SendReplyBlocking(c) ==
    /\ pc[c] = "reply"
    /\ buffered[c] < SendBuffer
    /\ buffered' = [buffered EXCEPT ![c] = @ + 1]
    /\ IF loc[c].replies = 1 THEN BackToRead(c)
       ELSE ReplyWith(c, loc[c].replies - 1)
    /\ UNCHANGED <<clients, sessions, joined, pump, connVars>>

(* client.send <- message in a handler: blocks while the buffer is full.   *)
SendReply(c) ==
    /\ pc[c] = "reply"
    /\ \/ /\ closed[c]
          /\ Panic(c)
          /\ UNCHANGED buffered
       \/ /\ ~closed[c]
          /\ buffered[c] < SendBuffer
          /\ buffered' = [buffered EXCEPT ![c] = @ + 1]
          /\ IF loc[c].replies = 1 THEN BackToRead(c)
             ELSE ReplyWith(c, loc[c].replies - 1)
    /\ UNCHANGED <<clients, sessions, joined, pump, connVars>>

-----------------------------------------------------------------------------
(* The write pump.  conn.Write has no deadline: it returns when the client
   has taken the message, when the socket fails, or when the handler's
   context is cancelled.                                                   *)
PumpTake(c) ==
    /\ pump[c] = "idle"
    /\ buffered[c] > 0
    /\ buffered' = [buffered EXCEPT ![c] = @ - 1]
    /\ pump' = [pump EXCEPT ![c] = "writing"]
    /\ UNCHANGED <<clients, sessions, joined, pc, loc, connVars>>

PumpWrote(c) ==
    /\ pump[c] = "writing"
    /\ link[c] = "up"
    /\ pump' = [pump EXCEPT ![c] = "idle"]
    /\ UNCHANGED <<clients, sessions, joined, buffered, pc, loc, connVars>>

PumpFails(c) ==
    /\ pump[c] = "writing"
    /\ link[c] = "down" \/ pc[c] \in Ended
    /\ pump' = [pump EXCEPT ![c] = "off"]
    /\ link' = [link EXCEPT ![c] = "down"]
    /\ UNCHANGED <<clients, sessions, uid, joined, buffered, closed, pc, loc>>

PumpStops(c) ==
    /\ pump[c] = "idle"
    /\ (closed[c] /\ buffered[c] = 0) \/ pc[c] \in Ended
    /\ pump' = [pump EXCEPT ![c] = "off"]
    /\ UNCHANGED <<clients, sessions, joined, buffered, pc, loc, connVars>>

-----------------------------------------------------------------------------
(* handleMessage: the handler has read a message from a live socket.       *)
Reads(c) == pc[c] = "read" /\ link[c] = "up"

(* A bad envelope, payload or type is answered with an error.              *)
Malformed(c) ==
    /\ Reads(c)
    /\ ReplyWith(c, 1)
    /\ UNCHANGED <<clients, sessions, joined, connVars, chanVars>>

(* handleRegister: session_list, then the TURN credentials if configured.  *)
Register(c, s) ==
    /\ Reads(c)
    /\ joined' = [joined EXCEPT ![c] = IF s # None THEN s ELSE @]
    /\ \E n \in 1..2 : ReplyWith(c, n)
    /\ UNCHANGED <<clients, sessions, connVars, chanVars>>

(* Mutant: a fifth place may be asked for.                                 *)
PublishOneMore(c, s, maxPeers) ==
    /\ Reads(c)
    /\ sessions[s] = None
    /\ sessions' = [sessions EXCEPT ![s] =
           [host |-> uid[c], peers |-> 1, idle |-> FALSE,
            max |-> IF maxPeers < 1 THEN PeerCap ELSE maxPeers]]
    /\ joined' = [joined EXCEPT ![c] = s]
    /\ ReplyWith(c, 1)
    /\ UNCHANGED <<clients, connVars, chanVars>>

(* handlePublishSession and SessionRegistry.Register; a max_peers below one
   means the default.                                                      *)
Publish(c, s, maxPeers) ==
    /\ Reads(c)
    /\ IF maxPeers > PeerCap \/ sessions[s] # None
       THEN UNCHANGED <<sessions, joined>>
       ELSE /\ sessions' = [sessions EXCEPT ![s] =
                 [host |-> uid[c], peers |-> 1, idle |-> FALSE,
                  max |-> IF maxPeers < 1 THEN PeerCap ELSE maxPeers]]
            /\ joined' = [joined EXCEPT ![c] = s]
    /\ ReplyWith(c, 1)
    /\ UNCHANGED <<clients, connVars, chanVars>>

(* handleUnpublishSession: no acknowledgement.                             *)
Unpublish(c, s) ==
    /\ Reads(c)
    /\ sessions' = [sessions EXCEPT ![s] = None]
    /\ joined' = [joined EXCEPT ![c] = IF @ = s THEN None ELSE @]
    /\ UNCHANGED <<clients, pc, loc, connVars, chanVars>>

-----------------------------------------------------------------------------
(* handleRelay.  An offer of a client that is in a published session goes
   through the block gate, the consent gate and the peer count first.      *)
Offer(c, to) ==
    /\ Reads(c)
    /\ IF joined[c] = None \/ sessions[joined[c]] = None
       THEN GoTo(c, "route", [NoLocal EXCEPT !.dest = to])
       ELSE LET s == sessions[joined[c]] IN
            GoTo(c, IF s.host = uid[c] THEN "consent" ELSE "block",
                 [NoLocal EXCEPT !.sess = joined[c], !.host = s.host,
                                 !.max = s.max, !.dest = to])
    /\ UNCHANGED <<clients, sessions, joined, connVars, chanVars>>

AnswerOrIce(c, to) ==
    /\ Reads(c)
    /\ GoTo(c, "route", [NoLocal EXCEPT !.dest = to])
    /\ UNCHANGED <<clients, sessions, joined, connVars, chanVars>>

(* isBlockedBetween and isConsentRequired: a query of Supabase that answers
   "clear" or "hit", or fails; both callers fail closed.                   *)
Answers == {"clear", "hit", "error"}

BlockGate(c, answer) ==
    /\ pc[c] = "block"
    /\ IF answer = "clear" THEN GoTo(c, "consent", loc[c]) ELSE ReplyWith(c, 1)
    /\ UNCHANGED <<clients, sessions, joined, connVars, chanVars>>

ConsentGate(c, answer) ==
    /\ pc[c] = "consent"
    /\ IF answer = "clear" THEN GoTo(c, "count", loc[c]) ELSE ReplyWith(c, 1)
    /\ UNCHANGED <<clients, sessions, joined, connVars, chanVars>>

(* Mutant: the room is checked with > instead of >=.                       *)
CountPeerOffByOne(c) ==
    /\ pc[c] = "count"
    /\ LET s == loc[c].sess IN
       IF sessions[s] = None \/ sessions[s].peers > loc[c].max
       THEN ReplyWith(c, 1) /\ UNCHANGED sessions
       ELSE /\ sessions' = [sessions EXCEPT ![s].peers = @ + 1]
            /\ GoTo(c, "route", [NoLocal EXCEPT !.dest = loc[c].dest])
    /\ UNCHANGED <<clients, joined, connVars, chanVars>>

(* TryIncrementPeerCount, with the MaxPeers of the session read earlier.   *)
CountPeer(c) ==
    /\ pc[c] = "count"
    /\ LET s == loc[c].sess IN
       IF sessions[s] = None \/ sessions[s].peers >= loc[c].max
       THEN ReplyWith(c, 1) /\ UNCHANGED sessions
       ELSE /\ sessions' = [sessions EXCEPT ![s].peers = @ + 1]
            /\ GoTo(c, "route", [NoLocal EXCEPT !.dest = loc[c].dest])
    /\ UNCHANGED <<clients, joined, connVars, chanVars>>

(* Touch, then the look-up of the destination in relay.                    *)
Route(c) ==
    /\ pc[c] = "route"
    /\ sessions' = [s \in Sid |-> IF s = joined[c] /\ sessions[s] # None
                                  THEN [sessions[s] EXCEPT !.idle = FALSE]
                                  ELSE sessions[s]]
    /\ LET target == clients[loc[c].dest] IN
       IF target = None THEN GoTo(c, "nack", NoLocal)
       ELSE GoTo(c, "deliver", [NoLocal EXCEPT !.target = target])
    /\ UNCHANGED <<clients, joined, connVars, chanVars>>

(* relay: peer_not_found goes to whatever connection the sender has now.   *)
Nack(c) ==
    /\ pc[c] = "nack"
    /\ LET sender == clients[uid[c]] IN
       IF sender = None THEN BackToRead(c)
       ELSE GoTo(c, "deliver", [NoLocal EXCEPT !.target = sender])
    /\ UNCHANGED <<clients, sessions, joined, connVars, chanVars>>

(* select { case target.send <- raw: default: }: dropped when full.        *)
Deliver(c) ==
    /\ pc[c] = "deliver"
    /\ LET t == loc[c].target IN
       IF closed[t] THEN Panic(c) /\ UNCHANGED buffered
       ELSE /\ buffered' = [buffered EXCEPT ![t] =
                              IF @ < SendBuffer THEN @ + 1 ELSE @]
            /\ BackToRead(c)
    /\ UNCHANGED <<clients, sessions, joined, pump, connVars>>

-----------------------------------------------------------------------------
(* handleUpdateHost: membership, then connectivity of the new host, then
   the registry, then a notice to the new host only.                       *)
UpdateHost(c, s, newHost) ==
    /\ Reads(c)
    /\ IF sessions[s] # None /\ (sessions[s].host = uid[c] \/ joined[c] = s)
       THEN GoTo(c, "hostCheck", [NoLocal EXCEPT !.sess = s, !.dest = newHost])
       ELSE ReplyWith(c, 1)
    /\ UNCHANGED <<clients, sessions, joined, connVars, chanVars>>

CheckNewHost(c) ==
    /\ pc[c] = "hostCheck"
    /\ IF clients[loc[c].dest] # None THEN GoTo(c, "hostSet", loc[c])
       ELSE ReplyWith(c, 1)
    /\ UNCHANGED <<clients, sessions, joined, connVars, chanVars>>

(* Mutant: a promoted host is registered anew, alone in its session.       *)
SetHostAnew(c) ==
    /\ pc[c] = "hostSet"
    /\ LET s == loc[c].sess IN
       IF sessions[s] = None THEN ReplyWith(c, 1) /\ UNCHANGED sessions
       ELSE /\ sessions' = [sessions EXCEPT ![s].host = loc[c].dest,
                                            ![s].peers = 1]
            /\ GoTo(c, "hostNotify", loc[c])
    /\ UNCHANGED <<clients, joined, connVars, chanVars>>

SetHost(c) ==
    /\ pc[c] = "hostSet"
    /\ LET s == loc[c].sess IN
       IF sessions[s] = None THEN ReplyWith(c, 1) /\ UNCHANGED sessions
       ELSE /\ sessions' = [sessions EXCEPT ![s].host = loc[c].dest,
                                            ![s].idle = FALSE]
            /\ GoTo(c, "hostNotify", loc[c])
    /\ UNCHANGED <<clients, joined, connVars, chanVars>>

NotifyNewHost(c) ==
    /\ pc[c] = "hostNotify"
    /\ LET target == clients[loc[c].dest] IN
       IF target = None THEN BackToRead(c)
       ELSE GoTo(c, "deliver", [NoLocal EXCEPT !.target = target])
    /\ UNCHANGED <<clients, sessions, joined, connVars, chanVars>>

-----------------------------------------------------------------------------
(* Fifteen minutes without activity, and the pruner's next tick.           *)
Idle(s) ==
    /\ sessions[s] # None
    /\ ~sessions[s].idle
    /\ sessions' = [sessions EXCEPT ![s].idle = TRUE]
    /\ UNCHANGED <<clients, joined, pc, loc, connVars, chanVars>>

(* Mutant: a session whose host is connected is not pruned.                *)
PruneHostless ==
    /\ \E s \in Sid : sessions[s] # None /\ sessions[s].idle
    /\ sessions' = [s \in Sid |-> IF /\ sessions[s] # None /\ sessions[s].idle
                                     /\ clients[sessions[s].host] = None
                                  THEN None ELSE sessions[s]]
    /\ UNCHANGED <<clients, joined, pc, loc, connVars, chanVars>>

PruneIdle ==
    /\ \E s \in Sid : sessions[s] # None /\ sessions[s].idle
    /\ sessions' = [s \in Sid |-> IF sessions[s] # None /\ sessions[s].idle
                                  THEN None ELSE sessions[s]]
    /\ UNCHANGED <<clients, joined, pc, loc, connVars, chanVars>>

-----------------------------------------------------------------------------
(* What a goroutine does by itself, and what players and networks do.      *)
HandlerStep(c) ==
    \/ ReadError(c) \/ CleanUp(c) \/ SendReply(c)
    \/ \E answer \in Answers : BlockGate(c, answer) \/ ConsentGate(c, answer)
    \/ CountPeer(c) \/ Route(c) \/ Nack(c) \/ Deliver(c)
    \/ CheckNewHost(c) \/ SetHost(c) \/ NotifyNewHost(c)

PumpStep(c) == PumpTake(c) \/ PumpFails(c) \/ PumpStops(c)

Message(c) ==
    \/ Malformed(c)
    \/ \E s \in Sid \cup {None} : Register(c, s)
    \/ \E s \in Sid, m \in 0..PeerCap + 1 : Publish(c, s, m)
    \/ \E s \in Sid : Unpublish(c, s)
    \/ \E u \in Uid : Offer(c, u) \/ AnswerOrIce(c, u)
    \/ \E s \in Sid, u \in Uid : UpdateHost(c, s, u)

Next ==
    \/ \E c \in Conn : \/ \E u \in Uid : Connect(c, u)
                       \/ LinkDown(c)
                       \/ Message(c)
                       \/ HandlerStep(c)
                       \/ PumpStep(c)
                       \/ PumpWrote(c)
    \/ \E s \in Sid : Idle(s)
    \/ PruneIdle

Spec == Init /\ [][Next]_vars

(* Goroutines are scheduled, HTTP calls time out after three seconds and the
   ticker ticks; time passes.  Nothing forces a player to send or to read. *)
Fairness ==
    /\ \A c \in Conn : WF_vars(HandlerStep(c)) /\ WF_vars(PumpStep(c))
    /\ \A s \in Sid : WF_vars(Idle(s))
    /\ WF_vars(PruneIdle)

FairSpec == Spec /\ Fairness
-----------------------------------------------------------------------------
(* Properties.                                                             *)

(* No interleaving of offers, re-publications and prunings counts more
   players into a session than the hub allows (TryIncrementPeerCount, with
   a maximum that was read two HTTP calls earlier).                        *)
PeerCapRespected ==
    \A s \in Sid : sessions[s] # None => sessions[s].peers \in 1..PeerCap

(* The registered connection of a player can always be sent to: its channel
   is closed only when another connection has taken its place, so the
   close in HandleConn is never the second one.                            *)
RegisteredChannelOpen ==
    \A u \in Uid : clients[u] # None =>
        ~closed[clients[u]] /\ uid[clients[u]] = u

(* The clean-up of an old connection never unregisters the one that replaced
   it: a connection that is being served and was not replaced is registered,
   so it can be reached by every other player.                             *)
ServedUntilReplaced ==
    \A c \in Conn :
        pc[c] \notin Ended \cup {"unused"} /\ ~closed[c] => clients[uid[c]] = c

(* The list of sessions behaves as SessionBook says, whatever the handlers,
   the pruner and failing connections do.                                  *)
Book == INSTANCE SessionBook WITH
    host <- [s \in Sid |-> IF sessions[s] = None THEN None ELSE sessions[s].host],
    peers <- [s \in Sid |-> IF sessions[s] = None THEN 0 ELSE sessions[s].peers]

ImplementsBook == Book!Spec

(* A replaced connection whose socket is gone does not keep its goroutines:
   the handler returns or dies on the closed channel, and the pump stops.  *)
ReplacedConnectionEnds ==
    \A c \in Conn : (closed[c] /\ link[c] = "down") ~>
                        (pc[c] \in Ended /\ pump[c] = "off")

(* A session that stays listed for ever is used for ever: the pruner removes
   what nobody relays through, also when its host vanished without a word. *)
Used(s) ==
    \E c \in Conn : \/ pc[c] = "route" /\ joined[c] = s
                    \/ pc[c] = "hostSet" /\ loc[c].sess = s

UnusedSessionPruned ==
    \A s \in Sid : <>[](sessions[s] # None) => []<>Used(s)

(* hub.go 90-148, relay.go 11-12: every entry of Hub.clients is a connection
   that is being served, so that a player who is not connected is answered
   peer_not_found.                                                         *)
EveryEntryServed ==
    \A u \in Uid : clients[u] # None => pc[clients[u]] \notin Ended

=============================================================================
