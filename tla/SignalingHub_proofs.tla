------------------------- MODULE SignalingHub_proofs -------------------------
(***************************************************************************)
(* Proofs about SignalingHub: types, the peer cap, the client table, and   *)
(* the refinement of SessionBook, for any number of players, sessions and  *)
(* connections and any buffer size.                                        *)
(***************************************************************************)
EXTENDS SignalingHub, TLAPS

(* The local variables that a stage of a handler uses have been set.       *)
Located ==
    \A c \in Conn :
        /\ pc[c] # "unused" => uid[c] \in Uid
        /\ pc[c] = "reply" => loc[c].replies \in 1..2
        /\ pc[c] \in {"block", "consent", "count"} =>
             loc[c].sess \in Sid /\ loc[c].host \in Uid /\ loc[c].dest \in Uid
        /\ pc[c] \in {"hostCheck", "hostSet", "hostNotify"} =>
             loc[c].sess \in Sid /\ loc[c].dest \in Uid
        /\ pc[c] = "route" => loc[c].dest \in Uid
        /\ pc[c] = "deliver" => loc[c].target \in Conn

TypeInv == TypeOK /\ Located

LEMMA NoLocalType == NoLocal \in Local
BY PeerCapAssumption DEF NoLocal, Local

(* What a handler that moves to another stage does to pc and loc.          *)
LEMMA GoToType ==
    ASSUME TypeInv, NEW c \in Conn, NEW stage \in Stage, NEW l \in Local,
           GoTo(c, stage, l)
    PROVE  /\ pc' \in [Conn -> Stage]
           /\ loc' \in [Conn -> Local]
           /\ pc'[c] = stage
           /\ loc'[c] = l
           /\ \A x \in Conn \ {c} : pc'[x] = pc[x] /\ loc'[x] = loc[x]
BY DEF GoTo, TypeInv, TypeOK

(* A handler that moves on, and leaves the types of all else alone.        *)
LEMMA LocatedStep ==
    ASSUME TypeInv, NEW c \in Conn, NEW stage \in Stage, NEW l \in Local,
           GoTo(c, stage, l),
           \A x \in Conn : uid'[x] = uid[x],
           stage # "unused" => uid[c] \in Uid,
           stage = "reply" => l.replies \in 1..2,
           stage \in {"block", "consent", "count"} =>
               l.sess \in Sid /\ l.host \in Uid /\ l.dest \in Uid,
           stage \in {"hostCheck", "hostSet", "hostNotify"} =>
               l.sess \in Sid /\ l.dest \in Uid,
           stage = "route" => l.dest \in Uid,
           stage = "deliver" => l.target \in Conn
    PROVE  Located'
<1>1. /\ pc'[c] = stage
      /\ loc'[c] = l
      /\ \A x \in Conn \ {c} : pc'[x] = pc[x] /\ loc'[x] = loc[x]
  BY GoToType
<1> QED BY <1>1 DEF TypeInv, Located

USE DEF connVars, chanVars

LEMMA InitType == Init => TypeInv
BY SendBufferAssumption, NoLocalType
   DEF Init, TypeInv, TypeOK, Located, Stage

LEMMA ConnectType ==
    ASSUME TypeInv, NEW c \in Conn, NEW u \in Uid, Connect(c, u)
    PROVE  TypeInv'
<1>1. /\ pc' \in [Conn -> Stage]
      /\ loc' \in [Conn -> Local]
      /\ pc'[c] = "read"
      /\ \A x \in Conn \ {c} : pc'[x] = pc[x] /\ loc'[x] = loc[x]
  BY GoToType, NoLocalType DEF Connect, BackToRead, Stage
<1>2. TypeOK'
  BY <1>1 DEF Connect, TypeInv, TypeOK
<1>3. uid'[c] = u /\ \A x \in Conn \ {c} : uid'[x] = uid[x]
  BY DEF Connect, TypeInv, TypeOK
<1>4. Located'
  BY <1>1, <1>3 DEF TypeInv, Located
<1> QED BY <1>2, <1>4 DEF TypeInv

(* Steps that leave the handlers and their connections' owners alone.      *)
LEMMA EnvironmentType ==
    ASSUME TypeInv, NEW c \in Conn,
           \/ LinkDown(c) \/ PumpTake(c) \/ PumpWrote(c)
           \/ PumpFails(c) \/ PumpStops(c)
    PROVE  TypeInv'
<1>1. Located'
  BY DEF LinkDown, PumpTake, PumpWrote, PumpFails, PumpStops, TypeInv, Located
<1>2. TypeOK'
  BY SendBufferAssumption
     DEF LinkDown, PumpTake, PumpWrote, PumpFails, PumpStops, TypeInv, TypeOK
<1> QED BY <1>1, <1>2 DEF TypeInv

(* The steps of a handler: each shows what it does to the maps, and where
   the handler goes next.                                                  *)
LEMMA HandlerType ==
    ASSUME TypeInv, NEW c \in Conn, HandlerStep(c)
    PROVE  TypeInv'
<1> USE SendBufferAssumption, PeerCapAssumption, NoLocalType
<1>1. CASE ReadError(c)
  <2>1. pc[c] = "read" /\ GoTo(c, "cleanup", NoLocal)
    BY <1>1 DEF ReadError
  <2>2. Located'
    BY <1>1, <2>1, LocatedStep DEF ReadError, TypeInv, Located, Stage
  <2> QED BY <1>1, <2>1, <2>2, GoToType DEF ReadError, TypeInv, TypeOK, Stage
<1>2. CASE CleanUp(c)
  <2>1. pc[c] = "cleanup" /\ GoTo(c, "done", NoLocal)
    BY <1>2 DEF CleanUp
  <2>2. Located'
    BY <1>2, <2>1, LocatedStep DEF CleanUp, TypeInv, Located, Stage
  <2> QED BY <1>2, <2>1, <2>2, GoToType DEF CleanUp, TypeInv, TypeOK, Stage
<1>3. CASE SendReply(c)
  <2>1. pc[c] = "reply" /\ loc[c].replies \in 1..2 /\ uid[c] \in Uid
    BY <1>3 DEF SendReply, TypeInv, Located
  <2>2. CASE closed[c] /\ Panic(c) /\ UNCHANGED buffered
    <3>1. Located'
      BY <1>3, <2>1, <2>2, LocatedStep DEF SendReply, Panic, Stage
    <3> QED BY <1>3, <2>2, <3>1, GoToType DEF SendReply, Panic, TypeInv, TypeOK, Stage
  <2>3. CASE /\ buffered[c] < SendBuffer
             /\ buffered' = [buffered EXCEPT ![c] = @ + 1]
             /\ loc[c].replies = 1
             /\ BackToRead(c)
    <3>1. Located'
      BY <1>3, <2>1, <2>3, LocatedStep DEF SendReply, BackToRead, Stage
    <3> QED BY <1>3, <2>3, <3>1, GoToType DEF SendReply, BackToRead, TypeInv, TypeOK, Stage
  <2>4. CASE /\ buffered[c] < SendBuffer
             /\ buffered' = [buffered EXCEPT ![c] = @ + 1]
             /\ loc[c].replies # 1
             /\ ReplyWith(c, loc[c].replies - 1)
    <3> DEFINE l == [NoLocal EXCEPT !.replies = loc[c].replies - 1]
    <3>1. l \in Local /\ l.replies = 1 /\ GoTo(c, "reply", l)
      BY <2>1, <2>4 DEF ReplyWith, NoLocal, Local
    <3> HIDE DEF l
    <3>2. Located'
      BY <1>3, <2>1, <3>1, LocatedStep DEF SendReply, Stage
    <3> QED BY <1>3, <2>4, <3>1, <3>2, GoToType DEF SendReply, TypeInv, TypeOK, Stage
  <2> QED BY <1>3, <2>2, <2>3, <2>4 DEF SendReply
<1> DEFINE reply == [NoLocal EXCEPT !.replies = 1]
<1>r. reply \in Local /\ reply.replies = 1 /\ (ReplyWith(c, 1) <=> GoTo(c, "reply", reply))
  BY DEF ReplyWith, NoLocal, Local
<1> HIDE DEF reply
<1>4. ASSUME NEW answer \in Answers, BlockGate(c, answer) PROVE TypeInv'
  <2>1. pc[c] = "block" /\ (GoTo(c, "consent", loc[c]) \/ GoTo(c, "reply", reply))
    BY <1>4, <1>r DEF BlockGate
  <2>2. loc[c] \in Local
    BY DEF TypeInv, TypeOK
  <2>3. Located'
    BY <1>4, <1>r, <2>1, <2>2, LocatedStep DEF BlockGate, TypeInv, Located, Stage
  <2> QED BY <1>4, <1>r, <2>1, <2>2, <2>3, GoToType DEF BlockGate, TypeInv, TypeOK, Stage
<1>5. ASSUME NEW answer \in Answers, ConsentGate(c, answer) PROVE TypeInv'
  <2>1. pc[c] = "consent" /\ (GoTo(c, "count", loc[c]) \/ GoTo(c, "reply", reply))
    BY <1>5, <1>r DEF ConsentGate
  <2>2. loc[c] \in Local
    BY DEF TypeInv, TypeOK
  <2>3. Located'
    BY <1>5, <1>r, <2>1, <2>2, LocatedStep DEF ConsentGate, TypeInv, Located, Stage
  <2> QED BY <1>5, <1>r, <2>1, <2>2, <2>3, GoToType DEF ConsentGate, TypeInv, TypeOK, Stage
<1>6. CASE CountPeer(c)
  <2> DEFINE l == [NoLocal EXCEPT !.dest = loc[c].dest]
  <2>1. pc[c] = "count" /\ loc[c].sess \in Sid /\ loc[c].dest \in Uid /\ uid[c] \in Uid
    BY <1>6 DEF CountPeer, TypeInv, Located
  <2>2. l \in Local /\ l.dest \in Uid
    BY <2>1 DEF NoLocal, Local
  <2>3. GoTo(c, "route", l) \/ GoTo(c, "reply", reply)
    BY <1>6, <1>r DEF CountPeer
  <2> HIDE DEF l
  <2>4. Located'
    BY <1>6, <1>r, <2>1, <2>2, <2>3, LocatedStep DEF CountPeer, Stage
  <2>5. sessions' \in [Sid -> Session \cup {None}]
    BY <1>6, <2>1 DEF CountPeer, TypeInv, TypeOK, Session
  <2> QED BY <1>6, <1>r, <2>2, <2>3, <2>4, <2>5, GoToType DEF CountPeer, TypeInv, TypeOK, Stage
<1>7. CASE Route(c)
  <2> DEFINE t == clients[loc[c].dest]
             l == [NoLocal EXCEPT !.target = t]
  <2>1. pc[c] = "route" /\ loc[c].dest \in Uid /\ uid[c] \in Uid
    BY <1>7 DEF Route, TypeInv, Located
  <2>2. t # None => l \in Local /\ l.target \in Conn
    BY <2>1 DEF TypeInv, TypeOK, NoLocal, Local
  <2>3. (t = None /\ GoTo(c, "nack", NoLocal)) \/ (t # None /\ GoTo(c, "deliver", l))
    BY <1>7 DEF Route
  <2> HIDE DEF t, l
  <2>4. Located'
    BY <1>7, <2>1, <2>2, <2>3, LocatedStep DEF Route, Stage
  <2>5. sessions' \in [Sid -> Session \cup {None}]
    <3>1. \A r \in Session : [r EXCEPT !.idle = FALSE] \in Session
      BY DEF Session
    <3>2. \A x \in Sid : sessions[x] \in Session \cup {None}
      BY DEF TypeInv, TypeOK
    <3> QED BY <1>7, <3>1, <3>2 DEF Route
  <2> QED BY <1>7, <2>2, <2>3, <2>4, <2>5, GoToType DEF Route, TypeInv, TypeOK, Stage
<1>8. CASE Nack(c)
  <2> DEFINE t == clients[uid[c]]
             l == [NoLocal EXCEPT !.target = t]
  <2>1. pc[c] = "nack" /\ uid[c] \in Uid
    BY <1>8 DEF Nack, TypeInv, Located
  <2>2. t # None => l \in Local /\ l.target \in Conn
    BY <2>1 DEF TypeInv, TypeOK, NoLocal, Local
  <2>3. (t = None /\ GoTo(c, "read", NoLocal)) \/ (t # None /\ GoTo(c, "deliver", l))
    BY <1>8 DEF Nack, BackToRead
  <2> HIDE DEF t, l
  <2>4. Located'
    BY <1>8, <2>1, <2>2, <2>3, LocatedStep DEF Nack, Stage
  <2> QED BY <1>8, <2>2, <2>3, <2>4, GoToType DEF Nack, TypeInv, TypeOK, Stage
<1>9. CASE Deliver(c)
  <2>1. pc[c] = "deliver" /\ uid[c] \in Uid
    BY <1>9 DEF Deliver, TypeInv, Located
  <2>2. GoTo(c, "panicked", NoLocal) \/ GoTo(c, "read", NoLocal)
    BY <1>9 DEF Deliver, Panic, BackToRead
  <2>3. Located'
    BY <1>9, <2>1, <2>2, LocatedStep DEF Deliver, Stage
  <2>4. buffered' \in [Conn -> 0..SendBuffer]
    BY <1>9 DEF Deliver, TypeInv, TypeOK
  <2> QED BY <1>9, <2>2, <2>3, <2>4, GoToType DEF Deliver, TypeInv, TypeOK, Stage
<1>10. CASE CheckNewHost(c)
  <2>1. pc[c] = "hostCheck" /\ (GoTo(c, "hostSet", loc[c]) \/ GoTo(c, "reply", reply))
    BY <1>10, <1>r DEF CheckNewHost
  <2>2. loc[c] \in Local
    BY DEF TypeInv, TypeOK
  <2>3. Located'
    BY <1>10, <1>r, <2>1, <2>2, LocatedStep DEF CheckNewHost, TypeInv, Located, Stage
  <2> QED BY <1>10, <1>r, <2>1, <2>2, <2>3, GoToType DEF CheckNewHost, TypeInv, TypeOK, Stage
<1>11. CASE SetHost(c)
  <2>1. /\ pc[c] = "hostSet" /\ loc[c].sess \in Sid /\ loc[c].dest \in Uid
        /\ uid[c] \in Uid /\ loc[c] \in Local
    BY <1>11 DEF SetHost, TypeInv, TypeOK, Located
  <2>2. GoTo(c, "hostNotify", loc[c]) \/ GoTo(c, "reply", reply)
    BY <1>11, <1>r DEF SetHost
  <2>3. Located'
    BY <1>11, <1>r, <2>1, <2>2, LocatedStep DEF SetHost, Stage
  <2>4. sessions' \in [Sid -> Session \cup {None}]
    BY <1>11, <2>1 DEF SetHost, TypeInv, TypeOK, Session
  <2> QED BY <1>11, <1>r, <2>1, <2>2, <2>3, <2>4, GoToType DEF SetHost, TypeInv, TypeOK, Stage
<1>12. CASE NotifyNewHost(c)
  <2> DEFINE t == clients[loc[c].dest]
             l == [NoLocal EXCEPT !.target = t]
  <2>1. pc[c] = "hostNotify" /\ loc[c].dest \in Uid /\ uid[c] \in Uid
    BY <1>12 DEF NotifyNewHost, TypeInv, Located
  <2>2. t # None => l \in Local /\ l.target \in Conn
    BY <2>1 DEF TypeInv, TypeOK, NoLocal, Local
  <2>3. (t = None /\ GoTo(c, "read", NoLocal)) \/ (t # None /\ GoTo(c, "deliver", l))
    BY <1>12 DEF NotifyNewHost, BackToRead
  <2> HIDE DEF t, l
  <2>4. Located'
    BY <1>12, <2>1, <2>2, <2>3, LocatedStep DEF NotifyNewHost, Stage
  <2> QED BY <1>12, <2>2, <2>3, <2>4, GoToType DEF NotifyNewHost, TypeInv, TypeOK, Stage
<1> QED
  BY <1>1, <1>2, <1>3, <1>4, <1>5, <1>6, <1>7, <1>8, <1>9, <1>10, <1>11, <1>12
     DEF HandlerStep


(* The messages a handler reads.                                           *)
LEMMA MessageType ==
    ASSUME TypeInv, NEW c \in Conn, Message(c)
    PROVE  TypeInv'
<1> USE PeerCapAssumption, NoLocalType
<1> DEFINE reply == [NoLocal EXCEPT !.replies = 1]
<1>r. reply \in Local /\ reply.replies = 1 /\ (ReplyWith(c, 1) <=> GoTo(c, "reply", reply))
  BY DEF ReplyWith, NoLocal, Local
<1>t. Reads(c) => pc[c] = "read" /\ uid[c] \in Uid
  BY DEF Reads, TypeInv, Located
<1> HIDE DEF reply
<1>1. CASE Malformed(c)
  <2>1. Located'
    BY <1>1, <1>r, <1>t, LocatedStep DEF Malformed, Stage
  <2> QED BY <1>1, <1>r, <2>1, GoToType DEF Malformed, TypeInv, TypeOK, Stage
<1>2. ASSUME NEW s \in Sid \cup {None}, Register(c, s) PROVE TypeInv'
  <2>1. PICK n \in 1..2 : ReplyWith(c, n)
    BY <1>2 DEF Register
  <2> DEFINE l == [NoLocal EXCEPT !.replies = n]
  <2>2. l \in Local /\ l.replies \in 1..2 /\ GoTo(c, "reply", l)
    BY <2>1 DEF ReplyWith, NoLocal, Local
  <2> HIDE DEF l
  <2>3. Located'
    BY <1>2, <1>t, <2>2, LocatedStep DEF Register, Stage
  <2> QED BY <1>2, <2>2, <2>3, GoToType DEF Register, TypeInv, TypeOK, Stage
<1>3. ASSUME NEW s \in Sid, NEW m \in 0..PeerCap + 1, Publish(c, s, m) PROVE TypeInv'
  <2>1. Located'
    BY <1>3, <1>r, <1>t, LocatedStep DEF Publish, Stage
  <2>2. /\ sessions' \in [Sid -> Session \cup {None}]
        /\ joined' \in [Conn -> Sid \cup {None}]
    <3> DEFINE new == [host |-> uid[c], peers |-> 1, idle |-> FALSE,
                       max |-> IF m < 1 THEN PeerCap ELSE m]
    <3>1. CASE m > PeerCap \/ sessions[s] # None
      BY <1>3, <3>1 DEF Publish, TypeInv, TypeOK
    <3>2. CASE ~(m > PeerCap \/ sessions[s] # None)
      <4>1. new \in Session
        BY <1>3, <1>t, <3>2 DEF Publish, Session
      <4>2. /\ sessions' = [sessions EXCEPT ![s] = new]
            /\ joined' = [joined EXCEPT ![c] = s]
        BY <1>3, <3>2 DEF Publish
      <4> HIDE DEF new
      <4> QED BY <4>1, <4>2 DEF TypeInv, TypeOK
    <3> QED BY <3>1, <3>2
  <2> QED BY <1>3, <1>r, <2>1, <2>2, GoToType DEF Publish, TypeInv, TypeOK, Stage
<1>4. ASSUME NEW s \in Sid, Unpublish(c, s) PROVE TypeInv'
  BY <1>4 DEF Unpublish, TypeInv, TypeOK, Located
<1>5. ASSUME NEW u \in Uid, Offer(c, u) PROVE TypeInv'
  <2>1. CASE joined[c] = None \/ sessions[joined[c]] = None
    <3> DEFINE l == [NoLocal EXCEPT !.dest = u]
    <3>1. l \in Local /\ l.dest \in Uid /\ GoTo(c, "route", l)
      BY <1>5, <2>1 DEF Offer, NoLocal, Local
    <3> HIDE DEF l
    <3>2. Located'
      BY <1>5, <1>t, <3>1, LocatedStep DEF Offer, Stage
    <3> QED BY <1>5, <3>1, <3>2, GoToType DEF Offer, TypeInv, TypeOK, Stage
  <2>2. CASE ~(joined[c] = None \/ sessions[joined[c]] = None)
    <3>1. joined[c] \in Sid /\ sessions[joined[c]] \in Session
      BY <2>2 DEF TypeInv, TypeOK
    <3> DEFINE s == sessions[joined[c]]
               l == [NoLocal EXCEPT !.sess = joined[c], !.host = s.host,
                                    !.max = s.max, !.dest = u]
    <3>2. l \in Local /\ l.sess \in Sid /\ l.host \in Uid /\ l.dest \in Uid
      <4>1. s.host \in Uid /\ s.max \in 0..PeerCap
        BY <3>1 DEF Session
      <4> HIDE DEF s
      <4> QED BY <3>1, <4>1 DEF NoLocal, Local
    <3>3. GoTo(c, "consent", l) \/ GoTo(c, "block", l)
      BY <1>5, <2>2 DEF Offer
    <3> HIDE DEF l
    <3>4. Located'
      BY <1>5, <1>t, <3>2, <3>3, LocatedStep DEF Offer, Stage
    <3> QED BY <1>5, <3>2, <3>3, <3>4, GoToType DEF Offer, TypeInv, TypeOK, Stage
  <2> QED BY <2>1, <2>2
<1>6. ASSUME NEW u \in Uid, AnswerOrIce(c, u) PROVE TypeInv'
  <2> DEFINE l == [NoLocal EXCEPT !.dest = u]
  <2>1. l \in Local /\ l.dest \in Uid /\ GoTo(c, "route", l)
    BY <1>6 DEF AnswerOrIce, NoLocal, Local
  <2> HIDE DEF l
  <2>2. Located'
    BY <1>6, <1>t, <2>1, LocatedStep DEF AnswerOrIce, Stage
  <2> QED BY <1>6, <2>1, <2>2, GoToType DEF AnswerOrIce, TypeInv, TypeOK, Stage
<1>7. ASSUME NEW s \in Sid, NEW u \in Uid, UpdateHost(c, s, u) PROVE TypeInv'
  <2> DEFINE l == [NoLocal EXCEPT !.sess = s, !.dest = u]
  <2>1. l \in Local /\ l.sess \in Sid /\ l.dest \in Uid
    BY DEF NoLocal, Local
  <2>2. GoTo(c, "hostCheck", l) \/ GoTo(c, "reply", reply)
    BY <1>7, <1>r DEF UpdateHost
  <2> HIDE DEF l
  <2>3. Located'
    BY <1>7, <1>r, <1>t, <2>1, <2>2, LocatedStep DEF UpdateHost, Stage
  <2> QED BY <1>7, <1>r, <2>1, <2>2, <2>3, GoToType DEF UpdateHost, TypeInv, TypeOK, Stage
<1> QED
  BY <1>1, <1>2, <1>3, <1>4, <1>5, <1>6, <1>7 DEF Message

(* The passing of time and the pruner.                                     *)
LEMMA PrunerType ==
    ASSUME TypeInv, PruneIdle \/ \E s \in Sid : Idle(s)
    PROVE  TypeInv'
<1>1. sessions' \in [Sid -> Session \cup {None}]
  <2>1. \A r \in Session : [r EXCEPT !.idle = TRUE] \in Session
    BY DEF Session
  <2>2. \A x \in Sid : sessions[x] \in Session \cup {None}
    BY DEF TypeInv, TypeOK
  <2>3. CASE PruneIdle
    BY <2>2, <2>3 DEF PruneIdle
  <2>4. ASSUME NEW s \in Sid, Idle(s) PROVE sessions' \in [Sid -> Session \cup {None}]
    BY <2>1, <2>2, <2>4 DEF Idle, TypeInv, TypeOK
  <2> QED BY <2>3, <2>4
<1> QED BY <1>1 DEF PruneIdle, Idle, TypeInv, TypeOK, Located

LEMMA StepType == TypeInv /\ [Next]_vars => TypeInv'
<1> SUFFICES ASSUME TypeInv, [Next]_vars PROVE TypeInv'
  OBVIOUS
<1>1. CASE UNCHANGED vars
  BY <1>1 DEF vars, TypeInv, TypeOK, Located
<1>2. ASSUME NEW c \in Conn, PumpStep(c) \/ PumpWrote(c) \/ LinkDown(c) PROVE TypeInv'
  BY <1>2, EnvironmentType DEF PumpStep
<1> QED
  BY <1>1, <1>2, ConnectType, MessageType, HandlerType, PrunerType DEF Next

LEMMA Typed == Spec => []TypeInv
BY InitType, StepType, PTL DEF Spec

(* Every variable keeps its type in every behaviour of the hub.            *)
THEOREM TypeCorrect == Spec => []TypeOK
BY Typed, PTL DEF TypeInv

-----------------------------------------------------------------------------
(* The peer cap.  Only CountPeer raises a count, and the maximum it compares
   with, however old, was at most PeerCap.                                 *)
LEMMA CapStep == TypeInv /\ PeerCapRespected /\ [Next]_vars => PeerCapRespected'
<1> SUFFICES ASSUME TypeInv, PeerCapRespected, [Next]_vars,
                    NEW s \in Sid, sessions'[s] # None
             PROVE  sessions'[s].peers \in 1..PeerCap
  BY DEF PeerCapRespected
<1> USE PeerCapAssumption
<1>1. CASE sessions' = sessions
  BY <1>1 DEF PeerCapRespected
<1>2. ASSUME NEW c \in Conn, NEW x \in Sid, NEW m \in 0..PeerCap + 1, Publish(c, x, m)
      PROVE  sessions'[s].peers \in 1..PeerCap
  BY <1>2 DEF Publish, PeerCapRespected, TypeInv, TypeOK
<1>3. ASSUME NEW c \in Conn, NEW x \in Sid, Unpublish(c, x)
      PROVE  sessions'[s].peers \in 1..PeerCap
  BY <1>3 DEF Unpublish, PeerCapRespected, TypeInv, TypeOK
<1>4. ASSUME NEW c \in Conn, CountPeer(c)
      PROVE  sessions'[s].peers \in 1..PeerCap
  <2>1. loc[c].max \in 0..PeerCap /\ loc[c].sess \in Sid
    BY <1>4 DEF CountPeer, TypeInv, TypeOK, Located, Local
  <2>2. sessions[s] # None
    BY <1>4, <2>1 DEF CountPeer, TypeInv, TypeOK
  <2>3. sessions[s] \in Session /\ sessions[s].peers \in 1..PeerCap
    BY <2>2 DEF TypeInv, TypeOK, PeerCapRespected
  <2> QED BY <1>4, <2>1, <2>2, <2>3 DEF CountPeer, TypeInv, TypeOK, Session
<1>5. ASSUME NEW c \in Conn, Route(c) PROVE sessions'[s].peers \in 1..PeerCap
  <2>1. sessions[s] # None
    BY <1>5 DEF Route
  <2>2. sessions[s] \in Session
    BY <2>1 DEF TypeInv, TypeOK
  <2> QED BY <1>5, <2>1, <2>2 DEF Route, PeerCapRespected, Session
<1>6. ASSUME NEW c \in Conn, SetHost(c) PROVE sessions'[s].peers \in 1..PeerCap
  <2>1. loc[c].sess \in Sid
    BY <1>6 DEF SetHost, TypeInv, Located
  <2>2. sessions[s] # None
    BY <1>6, <2>1 DEF SetHost, TypeInv, TypeOK
  <2>3. sessions[s] \in Session
    BY <2>2 DEF TypeInv, TypeOK
  <2> QED BY <1>6, <2>1, <2>2, <2>3 DEF SetHost, PeerCapRespected, TypeInv, TypeOK, Session
<1>7. ASSUME NEW x \in Sid, Idle(x) PROVE sessions'[s].peers \in 1..PeerCap
  <2>1. sessions[s] # None
    BY <1>7 DEF Idle, TypeInv, TypeOK
  <2>2. sessions[s] \in Session
    BY <2>1 DEF TypeInv, TypeOK
  <2> QED BY <1>7, <2>1, <2>2 DEF Idle, PeerCapRespected, TypeInv, TypeOK, Session
<1>8. CASE PruneIdle
  BY <1>8 DEF PruneIdle, PeerCapRespected
<1> QED
  BY <1>1, <1>2, <1>3, <1>4, <1>5, <1>6, <1>7, <1>8
     DEF Next, vars, Connect, LinkDown, Message, Malformed, Register, Offer,
         AnswerOrIce, UpdateHost, HandlerStep, ReadError, CleanUp, SendReply,
         BlockGate, ConsentGate, Nack, Deliver, CheckNewHost, NotifyNewHost,
         PumpStep, PumpTake, PumpFails, PumpStops, PumpWrote

(* However offers, re-publications and prunings interleave, a session never
   counts more than PeerCap players.                                       *)
THEOREM PeerCapCorrect == Spec => []PeerCapRespected
<1>1. Init => PeerCapRespected
  BY DEF Init, PeerCapRespected
<1> QED BY <1>1, CapStep, Typed, PTL DEF Spec

-----------------------------------------------------------------------------
(* The client table.  A connection that was never used is neither closed nor
   registered, which is what the two table properties need to be inductive. *)
Fresh ==
    \A c \in Conn : pc[c] = "unused" => ~closed[c] /\ \A u \in Uid : clients[u] # c

TableInv == RegisteredChannelOpen /\ ServedUntilReplaced /\ Fresh

LEMMA TableStep == TypeInv /\ TableInv /\ [Next]_vars => TableInv'
<1> SUFFICES ASSUME TypeInv, TableInv, [Next]_vars PROVE TableInv'
  OBVIOUS
<1> USE NoneAssumption
<1>1. ASSUME NEW c \in Conn, NEW u \in Uid, Connect(c, u) PROVE TableInv'
  <2>1. /\ clients' = [clients EXCEPT ![u] = c]
        /\ closed' = [x \in Conn |-> closed[x] \/ x = clients[u]]
        /\ uid' = [uid EXCEPT ![c] = u]
        /\ pc' = [pc EXCEPT ![c] = "read"]
        /\ pc[c] = "unused"
    BY <1>1 DEF Connect, BackToRead, GoTo
  <2>2. ~closed[c] /\ \A v \in Uid : clients[v] # c
    BY <2>1 DEF TableInv, Fresh
  <2>3. /\ clients \in [Uid -> Conn \cup {None}]
        /\ uid \in [Conn -> Uid \cup {None}]
        /\ closed \in [Conn -> BOOLEAN]
        /\ pc \in [Conn -> Stage]
    BY DEF TypeInv, TypeOK
  <2>4. \A x \in Conn \ {c} : pc[x] # "unused" => uid[x] \in Uid
    BY DEF TypeInv, Located
  <2>5. RegisteredChannelOpen'
    <3> SUFFICES ASSUME NEW v \in Uid, clients'[v] # None
                 PROVE  ~closed'[clients'[v]] /\ uid'[clients'[v]] = v
      BY DEF RegisteredChannelOpen
    <3>1. CASE v = u
      BY <2>1, <2>2, <2>3, <3>1
    <3>2. CASE v # u
      <4>1. clients'[v] = clients[v] /\ clients[v] \in Conn \ {c}
        BY <2>1, <2>2, <2>3, <3>2
      <4>2. ~closed[clients[v]] /\ uid[clients[v]] = v
        BY <4>1 DEF TableInv, RegisteredChannelOpen
      <4>3. clients[v] # clients[u]
        BY <4>1, <4>2, <3>2 DEF TableInv, RegisteredChannelOpen
      <4> QED BY <2>1, <2>3, <4>1, <4>2, <4>3
    <3> QED BY <3>1, <3>2
  <2>6. ServedUntilReplaced'
    BY <2>1, <2>2, <2>3, <2>4 DEF TableInv, ServedUntilReplaced, Ended
  <2>7. Fresh'
    <3> SUFFICES ASSUME NEW x \in Conn, pc'[x] = "unused"
                 PROVE  ~closed'[x] /\ \A v \in Uid : clients'[v] # x
      BY DEF Fresh
    <3>1. x # c /\ pc[x] = "unused"
      BY <2>1, <2>3
    <3>2. ~closed[x] /\ \A v \in Uid : clients[v] # x
      BY <3>1 DEF TableInv, Fresh
    <3> QED BY <2>1, <2>3, <3>1, <3>2
  <2> QED BY <2>5, <2>6, <2>7 DEF TableInv
<1>2. ASSUME NEW c \in Conn, CleanUp(c) PROVE TableInv'
  <2>1. /\ clients' = [clients EXCEPT ![uid[c]] = IF @ = c THEN None ELSE @]
        /\ pc' = [pc EXCEPT ![c] = "done"]
        /\ UNCHANGED <<uid, closed>>
        /\ pc[c] = "cleanup"
    BY <1>2 DEF CleanUp, GoTo
  <2>2. uid[c] \in Uid
    BY <2>1 DEF TypeInv, Located
  <2>3. /\ clients \in [Uid -> Conn \cup {None}]
        /\ pc \in [Conn -> Stage]
    BY DEF TypeInv, TypeOK
  <2>4. \A v \in Uid : clients'[v] = clients[v] \/ clients'[v] = None
    BY <2>1, <2>2, <2>3
  <2>5. \A v \in Uid : clients[v] # c => clients'[v] = clients[v]
    BY <2>1, <2>2, <2>3
  <2>6. \A x \in Conn : x # c => pc'[x] = pc[x]
    BY <2>1, <2>3
  <2>7. pc'[c] = "done"
    BY <2>1, <2>3
  <2>8. RegisteredChannelOpen' /\ Fresh'
    BY <2>1, <2>4, <2>6, <2>7 DEF TableInv, RegisteredChannelOpen, Fresh
  <2>9. ServedUntilReplaced'
    <3> SUFFICES ASSUME NEW x \in Conn, pc'[x] \notin Ended \cup {"unused"}, ~closed'[x]
                 PROVE  clients'[uid'[x]] = x
      BY DEF ServedUntilReplaced
    <3>1. x # c /\ pc'[x] = pc[x]
      BY <2>6, <2>7 DEF Ended
    <3>2. clients[uid[x]] = x /\ uid[x] \in Uid
      BY <2>1, <3>1 DEF TableInv, ServedUntilReplaced, TypeInv, Located
    <3> QED BY <2>1, <2>5, <3>1, <3>2
  <2> QED BY <2>8, <2>9 DEF TableInv
<1>3. ASSUME UNCHANGED <<clients, uid, closed>>,
             \A x \in Conn : pc[x] = "unused" <=> pc'[x] = "unused",
             \A x \in Conn : pc[x] \in Ended => pc'[x] \in Ended
      PROVE  TableInv'
  BY <1>3 DEF TableInv, RegisteredChannelOpen, ServedUntilReplaced, Fresh
<1>4. CASE UNCHANGED vars
  BY <1>3, <1>4 DEF vars
<1>5. ASSUME NEW c \in Conn, LinkDown(c) \/ PumpStep(c) \/ PumpWrote(c) PROVE TableInv'
  BY <1>3, <1>5 DEF LinkDown, PumpStep, PumpTake, PumpFails, PumpStops, PumpWrote
<1>6. CASE PruneIdle \/ \E s \in Sid : Idle(s)
  BY <1>3, <1>6 DEF PruneIdle, Idle
<1>7. ASSUME NEW c \in Conn, pc[c] \notin Ended \cup {"unused"},
             NEW stage \in Stage \ {"unused"}, NEW l, GoTo(c, stage, l),
             UNCHANGED <<clients, uid, closed>>
      PROVE  TableInv'
  BY <1>3, <1>7 DEF GoTo, TypeInv, TypeOK
<1>8. ASSUME NEW c \in Conn, Message(c) PROVE TableInv'
  <2>1. CASE \E s \in Sid : Unpublish(c, s)
    BY <1>3, <2>1 DEF Unpublish
  <2>2. CASE ~\E s \in Sid : Unpublish(c, s)
    <3>1. /\ pc[c] = "read"
          /\ UNCHANGED <<clients, uid, closed>>
      BY <1>8, <2>2 DEF Message, Reads, Malformed, Register, Publish, Offer,
            AnswerOrIce, UpdateHost
    <3>2. \E stage \in Stage \ {"unused"}, l \in {loc'[c]} : pc' = [pc EXCEPT ![c] = stage]
      BY <1>8, <2>2 DEF Message, Malformed, Register, Publish, Offer,
            AnswerOrIce, UpdateHost, ReplyWith, GoTo, Stage
    <3> QED BY <1>3, <3>1, <3>2 DEF Ended, TypeInv, TypeOK
  <2> QED BY <2>1, <2>2
<1>9. ASSUME NEW c \in Conn, HandlerStep(c), ~CleanUp(c) PROVE TableInv'
  <2>1. /\ pc[c] \notin Ended \cup {"unused"}
        /\ UNCHANGED <<clients, uid, closed>>
    BY <1>9 DEF HandlerStep, ReadError, SendReply, BlockGate, ConsentGate, CountPeer,
          Route, Nack, Deliver, CheckNewHost, SetHost, NotifyNewHost, Ended
  <2>2. \E stage \in Stage \ {"unused"} : pc' = [pc EXCEPT ![c] = stage]
    BY <1>9 DEF HandlerStep, ReadError, SendReply, BlockGate, ConsentGate, CountPeer,
          Route, Nack, Deliver, CheckNewHost, SetHost, NotifyNewHost, Panic,
          BackToRead, ReplyWith, GoTo, Stage
  <2> QED BY <1>3, <2>1, <2>2 DEF TypeInv, TypeOK
<1> QED
  BY <1>1, <1>2, <1>4, <1>5, <1>6, <1>8, <1>9 DEF Next

LEMMA TableCorrect == Spec => []TableInv
<1>1. Init => TableInv
  BY NoneAssumption
     DEF Init, TableInv, RegisteredChannelOpen, ServedUntilReplaced, Fresh, Ended
<1> QED BY <1>1, TableStep, Typed, PTL DEF Spec

(* A registered connection can be sent to: its channel is open.            *)
THEOREM RegisteredChannelCorrect == Spec => []RegisteredChannelOpen
BY TableCorrect, PTL DEF TableInv

(* The clean-up of a replaced connection never unregisters its successor.  *)
THEOREM ServedUntilReplacedCorrect == Spec => []ServedUntilReplaced
BY TableCorrect, PTL DEF TableInv

-----------------------------------------------------------------------------
(* The refinement of SessionBook: its host and peers are read off sessions. *)
BookHost == [s \in Sid |-> IF sessions[s] = None THEN None ELSE sessions[s].host]
BookPeers == [s \in Sid |-> IF sessions[s] = None THEN 0 ELSE sessions[s].peers]

LEMMA BookStep ==
    TypeInv /\ PeerCapRespected /\ [Next]_vars => [Book!Next]_<<BookHost, BookPeers>>
<1> SUFFICES ASSUME TypeInv, PeerCapRespected, [Next]_vars
             PROVE  Book!Next \/ UNCHANGED <<BookHost, BookPeers>>
  OBVIOUS
<1> USE PeerCapAssumption, NoSessionAssumption DEF BookHost, BookPeers
<1>0. \A s \in Sid : sessions[s] # None => sessions[s] \in Session
  BY DEF TypeInv, TypeOK
<1>s. ASSUME \A s \in Sid : \/ sessions'[s] = sessions[s]
                            \/ /\ sessions[s] # None /\ sessions'[s] # None
                               /\ sessions'[s].host = sessions[s].host
                               /\ sessions'[s].peers = sessions[s].peers
      PROVE  UNCHANGED <<BookHost, BookPeers>>
  BY <1>s
<1>1. CASE sessions' = sessions
  BY <1>1
<1>2. ASSUME NEW c \in Conn, NEW s \in Sid, NEW m \in 0..PeerCap + 1, Publish(c, s, m),
             sessions' # sessions
      PROVE  Book!Next
  <2> DEFINE new == [host |-> uid[c], peers |-> 1, idle |-> FALSE,
                     max |-> IF m < 1 THEN PeerCap ELSE m]
  <2>1. /\ sessions[s] = None /\ sessions' = [sessions EXCEPT ![s] = new]
        /\ uid[c] \in Uid
    BY <1>2 DEF Publish, Reads, TypeInv, Located
  <2>2. new # None /\ new.host = uid[c] /\ new.peers = 1
    <3>1. new \in Session
      BY <1>2, <2>1 DEF Publish, Session
    <3> QED BY <3>1
  <2>3. Book!List(s)
    BY <2>1, <2>2 DEF Book!List, TypeInv, TypeOK
  <2> QED BY <2>3 DEF Book!Next
<1>3. ASSUME NEW c \in Conn, NEW s \in Sid, Unpublish(c, s) PROVE Book!Next
  <2>1. Book!Drop({s})
    BY <1>3 DEF Unpublish, Book!Drop, TypeInv, TypeOK
  <2> QED BY <2>1 DEF Book!Next
<1>4. ASSUME NEW c \in Conn, CountPeer(c), sessions' # sessions PROVE Book!Next
  <2>0. PICK s \in Sid : s = loc[c].sess
    BY <1>4 DEF CountPeer, TypeInv, Located
  <2> DEFINE new == [sessions[s] EXCEPT !.peers = @ + 1]
  <2>1. /\ loc[c].max \in 0..PeerCap
        /\ sessions[s] # None /\ sessions[s].peers < loc[c].max
        /\ sessions' = [sessions EXCEPT ![s] = new]
    BY <1>4, <2>0 DEF CountPeer, TypeInv, TypeOK, Located, Local, Session
  <2>2. sessions[s] \in Session /\ sessions[s].peers \in 1..PeerCap - 1
    BY <1>0, <2>1 DEF PeerCapRespected
  <2>3. /\ new \in Session /\ new.host = sessions[s].host
        /\ new.peers = sessions[s].peers + 1
    BY <2>2 DEF Session
  <2> HIDE DEF new
  <2>4. Book!Admit(s)
    BY <2>1, <2>2, <2>3 DEF Book!Admit, TypeInv, TypeOK
  <2> QED BY <2>4 DEF Book!Next
<1>5. ASSUME NEW c \in Conn, Route(c) PROVE UNCHANGED <<BookHost, BookPeers>>
  <2> SUFFICES ASSUME NEW s \in Sid
               PROVE  \/ sessions'[s] = sessions[s]
                      \/ /\ sessions[s] # None /\ sessions'[s] # None
                         /\ sessions'[s].host = sessions[s].host
                         /\ sessions'[s].peers = sessions[s].peers
    BY <1>s
  <2>1. CASE s = joined[c] /\ sessions[s] # None
    <3>1. sessions'[s] = [sessions[s] EXCEPT !.idle = FALSE]
      BY <1>5, <2>1 DEF Route
    <3>2. sessions[s] \in Session
      BY <1>0, <2>1
    <3>3. /\ sessions'[s] \in Session
          /\ sessions'[s].host = sessions[s].host
          /\ sessions'[s].peers = sessions[s].peers
      BY <3>1, <3>2 DEF Session
    <3> QED BY <2>1, <3>3
  <2>2. CASE ~(s = joined[c] /\ sessions[s] # None)
    BY <1>5, <2>2 DEF Route
  <2> QED BY <2>1, <2>2
<1>6. ASSUME NEW c \in Conn, SetHost(c), sessions' # sessions PROVE Book!Next
  <2>0. PICK s \in Sid : s = loc[c].sess
    BY <1>6 DEF SetHost, TypeInv, Located
  <2> DEFINE new == [sessions[s] EXCEPT !.host = loc[c].dest, !.idle = FALSE]
  <2>1. /\ loc[c].dest \in Uid /\ sessions[s] # None
        /\ sessions' = [sessions EXCEPT ![s] = new]
    BY <1>6, <2>0 DEF SetHost, TypeInv, TypeOK, Located
  <2>2. sessions[s] \in Session /\ sessions[s].peers \in 1..PeerCap
    BY <1>0, <2>1 DEF PeerCapRespected
  <2>3. /\ new \in Session /\ new.host = loc[c].dest
        /\ new.peers = sessions[s].peers
    BY <2>1, <2>2 DEF Session
  <2> HIDE DEF new
  <2>4. Book!ChangeHost(s)
    <3>1. BookHost' = [BookHost EXCEPT ![s] = loc[c].dest]
      BY <2>1, <2>2, <2>3 DEF TypeInv, TypeOK
    <3>2. UNCHANGED BookPeers
      BY <2>1, <2>2, <2>3 DEF TypeInv, TypeOK
    <3>3. BookPeers[s] > 0
      BY <2>1, <2>2
    <3> QED BY <2>1, <3>1, <3>2, <3>3 DEF Book!ChangeHost
  <2> QED BY <2>4 DEF Book!Next
<1>7. ASSUME NEW s \in Sid, Idle(s) PROVE UNCHANGED <<BookHost, BookPeers>>
  <2>1. \A r \in Session : LET q == [r EXCEPT !.idle = TRUE] IN
           q \in Session /\ q.host = r.host /\ q.peers = r.peers
    BY DEF Session
  <2>2. sessions[s] \in Session /\ sessions' = [sessions EXCEPT ![s] = [sessions[s] EXCEPT !.idle = TRUE]]
    BY <1>0, <1>7 DEF Idle, TypeInv, TypeOK
  <2>3. \A x \in Sid : x # s => sessions'[x] = sessions[x]
    BY <2>2 DEF TypeInv, TypeOK
  <2>4. sessions'[s] = [sessions[s] EXCEPT !.idle = TRUE]
    BY <2>2 DEF TypeInv, TypeOK
  <2> QED BY <1>0, <1>s, <2>1, <2>2, <2>3, <2>4
<1>8. CASE PruneIdle
  <2>0. PICK gone \in SUBSET Sid : gone = {s \in Sid : sessions[s] # None /\ sessions[s].idle}
    OBVIOUS
  <2>1. Book!Drop(gone)
    BY <1>8, <2>0 DEF PruneIdle, Book!Drop
  <2> QED BY <2>1 DEF Book!Next
<1> QED
  BY <1>1, <1>2, <1>3, <1>4, <1>5, <1>6, <1>7, <1>8
     DEF Next, vars, Connect, LinkDown, Message, Malformed, Register, Offer,
         AnswerOrIce, UpdateHost, HandlerStep, ReadError, CleanUp, SendReply,
         BlockGate, ConsentGate, Nack, Deliver, CheckNewHost, NotifyNewHost,
         PumpStep, PumpTake, PumpFails, PumpStops, PumpWrote

(* The hub's list of sessions is a SessionBook.                            *)
THEOREM Refinement == Spec => ImplementsBook
<1>1. Init => Book!Init
  BY DEF Init, Book!Init, BookHost, BookPeers
<1>2. TypeInv /\ PeerCapRespected /\ [Next]_vars => [Book!Next]_<<BookHost, BookPeers>>
  BY BookStep
<1> QED
  BY <1>1, <1>2, Typed, PeerCapCorrect, PTL
     DEF Spec, ImplementsBook, Book!Spec, BookHost, BookPeers

=============================================================================
