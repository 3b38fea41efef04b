------------------------ MODULE NetworkManager_proofs -----------------------
(***************************************************************************)
(* Theorems about NetworkManager and SessionRegistry, for any finite set   *)
(* of players, any builds, any number of attempts to join, any links that  *)
(* break, and links that deliver or lose what is under way as they close.  *)
(***************************************************************************)
EXTENDS NetworkManager, FiniteSetTheorems, SequenceTheorems, WellFoundedInduction, TLAPS

(* A player has one entry in a registry.                                   *)
OneEntryEach(r) ==
    \A i, j \in DOMAIN r.peers : r.peers[i] = r.peers[j] => i = j

(* What is under way on the links, given who is connected: the closing comes
   last, and nothing is under way to a player whose end is closed.         *)
ClosingLast(s) == \A i \in DOMAIN s : s[i].kind = "closed" => i = Len(s)

InOrder(ch, links) ==
    \A a, b \in Node : /\ ClosingLast(ch[<<a, b>>])
                       /\ ch[<<a, b>>] # <<>> => a \in links[b]

(* A client has at most one link, to the server it knows; none while it
   dials or looks for a new host.                                          *)
OneHost ==
    \A n \in Node :
        /\ role[n] # "server" => conn[n] \subseteq {server[n]}
        /\ dialing[n] => role[n] = "client" /\ conn[n] = {}
        /\ state[n] \in {"FAILOVER_DETECTING", "FAILOVER_WAITING"}
              => role[n] = "client" /\ conn[n] = {} /\ ~dialing[n]

(* What the state says of the role, and of the server a client knows.      *)
RoleFitsState ==
    \A n \in Node :
        /\ state[n] \in {"CONNECTED_AS_HOST", "FAILOVER_PROMOTING"} => role[n] = "server"
        /\ state[n] = "IDLE" <=> role[n] = "none"
        /\ state[n] \in {"CONNECTED_AS_PEER", "FAILOVER_DETECTING"} => server[n] \in Node

SessionInv ==
    /\ TypeOK
    /\ \A n \in Node : OneEntryEach(reg[n])
    /\ PlayersShownRegistered
    /\ InOrder(chan, conn)
    /\ OneHost
    /\ RoleFitsState

(***************************************************************************)
(* Sequences, registries, the election.                                    *)
(***************************************************************************)

LEMMA AppendFacts ==
    ASSUME NEW S, NEW s \in Seq(S), NEW m \in S
    PROVE  /\ Append(s, m) \in Seq(S) /\ Append(s, m) # <<>>
           /\ Len(Append(s, m)) = Len(s) + 1 /\ Len(s) \in Nat
           /\ DOMAIN Append(s, m) = 1..(Len(s) + 1) /\ DOMAIN s = 1..Len(s)
           /\ \A i \in 1..(Len(s) + 1) :
                 Append(s, m)[i] = IF i = Len(s) + 1 THEN m ELSE s[i]
  OBVIOUS

LEMMA RemovedFacts ==
    ASSUME NEW S, NEW s \in Seq(S), NEW k \in DOMAIN s
    PROVE  /\ RemoveAt(s, k) \in Seq(S)
           /\ Len(RemoveAt(s, k)) = Len(s) - 1
           /\ DOMAIN RemoveAt(s, k) = 1..(Len(s) - 1)
           /\ \A i \in 1..(Len(s) - 1) :
                 RemoveAt(s, k)[i] = IF i < k THEN s[i] ELSE s[i + 1]
<1> DEFINE front == SubSeq(s, 1, k - 1)
           rear == SubSeq(s, k + 1, Len(s))
<1>1. Len(s) \in Nat /\ k \in 1..Len(s) /\ \A i \in 1..Len(s) : s[i] \in S
  BY LenProperties
<1>2. /\ front \in Seq(S) /\ Len(front) = k - 1
      /\ \A i \in 1..(k - 1) : front[i] = s[i]
  <2>1. \A i \in 1..(k - 1) : s[i] \in S
    BY <1>1
  <2> QED
    BY <1>1, <2>1, SubSeqProperties
<1>3. /\ rear \in Seq(S) /\ Len(rear) = Len(s) - k
      /\ \A i \in 1..(Len(s) - k) : rear[i] = s[k + i]
  <2>1. \A i \in (k + 1)..Len(s) : s[i] \in S
    BY <1>1
  <2> QED
    BY <1>1, <2>1, SubSeqProperties
<1>4. RemoveAt(s, k) = front \o rear
  BY DEF RemoveAt
<1> HIDE DEF front, rear
<1>5. /\ front \o rear \in Seq(S) /\ Len(front \o rear) = Len(s) - 1
      /\ \A i \in 1..(Len(s) - 1) :
            (front \o rear)[i] = IF i <= k - 1 THEN front[i] ELSE rear[i - (k - 1)]
  <2>1. Len(front) + Len(rear) = Len(s) - 1
    BY <1>1, <1>2, <1>3
  <2> QED
    <3>1. /\ front \o rear \in Seq(S)
          /\ Len(front \o rear) = Len(front) + Len(rear)
          /\ \A i \in 1..(Len(front) + Len(rear)) :
                (front \o rear)[i] = IF i <= Len(front) THEN front[i]
                                      ELSE rear[i - Len(front)]
      BY <1>2, <1>3, ConcatProperties, Zenon
    <3> QED
      BY <1>2, <2>1, <3>1
<1>6. \A i \in 1..(Len(s) - 1) : RemoveAt(s, k)[i] = IF i < k THEN s[i] ELSE s[i + 1]
  <2> SUFFICES ASSUME NEW i \in 1..(Len(s) - 1)
               PROVE  RemoveAt(s, k)[i] = IF i < k THEN s[i] ELSE s[i + 1]
    OBVIOUS
  <2>1. CASE i < k
    <3>1. RemoveAt(s, k)[i] = IF i <= k - 1 THEN front[i] ELSE rear[i - (k - 1)]
      BY <1>4, <1>5
    <3>2. i <= k - 1 /\ i \in 1..(k - 1)
      BY <2>1, <1>1
    <3> QED
      BY <2>1, <3>1, <3>2, <1>2
  <2>2. CASE ~(i < k)
    <3>1. i - (k - 1) \in 1..(Len(s) - k) /\ k + (i - (k - 1)) = i + 1
      BY <2>2, <1>1
    <3>2. RemoveAt(s, k)[i] = rear[i - (k - 1)]
      <4>1. ~(i <= k - 1)
        BY <2>2, <1>1
      <4>2. RemoveAt(s, k)[i] = IF i <= k - 1 THEN front[i] ELSE rear[i - (k - 1)]
        BY <1>4, <1>5
      <4> QED
        BY <4>1, <4>2
    <3>3. rear[i - (k - 1)] = s[k + (i - (k - 1))]
      BY <3>1, <1>3
    <3> QED
      BY <2>2, <3>1, <3>2, <3>3
  <2> QED
    BY <2>1, <2>2
<1> QED
  BY <1>1, <1>4, <1>5, <1>6, LenProperties

LEMMA RegisterFacts ==
    ASSUME NEW r, IsRegistry(r), OneEntryEach(r), NEW i \in Id
    PROVE  /\ IsRegistry(RegisterPeer(r, i)) /\ OneEntryEach(RegisterPeer(r, i))
           /\ Registered(RegisterPeer(r, i)) = Registered(r) \cup {i}
<1>1. CASE i \in Registered(r)
  BY <1>1 DEF RegisterPeer
<1>2. CASE i \notin Registered(r)
  <2>1. RegisterPeer(r, i) = [peers |-> Append(r.peers, i), told |-> r.told]
    BY <1>2 DEF RegisterPeer, IsRegistry
  <2>2. r.peers \in Seq(Id)
    BY DEF IsRegistry
  <2> DEFINE q == Append(r.peers, i)
  <2>3. /\ q \in Seq(Id) /\ Len(r.peers) \in Nat
        /\ DOMAIN q = 1..(Len(r.peers) + 1) /\ DOMAIN r.peers = 1..Len(r.peers)
        /\ \A j \in 1..(Len(r.peers) + 1) :
              q[j] = IF j = Len(r.peers) + 1 THEN i ELSE r.peers[j]
    BY <2>2, AppendFacts
  <2> HIDE DEF q
  <2>4. \A j \in DOMAIN r.peers : r.peers[j] # i
    BY <1>2 DEF Registered
  <2> QED
    BY <2>1, <2>3, <2>4 DEF IsRegistry, OneEntryEach, Registered, q
<1> QED
  BY <1>1, <1>2

LEMMA UnregisterFacts ==
    ASSUME NEW r, IsRegistry(r), OneEntryEach(r), NEW i
    PROVE  /\ IsRegistry(UnregisterPeer(r, i)) /\ OneEntryEach(UnregisterPeer(r, i))
           /\ Registered(UnregisterPeer(r, i)) = Registered(r) \ {i}
<1>1. CASE i \notin Registered(r)
  BY <1>1 DEF UnregisterPeer, IsRegistry, OneEntryEach, Registered
<1>2. CASE i \in Registered(r)
  <2> DEFINE k == CHOOSE k \in DOMAIN r.peers : r.peers[k] = i
             q == RemoveAt(r.peers, k)
             n == Len(r.peers)
  <2>1. k \in DOMAIN r.peers /\ r.peers[k] = i
    BY <1>2 DEF Registered
  <2>2. UnregisterPeer(r, i) = [peers |-> q, told |-> r.told \ {i}]
    BY <1>2 DEF UnregisterPeer
  <2> HIDE DEF k
  <2>3. r.peers \in Seq(Id) /\ n \in Nat /\ DOMAIN r.peers = 1..n
    BY LenProperties DEF IsRegistry
  <2>4. /\ q \in Seq(Id) /\ DOMAIN q = 1..(n - 1)
        /\ \A j \in 1..(n - 1) : q[j] = IF j < k THEN r.peers[j] ELSE r.peers[j + 1]
    BY <2>1, <2>3, RemovedFacts
  <2> HIDE DEF q, n
  <2>5. \A j \in 1..n : r.peers[j] = i => j = k
    BY <2>1, <2>3 DEF OneEntryEach
  <2>6. \A j \in 1..n : j # k => \E l \in 1..(n - 1) : q[l] = r.peers[j]
    <3> SUFFICES ASSUME NEW j \in 1..n, j # k
                 PROVE  \E l \in 1..(n - 1) : q[l] = r.peers[j]
      OBVIOUS
    <3>1. CASE j < k
      BY <3>1, <2>1, <2>3, <2>4
    <3>2. CASE j > k
      <4>1. j - 1 \in 1..(n - 1) /\ ~(j - 1 < k) /\ (j - 1) + 1 = j
        BY <3>2, <2>1, <2>3
      <4> QED
        BY <4>1, <2>4
    <3> QED
      BY <3>1, <3>2, <2>1, <2>3
  <2> DEFINE from(j) == IF j < k THEN j ELSE j + 1
  <2>7. \A j \in 1..(n - 1) : /\ from(j) \in 1..n /\ from(j) # k
                             /\ q[j] = r.peers[from(j)]
    BY <2>1, <2>3, <2>4
  <2>8. \A j \in 1..(n - 1) : q[j] # i
    BY <2>5, <2>7
  <2>9. \A j, l \in 1..(n - 1) : from(j) = from(l) => j = l
    BY <2>1, <2>3
  <2> HIDE DEF from
  <2>10. \A j, l \in 1..(n - 1) : q[j] = q[l] => j = l
    BY <2>3, <2>7, <2>9 DEF OneEntryEach
  <2> DEFINE u == UnregisterPeer(r, i)
  <2>11. u.peers = q /\ u \in [peers : Seq(Id), told : SUBSET Node]
    BY <2>2, <2>4 DEF IsRegistry
  <2> HIDE DEF u
  <2>12. \A x : x \in Registered(u) <=> x \in Registered(r) /\ x # i
    <3>1. \A x : x \in Registered(u) => x \in Registered(r) /\ x # i
      BY <2>3, <2>4, <2>7, <2>8, <2>11 DEF Registered
    <3>2. \A x : x \in Registered(r) /\ x # i => x \in Registered(u)
      <4> SUFFICES ASSUME NEW j \in 1..n, r.peers[j] # i
                   PROVE  r.peers[j] \in Registered(u)
        BY <2>3 DEF Registered
      <4>1. PICK l \in 1..(n - 1) : q[l] = r.peers[j]
        BY <2>1, <2>6
      <4> QED
        BY <4>1, <2>4, <2>11 DEF Registered
    <3> QED
      BY <3>1, <3>2
  <2>13. OneEntryEach(u)
    BY <2>4, <2>10, <2>11 DEF OneEntryEach
  <2>14. Registered(u) = Registered(r) \ {i}
    BY <2>12
  <2> QED
    BY <2>11, <2>13, <2>14 DEF IsRegistry, u
<1> QED
  BY <1>1, <1>2

LEMMA SetVersionFacts ==
    ASSUME NEW r, IsRegistry(r), OneEntryEach(r), NEW i \in Node
    PROVE  /\ IsRegistry(SetVersion(r, i)) /\ OneEntryEach(SetVersion(r, i))
           /\ Registered(SetVersion(r, i)) = Registered(r)
  BY DEF SetVersion, IsRegistry, OneEntryEach, Registered

LEMMA NoPeersFacts ==
    /\ IsRegistry(NoPeers) /\ OneEntryEach(NoPeers) /\ Registered(NoPeers) = {}
  BY DEF NoPeers, IsRegistry, OneEntryEach, Registered

(* The election names a player of the registry, or nobody when there is no
   candidate in it.                                                        *)
LEMMA ElectedKnown ==
    ASSUME NEW r, IsRegistry(r), NEW n
    PROVE  ElectedHost(r, n) \in Registered(r) \cup {None}
<1> DEFINE survivors == {k \in DOMAIN r.peers : r.peers[k] # HostId}
           candidates == IF survivors = {} THEN DOMAIN r.peers ELSE survivors
           compatible == {k \in candidates : Compatible(r, n, r.peers[k])}
           ranked == IF compatible = {} THEN candidates ELSE compatible
<1>1. ElectedHost(r, n) = IF ranked = {} THEN None ELSE r.peers[Min(ranked)]
  BY DEF ElectedHost
<1>2. ranked \subseteq DOMAIN r.peers /\ ranked \subseteq Nat
  BY LenProperties DEF IsRegistry
<1> HIDE DEF ranked
<1>3. CASE ranked # {}
  <2>1. \E k \in ranked : \A j \in ranked : ~(<<j, k>> \in OpToRel(<, Nat))
    BY <1>2, <1>3, NatLessThanWellFounded, WFMin
  <2>2. \E k \in ranked : \A j \in ranked : k =< j
    <3>1. PICK k \in ranked : \A j \in ranked : ~(<<j, k>> \in OpToRel(<, Nat))
      BY <2>1
    <3>2. \A j \in ranked : (<<j, k>> \in OpToRel(<, Nat)) <=> j < k
      BY <1>2 DEF OpToRel
    <3>3. \A j \in ranked : ~(j < k)
      BY <3>1, <3>2, Zenon
    <3> QED
      BY <1>2, <3>3
  <2>3. Min(ranked) \in ranked
    BY <2>2 DEF Min
  <2> QED
    BY <1>1, <1>2, <1>3, <2>3 DEF Registered
<1> QED
  BY <1>1, <1>3

(***************************************************************************)
(* What is under way on the links.                                         *)
(***************************************************************************)

Channels == [Link -> Seq(Msg)]

Unclosed(s) == s # <<>> => Last(s).kind # "closed"

LEMMA MessageTypes ==
    /\ \A k \in Kind \ AboutPeer : M(k) \in Msg /\ M(k).kind = k
    /\ \A k \in AboutPeer, i \in Node : MOf(k, i) \in Msg /\ MOf(k, i).kind = k
  BY DEF M, MOf, Msg

(* A link that has not closed takes another message.                       *)
LEMMA AppendOrder ==
    ASSUME NEW s \in Seq(Msg), ClosingLast(s), Unclosed(s), NEW m \in Msg
    PROVE  Append(s, m) \in Seq(Msg) /\ ClosingLast(Append(s, m))
<1>1. /\ Append(s, m) \in Seq(Msg) /\ Len(s) \in Nat
      /\ Len(Append(s, m)) = Len(s) + 1
      /\ DOMAIN Append(s, m) = 1..(Len(s) + 1) /\ DOMAIN s = 1..Len(s)
      /\ \A i \in 1..(Len(s) + 1) :
            Append(s, m)[i] = IF i = Len(s) + 1 THEN m ELSE s[i]
  BY AppendFacts
<1>2. \A i \in 1..Len(s) : s[i].kind # "closed"
  BY <1>1 DEF ClosingLast, Unclosed, Last
<1> QED
  BY <1>1, <1>2 DEF ClosingLast

LEMMA DeliveredOrder ==
    ASSUME NEW s \in Seq(Msg), ClosingLast(s), NEW f \in BOOLEAN, f => Unclosed(s)
    PROVE  /\ Delivered(s, f) \in Seq(Msg) /\ ClosingLast(Delivered(s, f))
           /\ Unclosed(Delivered(s, f))
<1>1. CASE f
  BY <1>1 DEF Delivered
<1>2. CASE ~f /\ s # <<>> /\ Head(s).kind = "opened"
  <2>1. Delivered(s, f) = <<Head(s)>> /\ Head(s) \in Msg
    BY <1>2, HeadTailProperties DEF Delivered
  <2> QED
    BY <1>2, <2>1 DEF ClosingLast, Unclosed, Last
<1>3. CASE ~f /\ ~(s # <<>> /\ Head(s).kind = "opened")
  <2>1. Delivered(s, f) = <<>>
    BY <1>3 DEF Delivered
  <2> QED
    BY <2>1 DEF ClosingLast, Unclosed
<1> QED
  BY <1>1, <1>2, <1>3

LEMMA SentOrder ==
    ASSUME NEW ch \in Channels, InOrder(ch, conn), NEW n \in Node, NEW P,
           NEW m \in Msg
    PROVE  /\ Sent(ch, n, P, m) \in Channels
           /\ InOrder(Sent(ch, n, P, m), conn)
           /\ \A a, b \in Node : a # n \/ b \notin P
                 => Sent(ch, n, P, m)[<<a, b>>] = ch[<<a, b>>]
<1> DEFINE new == Sent(ch, n, P, m)
<1>1. \A a, b \in Node :
          new[<<a, b>>] = IF a = n /\ b \in P /\ Carries(ch, <<a, b>>)
                          THEN Append(ch[<<a, b>>], m) ELSE ch[<<a, b>>]
  BY DEF Sent, Link
<1>2. \A a, b \in Node : ch[<<a, b>>] \in Seq(Msg)
  BY DEF Channels, Link
<1>3. \A a, b \in Node : Carries(ch, <<a, b>>)
          => /\ Append(ch[<<a, b>>], m) \in Seq(Msg)
             /\ ClosingLast(Append(ch[<<a, b>>], m))
             /\ a \in conn[b]
  <2> SUFFICES ASSUME NEW a \in Node, NEW b \in Node, Carries(ch, <<a, b>>)
               PROVE  /\ Append(ch[<<a, b>>], m) \in Seq(Msg)
                      /\ ClosingLast(Append(ch[<<a, b>>], m))
                      /\ a \in conn[b]
    OBVIOUS
  <2>1. a \in conn[b] /\ Unclosed(ch[<<a, b>>])
    BY DEF Carries, Unclosed
  <2>2. ClosingLast(ch[<<a, b>>])
    BY DEF InOrder
  <2> QED
    BY <1>2, <2>1, <2>2, AppendOrder
<1>4. \A a, b \in Node : new[<<a, b>>] \in Seq(Msg)
  BY <1>1, <1>2, <1>3
<1>5. new \in Channels
  BY <1>4 DEF Sent, Link, Channels
<1>6. InOrder(new, conn)
  BY <1>1, <1>3 DEF InOrder
<1> QED
  BY <1>1, <1>5, <1>6

LEMMA CutOrder ==
    ASSUME NEW ch \in Channels, InOrder(ch, conn), NEW n \in Node, NEW P,
           NEW f \in BOOLEAN
    PROVE  /\ Cut(ch, n, P, f) \in Channels
           /\ InOrder(Cut(ch, n, P, f), conn)
           /\ \A a \in P \cap Node : Cut(ch, n, P, f)[<<a, n>>] = <<>>
<1> DEFINE new == Cut(ch, n, P, f)
           end(s) == Append(Delivered(s, f), M("closed"))
<1>1. \A a, b \in Node :
          new[<<a, b>>] = IF b = n /\ a \in P THEN <<>>
                          ELSE IF a = n /\ b \in P /\ Carries(ch, <<a, b>>)
                          THEN end(ch[<<a, b>>]) ELSE ch[<<a, b>>]
  BY DEF Cut, Link
<1>2. \A a, b \in Node : ch[<<a, b>>] \in Seq(Msg)
  BY DEF Channels, Link
<1>3. \A a, b \in Node : Carries(ch, <<a, b>>)
          => /\ end(ch[<<a, b>>]) \in Seq(Msg) /\ ClosingLast(end(ch[<<a, b>>]))
             /\ a \in conn[b]
  <2> SUFFICES ASSUME NEW a \in Node, NEW b \in Node, Carries(ch, <<a, b>>)
               PROVE  /\ end(ch[<<a, b>>]) \in Seq(Msg)
                      /\ ClosingLast(end(ch[<<a, b>>]))
                      /\ a \in conn[b]
    OBVIOUS
  <2>1. a \in conn[b] /\ Unclosed(ch[<<a, b>>])
    BY DEF Carries, Unclosed
  <2>2. ClosingLast(ch[<<a, b>>])
    BY DEF InOrder
  <2>3. /\ Delivered(ch[<<a, b>>], f) \in Seq(Msg)
        /\ ClosingLast(Delivered(ch[<<a, b>>], f))
        /\ Unclosed(Delivered(ch[<<a, b>>], f))
    BY <1>2, <2>1, <2>2, DeliveredOrder
  <2>4. M("closed") \in Msg
    BY MessageTypes DEF Kind, AboutPeer
  <2> QED
    BY <2>1, <2>3, <2>4, AppendOrder
<1> HIDE DEF end
<1>4. \A a, b \in Node : new[<<a, b>>] \in Seq(Msg)
  <2>1. <<>> \in Seq(Msg)
    BY EmptySeq
  <2> QED
    BY <1>1, <1>2, <1>3, <2>1
<1>5. new \in Channels
  <2>1. new = [l \in Link |-> new[l]]
    BY DEF Cut
  <2> HIDE DEF new
  <2>2. \A l \in Link : new[l] \in Seq(Msg)
    BY <1>4 DEF Link
  <2> QED
    BY <2>1, <2>2 DEF Channels
<1>6. InOrder(new, conn)
  <2>1. ClosingLast(<<>>)
    BY DEF ClosingLast
  <2> QED
    BY <1>1, <1>3, <2>1 DEF InOrder
<1>7. \A a \in P \cap Node : new[<<a, n>>] = <<>>
  BY <1>1
<1> QED
  BY <1>5, <1>6, <1>7

LEMMA TakenOrder ==
    ASSUME TypeOK, InOrder(chan, conn), NEW a \in Node, NEW b \in Node,
           chan[<<a, b>>] # <<>>
    PROVE  /\ Taken(a, b) \in Channels
           /\ InOrder(Taken(a, b), conn)
           /\ Head(chan[<<a, b>>]) \in Msg
           /\ a \in conn[b]
           /\ Head(chan[<<a, b>>]).kind = "closed" => Taken(a, b)[<<a, b>>] = <<>>
<1> DEFINE s == chan[<<a, b>>]
<1>1. s \in Seq(Msg) /\ ClosingLast(s) /\ a \in conn[b] /\ s # <<>>
  BY DEF TypeOK, Link, InOrder
<1> DEFINE t == Tail(s)
<1>2. /\ Head(s) \in Msg /\ Head(s) = s[1] /\ t \in Seq(Msg)
      /\ Len(s) \in Nat /\ Len(s) # 0 /\ DOMAIN s = 1..Len(s)
      /\ Len(t) = Len(s) - 1 /\ DOMAIN t = 1..(Len(s) - 1)
      /\ \A i \in 1..(Len(s) - 1) : t[i] = s[i + 1]
  <2>1. /\ Head(s) \in Msg /\ t \in Seq(Msg) /\ Len(t) = Len(s) - 1
        /\ \A i \in 1..Len(t) : t[i] = s[i + 1]
    BY <1>1, HeadTailProperties
  <2>2. Len(s) \in Nat \ {0} /\ DOMAIN s = 1..Len(s) /\ Head(s) = s[1]
    BY <1>1, EmptySeq, LenProperties
  <2> QED
    BY <2>1, <2>2, LenProperties
<1>3. Taken(a, b) = [chan EXCEPT ![<<a, b>>] = t]
  BY DEF Taken
<1>4. \A c, d \in Node :
          Taken(a, b)[<<c, d>>] = IF c = a /\ d = b THEN t ELSE chan[<<c, d>>]
  BY <1>3 DEF TypeOK, Link
<1> HIDE DEF s, t
<1>5. ClosingLast(t)
  BY <1>1, <1>2 DEF ClosingLast
<1>6. Taken(a, b) \in Channels
  BY <1>2, <1>3 DEF TypeOK, Link, Channels
<1>7. InOrder(Taken(a, b), conn)
  BY <1>1, <1>4, <1>5 DEF InOrder
<1>8. Head(s).kind = "closed" => t = <<>>
  <2> SUFFICES ASSUME s[1].kind = "closed" PROVE t = <<>>
    BY <1>2
  <2>1. Len(t) = 0
    BY <1>1, <1>2 DEF ClosingLast
  <2> QED
    BY <1>2, <2>1, EmptySeq
<1> QED
  BY <1>1, <1>2, <1>4, <1>6, <1>7, <1>8 DEF s

(* An end may be closed once nothing is under way to it.                   *)
LEMMA EndClosed ==
    ASSUME TypeOK, NEW n \in Node, NEW S, conn' = [conn EXCEPT ![n] = S],
           InOrder(chan', conn), \A a \in conn[n] \ S : chan'[<<a, n>>] = <<>>
    PROVE  InOrder(chan, conn)'
<1>1. \A b \in Node : conn'[b] = IF b = n THEN S ELSE conn[b]
  BY DEF TypeOK
<1> QED
  BY <1>1 DEF InOrder

(***************************************************************************)
(* Starting, leaving, crashing keep the invariant.                         *)
(***************************************************************************)

LEMMA FlushingBoolean == TypeOK => setting.flushing \subseteq BOOLEAN
  BY SettingsAssumption DEF TypeOK

LEMMA OneSetChanged ==
    ASSUME NEW S, NEW f \in [Node -> SUBSET S], NEW n \in Node
    PROVE  /\ \A x \in S : [f EXCEPT ![n] = @ \cup {x}] \in [Node -> SUBSET S]
           /\ \A x : [f EXCEPT ![n] = @ \ {x}] \in [Node -> SUBSET S]
  OBVIOUS

LEMMA SessionInit == Init => SessionInv
<1> SUFFICES ASSUME Init PROVE SessionInv
  OBVIOUS
<1> USE NoPeersFacts, SettingsAssumption, NoneIdAssumption DEF Init
<1>1. TypeOK
  <2>1. \A n \in Node : joins[n] \in 0..setting.joins[n]
    BY DEF TypeOK
  <2>2. chan \in [Link -> Seq(Msg)]
    BY EmptySeq
  <2> QED
    BY <2>1, <2>2 DEF TypeOK, State
<1>2. PlayersShownRegistered
  BY DEF PlayersShownRegistered
<1>3. InOrder(chan, conn)
  BY DEF InOrder, Link, ClosingLast
<1>4. OneHost /\ RoleFitsState
  BY DEF OneHost, RoleFitsState
<1> QED
  BY <1>1, <1>2, <1>3, <1>4 DEF SessionInv

LEMMA StartHostInv ==
    ASSUME SessionInv, setting' = setting, NEW n \in Node, StartHost(n)
    PROVE  SessionInv'
<1> USE DEF StartHost, SessionInv
<1>1. TypeOK'
  BY DEF TypeOK, State
<1>2. PlayersShownRegistered' /\ InOrder(chan, conn)'
  BY DEF PlayersShownRegistered, TypeOK
<1>3. OneHost'
  BY DEF OneHost, RoleFitsState, TypeOK
<1>4. RoleFitsState'
  BY DEF RoleFitsState, TypeOK
<1> QED
  BY <1>1, <1>2, <1>3, <1>4

LEMMA StartPeerInv ==
    ASSUME SessionInv, setting' = setting, NEW n \in Node, StartPeer(n)
    PROVE  SessionInv'
<1> USE DEF StartPeer, SessionInv
<1>1. /\ chan' \in Channels /\ InOrder(chan', conn)
      /\ \A a \in conn[n] \cap Node : chan'[<<a, n>>] = <<>>
  <2>1. FALSE \in BOOLEAN /\ chan \in Channels /\ chan' = Cut(chan, n, conn[n], FALSE)
    BY DEF TypeOK, Channels
  <2>2. InOrder(chan, conn)
    OBVIOUS
  <2> HIDE DEF StartPeer, SessionInv
  <2> QED
    BY <2>1, <2>2, CutOrder
<1>2. InOrder(chan, conn)'
  BY <1>1, EndClosed DEF TypeOK
<1>3. TypeOK'
  <2>1. \A m \in Node : joins'[m] \in 0..setting'.joins[m]
    <3>1. \A m \in Node : setting.joins[m] \in Nat
      BY SettingsAssumption DEF TypeOK
    <3>2. joins[n] + 1 \in 0..setting.joins[n]
      BY <3>1 DEF TypeOK
    <3> QED
      BY <3>2 DEF TypeOK
  <2>2. timer' \in [Node -> SUBSET Timer] /\ state' \in [Node -> State]
    BY DEF TypeOK, Timer, State
  <2> QED
    BY <1>1, <2>1, <2>2 DEF TypeOK, Channels
<1>4. PlayersShownRegistered'
  BY DEF PlayersShownRegistered, TypeOK
<1>5. OneHost'
  BY DEF OneHost, TypeOK
<1>6. RoleFitsState'
  BY DEF RoleFitsState, TypeOK
<1> QED
  BY <1>2, <1>3, <1>4, <1>5, <1>6

LEMMA OpenInv ==
    ASSUME SessionInv, setting' = setting, NEW s \in Node, NEW n \in Node, Open(s, n)
    PROVE  SessionInv'
<1>1. TypeOK /\ InOrder(chan, conn) /\ OneHost /\ RoleFitsState
  BY DEF SessionInv
<1> DEFINE o == <<M("opened")>>
<1>2. /\ s # n /\ dialing[n] /\ role[n] = "client" /\ role[s] = "server"
      /\ state[s] \in {"CONNECTED_AS_HOST", "FAILOVER_PROMOTING"}
      /\ dialing' = [dialing EXCEPT ![n] = FALSE]
      /\ server' = [server EXCEPT ![n] = s]
      /\ conn' = [conn EXCEPT ![n] = {s}, ![s] = @ \cup {n}]
      /\ chan' = [chan EXCEPT ![<<s, n>>] = o, ![<<n, s>>] = o]
      /\ UNCHANGED <<state, role, reg, pending, announced, dropping, timer,
                     published, joins, verdict>>
  BY DEF Open
<1>3. o \in Seq(Msg) /\ ClosingLast(o)
  <2>1. M("opened") \in Msg /\ M("opened").kind = "opened"
    BY MessageTypes DEF Kind, AboutPeer
  <2> QED
    BY <2>1 DEF ClosingLast
<1> HIDE DEF o
<1>4. /\ conn' \in [Node -> SUBSET Node]
      /\ \A b \in Node : conn'[b] = IF b = n THEN {s} ELSE IF b = s THEN conn[s] \cup {n}
                                    ELSE conn[b]
  BY <1>1, <1>2 DEF TypeOK
<1>5. /\ chan' \in [Link -> Seq(Msg)]
      /\ \A a, b \in Node :
            chan'[<<a, b>>] = IF (a = s /\ b = n) \/ (a = n /\ b = s) THEN o
                              ELSE chan[<<a, b>>]
  BY <1>1, <1>2, <1>3 DEF TypeOK, Link
<1>6. TypeOK'
  BY <1>1, <1>2, <1>4, <1>5 DEF TypeOK
<1>7. conn[n] = {}
  BY <1>1, <1>2 DEF OneHost
<1>8. InOrder(chan, conn)'
  <2> SUFFICES ASSUME NEW a \in Node, NEW b \in Node
               PROVE  /\ ClosingLast(chan'[<<a, b>>])
                      /\ chan'[<<a, b>>] # <<>> => a \in conn'[b]
    BY DEF InOrder
  <2>1. CASE (a = s /\ b = n) \/ (a = n /\ b = s)
    <3>1. chan'[<<a, b>>] = o
      BY <2>1, <1>5
    <3>2. a \in conn'[b]
      BY <2>1, <1>2, <1>4
    <3> QED
      BY <3>1, <3>2, <1>3
  <2>2. CASE ~((a = s /\ b = n) \/ (a = n /\ b = s))
    <3>1. ClosingLast(chan[<<a, b>>]) /\ (chan[<<a, b>>] # <<>> => a \in conn[b])
      BY <1>1 DEF InOrder
    <3> QED
      BY <2>2, <3>1, <1>4, <1>5, <1>7
  <2> QED
    BY <2>1, <2>2
<1>9. PlayersShownRegistered' /\ \A m \in Node : OneEntryEach(reg[m])'
  BY <1>2 DEF SessionInv, PlayersShownRegistered
<1>10. OneHost'
  BY <1>1, <1>2, <1>4 DEF OneHost, RoleFitsState, TypeOK
<1>11. RoleFitsState'
  BY <1>1, <1>2 DEF RoleFitsState, TypeOK
<1> QED
  BY <1>6, <1>8, <1>9, <1>10, <1>11 DEF SessionInv

LEMMA LinkBreaksInv ==
    ASSUME SessionInv, setting' = setting, NEW s \in Node, NEW n \in Node, LinkBreaks(s, n)
    PROVE  SessionInv'
<1>1. TypeOK /\ InOrder(chan, conn)
  BY DEF SessionInv
<1> DEFINE end(q) == Append(Delivered(q, FALSE), M("closed"))
<1>2. /\ <<s, n>> \in setting.unstable /\ n \in conn[s] /\ s \in conn[n]
      /\ UNCHANGED <<state, role, server, dialing, conn, reg, pending, announced,
                     dropping, timer, published, joins, verdict>>
  BY DEF LinkBreaks, Carries
<1>3. \A a, b \in Node :
          /\ end(chan[<<a, b>>]) \in Seq(Msg)
          /\ ClosingLast(end(chan[<<a, b>>]))
  <2> SUFFICES ASSUME NEW a \in Node, NEW b \in Node
               PROVE  /\ end(chan[<<a, b>>]) \in Seq(Msg)
                      /\ ClosingLast(end(chan[<<a, b>>]))
    OBVIOUS
  <2>1. chan[<<a, b>>] \in Seq(Msg) /\ ClosingLast(chan[<<a, b>>]) /\ FALSE \in BOOLEAN
    BY <1>1 DEF TypeOK, Link, InOrder
  <2>2. M("closed") \in Msg
    BY MessageTypes DEF Kind, AboutPeer
  <2>3. /\ Delivered(chan[<<a, b>>], FALSE) \in Seq(Msg)
        /\ ClosingLast(Delivered(chan[<<a, b>>], FALSE))
        /\ Unclosed(Delivered(chan[<<a, b>>], FALSE))
    BY <2>1, DeliveredOrder
  <2> QED
    BY <2>2, <2>3, AppendOrder
<1>4. chan' = [chan EXCEPT ![<<s, n>>] = end(chan[<<s, n>>]),
                          ![<<n, s>>] = end(chan[<<n, s>>])]
  <2>1. s # n
    BY <1>1, <1>2, SettingsAssumption DEF TypeOK
  <2> QED
    BY <1>1, <2>1 DEF TypeOK, Link, LinkBreaks
<1> HIDE DEF end
<1>5. /\ chan' \in [Link -> Seq(Msg)]
      /\ \A a, b \in Node :
            chan'[<<a, b>>] = IF (a = s /\ b = n) \/ (a = n /\ b = s)
                              THEN end(chan[<<a, b>>]) ELSE chan[<<a, b>>]
  BY <1>1, <1>3, <1>4 DEF TypeOK, Link
<1>6. TypeOK'
  BY <1>1, <1>2, <1>5 DEF TypeOK
<1>7. InOrder(chan, conn)'
  <2> SUFFICES ASSUME NEW a \in Node, NEW b \in Node
               PROVE  /\ ClosingLast(chan'[<<a, b>>])
                      /\ chan'[<<a, b>>] # <<>> => a \in conn'[b]
    BY DEF InOrder
  <2>1. CASE (a = s /\ b = n) \/ (a = n /\ b = s)
    BY <2>1, <1>2, <1>3, <1>5
  <2>2. CASE ~((a = s /\ b = n) \/ (a = n /\ b = s))
    BY <2>2, <1>1, <1>2, <1>5 DEF InOrder
  <2> QED
    BY <2>1, <2>2
<1>8. /\ PlayersShownRegistered' /\ OneHost' /\ RoleFitsState'
      /\ \A m \in Node : OneEntryEach(reg[m])'
  BY <1>2 DEF SessionInv, PlayersShownRegistered, OneHost, RoleFitsState
<1> QED
  BY <1>6, <1>7, <1>8 DEF SessionInv

LEMMA LeaveInv ==
    ASSUME SessionInv, setting' = setting, NEW n \in Node, Leave(n)
    PROVE  SessionInv'
<1> USE DEF Leave, SessionInv
<1>1. PICK f \in setting.flushing :
          chan' = Cut(Sent(chan, n, conn[n], M("leaving")), n, conn[n], f)
  OBVIOUS
<1>2. M("leaving") \in Msg /\ f \in BOOLEAN
  BY <1>1, MessageTypes, FlushingBoolean DEF Kind, AboutPeer
<1>3. /\ Sent(chan, n, conn[n], M("leaving")) \in Channels
      /\ InOrder(Sent(chan, n, conn[n], M("leaving")), conn)
  BY <1>2, SentOrder DEF TypeOK, Channels
<1>4. /\ chan' \in Channels /\ InOrder(chan', conn)
      /\ \A a \in conn[n] \cap Node : chan'[<<a, n>>] = <<>>
  BY <1>1, <1>2, <1>3, CutOrder
<1>5. InOrder(chan, conn)'
  BY <1>4, EndClosed DEF TypeOK
<1>6. TypeOK'
  BY <1>4 DEF TypeOK, State, Channels
<1>7. PlayersShownRegistered'
  BY DEF PlayersShownRegistered
<1>8. OneHost'
  BY DEF OneHost, TypeOK
<1>9. RoleFitsState'
  BY DEF RoleFitsState, TypeOK
<1> QED
  BY <1>5, <1>6, <1>7, <1>8, <1>9

LEMMA CrashInv ==
    ASSUME SessionInv, setting' = setting, NEW n \in Node, Crash(n)
    PROVE  SessionInv'
<1> USE DEF Crash, SessionInv
<1>1. PICK f \in setting.flushing : chan' = Cut(chan, n, conn[n], f)
  OBVIOUS
<1>2. f \in BOOLEAN
  BY <1>1, FlushingBoolean
<1>3. /\ chan' \in Channels /\ InOrder(chan', conn)
      /\ \A a \in conn[n] \cap Node : chan'[<<a, n>>] = <<>>
  BY <1>1, <1>2, CutOrder DEF TypeOK, Channels
<1>4. InOrder(chan, conn)'
  BY <1>3, EndClosed DEF TypeOK
<1>5. TypeOK'
  BY <1>3, NoPeersFacts DEF TypeOK, State, Channels
<1>6. PlayersShownRegistered' /\ \A m \in Node : OneEntryEach(reg[m])'
  BY NoPeersFacts DEF PlayersShownRegistered, TypeOK
<1>7. OneHost'
  BY DEF OneHost, TypeOK
<1>8. RoleFitsState'
  BY DEF RoleFitsState, TypeOK
<1> QED
  BY <1>4, <1>5, <1>6, <1>7, <1>8

(***************************************************************************)
(* The host's side keeps the invariant.                                    *)
(***************************************************************************)

LEMMA DisconnectInv ==
    ASSUME SessionInv, NEW s \in Node, NEW p \in Node, NEW ch \in Channels,
           InOrder(ch, conn), DisconnectPeer(s, p, ch),
           UNCHANGED <<setting, state, role, server, dialing, timer, published,
                       joins, verdict>>,
           dropping' \in [Node -> SUBSET Node]
    PROVE  SessionInv'
<1>1. TypeOK /\ PlayersShownRegistered /\ OneHost /\ RoleFitsState
      /\ \A n \in Node : OneEntryEach(reg[n])
  BY DEF SessionInv
<1> DEFINE told == IF p \in conn[s] THEN Admitted(s) \ {p} ELSE {}
           cut(f) == Cut(ch, s, {p} \cap conn[s], f)
<1>2. PICK f \in setting.flushing : chan' = Sent(cut(f), s, told, MOf("del", p))
  BY DEF DisconnectPeer
<1>3. f \in BOOLEAN /\ MOf("del", p) \in Msg
  BY <1>1, MessageTypes, FlushingBoolean DEF AboutPeer
<1>4. /\ conn' = [conn EXCEPT ![s] = @ \ {p}]
      /\ reg' = [reg EXCEPT ![s] = UnregisterPeer(@, p)]
      /\ pending' = [pending EXCEPT ![s] = @ \ {p}]
      /\ announced' = [announced EXCEPT ![s] = @ \ {p}]
  BY DEF DisconnectPeer
<1>5. /\ cut(f) \in Channels /\ InOrder(cut(f), conn)
      /\ p \in conn[s] => cut(f)[<<p, s>>] = <<>>
  BY <1>3, CutOrder
<1> HIDE DEF cut
<1>6. p \notin told
  OBVIOUS
<1> HIDE DEF told
<1>7. /\ chan' \in Channels /\ InOrder(chan', conn)
      /\ chan'[<<p, s>>] = cut(f)[<<p, s>>]
  BY <1>2, <1>3, <1>5, <1>6, SentOrder
<1>8. InOrder(chan, conn)'
  <2>1. \A a \in conn[s] \ (conn[s] \ {p}) : chan'[<<a, s>>] = <<>>
    BY <1>5, <1>7
  <2> QED
    BY <1>1, <1>4, <1>7, <2>1, EndClosed
<1>9. /\ IsRegistry(UnregisterPeer(reg[s], p)) /\ OneEntryEach(UnregisterPeer(reg[s], p))
      /\ Registered(UnregisterPeer(reg[s], p)) = Registered(reg[s]) \ {p}
  BY <1>1, UnregisterFacts DEF TypeOK
<1>10. TypeOK'
  BY <1>1, <1>4, <1>7, <1>9 DEF TypeOK, Channels
<1>11. PlayersShownRegistered' /\ \A n \in Node : OneEntryEach(reg[n])'
  BY <1>1, <1>4, <1>9 DEF TypeOK, PlayersShownRegistered
<1>12. OneHost' /\ RoleFitsState'
  BY <1>1, <1>4 DEF TypeOK, OneHost, RoleFitsState
<1> QED
  BY <1>8, <1>10, <1>11, <1>12 DEF SessionInv

LEMMA DropAfterFrameInv ==
    ASSUME SessionInv, setting' = setting, NEW s \in Node, NEW p \in Node,
           DropAfterFrame(s, p)
    PROVE  SessionInv'
<1>1. chan \in Channels /\ InOrder(chan, conn)
  BY DEF SessionInv, TypeOK, Channels
<1>2. dropping' \in [Node -> SUBSET Node]
  BY DEF SessionInv, TypeOK, DropAfterFrame
<1>3. DisconnectPeer(s, p, chan)
      /\ UNCHANGED <<setting, state, role, server, dialing, timer, published, joins,
                     verdict>>
  BY DEF DropAfterFrame
<1> QED
  BY <1>1, <1>2, <1>3, DisconnectInv

LEMMA KeepaliveTimeoutInv ==
    ASSUME SessionInv, setting' = setting, NEW s \in Node, NEW p \in Node,
           KeepaliveTimeout(s, p)
    PROVE  SessionInv'
<1>1. chan \in Channels /\ InOrder(chan, conn)
  BY DEF SessionInv, TypeOK, Channels
<1>2. dropping' \in [Node -> SUBSET Node]
  BY DEF SessionInv, TypeOK, KeepaliveTimeout
<1>3. DisconnectPeer(s, p, chan)
      /\ UNCHANGED <<setting, state, role, server, dialing, timer, published, joins,
                     verdict>>
  BY DEF KeepaliveTimeout
<1> QED
  BY <1>1, <1>2, <1>3, DisconnectInv

LEMMA PeerLeftInv ==
    ASSUME SessionInv, setting' = setting, NEW s \in Node, NEW p \in Node, PeerLeft(s, p)
    PROVE  SessionInv'
<1>1. Taken(p, s) \in Channels /\ InOrder(Taken(p, s), conn)
  <2>1. chan[<<p, s>>] # <<>>
    BY DEF PeerLeft, Arrives
  <2> QED
    BY <2>1, TakenOrder DEF SessionInv
<1>2. dropping' \in [Node -> SUBSET Node]
  BY DEF SessionInv, TypeOK, PeerLeft
<1>3. DisconnectPeer(s, p, Taken(p, s))
      /\ UNCHANGED <<setting, state, role, server, dialing, timer, published, joins,
                     verdict>>
  BY DEF PeerLeft
<1> QED
  BY <1>1, <1>2, <1>3, DisconnectInv

LEMMA SetToSeqType ==
    ASSUME NEW S, IsFiniteSet(S)
    PROVE  Cardinality(S) \in Nat /\ SetToSeq(S) \in [1..Cardinality(S) -> S]
<1>1. Cardinality(S) \in Nat /\ ExistsBijection(1..Cardinality(S), S)
  BY FS_CardinalityType
<1>2. \E f \in [1..Cardinality(S) -> S] : IsInjective(f)
  <2>1. PICK f \in Bijection(1..Cardinality(S), S) : TRUE
    BY <1>1 DEF ExistsBijection
  <2>2. /\ f \in [1..Cardinality(S) -> S]
        /\ \A a, b \in 1..Cardinality(S) : f[a] = f[b] => a = b
    BY <2>1 DEF Bijection, Injection, IsInjective
  <2> QED
    BY <2>2 DEF IsInjective
<1> QED
  BY <1>1, <1>2 DEF SetToSeq

(* The arrivals that the host relays to a new client go on its link after
   what is under way.                                                      *)
LEMMA IntroducedOrder ==
    ASSUME TypeOK, NEW ch \in Channels, InOrder(ch, conn), NEW s \in Node,
           NEW p \in Node, NEW others, others \subseteq Node
    PROVE  LET new == [ch EXCEPT ![<<s, p>>] =
                          IF Carries(ch, <<s, p>>)
                          THEN @ \o [i \in 1..Cardinality(others) |->
                                       MOf("add", SetToSeq(others)[i])]
                          ELSE @]
           IN  new \in Channels /\ InOrder(new, conn)
<1> DEFINE q == ch[<<s, p>>]
           N == Cardinality(others)
           r == [i \in 1..N |-> MOf("add", SetToSeq(others)[i])]
           t == IF Carries(ch, <<s, p>>) THEN q \o r ELSE q
           new == [ch EXCEPT ![<<s, p>>] = t]
<1>1. q \in Seq(Msg) /\ ClosingLast(q)
  BY DEF Channels, Link, InOrder
<1>2. N \in Nat /\ r \in [1..N -> Msg] /\ \A i \in 1..N : r[i].kind # "closed"
  <2>1. N \in Nat /\ SetToSeq(others) \in [1..N -> others]
    BY NodeAssumption, FS_Subset, SetToSeqType
  <2>2. \A i \in 1..N : MOf("add", SetToSeq(others)[i]) \in Msg
                        /\ MOf("add", SetToSeq(others)[i]).kind = "add"
    BY <2>1, MessageTypes DEF AboutPeer
  <2> QED
    BY <2>1, <2>2
<1>3. r \in Seq(Msg) /\ Len(r) = N
  BY <1>2 
<1> HIDE DEF r, N, q
<1>4. Carries(ch, <<s, p>>) => t \in Seq(Msg) /\ ClosingLast(t) /\ s \in conn[p]
  <2> SUFFICES ASSUME Carries(ch, <<s, p>>)
               PROVE  t \in Seq(Msg) /\ ClosingLast(t) /\ s \in conn[p]
    OBVIOUS
  <2>1. s \in conn[p] /\ Unclosed(q)
    BY DEF Carries, Unclosed, q
  <2>2. Len(q) \in Nat /\ DOMAIN q = 1..Len(q)
    BY <1>1, LenProperties
  <2>3. /\ q \o r \in Seq(Msg) /\ Len(q \o r) = Len(q) + N
        /\ \A i \in 1..(Len(q) + N) :
              (q \o r)[i] = IF i <= Len(q) THEN q[i] ELSE r[i - Len(q)]
    BY <1>1, <1>3, ConcatProperties
  <2>4. DOMAIN (q \o r) = 1..(Len(q) + N)
    BY <2>3, LenProperties
  <2>5. \A i \in 1..Len(q) : q[i].kind # "closed"
    BY <1>1, <2>1, <2>2 DEF ClosingLast, Unclosed, Last
  <2>6. \A i \in 1..(Len(q) + N) : (q \o r)[i].kind # "closed"
    <3> SUFFICES ASSUME NEW i \in 1..(Len(q) + N) PROVE (q \o r)[i].kind # "closed"
      OBVIOUS
    <3>1. CASE i <= Len(q)
      BY <3>1, <2>2, <2>3, <2>5
    <3>2. CASE ~(i <= Len(q))
      <4>1. i - Len(q) \in 1..N
        BY <3>2, <1>2, <2>2
      <4> QED
        BY <3>2, <4>1, <1>2, <2>3
    <3> QED
      BY <3>1, <3>2
  <2>7. ClosingLast(q \o r)
    BY <2>4, <2>6 DEF ClosingLast
  <2> QED
    BY <2>1, <2>3, <2>7
<1>5. t \in Seq(Msg) /\ ClosingLast(t) /\ (t # <<>> => s \in conn[p])
  BY <1>1, <1>4 DEF InOrder, q
<1> HIDE DEF t
<1>6. /\ new \in Channels
      /\ \A a, b \in Node : new[<<a, b>>] = IF a = s /\ b = p THEN t ELSE ch[<<a, b>>]
  BY <1>5 DEF Channels, Link
<1> HIDE DEF new
<1>7. InOrder(new, conn)
  BY <1>5, <1>6 DEF InOrder
<1> QED
  BY <1>6, <1>7 DEF new, t, q, r, N

LEMMA PeerOpenedInv ==
    ASSUME SessionInv, setting' = setting, NEW s \in Node, NEW p \in Node,
           PeerOpened(s, p)
    PROVE  SessionInv'
<1>1. /\ TypeOK /\ PlayersShownRegistered /\ InOrder(chan, conn) /\ OneHost
      /\ RoleFitsState /\ \A n \in Node : OneEntryEach(reg[n])
  BY DEF SessionInv
<1> DEFINE others == Admitted(s) \ {p}
           told == Sent(Taken(p, s), s, others, MOf("add", p))
           introduced == [told EXCEPT ![<<s, p>>] =
                IF Carries(told, <<s, p>>)
                THEN @ \o [i \in 1..Cardinality(others) |->
                             MOf("add", SetToSeq(others)[i])]
                ELSE @]
<1>2. /\ role[s] = "server" /\ chan[<<p, s>>] # <<>>
      /\ reg' = [reg EXCEPT ![s] = RegisterPeer(@, p)]
      /\ \/ /\ chan' = Sent(introduced, s, {p}, M("snapshot"))
            /\ announced' = [announced EXCEPT ![s] = @ \cup {p}]
            /\ state' = [state EXCEPT ![s] = "CONNECTED_AS_HOST"]
            /\ UNCHANGED pending
         \/ /\ chan' = introduced
            /\ pending' = [pending EXCEPT ![s] = @ \cup {p}]
            /\ UNCHANGED <<announced, state>>
      /\ UNCHANGED <<role, server, dialing, conn, dropping, timer, published,
                     joins, verdict>>
  BY DEF PeerOpened, Arrives
<1>3. told \in Channels /\ InOrder(told, conn)
  <2>1. Taken(p, s) \in Channels /\ InOrder(Taken(p, s), conn)
    BY <1>1, <1>2, TakenOrder
  <2>2. MOf("add", p) \in Msg
    BY MessageTypes DEF AboutPeer
  <2> QED
    BY <2>1, <2>2, SentOrder
<1>4. others \subseteq Node
  BY <1>1 DEF Admitted, TypeOK
<1> HIDE DEF told, others
<1>5. introduced \in Channels /\ InOrder(introduced, conn)
  BY <1>1, <1>3, <1>4, IntroducedOrder
<1> HIDE DEF introduced
<1>6. chan' \in Channels /\ InOrder(chan', conn)
  <2>1. M("snapshot") \in Msg
    BY MessageTypes DEF Kind, AboutPeer
  <2>2. /\ Sent(introduced, s, {p}, M("snapshot")) \in Channels
        /\ InOrder(Sent(introduced, s, {p}, M("snapshot")), conn)
    BY <1>5, <2>1, SentOrder
  <2> QED
    BY <1>2, <1>5, <2>2
<1>7. InOrder(chan, conn)'
  BY <1>2, <1>6 DEF InOrder
<1>8. /\ IsRegistry(RegisterPeer(reg[s], p)) /\ OneEntryEach(RegisterPeer(reg[s], p))
  BY <1>1, RegisterFacts DEF TypeOK, Id
<1>9. TypeOK'
  <2>1. /\ pending' \in {pending, [pending EXCEPT ![s] = @ \cup {p}]}
        /\ announced' \in {announced, [announced EXCEPT ![s] = @ \cup {p}]}
        /\ state' \in {state, [state EXCEPT ![s] = "CONNECTED_AS_HOST"]}
    BY <1>2
  <2>2. /\ pending \in [Node -> SUBSET Node] /\ announced \in [Node -> SUBSET Id]
        /\ state \in [Node -> State] /\ p \in Id
    BY <1>1 DEF TypeOK, Id
  <2>3. /\ pending' \in [Node -> SUBSET Node] /\ announced' \in [Node -> SUBSET Id]
        /\ state' \in [Node -> State]
    BY <2>1, <2>2, OneSetChanged DEF State
  <2> QED
    BY <1>1, <1>2, <1>6, <1>8, <2>3 DEF TypeOK, Channels
<1>10. \A n \in Node : OneEntryEach(reg[n])'
  BY <1>1, <1>2, <1>8 DEF TypeOK
<1>11. PlayersShownRegistered'
  BY <1>1, <1>2 DEF TypeOK, PlayersShownRegistered
<1>12. OneHost' /\ RoleFitsState'
  BY <1>1, <1>2 DEF TypeOK, OneHost, RoleFitsState
<1> QED
  BY <1>7, <1>9, <1>10, <1>11, <1>12 DEF SessionInv

LEMMA VersionReportedInv ==
    ASSUME SessionInv, setting' = setting, NEW s \in Node, NEW p \in Node,
           VersionReported(s, p)
    PROVE  SessionInv'
<1>1. /\ TypeOK /\ PlayersShownRegistered /\ InOrder(chan, conn) /\ OneHost
      /\ RoleFitsState /\ \A n \in Node : OneEntryEach(reg[n])
  BY DEF SessionInv
<1> DEFINE synced == Sent(Taken(p, s), s, Admitted(s), MOf("sync", p))
<1>2. /\ role[s] = "server" /\ chan[<<p, s>>] # <<>>
      /\ reg' = [reg EXCEPT ![s] = SetVersion(@, p)]
      /\ pending' = [pending EXCEPT ![s] = @ \ {p}]
      /\ \/ /\ chan' = Sent(synced, s, {p}, M("rejected"))
            /\ dropping' = [dropping EXCEPT ![s] = @ \cup {p}]
            /\ UNCHANGED announced
         \/ /\ chan' = synced
            /\ announced' \in {announced, [announced EXCEPT ![s] = @ \cup {p}]}
            /\ UNCHANGED dropping
      /\ UNCHANGED <<state, role, server, dialing, conn, timer, published, joins, verdict>>
  BY DEF VersionReported, Arrives
<1>3. synced \in Channels /\ InOrder(synced, conn)
  <2>1. Taken(p, s) \in Channels /\ InOrder(Taken(p, s), conn)
    BY <1>1, <1>2, TakenOrder
  <2>2. MOf("sync", p) \in Msg
    BY MessageTypes DEF AboutPeer
  <2> QED
    BY <2>1, <2>2, SentOrder
<1> HIDE DEF synced
<1>4. chan' \in Channels /\ InOrder(chan', conn)
  <2>1. M("rejected") \in Msg
    BY MessageTypes DEF Kind, AboutPeer
  <2>2. /\ Sent(synced, s, {p}, M("rejected")) \in Channels
        /\ InOrder(Sent(synced, s, {p}, M("rejected")), conn)
    BY <1>3, <2>1, SentOrder
  <2> QED
    BY <1>2, <1>3, <2>2
<1>5. InOrder(chan, conn)'
  BY <1>2, <1>4 DEF InOrder
<1>6. IsRegistry(SetVersion(reg[s], p)) /\ OneEntryEach(SetVersion(reg[s], p))
  BY <1>1, SetVersionFacts DEF TypeOK
<1>7. TypeOK'
  <2>1. /\ pending' = [pending EXCEPT ![s] = @ \ {p}]
        /\ announced' \in {announced, [announced EXCEPT ![s] = @ \cup {p}]}
        /\ dropping' \in {dropping, [dropping EXCEPT ![s] = @ \cup {p}]}
    BY <1>2
  <2>2. /\ pending \in [Node -> SUBSET Node] /\ announced \in [Node -> SUBSET Id]
        /\ dropping \in [Node -> SUBSET Node] /\ p \in Id
    BY <1>1 DEF TypeOK, Id
  <2>3. /\ pending' \in [Node -> SUBSET Node] /\ announced' \in [Node -> SUBSET Id]
        /\ dropping' \in [Node -> SUBSET Node]
    BY <2>1, <2>2, OneSetChanged
  <2> QED
    BY <1>1, <1>2, <1>4, <1>6, <2>3 DEF TypeOK, Channels
<1>8. \A n \in Node : OneEntryEach(reg[n])'
  BY <1>1, <1>2, <1>6 DEF TypeOK
<1>9. PlayersShownRegistered'
  BY <1>1, <1>2 DEF TypeOK, PlayersShownRegistered
<1>10. OneHost' /\ RoleFitsState'
  BY <1>1, <1>2 DEF OneHost, RoleFitsState
<1> QED
  BY <1>5, <1>7, <1>8, <1>9, <1>10 DEF SessionInv

(* A step that only sends an RPC.                                          *)
LEMMA SendInv ==
    ASSUME SessionInv, setting' = setting, NEW s \in Node, NEW P,
           NEW k \in {"kicked", "event"}, chan' = Sent(chan, s, P, M(k)),
           dropping' \in [Node -> SUBSET Node],
           UNCHANGED <<state, role, server, dialing, conn, reg, pending, announced,
                       timer, published, joins, verdict>>
    PROVE  SessionInv'
<1>1. /\ TypeOK /\ PlayersShownRegistered /\ InOrder(chan, conn) /\ OneHost
      /\ RoleFitsState /\ \A n \in Node : OneEntryEach(reg[n])
  BY DEF SessionInv
<1>2. M(k) \in Msg
  BY MessageTypes DEF Kind, AboutPeer
<1>3. chan' \in Channels /\ InOrder(chan', conn)
  BY <1>1, <1>2, SentOrder DEF TypeOK, Channels
<1>4. TypeOK'
  BY <1>1, <1>3 DEF TypeOK, Channels
<1>5. InOrder(chan, conn)'
  BY <1>3 DEF InOrder
<1>6. /\ PlayersShownRegistered' /\ OneHost' /\ RoleFitsState'
      /\ \A n \in Node : OneEntryEach(reg[n])'
  BY <1>1 DEF PlayersShownRegistered, OneHost, RoleFitsState
<1> QED
  BY <1>4, <1>5, <1>6 DEF SessionInv

LEMMA KickPeerInv ==
    ASSUME SessionInv, setting' = setting, NEW s \in Node, NEW p \in Node, KickPeer(s, p)
    PROVE  SessionInv'
<1>1. dropping' \in [Node -> SUBSET Node]
  BY DEF KickPeer, SessionInv, TypeOK
<1>2. /\ chan' = Sent(chan, s, {p}, M("kicked"))
      /\ UNCHANGED <<state, role, server, dialing, conn, reg, pending, announced,
                     timer, published, joins, verdict>>
  BY DEF KickPeer
<1> QED
  BY <1>1, <1>2, SendInv

LEMMA BroadcastEventInv ==
    ASSUME SessionInv, setting' = setting, NEW s \in Node, BroadcastEvent(s)
    PROVE  SessionInv'
<1>1. dropping' \in [Node -> SUBSET Node]
  BY DEF BroadcastEvent, SessionInv, TypeOK
<1>2. /\ chan' = Sent(chan, s, Admitted(s), M("event"))
      /\ UNCHANGED <<state, role, server, dialing, conn, reg, pending, announced,
                     timer, published, joins, verdict>>
  BY DEF BroadcastEvent
<1> QED
  BY <1>1, <1>2, SendInv

(***************************************************************************)
(* The client's side keeps the invariant.                                  *)
(***************************************************************************)

(* A client that handles a message has a link to the server it knows.      *)
LEMMA ClientLinked ==
    ASSUME SessionInv, NEW n \in Node, role[n] = "client", server[n] # None,
           chan[<<server[n], n>>] # <<>>
    PROVE  /\ server[n] \in Node /\ conn[n] = {server[n]} /\ ~dialing[n]
           /\ state[n] \notin {"IDLE", "CONNECTED_AS_HOST", "FAILOVER_PROMOTING",
                               "FAILOVER_DETECTING", "FAILOVER_WAITING"}
           /\ Taken(server[n], n) \in Channels
           /\ InOrder(Taken(server[n], n), conn)
           /\ Head(chan[<<server[n], n>>]) \in Msg
           /\ Head(chan[<<server[n], n>>]).kind = "closed"
                 => Taken(server[n], n)[<<server[n], n>>] = <<>>
<1>1. TypeOK /\ InOrder(chan, conn) /\ OneHost /\ RoleFitsState
  BY DEF SessionInv
<1>2. server[n] \in Node
  BY <1>1 DEF TypeOK
<1>3. server[n] \in conn[n]
  BY <1>1, <1>2 DEF InOrder
<1>4. conn[n] = {server[n]} /\ ~dialing[n]
      /\ state[n] \notin {"FAILOVER_DETECTING", "FAILOVER_WAITING"}
  BY <1>1, <1>3 DEF OneHost
<1>5. state[n] \notin {"IDLE", "CONNECTED_AS_HOST", "FAILOVER_PROMOTING"}
  BY <1>1 DEF RoleFitsState
<1> QED
  BY <1>1, <1>2, <1>4, <1>5, TakenOrder

LEMMA HostOpenedInv ==
    ASSUME SessionInv, setting' = setting, NEW n \in Node, HostOpened(n)
    PROVE  SessionInv'
<1>1. /\ TypeOK /\ PlayersShownRegistered /\ OneHost /\ RoleFitsState
      /\ \A m \in Node : OneEntryEach(reg[m])
  BY DEF SessionInv
<1> DEFINE s == server[n]
<1>2. /\ role[n] = "client" /\ s # None /\ chan[<<s, n>>] # <<>>
      /\ reg' = [reg EXCEPT ![n] = RegisterPeer(@, HostId)]
      /\ timer' = [timer EXCEPT ![n] = @ \ {"connecting"}]
      /\ state' = [state EXCEPT ![n] =
                      IF @ = "CONNECTING" THEN "CONNECTED_AS_PEER" ELSE @]
      /\ announced' = [announced EXCEPT ![n] = @ \cup {HostId}]
      /\ chan' = Sent(Taken(s, n), n, {s}, M("report"))
      /\ UNCHANGED <<role, server, dialing, conn, pending, dropping, published,
                     joins, verdict>>
  BY DEF HostOpened, Arrives
<1>3. s \in Node /\ Taken(s, n) \in Channels /\ InOrder(Taken(s, n), conn)
      /\ ~dialing[n] /\ state[n] # "IDLE"
  BY <1>2, ClientLinked
<1> HIDE DEF s
<1>4. chan' \in Channels /\ InOrder(chan', conn)
  <2>1. M("report") \in Msg
    BY MessageTypes DEF Kind, AboutPeer
  <2> QED
    BY <1>2, <1>3, <2>1, SentOrder
<1>5. InOrder(chan, conn)'
  BY <1>2, <1>4 DEF InOrder
<1>6. /\ IsRegistry(RegisterPeer(reg[n], HostId)) /\ OneEntryEach(RegisterPeer(reg[n], HostId))
      /\ Registered(RegisterPeer(reg[n], HostId)) = Registered(reg[n]) \cup {HostId}
  BY <1>1, RegisterFacts DEF TypeOK, Id
<1>7. TypeOK'
  <2>1. announced' \in [Node -> SUBSET Id]
    BY <1>1, <1>2 DEF TypeOK, Id
  <2>2. state' \in [Node -> State] /\ timer' \in [Node -> SUBSET Timer]
    BY <1>1, <1>2 DEF TypeOK, State
  <2> QED
    BY <1>1, <1>2, <1>4, <1>6, <2>1, <2>2 DEF TypeOK, Channels
<1>8. PlayersShownRegistered' /\ \A m \in Node : OneEntryEach(reg[m])'
  BY <1>1, <1>2, <1>6 DEF TypeOK, PlayersShownRegistered
<1>9. OneHost' /\ RoleFitsState'
  BY <1>1, <1>2, <1>3 DEF TypeOK, OneHost, RoleFitsState, s
<1> QED
  BY <1>5, <1>7, <1>8, <1>9 DEF SessionInv

LEMMA HostTellsInv ==
    ASSUME SessionInv, setting' = setting, NEW n \in Node, HostTells(n)
    PROVE  SessionInv'
<1>1. /\ TypeOK /\ PlayersShownRegistered /\ OneHost /\ RoleFitsState
      /\ \A m \in Node : OneEntryEach(reg[m])
  BY DEF SessionInv
<1> DEFINE s == server[n]
           m == Head(chan[<<s, n>>])
           r == CASE m.kind = "add" -> RegisterPeer(reg[n], m.id)
                  [] m.kind = "del" -> UnregisterPeer(reg[n], m.id)
                  [] m.kind = "sync" -> SetVersion(reg[n], m.id)
           a == CASE m.kind = "add" -> announced[n] \cup {m.id}
                  [] m.kind = "del" -> announced[n] \ {m.id}
                  [] m.kind = "sync" -> announced[n]
<1>2. /\ role[n] = "client" /\ s # None /\ chan[<<s, n>>] # <<>>
      /\ m.kind \in AboutPeer
      /\ reg' = [reg EXCEPT ![n] = r]
      /\ announced' = [announced EXCEPT ![n] = a]
      /\ chan' = Taken(s, n)
      /\ UNCHANGED <<state, role, server, dialing, conn, pending, dropping,
                     timer, published, joins, verdict>>
  BY DEF HostTells, Arrives
<1>3. Taken(s, n) \in Channels /\ InOrder(Taken(s, n), conn) /\ m \in Msg
  BY <1>2, ClientLinked
<1> HIDE DEF s, m
<1>4. m.id \in Node
  BY <1>2, <1>3 DEF Msg
<1>5. InOrder(chan, conn)'
  BY <1>2, <1>3 DEF InOrder
<1>6. IsRegistry(reg[n]) /\ OneEntryEach(reg[n]) /\ announced[n] = Registered(reg[n])
      /\ announced[n] \subseteq Id
  BY <1>1, <1>2 DEF TypeOK, PlayersShownRegistered
<1>7. IsRegistry(r) /\ OneEntryEach(r) /\ a = Registered(r) /\ a \subseteq Id
  <2>1. CASE m.kind = "add"
    <3>1. r = RegisterPeer(reg[n], m.id) /\ a = announced[n] \cup {m.id} /\ m.id \in Id
      BY <2>1, <1>4 DEF Id
    <3>2. /\ IsRegistry(RegisterPeer(reg[n], m.id))
          /\ OneEntryEach(RegisterPeer(reg[n], m.id))
          /\ Registered(RegisterPeer(reg[n], m.id)) = Registered(reg[n]) \cup {m.id}
      BY <1>6, <3>1, RegisterFacts
    <3> QED
      BY <3>1, <3>2, <1>6
  <2>2. CASE m.kind = "del"
    <3>1. r = UnregisterPeer(reg[n], m.id) /\ a = announced[n] \ {m.id}
      BY <2>2
    <3>2. /\ IsRegistry(UnregisterPeer(reg[n], m.id))
          /\ OneEntryEach(UnregisterPeer(reg[n], m.id))
          /\ Registered(UnregisterPeer(reg[n], m.id)) = Registered(reg[n]) \ {m.id}
      BY <1>6, UnregisterFacts
    <3> QED
      BY <3>1, <3>2, <1>6
  <2>3. CASE m.kind = "sync"
    <3>1. r = SetVersion(reg[n], m.id) /\ a = announced[n]
      BY <2>3
    <3> QED
      BY <3>1, <1>4, <1>6, SetVersionFacts
  <2> QED
    BY <1>2, <2>1, <2>2, <2>3 DEF AboutPeer
<1> HIDE DEF r, a
<1>8. TypeOK'
  BY <1>1, <1>2, <1>3, <1>7 DEF TypeOK, Channels
<1>9. PlayersShownRegistered' /\ \A k \in Node : OneEntryEach(reg[k])'
  BY <1>1, <1>2, <1>7 DEF TypeOK, PlayersShownRegistered
<1>10. OneHost' /\ RoleFitsState'
  BY <1>1, <1>2 DEF OneHost, RoleFitsState
<1> QED
  BY <1>5, <1>8, <1>9, <1>10 DEF SessionInv

LEMMA ReceivedInv ==
    ASSUME SessionInv, setting' = setting, NEW n \in Node,
           EventReceived(n) \/ SnapshotReceived(n)
    PROVE  SessionInv'
<1>1. /\ TypeOK /\ PlayersShownRegistered /\ OneHost /\ RoleFitsState
      /\ \A m \in Node : OneEntryEach(reg[m])
  BY DEF SessionInv
<1> DEFINE s == server[n]
<1>2. /\ role[n] = "client" /\ s # None /\ chan[<<s, n>>] # <<>>
      /\ chan' = Taken(s, n)
      /\ state' \in {state, [state EXCEPT ![n] = "CONNECTED_AS_PEER"]}
      /\ timer' \in {timer, [timer EXCEPT ![n] = @ \ {"grace"}]}
      /\ UNCHANGED <<role, server, dialing, conn, reg, pending, announced,
                     dropping, published, joins, verdict>>
  BY DEF EventReceived, SnapshotReceived, Arrives
<1>3. s \in Node /\ Taken(s, n) \in Channels /\ InOrder(Taken(s, n), conn)
      /\ state[n] # "IDLE"
  BY <1>2, ClientLinked
<1> HIDE DEF s
<1>4. InOrder(chan, conn)'
  BY <1>2, <1>3 DEF InOrder
<1>5. TypeOK'
  <2>1. state' \in [Node -> State]
    BY <1>1, <1>2 DEF TypeOK, State
  <2>2. timer' \in [Node -> SUBSET Timer]
    <3>1. timer \in [Node -> SUBSET Timer]
      BY <1>1 DEF TypeOK
    <3> QED
      BY <1>2, <3>1, OneSetChanged
  <2> QED
    BY <1>1, <1>2, <1>3, <2>1, <2>2 DEF TypeOK, Channels
<1>6. PlayersShownRegistered' /\ \A m \in Node : OneEntryEach(reg[m])'
  BY <1>1, <1>2 DEF PlayersShownRegistered
<1>7. OneHost' /\ RoleFitsState'
  BY <1>1, <1>2, <1>3 DEF TypeOK, OneHost, RoleFitsState, s
<1> QED
  BY <1>4, <1>5, <1>6, <1>7 DEF SessionInv

LEMMA TurnedAwayInv ==
    ASSUME SessionInv, setting' = setting, NEW n \in Node, TurnedAway(n)
    PROVE  SessionInv'
<1>1. /\ TypeOK /\ PlayersShownRegistered /\ OneHost /\ RoleFitsState
      /\ \A m \in Node : OneEntryEach(reg[m])
  BY DEF SessionInv
<1> DEFINE s == server[n]
<1>2. /\ role[n] = "client" /\ s # None /\ chan[<<s, n>>] # <<>>
      /\ conn' = [conn EXCEPT ![n] = {}]
      /\ state' = [state EXCEPT ![n] = "DISCONNECTED"]
      /\ UNCHANGED <<role, server, dialing, reg, pending, announced, dropping,
                     timer, published, joins, verdict>>
  BY DEF TurnedAway, Arrives
<1>3. PICK f \in setting.flushing : chan' = Cut(Taken(s, n), n, {s}, f)
  BY DEF TurnedAway
<1>4. s \in Node /\ Taken(s, n) \in Channels /\ InOrder(Taken(s, n), conn)
      /\ conn[n] = {s} /\ state[n] # "IDLE"
  BY <1>2, ClientLinked
<1> HIDE DEF s
<1>5. /\ chan' \in Channels /\ InOrder(chan', conn) /\ chan'[<<s, n>>] = <<>>
  <2>1. f \in BOOLEAN
    BY <1>1, <1>3, FlushingBoolean
  <2> QED
    BY <1>3, <1>4, <2>1, CutOrder
<1>6. InOrder(chan, conn)'
  BY <1>1, <1>2, <1>4, <1>5, EndClosed
<1>7. TypeOK'
  BY <1>1, <1>2, <1>5 DEF TypeOK, State, Channels
<1>8. PlayersShownRegistered' /\ \A m \in Node : OneEntryEach(reg[m])'
  BY <1>1, <1>2 DEF PlayersShownRegistered
<1>9. OneHost' /\ RoleFitsState'
  BY <1>1, <1>2, <1>4 DEF TypeOK, OneHost, RoleFitsState
<1> QED
  BY <1>6, <1>7, <1>8, <1>9 DEF SessionInv

LEMMA HostClosedInv ==
    ASSUME SessionInv, setting' = setting, NEW n \in Node, HostClosed(n)
    PROVE  SessionInv'
<1>1. /\ TypeOK /\ PlayersShownRegistered /\ OneHost /\ RoleFitsState
      /\ \A m \in Node : OneEntryEach(reg[m])
  BY DEF SessionInv
<1> DEFINE s == server[n]
<1>2. /\ role[n] = "client" /\ s # None /\ chan[<<s, n>>] # <<>>
      /\ Head(chan[<<s, n>>]).kind = "closed"
      /\ conn' = [conn EXCEPT ![n] = @ \ {s}]
      /\ chan' = Taken(s, n)
      /\ state' = IF state[n] = "CONNECTED_AS_PEER"
                  THEN [state EXCEPT ![n] = "FAILOVER_DETECTING"] ELSE state
      /\ timer' \in {timer, [timer EXCEPT ![n] = @ \cup {"failover"}]}
      /\ \/ UNCHANGED <<reg, announced>>
         \/ /\ reg' = [reg EXCEPT ![n] = UnregisterPeer(@, HostId)]
            /\ announced' = [announced EXCEPT ![n] = @ \ {HostId}]
      /\ UNCHANGED <<role, server, dialing, pending, dropping, published, joins,
                     verdict>>
  BY DEF HostClosed, Arrives
<1>3. s \in Node /\ Taken(s, n) \in Channels /\ InOrder(Taken(s, n), conn)
      /\ conn[n] = {s} /\ state[n] # "IDLE" /\ ~dialing[n]
      /\ Taken(s, n)[<<s, n>>] = <<>>
  BY <1>2, ClientLinked
<1> HIDE DEF s
<1>4. InOrder(chan, conn)'
  <2>1. \A a \in conn[n] \ (conn[n] \ {s}) : chan'[<<a, n>>] = <<>>
    BY <1>2, <1>3
  <2> QED
    BY <1>1, <1>2, <1>3, <2>1, EndClosed
<1>5. /\ IsRegistry(UnregisterPeer(reg[n], HostId)) /\ OneEntryEach(UnregisterPeer(reg[n], HostId))
      /\ Registered(UnregisterPeer(reg[n], HostId)) = Registered(reg[n]) \ {HostId}
  BY <1>1, UnregisterFacts DEF TypeOK
<1>6. TypeOK'
  <2>1. state' \in [Node -> State] /\ conn' \in [Node -> SUBSET Node]
    BY <1>1, <1>2 DEF TypeOK, State
  <2>2. timer' \in [Node -> SUBSET Timer]
    <3>1. timer \in [Node -> SUBSET Timer] /\ "failover" \in Timer
      BY <1>1 DEF TypeOK, Timer
    <3> QED
      BY <1>2, <3>1, OneSetChanged
  <2>3. announced' \in [Node -> SUBSET Id]
    <3>1. announced \in [Node -> SUBSET Id]
      BY <1>1 DEF TypeOK
    <3>2. announced' \in {announced, [announced EXCEPT ![n] = @ \ {HostId}]}
      BY <1>2
    <3> QED
      BY <3>1, <3>2, OneSetChanged
  <2>4. DOMAIN reg' = Node /\ \A m \in Node : IsRegistry(reg'[m])
    BY <1>1, <1>2, <1>5 DEF TypeOK
  <2> QED
    BY <1>1, <1>2, <1>3, <2>1, <2>2, <2>3, <2>4 DEF TypeOK, Channels
<1>7. PlayersShownRegistered' /\ \A m \in Node : OneEntryEach(reg[m])'
  BY <1>1, <1>2, <1>5 DEF TypeOK, PlayersShownRegistered
<1>8. OneHost'
  BY <1>1, <1>2, <1>3 DEF TypeOK, OneHost
<1>9. RoleFitsState'
  BY <1>1, <1>2, <1>3 DEF TypeOK, RoleFitsState
<1> QED
  BY <1>4, <1>6, <1>7, <1>8, <1>9 DEF SessionInv

(***************************************************************************)
(* The timers and the failover keep the invariant.                         *)
(***************************************************************************)

(* A step that only takes a timer off and changes the state of a player to
   one that says nothing of its links, from one in which no player begins or
   hosts.                                                                  *)
LEMMA TimerInv ==
    ASSUME SessionInv, setting' = setting, NEW n \in Node, NEW t,
           timer' = [timer EXCEPT ![n] = @ \ {t}],
           NEW to \in {"DISCONNECTED", "RECONNECTING"},
           \/ state' = state
           \/ state[n] # "IDLE" /\ state' = [state EXCEPT ![n] = to],
           UNCHANGED <<role, server, dialing, conn, chan, reg, pending, announced,
                       dropping, published, joins, verdict>>
    PROVE  SessionInv'
<1>1. /\ TypeOK /\ PlayersShownRegistered /\ OneHost /\ RoleFitsState
      /\ InOrder(chan, conn) /\ \A m \in Node : OneEntryEach(reg[m])
  BY DEF SessionInv
<1>2. TypeOK'
  <2>1. timer \in [Node -> SUBSET Timer] /\ state \in [Node -> State]
    BY <1>1 DEF TypeOK
  <2>2. timer' \in [Node -> SUBSET Timer] /\ state' \in [Node -> State]
    BY <2>1, OneSetChanged DEF State
  <2> QED
    BY <1>1, <2>2 DEF TypeOK
<1>3. InOrder(chan, conn)' /\ PlayersShownRegistered' /\ \A m \in Node : OneEntryEach(reg[m])'
  BY <1>1 DEF InOrder, PlayersShownRegistered
<1>4. OneHost' /\ RoleFitsState'
  BY <1>1 DEF TypeOK, OneHost, RoleFitsState
<1> QED
  BY <1>2, <1>3, <1>4 DEF SessionInv

LEMMA ConnectingTimeoutInv ==
    ASSUME SessionInv, setting' = setting, NEW n \in Node, ConnectingTimeout(n)
    PROVE  SessionInv'
<1>1. /\ timer' = [timer EXCEPT ![n] = @ \ {"connecting"}]
      /\ \/ state' = state
         \/ state[n] # "IDLE" /\ state' = [state EXCEPT ![n] = "DISCONNECTED"]
      /\ UNCHANGED <<role, server, dialing, conn, chan, reg, pending, announced,
                     dropping, published, joins, verdict>>
  BY DEF ConnectingTimeout
<1> QED
  BY <1>1, TimerInv

LEMMA GraceTimeoutInv ==
    ASSUME SessionInv, setting' = setting, NEW n \in Node, GraceTimeout(n)
    PROVE  SessionInv'
<1>1. /\ timer' = [timer EXCEPT ![n] = @ \ {"grace"}]
      /\ \/ state' = state
         \/ state[n] # "IDLE" /\ state' = [state EXCEPT ![n] = "DISCONNECTED"]
      /\ UNCHANGED <<role, server, dialing, conn, chan, reg, pending, announced,
                     dropping, published, joins, verdict>>
  BY DEF GraceTimeout
<1> QED
  BY <1>1, TimerInv

LEMMA NewHostAnnouncedInv ==
    ASSUME SessionInv, setting' = setting, NEW n \in Node, NewHostAnnounced(n)
    PROVE  SessionInv'
<1>1. /\ TypeOK /\ PlayersShownRegistered /\ OneHost /\ RoleFitsState
      /\ InOrder(chan, conn) /\ \A m \in Node : OneEntryEach(reg[m])
  BY DEF SessionInv
<1>2. /\ state[n] = "FAILOVER_WAITING"
      /\ state' = [state EXCEPT ![n] = "RECONNECTING"]
      /\ dialing' = [dialing EXCEPT ![n] = TRUE]
      /\ UNCHANGED <<role, server, conn, chan, reg, pending, announced, dropping,
                     timer, published, joins, verdict>>
  BY DEF NewHostAnnounced
<1>3. TypeOK'
  BY <1>1, <1>2 DEF TypeOK, State
<1>4. InOrder(chan, conn)' /\ PlayersShownRegistered' /\ \A m \in Node : OneEntryEach(reg[m])'
  BY <1>1, <1>2 DEF InOrder, PlayersShownRegistered
<1>5. OneHost' /\ RoleFitsState'
  BY <1>1, <1>2 DEF TypeOK, OneHost, RoleFitsState
<1> QED
  BY <1>3, <1>4, <1>5 DEF SessionInv

(* The outcomes of an election: the player who takes over, the one who waits. *)
LEMMA PromoteInv ==
    ASSUME SessionInv, setting' = setting, NEW n \in Node, Promote(n),
           state[n] = "FAILOVER_DETECTING",
           verdict' \in [Node -> Election \cup {None}],
           UNCHANGED <<dialing, pending, announced, dropping, joins>>
    PROVE  SessionInv'
<1>1. /\ TypeOK /\ PlayersShownRegistered /\ OneHost /\ RoleFitsState
      /\ InOrder(chan, conn) /\ \A m \in Node : OneEntryEach(reg[m])
  BY DEF SessionInv
<1>2. /\ state' = [state EXCEPT ![n] = "FAILOVER_PROMOTING"]
      /\ role' = [role EXCEPT ![n] = "server"]
      /\ server' = [server EXCEPT ![n] = n]
      /\ chan' = Cut(chan, n, conn[n], FALSE)
      /\ conn' = [conn EXCEPT ![n] = {}]
      /\ reg' = [reg EXCEPT ![n] = NoPeers]
      /\ published' = n
      /\ timer' = [timer EXCEPT ![n] = @ \ {"failover"}]
  BY DEF Promote
<1>3. conn[n] = {} /\ ~dialing[n]
  BY <1>1 DEF OneHost
<1>4. chan' \in Channels /\ InOrder(chan', conn)
  <2>1. FALSE \in BOOLEAN /\ chan \in Channels
    BY <1>1 DEF TypeOK, Channels
  <2> QED
    BY <1>1, <1>2, <2>1, CutOrder
<1>5. InOrder(chan, conn)'
  BY <1>1, <1>2, <1>3, <1>4, EndClosed
<1>6. TypeOK'
  <2>1. timer \in [Node -> SUBSET Timer] /\ state \in [Node -> State]
    BY <1>1 DEF TypeOK
  <2>2. timer' \in [Node -> SUBSET Timer] /\ state' \in [Node -> State]
    BY <1>2, <2>1, OneSetChanged DEF State
  <2>3. DOMAIN reg' = Node /\ \A m \in Node : IsRegistry(reg'[m])
    BY <1>1, <1>2, NoPeersFacts DEF TypeOK
  <2>4. conn' \in [Node -> SUBSET Node] /\ server' \in [Node -> Node \cup {None}]
        /\ role' \in [Node -> {"none", "client", "server"}]
    BY <1>1, <1>2 DEF TypeOK
  <2> QED
    BY <1>1, <1>2, <1>4, <2>2, <2>3, <2>4 DEF TypeOK, Channels
<1>7. PlayersShownRegistered' /\ \A m \in Node : OneEntryEach(reg[m])'
  BY <1>1, <1>2, NoPeersFacts DEF TypeOK, PlayersShownRegistered
<1>8. OneHost' /\ RoleFitsState'
  BY <1>1, <1>2, <1>3 DEF TypeOK, OneHost, RoleFitsState
<1> QED
  BY <1>5, <1>6, <1>7, <1>8 DEF SessionInv

LEMMA AwaitInv ==
    ASSUME SessionInv, setting' = setting, NEW n \in Node, Await(n),
           state[n] = "FAILOVER_DETECTING",
           verdict' \in [Node -> Election \cup {None}],
           UNCHANGED <<dialing, pending, announced, dropping, joins>>
    PROVE  SessionInv'
<1>1. /\ TypeOK /\ PlayersShownRegistered /\ OneHost /\ RoleFitsState
      /\ InOrder(chan, conn) /\ \A m \in Node : OneEntryEach(reg[m])
  BY DEF SessionInv
<1>2. /\ state' = [state EXCEPT ![n] = "FAILOVER_WAITING"]
      /\ timer' = [timer EXCEPT ![n] = (@ \ {"failover"}) \cup {"grace"}]
      /\ UNCHANGED <<role, server, chan, conn, reg, published>>
  BY DEF Await
<1>3. TypeOK'
  <2>1. state' \in [Node -> State]
    BY <1>1, <1>2 DEF TypeOK, State
  <2>2. timer' \in [Node -> SUBSET Timer]
    <3>1. timer \in [Node -> SUBSET Timer] /\ "grace" \in Timer
      BY <1>1 DEF TypeOK, Timer
    <3> QED
      BY <1>2, <3>1
  <2> QED
    BY <1>1, <1>2, <2>1, <2>2 DEF TypeOK
<1>4. InOrder(chan, conn)' /\ PlayersShownRegistered' /\ \A m \in Node : OneEntryEach(reg[m])'
  BY <1>1, <1>2 DEF InOrder, PlayersShownRegistered
<1>5. OneHost' /\ RoleFitsState'
  BY <1>1, <1>2 DEF TypeOK, OneHost, RoleFitsState
<1> QED
  BY <1>3, <1>4, <1>5 DEF SessionInv

LEMMA FailoverTimeoutInv ==
    ASSUME SessionInv, setting' = setting, NEW n \in Node, FailoverTimeout(n)
    PROVE  SessionInv'
<1>1. TypeOK /\ RoleFitsState
  BY DEF SessionInv
<1> DEFINE winner == ElectedHost(reg[n], n)
<1>2. UNCHANGED <<dialing, pending, announced, dropping, joins>>
  BY DEF FailoverTimeout
<1>3. CASE state[n] # "FAILOVER_DETECTING"
  <2>1. /\ timer' = [timer EXCEPT ![n] = @ \ {"failover"}]
        /\ state' = state
        /\ UNCHANGED <<role, server, dialing, conn, chan, reg, pending, announced,
                       dropping, published, joins, verdict>>
    BY <1>3 DEF FailoverTimeout
  <2> QED
    BY <2>1, TimerInv
<1>4. CASE state[n] = "FAILOVER_DETECTING"
  <2>1. PICK me \in {n, HostId} :
          /\ verdict' = [verdict EXCEPT ![n] =
                [lost |-> server[n],
                 winner |-> IF winner \in {None, me} THEN n ELSE winner]]
          /\ IF winner \in {None, me} THEN Promote(n) ELSE Await(n)
    BY <1>4 DEF FailoverTimeout
  <2>2. winner \in Id \cup {None}
    <3>1. IsRegistry(reg[n])
      BY <1>1 DEF TypeOK
    <3>2. winner \in Registered(reg[n]) \cup {None}
      BY <3>1, ElectedKnown
    <3>3. Registered(reg[n]) \subseteq Id
      BY <3>1, LenProperties DEF IsRegistry, Registered
    <3> QED
      BY <3>2, <3>3
  <2> HIDE DEF winner
  <2>3. verdict' \in [Node -> Election \cup {None}]
    <3>1. server[n] \in Node
      BY <1>1, <1>4 DEF RoleFitsState
    <3>2. [lost |-> server[n],
           winner |-> IF winner \in {None, me} THEN n ELSE winner] \in Election
      BY <2>2, <3>1 DEF Election, Id
    <3> QED
      BY <1>1, <2>1, <3>2 DEF TypeOK
  <2>4. CASE Promote(n)
    BY <1>2, <1>4, <2>3, <2>4, PromoteInv
  <2>5. CASE Await(n)
    BY <1>2, <1>4, <2>3, <2>5, AwaitInv
  <2> QED
    BY <2>1, <2>4, <2>5
<1> QED
  BY <1>3, <1>4

(***************************************************************************)
(* The theorems.                                                           *)
(***************************************************************************)

LEMMA SessionStep == SessionInv /\ [Next]_<<vars, setting>> => SessionInv'
<1> SUFFICES ASSUME SessionInv, [Next]_<<vars, setting>> PROVE SessionInv'
  OBVIOUS
<1>1. CASE UNCHANGED <<vars, setting>>
  BY <1>1 DEF vars, SessionInv, TypeOK, PlayersShownRegistered, InOrder, OneHost,
     RoleFitsState
<1>2. CASE Next
  <2>1. setting' = setting
    BY <1>2 DEF Next
  <2>2. ASSUME NEW n \in Node, ClientStep(n) PROVE SessionInv'
    BY <2>1, <2>2, HostOpenedInv, HostTellsInv, ReceivedInv, TurnedAwayInv,
       HostClosedInv DEF ClientStep
  <2>3. ASSUME NEW n \in Node, TimerStep(n) PROVE SessionInv'
    BY <2>1, <2>3, ConnectingTimeoutInv, FailoverTimeoutInv, GraceTimeoutInv
       DEF TimerStep
  <2>4. ASSUME NEW s \in Node, NEW p \in Node, HostStep(s, p) PROVE SessionInv'
    BY <2>1, <2>4, PeerOpenedInv, VersionReportedInv, PeerLeftInv, DropAfterFrameInv
       DEF HostStep
  <2>5. ASSUME NEW n \in Node, StartHost(n) \/ StartPeer(n) \/ Leave(n) \/ Crash(n)
        PROVE  SessionInv'
    BY <2>1, <2>5, StartHostInv, StartPeerInv, LeaveInv, CrashInv
  <2>6. ASSUME NEW n \in Node, BroadcastEvent(n) \/ NewHostAnnounced(n) PROVE SessionInv'
    BY <2>1, <2>6, BroadcastEventInv, NewHostAnnouncedInv
  <2>7. ASSUME NEW s \in Node, NEW p \in Node,
               Open(s, p) \/ LinkBreaks(s, p) \/ KickPeer(s, p) \/ KeepaliveTimeout(s, p)
        PROVE  SessionInv'
    BY <2>1, <2>7, OpenInv, LinkBreaksInv, KickPeerInv, KeepaliveTimeoutInv
  <2> QED
    BY <1>2, <2>2, <2>3, <2>4, <2>5, <2>6, <2>7 DEF Next
<1> QED
  BY <1>1, <1>2

LEMMA SessionInvariant == Spec => []SessionInv
  BY SessionInit, SessionStep, PTL DEF Spec

(* Every variable keeps its type: what is under way names only players, and
   the election of a host that was lost names a player.                    *)
THEOREM TypeCorrect == Spec => []TypeOK
<1>1. SessionInv => TypeOK
  BY DEF SessionInv
<1> QED
  BY <1>1, SessionInvariant, PTL

(* A client shows exactly the players its registry holds, in any order of
   openings, relayed arrivals, closings, kicks, timeouts and retries.      *)
THEOREM PlayersShownRegisteredCorrect == Spec => []PlayersShownRegistered
<1>1. SessionInv => PlayersShownRegistered
  BY DEF SessionInv
<1> QED
  BY <1>1, SessionInvariant, PTL

(* Outside a promotion the only handler by which a host shows one more player
   is the one that has just found its version report to match.              *)
LEMMA WhoAnnounces ==
    ASSUME SessionInv, Next, NEW s \in Node, NEW p, p \in announced'[s] \ announced[s],
           role[s] = "server", state[s] # "FAILOVER_PROMOTING"
    PROVE  p \in Node /\ VersionReported(s, p) /\ Version[p] = Version[s]
<1>1. TypeOK
  BY DEF SessionInv
<1> USE <1>1 DEF TypeOK
<1>2. ASSUME NEW n \in Node, ClientStep(n) PROVE FALSE
  <2>1. role[n] = "client"
    BY <1>2 DEF ClientStep, HostOpened, HostTells, EventReceived, TurnedAway,
       SnapshotReceived, HostClosed
  <2>2. announced'[s] = announced[s]
    <3>1. announced' = announced \/ \E S : announced' = [announced EXCEPT ![n] = S]
      BY <1>2 DEF ClientStep, HostOpened, HostTells, EventReceived, TurnedAway,
         SnapshotReceived, HostClosed
    <3> QED
      BY <2>1, <3>1
  <2> QED
    BY <2>2
<1>3. ASSUME NEW n \in Node, TimerStep(n) \/ NewHostAnnounced(n) PROVE FALSE
  BY <1>3 DEF TimerStep, ConnectingTimeout, FailoverTimeout, GraceTimeout,
     NewHostAnnounced
<1>4. ASSUME NEW n \in Node,
             StartHost(n) \/ StartPeer(n) \/ Leave(n) \/ Crash(n) \/ BroadcastEvent(n)
      PROVE  FALSE
  BY <1>4 DEF StartHost, StartPeer, Leave, Crash, BroadcastEvent
<1>5. ASSUME NEW a \in Node, NEW b \in Node,
             Open(a, b) \/ LinkBreaks(a, b) \/ KickPeer(a, b) \/ PeerOpened(a, b)
      PROVE  FALSE
  BY <1>5 DEF Open, LinkBreaks, KickPeer, PeerOpened
<1>6. ASSUME NEW a \in Node, NEW b \in Node,
             PeerLeft(a, b) \/ DropAfterFrame(a, b) \/ KeepaliveTimeout(a, b)
      PROVE  FALSE
  <2>1. announced' = [announced EXCEPT ![a] = @ \ {b}]
    BY <1>6 DEF PeerLeft, DropAfterFrame, KeepaliveTimeout, DisconnectPeer
  <2> QED
    BY <2>1
<1>7. ASSUME NEW a \in Node, NEW b \in Node, VersionReported(a, b)
      PROVE  p \in Node /\ VersionReported(s, p) /\ Version[p] = Version[s]
  <2>1. a = s /\ b = p /\ Version[b] = Version[a]
    BY <1>7 DEF VersionReported
  <2> QED
    BY <1>7, <2>1
<1> QED
  BY <1>2, <1>3, <1>4, <1>5, <1>6, <1>7 DEF Next, HostStep

(* Outside a promotion a host never announces a player with another build. *)
THEOREM GateHoldsCorrect == Spec => GateHolds
<1>1. SessionInv /\ [Next]_<<vars, setting>> =>
          [\A s, p \in Node :
              /\ role[s] = "server" /\ state[s] # "FAILOVER_PROMOTING"
              /\ p \in announced'[s] \ announced[s]
              => Version[p] = Version[s]]_vars
  BY WhoAnnounces DEF vars
<1> QED
  BY <1>1, SessionInvariant, PTL DEF Spec, GateHolds

(* The state and the role of a player are written by its own handlers only,
   and those that take it into or out of a session are these.              *)
LEMMA WhoIsPromoted ==
    ASSUME SessionInv, Next, NEW n \in Node, role[n] = "client", role'[n] = "server"
    PROVE  state[n] = "FAILOVER_DETECTING"
<1>1. TypeOK /\ RoleFitsState
  BY DEF SessionInv
<1>2. CASE role' = role
  BY <1>2
<1>3. ASSUME NEW m \in Node, StartHost(m) PROVE FALSE
  <2>1. state[m] = "IDLE" /\ role' = [role EXCEPT ![m] = "server"]
    BY <1>3 DEF StartHost
  <2> QED
    BY <1>1, <2>1 DEF TypeOK, RoleFitsState
<1>4. ASSUME NEW m \in Node, StartPeer(m) PROVE FALSE
  <2>1. role' = [role EXCEPT ![m] = "client"]
    BY <1>4 DEF StartPeer
  <2> QED
    BY <1>1, <2>1 DEF TypeOK
<1>5. ASSUME NEW m \in Node, FailoverTimeout(m) PROVE state[n] = "FAILOVER_DETECTING"
  <2>1. role' = role \/ (state[m] = "FAILOVER_DETECTING" /\ role' = [role EXCEPT ![m] = "server"])
    BY <1>5 DEF FailoverTimeout, Promote, Await
  <2> QED
    BY <1>1, <2>1 DEF TypeOK
<1>6. \/ role' = role
      \/ \E m \in Node : StartHost(m) \/ StartPeer(m) \/ FailoverTimeout(m)
  <2>1. ASSUME NEW m \in Node, ClientStep(m) PROVE role' = role
    BY <2>1 DEF ClientStep, HostOpened, HostTells, EventReceived, TurnedAway,
       SnapshotReceived, HostClosed
  <2>2. ASSUME NEW m \in Node, TimerStep(m) PROVE role' = role \/ FailoverTimeout(m)
    BY <2>2 DEF TimerStep, ConnectingTimeout, GraceTimeout
  <2>3. ASSUME NEW m \in Node,
               Leave(m) \/ Crash(m) \/ BroadcastEvent(m) \/ NewHostAnnounced(m)
        PROVE  role' = role
    BY <2>3 DEF Leave, Crash, BroadcastEvent, NewHostAnnounced
  <2>4. ASSUME NEW a \in Node, NEW b \in Node, HostStep(a, b) PROVE role' = role
    BY <2>4 DEF HostStep, PeerOpened, VersionReported, PeerLeft, DropAfterFrame
  <2>5. ASSUME NEW a \in Node, NEW b \in Node,
               Open(a, b) \/ LinkBreaks(a, b) \/ KickPeer(a, b) \/ KeepaliveTimeout(a, b)
        PROVE  role' = role
    BY <2>5 DEF Open, LinkBreaks, KickPeer, KeepaliveTimeout
  <2> QED
    BY <2>1, <2>2, <2>3, <2>4, <2>5 DEF Next
<1> QED
  BY <1>2, <1>3, <1>4, <1>5, <1>6

(* No failover timer left over from an earlier session promotes a player who
   has a link.                                                             *)
THEOREM PromotedOnlyWhenCutOffCorrect == Spec => PromotedOnlyWhenCutOff
<1>1. SessionInv /\ [Next]_<<vars, setting>> =>
          [\A n \in Node : role[n] = "client" /\ role'[n] = "server" => conn[n] = {}]_vars
  <2> SUFFICES ASSUME SessionInv, Next, NEW n \in Node,
                      role[n] = "client", role'[n] = "server"
               PROVE  conn[n] = {}
    BY DEF vars
  <2> QED
    BY WhoIsPromoted DEF SessionInv, OneHost
<1> QED
  BY <1>1, SessionInvariant, PTL DEF Spec, PromotedOnlyWhenCutOff

(* The handlers that end a session for a player.                           *)
LEMMA WhoEndsTheSession ==
    ASSUME SessionInv, Next, NEW n \in Node,
           state[n] = "CONNECTED_AS_PEER", state'[n] # state[n]
    PROVE  Leave(n) \/ TurnedAway(n) \/ HostClosed(n)
<1>1. TypeOK
  BY DEF SessionInv
<1> USE <1>1 DEF TypeOK
<1>2. ASSUME NEW m \in Node,
             StartHost(m) \/ StartPeer(m) \/ Crash(m) \/ BroadcastEvent(m)
               \/ NewHostAnnounced(m)
      PROVE  FALSE
  BY <1>2 DEF StartHost, StartPeer, Crash, BroadcastEvent, NewHostAnnounced
<1>3. ASSUME NEW m \in Node, TimerStep(m) PROVE FALSE
  <2>1. \/ state' = state
        \/ /\ state[m] # "CONNECTED_AS_PEER"
           /\ \E to \in State \ {"CONNECTED_AS_PEER"} : state' = [state EXCEPT ![m] = to]
    <3>1. CASE ConnectingTimeout(m)
      BY <3>1 DEF ConnectingTimeout, State
    <3>2. CASE GraceTimeout(m)
      BY <3>2 DEF GraceTimeout, State
    <3>3. CASE FailoverTimeout(m)
      <4>1. \/ state' = state
            \/ state[m] = "FAILOVER_DETECTING" /\ (Promote(m) \/ Await(m))
        BY <3>3 DEF FailoverTimeout
      <4>2. Promote(m) => state' = [state EXCEPT ![m] = "FAILOVER_PROMOTING"]
        BY DEF Promote
      <4>3. Await(m) => state' = [state EXCEPT ![m] = "FAILOVER_WAITING"]
        BY DEF Await
      <4> QED
        BY <4>1, <4>2, <4>3 DEF State
    <3> QED
      BY <1>3, <3>1, <3>2, <3>3 DEF TimerStep
  <2> QED
    BY <2>1
<1>4. ASSUME NEW m \in Node,
             HostOpened(m) \/ HostTells(m) \/ EventReceived(m) \/ SnapshotReceived(m)
      PROVE  FALSE
  BY <1>4 DEF HostOpened, HostTells, EventReceived, SnapshotReceived
<1>5. ASSUME NEW m \in Node, Leave(m) \/ TurnedAway(m) \/ HostClosed(m) PROVE m = n
  BY <1>5 DEF Leave, TurnedAway, HostClosed
<1>6. ASSUME NEW s \in Node, NEW p \in Node,
             \/ Open(s, p) \/ LinkBreaks(s, p) \/ KickPeer(s, p) \/ KeepaliveTimeout(s, p)
             \/ HostStep(s, p)
      PROVE  FALSE
  BY <1>6 DEF Open, LinkBreaks, KickPeer, KeepaliveTimeout, HostStep, PeerOpened,
     VersionReported, PeerLeft, DropAfterFrame
<1> QED
  BY <1>2, <1>3, <1>4, <1>5, <1>6 DEF Next, ClientStep

(* A session ends only with the link to its host.                          *)
THEOREM ConnectedUntilToldOrLostCorrect == Spec => ConnectedUntilToldOrLost
<1>1. SessionInv /\ [Next]_<<vars, setting>> =>
          [\A n \in Node : state[n] = "CONNECTED_AS_PEER" /\ state'[n] # state[n]
                => conn'[n] = {}]_vars
  <2> SUFFICES ASSUME SessionInv, Next, NEW n \in Node,
                      state[n] = "CONNECTED_AS_PEER", state'[n] # state[n]
               PROVE  conn'[n] = {}
    BY DEF vars
  <2>1. TypeOK
    BY DEF SessionInv
  <2>2. CASE Leave(n) \/ TurnedAway(n)
    BY <2>1, <2>2 DEF TypeOK, Leave, TurnedAway
  <2>3. CASE HostClosed(n)
    <3>1. conn[n] = {server[n]}
      BY <2>3, ClientLinked DEF HostClosed, Arrives
    <3>2. conn' = [conn EXCEPT ![n] = @ \ {server[n]}]
      BY <2>3 DEF HostClosed
    <3> QED
      BY <2>1, <3>1, <3>2 DEF TypeOK
  <2> QED
    BY <2>2, <2>3, WhoEndsTheSession
<1> QED
  BY <1>1, SessionInvariant, PTL DEF Spec, ConnectedUntilToldOrLost

(* The handlers that bring a player into a session.                        *)
LEMMA WhoBeginsTheSession ==
    ASSUME SessionInv, Next, NEW n \in Node,
           state[n] # "CONNECTED_AS_PEER", state'[n] = "CONNECTED_AS_PEER"
    PROVE  HostOpened(n) \/ SnapshotReceived(n)
<1>1. TypeOK
  BY DEF SessionInv
<1> USE <1>1 DEF TypeOK
<1>2. ASSUME NEW m \in Node,
             StartHost(m) \/ StartPeer(m) \/ Leave(m) \/ Crash(m) \/ BroadcastEvent(m)
               \/ NewHostAnnounced(m)
      PROVE  FALSE
  BY <1>2 DEF StartHost, StartPeer, Leave, Crash, BroadcastEvent, NewHostAnnounced
<1>3. ASSUME NEW m \in Node, TimerStep(m) PROVE FALSE
  <2>1. \/ state' = state
        \/ /\ state[m] # "CONNECTED_AS_PEER"
           /\ \E to \in State \ {"CONNECTED_AS_PEER"} : state' = [state EXCEPT ![m] = to]
    <3>1. CASE ConnectingTimeout(m)
      BY <3>1 DEF ConnectingTimeout, State
    <3>2. CASE GraceTimeout(m)
      BY <3>2 DEF GraceTimeout, State
    <3>3. CASE FailoverTimeout(m)
      <4>1. \/ state' = state
            \/ state[m] = "FAILOVER_DETECTING" /\ (Promote(m) \/ Await(m))
        BY <3>3 DEF FailoverTimeout
      <4>2. Promote(m) => state' = [state EXCEPT ![m] = "FAILOVER_PROMOTING"]
        BY DEF Promote
      <4>3. Await(m) => state' = [state EXCEPT ![m] = "FAILOVER_WAITING"]
        BY DEF Await
      <4> QED
        BY <4>1, <4>2, <4>3 DEF State
    <3> QED
      BY <1>3, <3>1, <3>2, <3>3 DEF TimerStep
  <2> QED
    BY <2>1
<1>4. ASSUME NEW m \in Node,
             HostTells(m) \/ EventReceived(m) \/ TurnedAway(m) \/ HostClosed(m)
      PROVE  FALSE
  BY <1>4 DEF HostTells, EventReceived, TurnedAway, HostClosed
<1>5. ASSUME NEW m \in Node, HostOpened(m) \/ SnapshotReceived(m) PROVE m = n
  BY <1>5 DEF HostOpened, SnapshotReceived
<1>6. ASSUME NEW s \in Node, NEW p \in Node,
             \/ Open(s, p) \/ LinkBreaks(s, p) \/ KickPeer(s, p) \/ KeepaliveTimeout(s, p)
             \/ HostStep(s, p)
      PROVE  FALSE
  BY <1>6 DEF Open, LinkBreaks, KickPeer, KeepaliveTimeout, HostStep, PeerOpened,
     VersionReported, PeerLeft, DropAfterFrame
<1> QED
  BY <1>2, <1>3, <1>4, <1>5, <1>6 DEF Next, ClientStep

(* Whoever gets into a session, or back into one, has a link to its host.  *)
THEOREM BackOnlyWithLinkCorrect == Spec => BackOnlyWithLink
<1>1. SessionInv /\ [Next]_<<vars, setting>> =>
          [\A n \in Node :
              state[n] # "CONNECTED_AS_PEER" /\ state'[n] = "CONNECTED_AS_PEER"
                => server'[n] \in conn'[n]]_vars
  <2> SUFFICES ASSUME SessionInv, Next, NEW n \in Node,
                      state[n] # "CONNECTED_AS_PEER", state'[n] = "CONNECTED_AS_PEER"
               PROVE  server'[n] \in conn'[n]
    BY DEF vars
  <2>1. HostOpened(n) \/ SnapshotReceived(n)
    BY WhoBeginsTheSession
  <2>2. conn[n] = {server[n]} /\ server' = server /\ conn' = conn
    BY <2>1, ClientLinked DEF HostOpened, SnapshotReceived, Arrives
  <2> QED
    BY <2>2
<1> QED
  BY <1>1, SessionInvariant, PTL DEF Spec, BackOnlyWithLink
=============================================================================
