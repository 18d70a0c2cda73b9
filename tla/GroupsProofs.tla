---------------------------- MODULE GroupsProofs ----------------------------
(***************************************************************************)
(* Groups and acknowledged updates, for any number of members, groups and  *)
(* operations.                                                             *)
(***************************************************************************)
EXTENDS Groups, SequenceTheorems, FunctionTheorems, FiniteSetTheorems, WellFoundedInduction, TLAPS

-------------------------------------------------------------------------------
(* Types.                                                                    *)

\* The requests that are acknowledged, and the operations that make them.
Requests == {"allocate", "join", "leave", "info"}
AskedBy == [allocate |-> "create", join |-> "add", leave |-> "remove", info |-> "info"]

Kinds == [o \in OpIds |-> op[o].kind]

Pkts == [t : PacketTypes, g : Nat, o : 0..MaxOps, cb : {"none", "count", "register"}, r : Results,
         s : SUBSET Nat, p : SUBSET Nodes, v : 0..MaxOps, d : 0..MaxOps]

\* The op in a packet has been issued, and made a request of this type; only the ack of
\* an allocation brings an id.
Fits(p, K) ==
    /\ p.cb # "none" \/ p.t \in Requests \cup {"ack"} => p.o \in OpIds /\ K[p.o] # "none"
    /\ p.t \in Requests => K[p.o] = AskedBy[p.t]
    /\ p.cb = "register" => p.t \in Requests
    /\ p.t = "ack" => /\ p.r \in ResultsOf(K[p.o])
                      /\ IF K[p.o] = "create" THEN p.r = "ok" /\ p.g # 0 ELSE p.g = 0

FitPkts(K) == {p \in Pkts : Fits(p, K)}
QueueSet(K) == [Nodes -> [Nodes -> Seq(FitPkts(K))]]

Readings == [at : {"idle", "destroying", "join", "joined"}, g : Nat, o : 0..MaxOps]
ThreadSet == [n : Nodes, k : {"create", "destroy", "destroying", "add", "remove", "info"}, o : OpIds, g : Nat]
OpRecs == [kind : AllKinds \cup {"none"}, node : Nodes, g : Nat, target : Nodes, pending : Int,
           result : Results, lost : Nat]

\* Finite sets of ids.
GroupTables == {G \in [Nodes -> SUBSET Nat] : \A n \in Nodes : IsFiniteSet(G[n])}

Packeted == high \in QueueSet(Kinds) /\ medium \in QueueSet(Kinds) /\ wire \in QueueSet(Kinds)

Tabled ==
    /\ scenario \in Scenarios
    /\ sess \in [Nodes -> {"out", "connecting", "connected", "terminated"}]
    /\ link \in [Nodes -> [Nodes -> {"none", "requesting", "connected", "failing", "closing", "gone"}]]
    /\ reading \in [Nodes -> [Nodes -> Readings]]
    /\ groups \in GroupTables /\ destroyed \in GroupTables
    /\ next_id \in Nat \ {0}
    /\ info \in [Nodes -> [Nodes -> 0..MaxOps]] /\ desc \in [Nodes -> 0..MaxOps]
    /\ told \in [Nodes -> [GroupIds -> Nat \X Nat]]
    /\ fault \in BOOLEAN

Counted == threads \subseteq ThreadSet /\ op \in [OpIds -> OpRecs] /\ acks \in [Nodes -> [Nodes -> SUBSET OpIds]]

Typed == Packeted /\ Tabled /\ Counted

\* An ack is awaited, or put off, for an operation that asked for it.
Asking ==
    /\ \A n, m \in Nodes : \A o \in acks[n][m] : op[o].kind # "none"
    /\ \A n, m \in Nodes : reading[n][m].at = "join" => reading[n][m].o \in OpIds /\ op[reading[n][m].o].kind = "add"

-------------------------------------------------------------------------------
(* The counter.                                                              *)

\* The ops with a packet in queue q whose callback is in C.
Ops(q, C) == {q[i].o : i \in {j \in DOMAIN q : q[j].cb \in C}}
Waiting(q) == Ops(q, {"count", "register"})

\* No op waits for two packets of q.
Once(q) == \A i, j \in DOMAIN q : q[i].cb # "none" /\ q[j].cb # "none" /\ q[i].o = q[j].o => i = j

\* No op waits twice for one peer, with high priority queue h, medium e and acks a.
Tidy(h, e, a) ==
    /\ Once(h) /\ Once(e)
    /\ Waiting(h) \cap Waiting(e) = {} /\ (Waiting(h) \cup Waiting(e)) \cap a = {}

Due(h, e, a) == Waiting(h) \cup Waiting(e) \cup a
AckDue(h, e, a) == Ops(h, {"register"}) \cup Ops(e, {"register"}) \cup a

\* The connections on which o waits for a callback or an ack, and for an ack.
Claimed(H, E, A, o) == {l \in Links : o \in Due(H[l[1]][l[2]], E[l[1]][l[2]], A[l[1]][l[2]])}
Asked(H, E, A, o) == {l \in Links : o \in AckDue(H[l[1]][l[2]], E[l[1]][l[2]], A[l[1]][l[2]])}

Of(T, o) == {th \in T : th.o = o}

\* The counter of each op is what it waits for and what was lost; no two threads work for
\* one op; and a CreateGroup() that waits for its id waits for nothing else.
ClaimsOf(H, E, A, T, P) ==
    /\ \A n, m \in Nodes : Tidy(H[n][m], E[n][m], A[n][m])
    /\ \A o \in OpIds :
          /\ P[o].pending = Cardinality(Claimed(H, E, A, o)) + Cardinality(Of(T, o)) + P[o].lost
          /\ P[o].kind = "none" => P[o].pending = 0 /\ P[o].lost = 0
          /\ P[o].kind = "create" =>
                \A l \in Asked(H, E, A, o) : Claimed(H, E, A, o) = {l} /\ Of(T, o) = {}
    /\ \A a, b \in T : a.o = b.o => a = b

Claims == ClaimsOf(high, medium, acks, threads, op)

-------------------------------------------------------------------------------
(* Ids.                                                                      *)

Offers(p) == p.t = "ack" /\ p.g # 0
Mentions(p) == IF p.t = "ack" THEN {} ELSE ({p.g} \cup p.s) \ {0}

Offered(q) == {q[i].g : i \in {j \in DOMAIN q : Offers(q[j])}}
Mentioned(q) == UNION {Mentions(q[i]) : i \in DOMAIN q}

OffersOnce(q) == \A i, j \in DOMAIN q : Offers(q[i]) /\ Offers(q[j]) /\ q[i].g = q[j].g => i = j

\* The queues of all connections, by kind, sender and receiver.
Places == {"high", "medium", "wire"} \X Links
QueuesOf(H, E, W) ==
    [c \in Places |-> CASE c[1] = "high" -> H[c[2][1]][c[2][2]] [] c[1] = "medium" -> E[c[2][1]][c[2][2]]
                        [] c[1] = "wire" -> W[c[2][1]][c[2][2]]]
AllQueues == QueuesOf(high, medium, wire)

\* Ids that some member has heard of.
Known ==
    {g \in Nat \ {0} :
        \/ \E n \in Nodes : g \in groups[n] \cup destroyed[n]
        \/ \E n, m \in Nodes : \/ g \in Mentioned(high[n][m]) \cup Mentioned(medium[n][m]) \cup Mentioned(wire[n][m])
                              \/ g = reading[n][m].g
        \/ \E th \in threads : g = th.g}

\* With K known and x the next id: what is offered is fresh, and offered once.
Fresh(Q, K, x) ==
    /\ K \subseteq 1..(x - 1)
    /\ \A c \in Places : /\ OffersOnce(Q[c]) /\ Offered(Q[c]) \subseteq 1..(x - 1)
                         /\ Offered(Q[c]) \cap K = {}
    /\ \A c, d \in Places : c # d => Offered(Q[c]) \cap Offered(Q[d]) = {}

Ids == Fresh(AllQueues, Known, next_id)

-------------------------------------------------------------------------------
(* Indications.                                                              *)

HasThread(T, n, g, k) == \E th \in T : th.n = n /\ th.g = g /\ th.k = k
InIndication(R, n, g) == \E m \in Nodes : R[n][m].at = "destroying" /\ R[n][m].g = g

Creating(n, g) == HasThread(threads, n, g, "create")
Destroying(n, g) == HasThread(threads, n, g, "destroy")
Erasing(n, g) == HasThread(threads, n, g, "destroying") \/ InIndication(reading, n, g)

Told(n, g) ==
    /\ told[n][g][1] <= 1 /\ told[n][g][2] <= 1
    /\ Creating(n, g) => told[n][g][1] = 0 /\ g \in groups[n] \cup destroyed[n]
    /\ Destroying(n, g) => told[n][g][2] = 0 /\ g \in destroyed[n]
    /\ Erasing(n, g) => told[n][g][2] = 1 /\ g \in destroyed[n]
    /\ g \notin groups[n] \cup destroyed[n] => told[n][g][1] = 0
    /\ g \notin destroyed[n] => told[n][g][2] = 0
    /\ sess[n] # "terminated" =>
          /\ g \in groups[n] \/ told[n][g][2] = 1 => Creating(n, g) \/ told[n][g][1] = 1
          /\ Creating(n, g) \/ told[n][g][1] = 1 => g \in groups[n] \/ told[n][g][2] = 1
          /\ g \in groups[n] \cap destroyed[n] => Destroying(n, g) \/ Erasing(n, g)
          /\ Destroying(n, g) => g \in groups[n]

\* No group is created or destroyed by two threads.
Single(T) ==
    \A a, b \in T :
       a.g \in GroupIds /\ a.k \in {"create", "destroy"} /\ a.k = b.k /\ a.n = b.n /\ a.g = b.g => a = b

Telling == Single(threads) /\ \A n \in Nodes, g \in GroupIds : Told(n, g)

Stays == \A n, m \in Nodes : link[n][m] = "requesting" => sess[n] = "connecting"

-------------------------------------------------------------------------------
(* Sequences.                                                                *)

\* The elements of a queue that grows at its end.
LEMMA ConcatElements ==
    ASSUME NEW S, NEW q \in Seq(S), NEW s \in Seq(S)
    PROVE  /\ q \o s \in Seq(S)
           /\ \A i \in DOMAIN q : i \in DOMAIN (q \o s) /\ (q \o s)[i] = q[i]
           /\ \A j \in DOMAIN s : Len(q) + j \in DOMAIN (q \o s) /\ (q \o s)[Len(q) + j] = s[j]
           /\ \A i \in DOMAIN (q \o s) : i \notin DOMAIN q => i - Len(q) \in DOMAIN s /\ (q \o s)[i] = s[i - Len(q)]
<1>1. q \o s \in Seq(S) /\ Len(q) \in Nat /\ Len(s) \in Nat /\ Len(q \o s) = Len(q) + Len(s)
  BY ConcatProperties, LenProperties
<1>2. DOMAIN q = 1..Len(q) /\ DOMAIN s = 1..Len(s) /\ DOMAIN (q \o s) = 1..(Len(q) + Len(s))
  BY <1>1, LenProperties
<1>3. \A i \in 1..(Len(q) + Len(s)) : (q \o s)[i] = IF i <= Len(q) THEN q[i] ELSE s[i - Len(q)]
  BY ConcatProperties
<1>4. \A i \in DOMAIN q : i \in DOMAIN (q \o s) /\ (q \o s)[i] = q[i]
  BY <1>1, <1>2, <1>3
<1>5. \A j \in DOMAIN s : Len(q) + j \in DOMAIN (q \o s) /\ (q \o s)[Len(q) + j] = s[j]
  <2> SUFFICES ASSUME NEW j \in DOMAIN s
               PROVE  Len(q) + j \in DOMAIN (q \o s) /\ (q \o s)[Len(q) + j] = s[j]
    OBVIOUS
  <2>1. Len(q) + j \in 1..(Len(q) + Len(s)) /\ ~(Len(q) + j <= Len(q)) /\ (Len(q) + j) - Len(q) = j
    BY <1>1, <1>2
  <2> QED BY <1>2, <1>3, <2>1
<1>6. \A i \in DOMAIN (q \o s) : i \notin DOMAIN q => i - Len(q) \in DOMAIN s /\ (q \o s)[i] = s[i - Len(q)]
  BY <1>1, <1>2, <1>3
<1> QED BY <1>1, <1>4, <1>5, <1>6

\* The elements of a queue without its first.
LEMMA TailElements ==
    ASSUME NEW S, NEW q \in Seq(S), q # <<>>
    PROVE  /\ Tail(q) \in Seq(S) /\ Head(q) \in S /\ 1 \in DOMAIN q /\ Head(q) = q[1]
           /\ \A i \in DOMAIN Tail(q) : i + 1 \in DOMAIN q /\ Tail(q)[i] = q[i + 1]
           /\ \A i \in DOMAIN q : i # 1 => i - 1 \in DOMAIN Tail(q) /\ Tail(q)[i - 1] = q[i]
<1>1. Len(q) \in Nat /\ Len(q) # 0 /\ DOMAIN q = 1..Len(q) /\ Head(q) = q[1] /\ Head(q) \in S
  BY LenProperties, EmptySeq, HeadTailProperties
<1>2. /\ Tail(q) \in Seq(S) /\ Len(Tail(q)) = Len(q) - 1
      /\ \A i \in 1..Len(Tail(q)) : Tail(q)[i] = q[i + 1]
  BY HeadTailProperties
<1>3. DOMAIN Tail(q) = 1..(Len(q) - 1)
  BY <1>2, LenProperties
<1>4. \A i \in DOMAIN Tail(q) : i + 1 \in DOMAIN q /\ Tail(q)[i] = q[i + 1]
  BY <1>1, <1>2, <1>3
<1>5. ASSUME NEW i \in DOMAIN q, i # 1 PROVE i - 1 \in DOMAIN Tail(q) /\ Tail(q)[i - 1] = q[i]
  <2>1. i - 1 \in 1..(Len(q) - 1) /\ (i - 1) + 1 = i
    BY <1>1, <1>5
  <2> QED BY <1>2, <1>3, <2>1
<1> QED BY <1>1, <1>2, <1>4, <1>5

\* The elements of a queue.
LEMMA InSeq ==
    ASSUME NEW S, NEW q \in Seq(S)
    PROVE  Len(q) \in Nat /\ DOMAIN q = 1..Len(q) /\ \A i \in DOMAIN q : q[i] \in S
  BY LenProperties, ElementOfSeq

LEMMA SeqLarger ==
    ASSUME NEW S, NEW T, S \subseteq T, NEW q \in Seq(S)
    PROVE  q \in Seq(T)
<1>1. /\ Len(q) \in Nat /\ q = [i \in 1..Len(q) |-> q[i]]
      /\ \A i \in 1..Len(q) : q[i] \in T
  BY InSeq
<1> QED BY <1>1, IsASeq

\* The members of a session are finitely many.
LEMMA NodesFinite ==
    /\ IsFiniteSet(Nodes) /\ IsFiniteSet(Links) /\ Host \in Nodes
    /\ \A T \in SUBSET Nodes : IsFiniteSet(T) /\ Cardinality(T) \in Nat
    /\ \A T \in SUBSET Links : IsFiniteSet(T) /\ Cardinality(T) \in Nat
<1>1. IsFiniteSet({Host}) /\ IsFiniteSet(Others)
  BY FS_Singleton, GroupsAssumption
<1>2. IsFiniteSet(Nodes)
  BY <1>1, FS_Union DEF Nodes
<1>3. IsFiniteSet(Links)
  BY <1>2, FS_Product DEF Links
<1>4. \A T \in SUBSET Nodes : IsFiniteSet(T) /\ Cardinality(T) \in Nat
  BY <1>2, FS_Subset, FS_CardinalityType
<1>5. \A T \in SUBSET Links : IsFiniteSet(T) /\ Cardinality(T) \in Nat
  BY <1>3, FS_Subset, FS_CardinalityType
<1> QED BY <1>2, <1>3, <1>4, <1>5 DEF Nodes

-------------------------------------------------------------------------------
(* Packets.                                                                  *)

\* A packet fits more once more operations have been issued.
LEMMA FitsMore ==
    ASSUME NEW K, NEW L, \A o \in OpIds : K[o] # "none" => L[o] = K[o]
    PROVE  FitPkts(K) \subseteq FitPkts(L) /\ QueueSet(K) \subseteq QueueSet(L)
<1>1. ASSUME NEW p \in FitPkts(K) PROVE p \in FitPkts(L)
  <2>1. p \in Pkts /\ Fits(p, K)
    BY DEF FitPkts
  <2>2. Fits(p, L)
    BY <2>1 DEF Fits
  <2> QED BY <2>1, <2>2 DEF FitPkts
<1>2. \A q \in Seq(FitPkts(K)) : q \in Seq(FitPkts(L))
  BY <1>1, SeqLarger
<1> QED BY <1>1, <1>2 DEF QueueSet

LEMMA PacketFields ==
    ASSUME NEW t, NEW g, NEW o, NEW cb
    PROVE  LET p == Packet(t, g, o, cb)
           IN  /\ p.t = t /\ p.g = g /\ p.o = o /\ p.cb = cb /\ p.r = "ok" /\ p.s = {}
               /\ (t \in PacketTypes /\ g \in Nat /\ o \in 0..MaxOps /\ cb \in {"none", "count", "register"}
                     => p \in Pkts)
<1>1. 0 \in 0..MaxOps /\ "ok" \in Results /\ {} \in SUBSET Nat /\ {} \in SUBSET Nodes
  BY GroupsAssumption DEF Results
<1> QED BY <1>1 DEF Packet, Pkts

-------------------------------------------------------------------------------
(* Tables.                                                                   *)

Put(T, n, m, v) == [T EXCEPT ![n][m] = v]

LEMMA GroupAdded ==
    ASSUME NEW G \in GroupTables, NEW n \in Nodes, NEW g \in Nat
    PROVE  [G EXCEPT ![n] = @ \cup {g}] \in GroupTables /\ [G EXCEPT ![n] = @ \ {g}] \in GroupTables
<1>1. G \in [Nodes -> SUBSET Nat] /\ \A a \in Nodes : IsFiniteSet(G[a])
  BY DEF GroupTables
<1>2. IsFiniteSet(G[n] \cup {g}) /\ IsFiniteSet(G[n] \ {g})
  BY <1>1, FS_AddElement, FS_RemoveElement
<1>3. \A x \in {G[n] \cup {g}, G[n] \ {g}} : [G EXCEPT ![n] = x] \in GroupTables
  BY <1>1, <1>2 DEF GroupTables
<1> QED BY <1>3

LEMMA AckFields ==
    ASSUME NEW o, NEW r, NEW g
    PROVE  LET p == AckPacket(o, r, g)
           IN  /\ p.t = "ack" /\ p.g = g /\ p.o = o /\ p.cb = "none" /\ p.r = r /\ p.s = {}
               /\ (g \in Nat /\ o \in 0..MaxOps /\ r \in Results => p \in Pkts)
<1> DEFINE p == Packet("ack", g, o, "none")
           a == [p EXCEPT !.r = r]
<1>1. /\ p.t = "ack" /\ p.g = g /\ p.o = o /\ p.cb = "none" /\ p.s = {}
      /\ g \in Nat /\ o \in 0..MaxOps => p \in Pkts
  BY PacketFields DEF PacketTypes
<1>2. /\ a.t = "ack" /\ a.g = g /\ a.o = o /\ a.cb = "none" /\ a.r = r /\ a.s = {}
  BY DEF Packet
<1>3. p \in Pkts /\ r \in Results => a \in Pkts
  BY DEF Pkts
<1> QED BY <1>1, <1>2, <1>3 DEF AckPacket

\* What a queue holds after something has been queued.
LEMMA QueuedAt ==
    ASSUME NEW S, NEW q \in [Nodes -> [Nodes -> Seq(S)]], NEW n \in Nodes, NEW f \in [Nodes -> Seq(S)]
    PROVE  /\ Queued(q, n, f) \in [Nodes -> [Nodes -> Seq(S)]]
           /\ \A a, b \in Nodes : Queued(q, n, f)[a][b] = IF a = n THEN q[a][b] \o f[b] ELSE q[a][b]
<1>1. \A b \in Nodes : q[n][b] \o f[b] \in Seq(S)
  BY ConcatProperties
<1>2. [x \in Nodes |-> q[n][x] \o f[x]] \in [Nodes -> Seq(S)]
  BY <1>1
<1>3. Queued(q, n, f) = [q EXCEPT ![n] = [x \in Nodes |-> q[n][x] \o f[x]]]
  BY DEF Queued
<1> QED BY <1>2, <1>3

LEMMA QueuedValue ==
    ASSUME NEW q, DOMAIN q = Nodes, NEW n \in Nodes, NEW f, NEW a \in Nodes, NEW b \in Nodes
    PROVE  Queued(q, n, f)[a][b] = IF a = n THEN q[a][b] \o f[b] ELSE q[a][b]
  BY DEF Queued

\* Nothing is queued.
Silence == [x \in Nodes |-> <<>>]

LEMMA QueuedNothing ==
    ASSUME NEW S, NEW q \in [Nodes -> [Nodes -> Seq(S)]], NEW n \in Nodes
    PROVE  Silence \in [Nodes -> Seq(S)] /\ Queued(q, n, Silence) = q
<1>1. Silence \in [Nodes -> Seq(S)] /\ \A b \in Nodes : Silence[b] = <<>>
  BY EmptySeq DEF Silence
<1>2. [x \in Nodes |-> q[n][x] \o Silence[x]] = q[n]
  <2>1. \A x \in Nodes : q[n][x] \o Silence[x] = q[n][x]
    BY <1>1, ConcatEmptySeq
  <2>2. q[n] = [x \in Nodes |-> q[n][x]]
    OBVIOUS
  <2> QED BY <2>1, <2>2
<1>3. Queued(q, n, Silence) = [q EXCEPT ![n] = [x \in Nodes |-> q[n][x] \o Silence[x]]]
  BY DEF Queued
<1> QED BY <1>1, <1>2, <1>3

\* To one, to all, and both.
LEMMA SentTypes ==
    ASSUME NEW S
    PROVE  /\ \A p \in S : <<p>> \in Seq(S)
           /\ \A m : \A q \in Seq(S) : To(m, q) \in [Nodes -> Seq(S)]
           /\ \A n : \A p \in S : Broadcast(n, p) \in [Nodes -> Seq(S)]
           /\ \A f, h \in [Nodes -> Seq(S)] : Both(f, h) \in [Nodes -> Seq(S)]
<1>1. \A p \in S : <<p>> \in Seq(S)
  OBVIOUS
<1>2. <<>> \in Seq(S)
  OBVIOUS
<1>3. \A m : \A q \in Seq(S) : To(m, q) \in [Nodes -> Seq(S)]
  BY <1>2 DEF To
<1>4. \A n : \A p \in S : Broadcast(n, p) \in [Nodes -> Seq(S)]
  BY <1>1, <1>2 DEF Broadcast
<1>5. \A f, h \in [Nodes -> Seq(S)] : Both(f, h) \in [Nodes -> Seq(S)]
  BY ConcatProperties DEF Both
<1> QED BY <1>1, <1>3, <1>4, <1>5

-------------------------------------------------------------------------------
(* What a newcomer is told.                                                  *)

\* A set of numbers that is not empty has a least one.
LEMMA LeastOfNats ==
    ASSUME NEW T, T \subseteq Nat, T # {}
    PROVE  \E x \in T : \A y \in T : x <= y
<1>1. PICK x \in T : \A y \in T : ~(<<y, x>> \in OpToRel(<, Nat))
  BY NatLessThanWellFounded, WFMin
<1>2. \A y \in T : x <= y
  <2>1. ASSUME NEW y \in T, y < x PROVE FALSE
    <3>1. <<y, x>> \in OpToRel(<, Nat)
      BY <2>1 DEF OpToRel
    <3> QED BY <1>1, <3>1
  <2> QED BY <2>1
<1> QED BY <1>2

Sorted(q, S) == q \in [1..Cardinality(S) -> S] /\ \A i, j \in DOMAIN q : i < j => q[i] < q[j]

\* A finite set of numbers can be sorted: take the smallest that cannot, and leave out
\* its least element.
LEMMA SortedExists ==
    ASSUME NEW S \in SUBSET Nat, IsFiniteSet(S)
    PROVE  \E q : Sorted(q, S)
<1> DEFINE Bad == {k \in Nat : \E T \in SUBSET Nat : IsFiniteSet(T) /\ Cardinality(T) = k /\ ~\E q : Sorted(q, T)}
<1>1. SUFFICES ASSUME ~\E q : Sorted(q, S) PROVE FALSE
  OBVIOUS
<1>2. Cardinality(S) \in Bad
  BY <1>1, FS_CardinalityType
<1>3. PICK k \in Bad : \A j \in Bad : k <= j
  <2> DEFINE B == Bad
  <2>1. B \subseteq Nat /\ B # {}
    BY <1>2
  <2> HIDE DEF B
  <2>2. \E x \in B : \A y \in B : x <= y
    BY <2>1, LeastOfNats
  <2> QED BY <2>2 DEF B
<1>4. PICK T \in SUBSET Nat : IsFiniteSet(T) /\ Cardinality(T) = k /\ ~\E q : Sorted(q, T)
  BY <1>3
<1>5. T # {}
  <2>1. ASSUME T = {} PROVE FALSE
    <3>1. 1..Cardinality(T) = {}
      BY <2>1, FS_EmptySet
    <3>2. Sorted([i \in 1..Cardinality(T) |-> 0], T)
      BY <3>1 DEF Sorted
    <3> QED BY <1>4, <3>2
  <2> QED BY <2>1
<1>6. PICK x \in T : \A y \in T : x <= y
  BY <1>5, LeastOfNats
<1> DEFINE U == T \ {x}
<1>7. IsFiniteSet(U) /\ Cardinality(U) = k - 1 /\ U \in SUBSET Nat /\ k \in Nat
  BY <1>3, <1>4, <1>6, FS_RemoveElement
<1>8. k - 1 \in Nat
  BY <1>7, FS_CardinalityType
<1>9. PICK q : Sorted(q, U)
  <2>1. k - 1 \notin Bad
    BY <1>3, <1>8
  <2> QED BY <1>7, <1>8, <2>1
<1>10. /\ q \in [1..(k - 1) -> U] /\ \A i, j \in 1..(k - 1) : i < j => q[i] < q[j]
  BY <1>7, <1>9 DEF Sorted
<1> DEFINE r == [i \in 1..k |-> IF i = 1 THEN x ELSE q[i - 1]]
<1>11. \A i \in 1..k : i # 1 => i - 1 \in 1..(k - 1) /\ q[i - 1] \in U
  BY <1>7, <1>10
<1>12. r \in [1..k -> T]
  BY <1>6, <1>11
<1>13. ASSUME NEW i \in 1..k, NEW j \in 1..k, i < j PROVE r[i] < r[j]
  <2>1. j # 1 /\ j - 1 \in 1..(k - 1) /\ q[j - 1] \in U /\ r[j] = q[j - 1]
    BY <1>11, <1>13
  <2>2. CASE i = 1
    <3>1. r[i] = x /\ x <= q[j - 1] /\ x # q[j - 1] /\ x \in Nat /\ q[j - 1] \in Nat
      BY <1>6, <1>7, <2>1, <2>2
    <3> QED BY <2>1, <3>1
  <2>3. CASE i # 1
    <3>1. i - 1 \in 1..(k - 1) /\ i - 1 < j - 1 /\ r[i] = q[i - 1]
      BY <1>11, <1>13, <2>3
    <3> QED BY <1>10, <2>1, <3>1
  <2> QED BY <2>2, <2>3
<1>14. Sorted(r, T)
  <2> HIDE DEF r
  <2>1. DOMAIN r = 1..k
    BY <1>12
  <2> QED BY <1>4, <1>12, <1>13, <2>1 DEF Sorted
<1> QED BY <1>4, <1>14

LEMMA SeqOfElements ==
    ASSUME NEW S \in SUBSET Nat, IsFiniteSet(S)
    PROVE  /\ DOMAIN SeqOf(S) = 1..Cardinality(S) /\ Cardinality(S) \in Nat
           /\ \A i \in DOMAIN SeqOf(S) : SeqOf(S)[i] \in S
<1>1. \E q : Sorted(q, S)
  BY SortedExists
<1>2. SeqOf(S) \in [1..Cardinality(S) -> S]
  BY <1>1 DEF SeqOf, Sorted
<1> QED BY <1>2, FS_CardinalityType

-------------------------------------------------------------------------------
(* Packets that bring nothing new: nobody waits for them, and they mention   *)
(* known groups only.                                                        *)

Hearsay == {p \in FitPkts(Kinds) : p.cb = "none" /\ ~Offers(p) /\ Mentions(p) \subseteq Known}

\* Somebody queues packets of S.
Talks(S) ==
    \E n \in Nodes : \E f, e \in [Nodes -> Seq(S)] : high' = Queued(high, n, f) /\ medium' = Queued(medium, n, e)

LEMMA GroupPacketIsHearsay ==
    ASSUME NEW t \in {"create", "destroy", "joined", "left"}, NEW g \in Nat, g \in Known \cup {0}
    PROVE  Packet(t, g, 0, "none") \in Hearsay
<1> DEFINE p == Packet(t, g, 0, "none")
<1>1. /\ p.t = t /\ p.g = g /\ p.cb = "none" /\ p.s = {} /\ p \in Pkts
  BY PacketFields, GroupsAssumption DEF PacketTypes
<1> HIDE DEF p
<1>2. Fits(p, Kinds) /\ ~Offers(p) /\ Mentions(p) \subseteq Known
  BY <1>1 DEF Fits, Offers, Mentions, Requests
<1> QED BY <1>1, <1>2 DEF Hearsay, FitPkts, p

LEMMA AckIsHearsay ==
    ASSUME NEW o \in OpIds, Kinds[o] \notin {"none", "create"}, NEW r, r \in ResultsOf(Kinds[o])
    PROVE  AckPacket(o, r, 0) \in Hearsay
<1> DEFINE p == AckPacket(o, r, 0)
<1>1. r \in Results /\ o \in 0..MaxOps
  BY GroupsAssumption DEF ResultsOf, Results, OpIds
<1>2. /\ p.t = "ack" /\ p.g = 0 /\ p.o = o /\ p.cb = "none" /\ p.r = r /\ p \in Pkts
  BY <1>1, AckFields
<1> HIDE DEF p
<1>3. Fits(p, Kinds) /\ ~Offers(p) /\ Mentions(p) \subseteq Known
  BY <1>2 DEF Fits, Offers, Mentions, Requests
<1> QED BY <1>2, <1>3 DEF Hearsay, FitPkts, p

\* What a member sends a newcomer, or a newcomer a member, mentions known groups only.
LEMMA WelcomeIsHearsay ==
    ASSUME Typed, NEW n \in Nodes, NEW m
    PROVE  /\ \A t \in {"request", "connect"} : Greeting(n, t) \in Seq(Hearsay)
           /\ \A t \in {"host_ok", "peer_ok"} : Welcome(n, m, t) \in Hearsay
           /\ Briefing(n) \in Seq(Hearsay)
<1>1. /\ groups[n] \in SUBSET Nat /\ destroyed[n] \in SUBSET Nat /\ IsFiniteSet(groups[n]) /\ IsFiniteSet(destroyed[n])
      /\ info[n][n] \in 0..MaxOps /\ desc[n] \in 0..MaxOps
      /\ (groups[n] \cup destroyed[n]) \ {0} \subseteq Known
  BY DEF Typed, Tabled, GroupTables, Known
<1>2. ASSUME NEW t \in {"request", "connect"} PROVE Greeting(n, t) \in Seq(Hearsay)
  <2> DEFINE p == Packet(t, 0, 0, "none")
             w == [p EXCEPT !.v = info[n][n]]
  <2>1. /\ p.t = t /\ p.g = 0 /\ p.cb = "none" /\ p.s = {} /\ p \in Pkts
    BY PacketFields, GroupsAssumption DEF PacketTypes
  <2>2. /\ w.t = t /\ w.g = 0 /\ w.cb = "none" /\ w.s = {}
    BY DEF Packet
  <2>3. w \in Pkts
    <3> HIDE DEF p
    <3> QED BY <1>1, <2>1 DEF Pkts
  <2> HIDE DEF w
  <2>4. Fits(w, Kinds) /\ ~Offers(w) /\ Mentions(w) \subseteq Known
    BY <2>2 DEF Fits, Offers, Mentions, Requests
  <2>5. w \in Hearsay
    BY <2>2, <2>3, <2>4 DEF Hearsay, FitPkts
  <2> QED BY <2>5, SentTypes DEF Greeting, w
<1>3. ASSUME NEW t \in {"host_ok", "peer_ok"} PROVE Welcome(n, m, t) \in Hearsay
  <2> DEFINE p == Packet(t, 0, 0, "none")
             S == {g \in groups[n] \ destroyed[n] : n \in player_ids[n][g]}
             w == [p EXCEPT !.s = S, !.p = PeersOf(n) \ {m}, !.v = info[n][n], !.d = desc[n]]
  <2>1. /\ p.t = t /\ p.g = 0 /\ p.cb = "none" /\ p \in Pkts
    BY PacketFields, GroupsAssumption DEF PacketTypes
  <2>2. /\ w.t = t /\ w.g = 0 /\ w.cb = "none" /\ w.s = S
    BY DEF Packet
  <2>3. S \in SUBSET Nat /\ S \subseteq groups[n] /\ PeersOf(n) \ {m} \in SUBSET Nodes
    BY <1>1 DEF PeersOf
  <2>4. w \in Pkts
    <3> HIDE DEF p, S
    <3> QED BY <1>1, <2>1, <2>3 DEF Pkts
  <2>5. Welcome(n, m, t) = w
    BY DEF Welcome
  <2> HIDE DEF w, S
  <2>6. Fits(w, Kinds) /\ ~Offers(w) /\ Mentions(w) \subseteq Known
    BY <1>1, <2>2, <2>3 DEF Fits, Offers, Mentions, Requests
  <2> QED BY <2>2, <2>4, <2>5, <2>6 DEF Hearsay, FitPkts
<1>4. Briefing(n) \in Seq(Hearsay)
  <2> DEFINE gone == SeqOf(destroyed[n])
             known == SeqOf(groups[n] \ destroyed[n])
             G == [i \in DOMAIN gone |-> Packet("destroy", gone[i], 0, "none")]
             K == [i \in DOMAIN known |-> Packet("create", known[i], 0, "none")]
  <2>1. IsFiniteSet(groups[n] \ destroyed[n]) /\ groups[n] \ destroyed[n] \in SUBSET Nat
    BY <1>1, FS_Subset
  <2>2. /\ DOMAIN gone = 1..Cardinality(destroyed[n]) /\ Cardinality(destroyed[n]) \in Nat
        /\ \A i \in DOMAIN gone : gone[i] \in destroyed[n]
    BY <1>1, SeqOfElements
  <2>3. /\ DOMAIN known = 1..Cardinality(groups[n] \ destroyed[n]) /\ Cardinality(groups[n] \ destroyed[n]) \in Nat
        /\ \A i \in DOMAIN known : known[i] \in groups[n] \ destroyed[n]
    BY <2>1, SeqOfElements
  <2> HIDE DEF gone, known
  <2>4. \A i \in DOMAIN gone : Packet("destroy", gone[i], 0, "none") \in Hearsay
    BY <1>1, <2>2, GroupPacketIsHearsay
  <2>5. \A i \in DOMAIN known : Packet("create", known[i], 0, "none") \in Hearsay
    BY <1>1, <2>3, GroupPacketIsHearsay
  <2>6. G \in Seq(Hearsay)
    BY <2>2, <2>4, IsASeq
  <2>7. K \in Seq(Hearsay)
    <3>1. PICK k \in Nat : DOMAIN known = 1..k
      BY <2>3
    <3> QED BY <2>5, <3>1, IsASeq
  <2>8. Briefing(n) = G \o K
    BY DEF Briefing, gone, known
  <2> HIDE DEF G, K
  <2> QED BY <2>6, <2>7, <2>8, ConcatProperties
<1> QED BY <1>2, <1>3, <1>4

\* The packet a handler works on.
LEMMA Receiving ==
    ASSUME Typed, NEW n \in Nodes, NEW m \in Nodes, NEW t, Take(n, m, t)
    PROVE  LET p == Received(n, m)
           IN  /\ p \in FitPkts(Kinds) /\ p.t = t /\ Mentions(p) \subseteq Known
               /\ p.g \in Nat /\ p.o \in 0..MaxOps
               /\ wire' \in QueueSet(Kinds)
               /\ wire[m][n] # <<>>
               /\ \A a, b \in Nodes : wire'[a][b] = IF a = m /\ b = n THEN Tail(wire[a][b]) ELSE wire[a][b]
<1> DEFINE q == wire[m][n]
           p == Received(n, m)
<1>1. q \in Seq(FitPkts(Kinds)) /\ q # <<>> /\ Head(q).t = t /\ p = Head(q)
  BY DEF Typed, Packeted, QueueSet, Take, Received
<1>2. Tail(q) \in Seq(FitPkts(Kinds)) /\ p \in FitPkts(Kinds) /\ 1 \in DOMAIN q /\ p = q[1]
  BY <1>1, TailElements
<1>3. wire' = [wire EXCEPT ![m][n] = Tail(q)] /\ wire \in [Nodes -> [Nodes -> Seq(FitPkts(Kinds))]]
  BY DEF Take, Typed, Packeted, QueueSet
<1>4. /\ wire' \in QueueSet(Kinds)
      /\ \A a, b \in Nodes : wire'[a][b] = IF a = m /\ b = n THEN Tail(wire[a][b]) ELSE wire[a][b]
  BY <1>2, <1>3 DEF QueueSet
<1>5. p.g \in Nat /\ p.o \in 0..MaxOps /\ p.s \in SUBSET Nat
  BY <1>2 DEF FitPkts, Pkts
<1>6. Mentions(p) \subseteq Known
  <2>1. Mentions(p) \subseteq Mentioned(q) /\ Mentions(p) \subseteq Nat \ {0}
    BY <1>2, <1>5 DEF Mentioned, Mentions
  <2>2. \A g \in Mentioned(q) : g \in Nat \ {0} => g \in Known
    BY DEF Known
  <2> QED BY <2>1, <2>2
<1> QED BY <1>1, <1>2, <1>4, <1>5, <1>6

-------------------------------------------------------------------------------
(* Handlers that answer with hearsay, and leave counters, threads and acks   *)
(* alone.                                                                    *)

LEMMA HearsayFits ==
    /\ Hearsay \subseteq FitPkts(Kinds)
    /\ <<>> \in Seq(Hearsay)
    /\ \A p \in Hearsay : <<p>> \in Seq(Hearsay)
  BY EmptySeq, SentTypes DEF Hearsay

\* What is queued has its type.
LEMMA TalkTypes ==
    ASSUME Packeted, NEW S, S \subseteq FitPkts(Kinds), Talks(S)
    PROVE  high' \in QueueSet(Kinds) /\ medium' \in QueueSet(Kinds)
<1> PICK n \in Nodes, f \in [Nodes -> Seq(S)], e \in [Nodes -> Seq(S)] :
        high' = Queued(high, n, f) /\ medium' = Queued(medium, n, e)
  BY DEF Talks
<1>1. f \in [Nodes -> Seq(FitPkts(Kinds))] /\ e \in [Nodes -> Seq(FitPkts(Kinds))]
  BY SeqLarger
<1> QED BY <1>1, QueuedAt DEF Packeted, QueueSet

\* Nothing is queued, or with high priority only.
LEMMA TalksLess ==
    ASSUME Packeted, NEW S, S \subseteq FitPkts(Kinds)
    PROVE  /\ high' = high /\ medium' = medium => Talks(S)
           /\ \A n \in Nodes : \A f \in [Nodes -> Seq(S)] : high' = Queued(high, n, f) /\ medium' = medium => Talks(S)
<1>1. /\ high \in [Nodes -> [Nodes -> Seq(FitPkts(Kinds))]]
      /\ medium \in [Nodes -> [Nodes -> Seq(FitPkts(Kinds))]]
  BY DEF Packeted, QueueSet
<1>2. Silence \in [Nodes -> Seq(S)]
  BY EmptySeq DEF Silence
<1>3. \A n \in Nodes : Queued(high, n, Silence) = high /\ Queued(medium, n, Silence) = medium
  BY <1>1, QueuedNothing
<1>4. Host \in Nodes
  BY NodesFinite
<1> QED BY <1>2, <1>3, <1>4 DEF Talks

\* The types of what such a step leaves alone.
LEMMA TypedKept ==
    ASSUME Typed, Asking, Talks(Hearsay), UNCHANGED <<op, acks, threads>>, wire' \in QueueSet(Kinds), Tabled',
           \A n, m \in Nodes : reading'[n][m].at = "join" =>
              reading'[n][m].o \in OpIds /\ op[reading'[n][m].o].kind = "add"
    PROVE  Typed' /\ Asking'
<1>1. Kinds' = Kinds
  BY DEF Kinds
<1>2. high' \in QueueSet(Kinds) /\ medium' \in QueueSet(Kinds)
  BY TalkTypes, HearsayFits DEF Typed
<1>3. Packeted'
  BY <1>1, <1>2 DEF Packeted
<1>4. Counted'
  BY DEF Typed, Counted
<1>5. Asking'
  BY DEF Asking
<1> QED BY <1>3, <1>4, <1>5 DEF Typed

\* An answer to m.
LEMMA AcksHearsay ==
    ASSUME Typed, NEW n \in Nodes, NEW m \in Nodes, NEW t \in {"join", "leave", "info"}, Take(n, m, t),
           NEW r, r \in ResultsOf(AskedBy[t])
    PROVE  LET p == AckPacket(Received(n, m).o, r, 0)
           IN  p \in Hearsay /\ To(m, <<p>>) \in [Nodes -> Seq(Hearsay)]
<1>1. Received(n, m) \in FitPkts(Kinds) /\ Received(n, m).t = t
  BY Receiving
<1>2. Received(n, m).o \in OpIds /\ Kinds[Received(n, m).o] = AskedBy[t]
  BY <1>1 DEF FitPkts, Fits, Requests
<1>3. AskedBy[t] \notin {"none", "create"}
  BY DEF AskedBy
<1>4. AckPacket(Received(n, m).o, r, 0) \in Hearsay
  BY <1>2, <1>3, AckIsHearsay
<1> QED BY <1>4, SentTypes, HearsayFits

\* An indication is counted.
Tell(T, n, g, k) == [T EXCEPT ![n][g][k] = @ + 1]

LEMMA TellTypes ==
    ASSUME NEW T \in [Nodes -> [GroupIds -> Nat \X Nat]], NEW n \in Nodes, NEW g, NEW k \in {1, 2}
    PROVE  /\ Tell(T, n, g, k) \in [Nodes -> [GroupIds -> Nat \X Nat]]
           /\ \A a \in Nodes, h \in GroupIds, i \in {1, 2} :
                 Tell(T, n, g, k)[a][h][i] = IF a = n /\ h = g /\ i = k THEN T[a][h][i] + 1 ELSE T[a][h][i]
<1>1. ASSUME NEW x \in Nat \X Nat
      PROVE  /\ [x EXCEPT ![k] = @ + 1] \in Nat \X Nat
             /\ \A i \in {1, 2} : [x EXCEPT ![k] = @ + 1][i] = IF i = k THEN x[i] + 1 ELSE x[i]
  OBVIOUS
<1>2. Tell(T, n, g, k) = [T EXCEPT ![n] = [T[n] EXCEPT ![g] = [T[n][g] EXCEPT ![k] = @ + 1]]]
  BY DEF Tell
<1>3. CASE g \in GroupIds
  BY <1>1, <1>2, <1>3
<1>4. CASE g \notin GroupIds
  <2>1. [T[n] EXCEPT ![g] = [T[n][g] EXCEPT ![k] = @ + 1]] = T[n]
    BY <1>4
  <2>2. Tell(T, n, g, k) = T
    BY <1>2, <2>1
  <2> QED BY <1>4, <2>2
<1> QED BY <1>3, <1>4

\* What the indications of one group at one node count.
ToldTable(T) == T \in [Nodes -> [GroupIds -> Nat \X Nat]]

LEMMA TellValue ==
    ASSUME NEW T, ToldTable(T), NEW n \in Nodes, NEW g, NEW a \in Nodes, NEW h \in GroupIds
    PROVE  \A k, i \in {1, 2} : Tell(T, n, g, k)[a][h][i]
              = IF a = n /\ h = g /\ i = k THEN T[a][h][i] + 1 ELSE T[a][h][i]
<1>1. T \in [Nodes -> [GroupIds -> Nat \X Nat]]
  BY DEF ToldTable
<1> SUFFICES ASSUME NEW k \in {1, 2}
             PROVE  \A i \in {1, 2} : Tell(T, n, g, k)[a][h][i]
                       = IF a = n /\ h = g /\ i = k THEN T[a][h][i] + 1 ELSE T[a][h][i]
  OBVIOUS
<1>2. \A b \in Nodes, j \in GroupIds, i \in {1, 2} :
         Tell(T, n, g, k)[b][j][i] = IF b = n /\ j = g /\ i = k THEN T[b][j][i] + 1 ELSE T[b][j][i]
  BY <1>1, TellTypes
<1> QED BY <1>2

\* What the handlers below do to the types.
Heard ==
    /\ UNCHANGED <<op, acks, threads>> /\ Talks(Hearsay) /\ wire' \in QueueSet(Kinds) /\ Tabled'
    /\ \A n, m \in Nodes : reading'[n][m].at = "join" =>
          reading'[n][m].o \in OpIds /\ op[reading'[n][m].o].kind = "add"

LEMMA GroupHandlersHeard ==
    ASSUME Typed, Asking, NEW n \in Nodes, NEW m \in Nodes,
           \/ HandleUnexpected(n, m) \/ HandleGroupCreate(n, m) \/ HandleGroupDestroy(n, m) \/ HandleGroupLeft(n, m)
           \/ HandleAppdesc(n, m) \/ HandlePlayerinfo(n, m) \/ GroupDestroyed(n, m)
    PROVE  Heard
<1>0. Packeted /\ Tabled
  BY DEF Typed
<1> DEFINE p == Received(n, m)
<1>1. /\ high' = high /\ medium' = medium => Talks(Hearsay)
      /\ \A f \in [Nodes -> Seq(Hearsay)] : high' = Queued(high, n, f) /\ medium' = medium => Talks(Hearsay)
  BY <1>0, TalksLess, HearsayFits
<1>2. \A t : Take(n, m, t) => /\ wire' \in QueueSet(Kinds) /\ p \in FitPkts(Kinds) /\ p.t = t
                              /\ p.g \in Nat /\ p.o \in 0..MaxOps
  BY Receiving
<1>3. /\ groups \in GroupTables /\ destroyed \in GroupTables
      /\ reading \in [Nodes -> [Nodes -> Readings]]
      /\ told \in [Nodes -> [GroupIds -> Nat \X Nat]]
  BY <1>0 DEF Tabled
<1>4. CASE HandleUnexpected(n, m)
  <2>1. wire' \in QueueSet(Kinds)
    BY <1>2, <1>4 DEF HandleUnexpected
  <2>2. Tabled'
    BY <1>0, <1>4 DEF HandleUnexpected, Tabled, tables, facts
  <2> QED BY <1>1, <1>4, <2>1, <2>2 DEF HandleUnexpected, Heard, queues, Asking
<1>5. CASE HandleGroupCreate(n, m)
  <2>1. wire' \in QueueSet(Kinds) /\ p.g \in Nat
    BY <1>2, <1>5 DEF HandleGroupCreate
  <2>2. \/ groups' = groups /\ told' = told
        \/ groups' = [groups EXCEPT ![n] = @ \cup {p.g}] /\ told' = Tell(told, n, p.g, 1)
    BY <1>5 DEF HandleGroupCreate, Tell
  <2>3. groups' \in GroupTables /\ told' \in [Nodes -> [GroupIds -> Nat \X Nat]]
    <3>1. [groups EXCEPT ![n] = @ \cup {p.g}] \in GroupTables
      BY <1>3, <2>1, GroupAdded
    <3>2. Tell(told, n, p.g, 1) \in [Nodes -> [GroupIds -> Nat \X Nat]]
      BY <1>3, TellTypes
    <3> QED BY <1>3, <2>2, <3>1, <3>2
  <2>4. Tabled'
    BY <1>0, <1>5, <2>3 DEF HandleGroupCreate, Tabled, facts
  <2> QED BY <1>1, <1>5, <2>1, <2>4 DEF HandleGroupCreate, Heard, queues, Asking
<1>6. CASE HandleGroupDestroy(n, m)
  <2> DEFINE d == [at |-> "destroying", g |-> p.g, o |-> 0]
  <2>1. wire' \in QueueSet(Kinds) /\ p.g \in Nat
    BY <1>2, <1>6 DEF HandleGroupDestroy
  <2>2. /\ destroyed' = [destroyed EXCEPT ![n] = @ \cup {p.g}]
        /\ \/ told' = told /\ reading' = reading
           \/ told' = Tell(told, n, p.g, 2) /\ reading' = Put(reading, n, m, d)
    BY <1>6 DEF HandleGroupDestroy, Tell, Put
  <2>3. d \in Readings /\ d.at = "destroying"
    BY <2>1, GroupsAssumption DEF Readings
  <2> HIDE DEF d
  <2>4. destroyed' \in GroupTables /\ told' \in [Nodes -> [GroupIds -> Nat \X Nat]]
    <3>1. [destroyed EXCEPT ![n] = @ \cup {p.g}] \in GroupTables
      BY <1>3, <2>1, GroupAdded
    <3>2. Tell(told, n, p.g, 2) \in [Nodes -> [GroupIds -> Nat \X Nat]]
      BY <1>3, TellTypes
    <3> QED BY <1>3, <2>2, <3>1, <3>2
  <2>5. /\ reading' \in [Nodes -> [Nodes -> Readings]]
        /\ \A a, b \in Nodes : reading'[a][b] = reading[a][b] \/ reading'[a][b].at = "destroying"
    <3>1. /\ Put(reading, n, m, d) \in [Nodes -> [Nodes -> Readings]]
          /\ \A a, b \in Nodes : Put(reading, n, m, d)[a][b] = IF a = n /\ b = m THEN d ELSE reading[a][b]
      BY <1>3, <2>3 DEF Put
    <3>2. CASE reading' = reading
      BY <1>3, <3>2
    <3>3. CASE reading' = Put(reading, n, m, d)
      BY <2>3, <3>1, <3>3
    <3> QED BY <2>2, <3>2, <3>3
  <2>6. Tabled'
    BY <1>0, <1>6, <2>4, <2>5 DEF HandleGroupDestroy, Tabled, facts
  <2>7. UNCHANGED <<op, acks, threads, high, medium>>
    BY <1>6 DEF HandleGroupDestroy, queues
  <2>8. \A a, b \in Nodes : reading'[a][b].at = "join" =>
           reading'[a][b].o \in OpIds /\ op[reading'[a][b].o].kind = "add"
    BY <1>1, <2>5, <2>7 DEF Asking
  <2> QED BY <1>1, <2>1, <2>6, <2>7, <2>8 DEF Heard
<1>7. CASE HandleGroupLeft(n, m)
  <2>1. wire' \in QueueSet(Kinds)
    BY <1>2, <1>7 DEF HandleGroupLeft
  <2>2. Tabled'
    BY <1>0, <1>7 DEF HandleGroupLeft, Tabled, facts
  <2> QED BY <1>1, <1>7, <2>1, <2>2 DEF HandleGroupLeft, Heard, queues, Asking
<1>8. CASE HandleAppdesc(n, m)
  <2>1. wire' \in QueueSet(Kinds) /\ p.d \in 0..MaxOps
    BY <1>2, <1>8 DEF HandleAppdesc, FitPkts, Pkts
  <2>2. desc' \in [Nodes -> 0..MaxOps]
    BY <1>0, <1>8, <2>1 DEF HandleAppdesc, Tabled
  <2>3. Tabled'
    BY <1>0, <1>8, <2>2 DEF HandleAppdesc, Tabled, tables
  <2> QED BY <1>1, <1>8, <2>1, <2>3 DEF HandleAppdesc, Heard, queues, Asking
<1>9. CASE HandlePlayerinfo(n, m)
  <2>1. Take(n, m, "info") /\ wire' \in QueueSet(Kinds) /\ p.v \in 0..MaxOps
    BY <1>2, <1>9 DEF HandlePlayerinfo, FitPkts, Pkts
  <2>2. info' \in [Nodes -> [Nodes -> 0..MaxOps]]
    BY <1>0, <1>9, <2>1 DEF HandlePlayerinfo, Tabled
  <2>3. Tabled'
    BY <1>0, <1>9, <2>2 DEF HandlePlayerinfo, Tabled, tables
  <2>4. To(m, <<AckPacket(p.o, "ok", 0)>>) \in [Nodes -> Seq(Hearsay)]
    BY <2>1, AcksHearsay DEF ResultsOf, AskedBy
  <2> QED BY <1>1, <1>9, <2>1, <2>3, <2>4 DEF HandlePlayerinfo, Acknowledge, Heard, Asking
<1>10. CASE GroupDestroyed(n, m)
  <2>1. groups' = [groups EXCEPT ![n] = @ \ {reading[n][m].g}] /\ reading[n][m].g \in Nat
    BY <1>3, <1>10 DEF GroupDestroyed, EraseGroup, Readings
  <2>2. groups' \in GroupTables
    BY <1>3, <2>1, GroupAdded
  <2>3. Idle \in Readings /\ Idle.at = "idle"
    BY GroupsAssumption DEF Idle, Readings
  <2>4. /\ reading' \in [Nodes -> [Nodes -> Readings]]
        /\ \A a, b \in Nodes : reading'[a][b] = reading[a][b] \/ reading'[a][b].at = "idle"
    <3>1. reading' = Put(reading, n, m, Idle)
      BY <1>10 DEF GroupDestroyed, Put
    <3>2. /\ Put(reading, n, m, Idle) \in [Nodes -> [Nodes -> Readings]]
          /\ \A a, b \in Nodes : Put(reading, n, m, Idle)[a][b] = IF a = n /\ b = m THEN Idle ELSE reading[a][b]
      BY <1>3, <2>3 DEF Put
    <3> QED BY <2>3, <3>1, <3>2
  <2>5. Tabled'
    BY <1>0, <1>10, <2>2, <2>4 DEF GroupDestroyed, Tabled, facts
  <2>6. wire' \in QueueSet(Kinds)
    BY <1>0, <1>10 DEF GroupDestroyed, Packeted
  <2> QED BY <1>1, <1>10, <2>4, <2>5, <2>6 DEF GroupDestroyed, Heard, queues, Asking
<1> QED BY <1>4, <1>5, <1>6, <1>7, <1>8, <1>9, <1>10

\* The requests about groups.
LEMMA JoinHandlersHeard ==
    ASSUME Typed, Asking, NEW n \in Nodes, NEW m \in Nodes,
           \/ HandleGroupJoin(n, m) \/ HandleGroupJoined(n, m) \/ HandleGroupLeave(n, m) \/ UnknownCreated(n, m)
    PROVE  Heard
<1>0. Packeted /\ Tabled
  BY DEF Typed
<1> DEFINE p == Received(n, m)
<1>1. /\ high' = high /\ medium' = medium => Talks(Hearsay)
      /\ \A f \in [Nodes -> Seq(Hearsay)] : high' = Queued(high, n, f) /\ medium' = medium => Talks(Hearsay)
  BY <1>0, TalksLess, HearsayFits
<1>2. \A t : Take(n, m, t) => /\ wire' \in QueueSet(Kinds) /\ p \in FitPkts(Kinds) /\ p.t = t
                              /\ p.g \in Nat /\ p.o \in 0..MaxOps /\ Mentions(p) \subseteq Known
  BY Receiving
<1>3. /\ groups \in GroupTables /\ destroyed \in GroupTables
      /\ reading \in [Nodes -> [Nodes -> Readings]]
      /\ told \in [Nodes -> [GroupIds -> Nat \X Nat]]
  BY <1>0 DEF Tabled
<1>4. ASSUME NEW at \in {"join", "joined"}, CreateUnknown(n, m, at), p.g \in Nat, p.o \in 0..MaxOps
      PROVE  /\ groups' \in GroupTables /\ told' \in [Nodes -> [GroupIds -> Nat \X Nat]]
             /\ reading' \in [Nodes -> [Nodes -> Readings]]
             /\ \A a, b \in Nodes : \/ reading'[a][b] = reading[a][b]
                                    \/ reading'[a][b].at = at /\ reading'[a][b].o = p.o
  <2> DEFINE d == [at |-> at, g |-> p.g, o |-> p.o]
  <2>1. /\ groups' = [groups EXCEPT ![n] = @ \cup {p.g}] /\ told' = Tell(told, n, p.g, 1)
        /\ reading' = Put(reading, n, m, d)
    BY <1>4 DEF CreateUnknown, Tell, Put
  <2>2. d \in Readings /\ d.at = at /\ d.o = p.o
    BY <1>4 DEF Readings
  <2> HIDE DEF d
  <2>3. groups' \in GroupTables
    BY <1>3, <1>4, <2>1, GroupAdded
  <2>4. told' \in [Nodes -> [GroupIds -> Nat \X Nat]]
    BY <1>3, <2>1, TellTypes
  <2>5. /\ Put(reading, n, m, d) \in [Nodes -> [Nodes -> Readings]]
        /\ \A a, b \in Nodes : Put(reading, n, m, d)[a][b] = IF a = n /\ b = m THEN d ELSE reading[a][b]
    BY <1>3, <2>2 DEF Put
  <2> QED BY <2>1, <2>2, <2>3, <2>4, <2>5
<1>5. CASE HandleGroupJoin(n, m)
  <2>1. Take(n, m, "join") /\ wire' \in QueueSet(Kinds) /\ p.g \in Nat /\ p.o \in 0..MaxOps
    BY <1>2, <1>5 DEF HandleGroupJoin
  <2>2. p.o \in OpIds /\ Kinds[p.o] = "add" /\ p.g \in Known \cup {0}
    <3>1. p \in FitPkts(Kinds) /\ p.t = "join" /\ Mentions(p) \subseteq Known
      BY <1>2, <2>1
    <3> QED BY <2>1, <3>1 DEF FitPkts, Fits, Requests, AskedBy, Mentions
  <2>3. op[p.o].kind = "add"
    BY <2>2 DEF Kinds
  <2>4. /\ JoinRefusal(n, p.g) \in ResultsOf(AskedBy["join"])
        /\ "ok" \in ResultsOf(AskedBy["join"])
    BY DEF JoinRefusal, ResultsOf, AskedBy
  <2>5. /\ To(m, <<AckPacket(p.o, JoinRefusal(n, p.g), 0)>>) \in [Nodes -> Seq(Hearsay)]
        /\ To(m, <<AckPacket(p.o, "ok", 0)>>) \in [Nodes -> Seq(Hearsay)]
    BY <2>1, <2>4, AcksHearsay
  <2>6. JoinAnswer(n, m, p.o, p.g) \in [Nodes -> Seq(Hearsay)]
    <3>1. Packet("joined", p.g, 0, "none") \in Hearsay
      BY <2>1, <2>2, GroupPacketIsHearsay
    <3>2. Broadcast(n, Packet("joined", p.g, 0, "none")) \in [Nodes -> Seq(Hearsay)]
      BY <3>1, SentTypes
    <3> QED BY <2>5, <3>2, SentTypes DEF JoinAnswer
  <2>7. \/ Acknowledge(n, m, JoinRefusal(n, p.g), 0) /\ UNCHANGED <<groups, told, reading>>
        \/ CreateUnknown(n, m, "join") /\ high' = high
        \/ high' = Queued(high, n, JoinAnswer(n, m, p.o, p.g)) /\ UNCHANGED <<groups, told, reading>>
    BY <1>5 DEF HandleGroupJoin
  <2>8. medium' = medium /\ UNCHANGED <<op, acks, threads>>
    BY <1>5 DEF HandleGroupJoin
  <2>9. Talks(Hearsay)
    BY <1>1, <2>5, <2>6, <2>7, <2>8 DEF Acknowledge
  <2>10. /\ groups' \in GroupTables /\ told' \in [Nodes -> [GroupIds -> Nat \X Nat]]
         /\ reading' \in [Nodes -> [Nodes -> Readings]]
         /\ \A a, b \in Nodes : \/ reading'[a][b] = reading[a][b]
                                \/ reading'[a][b].at = "join" /\ reading'[a][b].o = p.o
    <3>1. CASE UNCHANGED <<groups, told, reading>>
      BY <1>3, <3>1
    <3>2. CASE CreateUnknown(n, m, "join")
      BY <1>4, <2>1, <3>2
    <3> QED BY <2>7, <3>1, <3>2
  <2>11. Tabled'
    BY <1>0, <1>5, <2>10 DEF HandleGroupJoin, Tabled, facts
  <2>12. ASSUME NEW a \in Nodes, NEW b \in Nodes, reading'[a][b].at = "join"
         PROVE  reading'[a][b].o \in OpIds /\ op[reading'[a][b].o].kind = "add"
    <3>1. CASE reading'[a][b] = reading[a][b]
      BY <2>12, <3>1 DEF Asking
    <3>2. CASE reading'[a][b].o = p.o
      BY <2>2, <2>3, <3>2
    <3> QED BY <2>10, <3>1, <3>2
  <2> QED BY <2>1, <2>8, <2>9, <2>11, <2>12 DEF Heard
<1>6. CASE HandleGroupJoined(n, m)
  <2>1. wire' \in QueueSet(Kinds) /\ p.g \in Nat /\ p.o \in 0..MaxOps
    BY <1>2, <1>6 DEF HandleGroupJoined
  <2>2. \/ CreateUnknown(n, m, "joined")
        \/ UNCHANGED <<groups, told, reading>>
    BY <1>6 DEF HandleGroupJoined
  <2>3. /\ groups' \in GroupTables /\ told' \in [Nodes -> [GroupIds -> Nat \X Nat]]
        /\ reading' \in [Nodes -> [Nodes -> Readings]]
        /\ \A a, b \in Nodes : \/ reading'[a][b] = reading[a][b]
                               \/ reading'[a][b].at = "joined"
    <3>1. CASE UNCHANGED <<groups, told, reading>>
      BY <1>3, <3>1
    <3>2. CASE CreateUnknown(n, m, "joined")
      BY <1>4, <2>1, <3>2
    <3> QED BY <2>2, <3>1, <3>2
  <2>4. Tabled'
    BY <1>0, <1>6, <2>3 DEF HandleGroupJoined, Tabled, facts
  <2>5. ASSUME NEW a \in Nodes, NEW b \in Nodes, reading'[a][b].at = "join"
        PROVE  reading'[a][b].o \in OpIds /\ op[reading'[a][b].o].kind = "add"
    <3>1. reading'[a][b] = reading[a][b]
      BY <2>3, <2>5
    <3> QED BY <2>5, <3>1 DEF Asking
  <2>6. Talks(Hearsay) /\ UNCHANGED <<op, acks, threads>>
    BY <1>1, <1>6 DEF HandleGroupJoined, queues
  <2> QED BY <2>1, <2>4, <2>5, <2>6 DEF Heard
<1>7. CASE HandleGroupLeave(n, m)
  <2>1. Take(n, m, "leave") /\ wire' \in QueueSet(Kinds) /\ p.g \in Nat /\ p.o \in 0..MaxOps
    BY <1>2, <1>7 DEF HandleGroupLeave
  <2>2. p.g \in Known \cup {0}
    <3>1. p.t = "leave" /\ Mentions(p) \subseteq Known
      BY <1>2, <2>1
    <3> QED BY <3>1 DEF Mentions
  <2>3. /\ LeaveRefusal(n, p.g) \in ResultsOf(AskedBy["leave"])
        /\ "ok" \in ResultsOf(AskedBy["leave"])
    BY DEF LeaveRefusal, ResultsOf, AskedBy
  <2>4. /\ To(m, <<AckPacket(p.o, LeaveRefusal(n, p.g), 0)>>) \in [Nodes -> Seq(Hearsay)]
        /\ To(m, <<AckPacket(p.o, "ok", 0)>>) \in [Nodes -> Seq(Hearsay)]
    BY <2>1, <2>3, AcksHearsay
  <2>5. LeaveAnswer(n, m, p.o, p.g) \in [Nodes -> Seq(Hearsay)]
    <3>1. Packet("left", p.g, 0, "none") \in Hearsay
      BY <2>1, <2>2, GroupPacketIsHearsay
    <3>2. Broadcast(n, Packet("left", p.g, 0, "none")) \in [Nodes -> Seq(Hearsay)]
      BY <3>1, SentTypes
    <3> QED BY <2>4, <3>2, SentTypes DEF LeaveAnswer
  <2>6. \/ Acknowledge(n, m, LeaveRefusal(n, p.g), 0)
        \/ high' = high
        \/ high' = Queued(high, n, LeaveAnswer(n, m, p.o, p.g))
    BY <1>7 DEF HandleGroupLeave
  <2>7. medium' = medium /\ UNCHANGED <<op, acks, threads, reading>>
    BY <1>7 DEF HandleGroupLeave
  <2>8. Talks(Hearsay)
    BY <1>1, <2>4, <2>5, <2>6, <2>7 DEF Acknowledge
  <2>9. Tabled'
    BY <1>0, <1>7 DEF HandleGroupLeave, Tabled, facts
  <2> QED BY <2>1, <2>7, <2>8, <2>9 DEF Heard, Asking
<1>8. CASE UnknownCreated(n, m)
  <2> DEFINE c == reading[n][m]
  <2>1. Idle \in Readings /\ Idle.at = "idle"
    BY GroupsAssumption DEF Idle, Readings
  <2>2. reading' = Put(reading, n, m, Idle)
    BY <1>8 DEF UnknownCreated, Put
  <2>3. /\ reading' \in [Nodes -> [Nodes -> Readings]]
        /\ \A a, b \in Nodes : reading'[a][b] = reading[a][b] \/ reading'[a][b].at = "idle"
    <3>1. /\ Put(reading, n, m, Idle) \in [Nodes -> [Nodes -> Readings]]
          /\ \A a, b \in Nodes : Put(reading, n, m, Idle)[a][b] = IF a = n /\ b = m THEN Idle ELSE reading[a][b]
      BY <1>3, <2>1 DEF Put
    <3> QED BY <2>1, <2>2, <3>1
  <2>4. medium' = medium /\ UNCHANGED <<op, acks, threads, wire>>
    BY <1>8 DEF UnknownCreated, facts
  <2>5. \/ high' = high
        \/ c.at = "join" /\ high' = Queued(high, n, To(m, <<AckPacket(c.o, "invalidgroup", 0)>>))
    BY <1>8 DEF UnknownCreated
  <2>6. c.at = "join" => To(m, <<AckPacket(c.o, "invalidgroup", 0)>>) \in [Nodes -> Seq(Hearsay)]
    <3> SUFFICES ASSUME c.at = "join" PROVE To(m, <<AckPacket(c.o, "invalidgroup", 0)>>) \in [Nodes -> Seq(Hearsay)]
      OBVIOUS
    <3>1. c.o \in OpIds /\ Kinds[c.o] = "add"
      BY DEF Asking, Kinds
    <3>2. AckPacket(c.o, "invalidgroup", 0) \in Hearsay
      BY <3>1, AckIsHearsay DEF ResultsOf
    <3> QED BY <3>2, HearsayFits, SentTypes
  <2>7. Talks(Hearsay)
    BY <1>1, <2>4, <2>5, <2>6
  <2>8. Tabled'
    BY <1>0, <1>8, <2>3 DEF UnknownCreated, Tabled, tables, facts
  <2> QED BY <1>0, <2>3, <2>4, <2>7, <2>8 DEF Heard, Asking, Packeted
<1> QED BY <1>5, <1>6, <1>7, <1>8

\* Joining.
LEMMA WelcomesHeard ==
    ASSUME Typed, Asking, NEW n \in Nodes, NEW m \in Nodes,
           \/ HandleHostConnectRequest(n, m) \/ HandleHostConnectOk(n, m)
           \/ HandleConnectPeer(n, m) \/ HandleConnectPeerOk(n, m) \/ Connect(n)
    PROVE  Heard
<1>0. Packeted /\ Tabled
  BY DEF Typed
<1> DEFINE p == Received(n, m)
<1>1. /\ high' = high /\ medium' = medium => Talks(Hearsay)
      /\ \A f \in [Nodes -> Seq(Hearsay)] : high' = Queued(high, n, f) /\ medium' = medium => Talks(Hearsay)
      /\ \A f, e \in [Nodes -> Seq(Hearsay)] : high' = Queued(high, n, f) /\ medium' = Queued(medium, n, e) => Talks(Hearsay)
  <2>1. \A f, e \in [Nodes -> Seq(Hearsay)] : high' = Queued(high, n, f) /\ medium' = Queued(medium, n, e) => Talks(Hearsay)
    BY DEF Talks
  <2> QED BY <1>0, <2>1, TalksLess, HearsayFits
<1>2. \A t : Take(n, m, t) => wire' \in QueueSet(Kinds) /\ p \in FitPkts(Kinds)
  BY Receiving
<1>3. /\ \A t \in {"request", "connect"} : Greeting(n, t) \in Seq(Hearsay)
      /\ \A t \in {"host_ok", "peer_ok"} : Welcome(n, m, t) \in Hearsay
      /\ Briefing(n) \in Seq(Hearsay)
  BY WelcomeIsHearsay
<1>4. p \in FitPkts(Kinds) => p.v \in 0..MaxOps /\ p.d \in 0..MaxOps /\ p.p \in SUBSET Nodes
  BY DEF FitPkts, Pkts
<1>5. /\ link \in [Nodes -> [Nodes -> {"none", "requesting", "connected", "failing", "closing", "gone"}]]
      /\ info \in [Nodes -> [Nodes -> 0..MaxOps]] /\ desc \in [Nodes -> 0..MaxOps]
      /\ sess \in [Nodes -> {"out", "connecting", "connected", "terminated"}]
      /\ Host \in Nodes
  BY <1>0, NodesFinite DEF Tabled
<1>6. CASE HandleHostConnectRequest(n, m)
  <2>1. wire' \in QueueSet(Kinds) /\ p.v \in 0..MaxOps
    BY <1>2, <1>4, <1>6 DEF HandleHostConnectRequest
  <2>2. /\ info' \in [Nodes -> [Nodes -> 0..MaxOps]]
        /\ link' \in [Nodes -> [Nodes -> {"none", "requesting", "connected", "failing", "closing", "gone"}]]
    BY <1>5, <1>6, <2>1 DEF HandleHostConnectRequest
  <2>3. Tabled'
    BY <1>0, <1>6, <2>2 DEF HandleHostConnectRequest, Tabled, tables
  <2>4. /\ To(m, Briefing(n)) \in [Nodes -> Seq(Hearsay)]
        /\ To(m, <<Welcome(n, m, "host_ok")>>) \in [Nodes -> Seq(Hearsay)]
    BY <1>3, HearsayFits, SentTypes
  <2>5. Talks(Hearsay)
    BY <1>1, <1>6, <2>4 DEF HandleHostConnectRequest
  <2> QED BY <1>6, <2>1, <2>3, <2>5 DEF HandleHostConnectRequest, Heard, Asking
<1>7. CASE HandleConnectPeer(n, m)
  <2>1. wire' \in QueueSet(Kinds) /\ p.v \in 0..MaxOps
    BY <1>2, <1>4, <1>7 DEF HandleConnectPeer
  <2>2. /\ info' \in [Nodes -> [Nodes -> 0..MaxOps]]
        /\ link' \in [Nodes -> [Nodes -> {"none", "requesting", "connected", "failing", "closing", "gone"}]]
    BY <1>5, <1>7, <2>1 DEF HandleConnectPeer
  <2>3. Tabled'
    BY <1>0, <1>7, <2>2 DEF HandleConnectPeer, Tabled, tables
  <2>4. To(m, Append(Briefing(n), Welcome(n, m, "peer_ok"))) \in [Nodes -> Seq(Hearsay)]
    <3>1. Append(Briefing(n), Welcome(n, m, "peer_ok")) \in Seq(Hearsay)
      BY <1>3, AppendProperties
    <3> QED BY <3>1, SentTypes
  <2>5. Talks(Hearsay)
    BY <1>1, <1>7, <2>4 DEF HandleConnectPeer, WelcomePeer
  <2> QED BY <1>7, <2>1, <2>3, <2>5 DEF HandleConnectPeer, Heard, Asking
<1>8. CASE HandleHostConnectOk(n, m)
  <2>1. wire' \in QueueSet(Kinds) /\ p.v \in 0..MaxOps /\ p.d \in 0..MaxOps
    BY <1>2, <1>4, <1>8 DEF HandleHostConnectOk
  <2>2. info' = [info EXCEPT ![n][m] = p.v] /\ desc' = [desc EXCEPT ![n] = p.d]
    BY <1>8 DEF HandleHostConnectOk
  <2>3. info' \in [Nodes -> [Nodes -> 0..MaxOps]] /\ desc' \in [Nodes -> 0..MaxOps]
    <3> HIDE DEF p
    <3> QED BY <1>5, <2>1, <2>2
  <2>4. link' \in [Nodes -> [Nodes -> {"none", "requesting", "connected", "failing", "closing", "gone"}]]
    <3> DEFINE l == [x \in Nodes |-> IF x = m THEN "connected" ELSE IF x \in p.p THEN "requesting" ELSE link[n][x]]
    <3>1. link' = [link EXCEPT ![n] = l]
      BY <1>8 DEF HandleHostConnectOk
    <3>2. l \in [Nodes -> {"none", "requesting", "connected", "failing", "closing", "gone"}]
      BY <1>5
    <3> HIDE DEF l
    <3> QED BY <1>5, <3>1, <3>2
  <2>5. sess' \in [Nodes -> {"out", "connecting", "connected", "terminated"}]
    BY <1>5, <1>8 DEF HandleHostConnectOk, Complete
  <2>6. Tabled'
    BY <1>0, <1>8, <2>3, <2>4, <2>5 DEF HandleHostConnectOk, Tabled
  <2>7. [x \in Nodes |-> IF x \in p.p THEN Greeting(n, "connect") ELSE <<>>] \in [Nodes -> Seq(Hearsay)]
    BY <1>3, HearsayFits
  <2>8. Talks(Hearsay)
    BY <1>1, <1>8, <2>7 DEF HandleHostConnectOk
  <2> QED BY <1>8, <2>1, <2>6, <2>8 DEF HandleHostConnectOk, Heard, Asking
<1>9. CASE HandleConnectPeerOk(n, m)
  <2>1. wire' \in QueueSet(Kinds) /\ p.v \in 0..MaxOps
    BY <1>2, <1>4, <1>9 DEF HandleConnectPeerOk
  <2>2. /\ info' \in [Nodes -> [Nodes -> 0..MaxOps]]
        /\ link' \in [Nodes -> [Nodes -> {"none", "requesting", "connected", "failing", "closing", "gone"}]]
    BY <1>5, <1>9, <2>1 DEF HandleConnectPeerOk
  <2>3. sess' \in [Nodes -> {"out", "connecting", "connected", "terminated"}]
    BY <1>5, <1>9 DEF HandleConnectPeerOk, Complete
  <2>4. Tabled'
    BY <1>0, <1>9, <2>2, <2>3 DEF HandleConnectPeerOk, Tabled
  <2> QED BY <1>1, <1>9, <2>1, <2>4 DEF HandleConnectPeerOk, Heard, Asking, queues
<1>10. CASE Connect(n)
  <2>1. wire' \in QueueSet(Kinds)
    BY <1>0, <1>10 DEF Connect, Packeted
  <2>2. /\ link' \in [Nodes -> [Nodes -> {"none", "requesting", "connected", "failing", "closing", "gone"}]]
        /\ sess' \in [Nodes -> {"out", "connecting", "connected", "terminated"}]
    BY <1>5, <1>10 DEF Connect
  <2>3. Tabled'
    BY <1>0, <1>10, <2>2 DEF Connect, Tabled, tables, facts
  <2>4. To(Host, Greeting(n, "request")) \in [Nodes -> Seq(Hearsay)]
    BY <1>3, SentTypes
  <2>5. Talks(Hearsay)
    <3>1. high = Queued(high, n, Silence) /\ Silence \in [Nodes -> Seq(Hearsay)]
      <4>1. high \in [Nodes -> [Nodes -> Seq(FitPkts(Kinds))]]
        BY <1>0 DEF Packeted, QueueSet
      <4>2. Silence \in [Nodes -> Seq(Hearsay)]
        BY HearsayFits DEF Silence
      <4> QED BY <4>1, <4>2, QueuedNothing
    <3>2. high' = high /\ medium' = Queued(medium, n, To(Host, Greeting(n, "request")))
      BY <1>10 DEF Connect
    <3> QED BY <1>1, <2>4, <3>1, <3>2
  <2> QED BY <1>10, <2>1, <2>3, <2>5 DEF Connect, Heard, Asking
<1> QED BY <1>6, <1>7, <1>8, <1>9, <1>10

\* Losing a connection, and clearing the table of a session that is over.
LEMMA OthersHeard ==
    ASSUME Typed, Asking, NEW n \in Nodes, NEW m \in Nodes, Break(n, m) \/ GroupDestroyAll(n)
    PROVE  Heard
<1>0. Packeted /\ Tabled
  BY DEF Typed
<1>1. high' = high /\ medium' = medium => Talks(Hearsay)
  BY <1>0, TalksLess, HearsayFits
<1>2. wire' \in QueueSet(Kinds) /\ UNCHANGED <<op, acks, threads, queues>>
  BY <1>0 DEF Break, GroupDestroyAll, Packeted
<1>3. CASE Break(n, m)
  <2>1. Tabled'
    BY <1>0, <1>3 DEF Break, Tabled, tables, facts
  <2> QED BY <1>1, <1>2, <1>3, <2>1 DEF Break, Heard, queues, Asking
<1>4. CASE GroupDestroyAll(n)
  <2>1. /\ groups \in GroupTables /\ destroyed \in GroupTables
        /\ reading \in [Nodes -> [Nodes -> Readings]]
        /\ told \in [Nodes -> [GroupIds -> Nat \X Nat]]
    BY <1>0 DEF Tabled
  <2>2. PICK g \in groups[n] :
           \/ groups' = [groups EXCEPT ![n] = @ \ {g}] /\ UNCHANGED <<destroyed, told, reading>>
           \/ /\ destroyed' = [destroyed EXCEPT ![n] = @ \cup {g}]
              /\ told' = Tell(told, n, g, 2)
              /\ reading' = Put(reading, n, n, [at |-> "destroying", g |-> g, o |-> 0])
              /\ groups' = groups
    BY <1>4 DEF GroupDestroyAll, EraseGroup, Tell, Put
  <2>3. g \in Nat
    BY <2>1 DEF GroupTables
  <2>4. CASE groups' = [groups EXCEPT ![n] = @ \ {g}] /\ UNCHANGED <<destroyed, told, reading>>
    <3>1. groups' \in GroupTables
      BY <2>1, <2>3, <2>4, GroupAdded
    <3>2. Tabled'
      BY <1>0, <1>4, <2>4, <3>1 DEF GroupDestroyAll, Tabled, facts
    <3> QED BY <1>1, <1>2, <2>4, <3>2 DEF Heard, queues, Asking
  <2>5. CASE /\ destroyed' = [destroyed EXCEPT ![n] = @ \cup {g}]
             /\ told' = Tell(told, n, g, 2)
             /\ reading' = Put(reading, n, n, [at |-> "destroying", g |-> g, o |-> 0])
             /\ groups' = groups
    <3> DEFINE d == [at |-> "destroying", g |-> g, o |-> 0]
    <3>1. destroyed' \in GroupTables
      BY <2>1, <2>3, <2>5, GroupAdded
    <3>2. told' \in [Nodes -> [GroupIds -> Nat \X Nat]]
      BY <2>1, <2>5, TellTypes
    <3>3. d \in Readings /\ d.at = "destroying" /\ reading' = Put(reading, n, n, d)
      BY <2>3, <2>5, GroupsAssumption DEF Readings
    <3> HIDE DEF d
    <3>4. /\ Put(reading, n, n, d) \in [Nodes -> [Nodes -> Readings]]
          /\ \A a, b \in Nodes : Put(reading, n, n, d)[a][b] = IF a = n /\ b = n THEN d ELSE reading[a][b]
      BY <2>1, <3>3 DEF Put
    <3>5. /\ reading' \in [Nodes -> [Nodes -> Readings]]
          /\ \A a, b \in Nodes : reading'[a][b] = reading[a][b] \/ reading'[a][b].at = "destroying"
      BY <3>3, <3>4
    <3>6. Tabled'
      BY <1>0, <1>4, <2>5, <3>1, <3>2, <3>5 DEF GroupDestroyAll, Tabled, facts
    <3>7. ASSUME NEW a \in Nodes, NEW b \in Nodes, reading'[a][b].at = "join"
          PROVE  reading'[a][b].o \in OpIds /\ op[reading'[a][b].o].kind = "add"
      <4>1. reading'[a][b] = reading[a][b]
        BY <3>5, <3>7
      <4> QED BY <3>7, <4>1 DEF Asking
    <3> QED BY <1>1, <1>2, <3>6, <3>7 DEF Heard, queues
  <2> QED BY <2>2, <2>4, <2>5
<1> QED BY <1>3, <1>4

-------------------------------------------------------------------------------
(* Calls.                                                                    *)

Send(S, p) == [x \in Nodes |-> IF x \in S THEN <<p>> ELSE <<>>]

\* What n queues for S when it makes call o, the threads it starts, and the record.
Issue(n, o, S, p, T, r) ==
    /\ op[o].kind = "none" /\ op' = [op EXCEPT ![o] = r] /\ r.kind # "none"
    /\ p.o = o /\ p.t # "ack" /\ (p.cb = "register" => p.t \in Requests)
    /\ p.t \in Requests => r.kind = AskedBy[p.t]
    /\ \/ high' = Queued(high, n, Send(S, p)) /\ medium' = medium
       \/ medium' = Queued(medium, n, Send(S, p)) /\ high' = high
    /\ threads' = threads \cup T /\ \A th \in T : T = {th} /\ th.o = o
    /\ r.lost = 0 /\ r.pending = Cardinality(T) + (IF p.cb = "none" THEN 0 ELSE Cardinality(S))
    /\ r.kind = "create" => p.cb = "count" \/ (T = {} /\ \E m \in Nodes : S = {m})
    /\ UNCHANGED <<acks, wire>>

LEMMA SendForms ==
    /\ \A n, p : Broadcast(n, p) = Send(PeersOf(n), p)
    /\ \A m, p : To(m, <<p>>) = Send({m}, p)
    /\ \A S : \A S2 \in SUBSET Nodes : \A p \in S : Send(S2, p) \in [Nodes -> Seq(S)]
<1>1. \A n, p : Broadcast(n, p) = Send(PeersOf(n), p)
  BY DEF Broadcast, Send
<1>2. \A m, p : To(m, <<p>>) = Send({m}, p)
  BY DEF To, Send
<1>3. ASSUME NEW S, NEW S2 \in SUBSET Nodes, NEW p \in S PROVE Send(S2, p) \in [Nodes -> Seq(S)]
  <2>1. <<p>> \in Seq(S) /\ <<>> \in Seq(S)
    BY EmptySeq, SentTypes
  <2> QED BY <2>1 DEF Send
<1> QED BY <1>1, <1>2, <1>3

\* The queues and the counters keep their types.
LEMMA IssueTypes ==
    ASSUME Typed, Asking, NEW n \in Nodes, NEW o \in OpIds, NEW S \in SUBSET Nodes, NEW p \in Pkts,
           NEW T \in SUBSET ThreadSet, NEW r \in OpRecs, Issue(n, o, S, p, T, r), Tabled', reading' = reading
    PROVE  Typed' /\ Asking'
<1>1. /\ high \in QueueSet(Kinds) /\ medium \in QueueSet(Kinds) /\ wire \in QueueSet(Kinds)
      /\ op \in [OpIds -> OpRecs] /\ threads \subseteq ThreadSet
  BY DEF Typed, Packeted, Counted
<1> DEFINE L == [x \in OpIds |-> op'[x].kind]
<1>2. /\ op' \in [OpIds -> OpRecs] /\ op'[o] = r
      /\ \A x \in OpIds : x # o => op'[x] = op[x]
      /\ op[o].kind = "none"
  BY <1>1 DEF Issue
<1>3. \A x \in OpIds : Kinds[x] # "none" => L[x] = Kinds[x]
  BY <1>2 DEF Kinds
<1>4. Kinds' = L
  BY DEF Kinds
<1>5. L[o] = r.kind
  BY <1>2
<1> HIDE DEF L
<1>6. QueueSet(Kinds) \subseteq QueueSet(L)
  BY <1>3, FitsMore
<1>7. p \in FitPkts(L)
  <2>1. /\ p.o = o /\ p.t # "ack" /\ (p.cb = "register" => p.t \in Requests) /\ r.kind # "none"
        /\ p.t \in Requests => r.kind = AskedBy[p.t]
    BY DEF Issue
  <2> QED BY <1>5, <2>1 DEF FitPkts, Fits
<1>8. high' \in QueueSet(L) /\ medium' \in QueueSet(L)
  <2>1. Send(S, p) \in [Nodes -> Seq(FitPkts(L))]
    BY <1>7, SendForms
  <2>2. \A q \in QueueSet(L) : Queued(q, n, Send(S, p)) \in QueueSet(L)
    BY <2>1, QueuedAt DEF QueueSet
  <2>3. /\ high \in QueueSet(L) /\ medium \in QueueSet(L)
        /\ \/ high' = Queued(high, n, Send(S, p)) /\ medium' = medium
           \/ medium' = Queued(medium, n, Send(S, p)) /\ high' = high
    BY <1>1, <1>6 DEF Issue
  <2> QED BY <2>2, <2>3
<1>9. Packeted'
  <2>1. wire' \in QueueSet(L)
    BY <1>1, <1>6 DEF Issue
  <2> QED BY <1>4, <1>8, <2>1 DEF Packeted
<1>10. Counted'
  <2>1. threads' \subseteq ThreadSet /\ acks' = acks
    BY <1>1 DEF Issue
  <2> QED BY <1>2, <2>1 DEF Typed, Counted
<1>11. Asking'
  <2>1. /\ \A a, b \in Nodes : \A x \in acks[a][b] : x \in OpIds /\ op'[x].kind # "none"
    BY <1>2 DEF Asking, Typed, Counted
  <2>2. \A a, b \in Nodes : reading[a][b].at = "join" => reading[a][b].o \in OpIds /\ op'[reading[a][b].o].kind = "add"
    BY <1>2 DEF Asking
  <2>3. acks' = acks
    BY DEF Issue
  <2> QED BY <2>1, <2>2, <2>3 DEF Asking
<1> QED BY <1>9, <1>10, <1>11 DEF Typed

\* The ids a step makes known: none, or the next one.
NewIds(G) == (G = {} /\ next_id' = next_id) \/ (G = {next_id} /\ next_id' = next_id + 1)

\* A call: what is queued and who tells the application are about known groups.
Called(n, o, G) ==
    \E S \in SUBSET Nodes, p \in Pkts, T \in SUBSET ThreadSet, r \in OpRecs :
       /\ Issue(n, o, S, p, T, r) /\ Mentions(p) \subseteq Known \cup G
       /\ \A th \in T : th.g \in Known \cup G \cup {0}
       /\ \A a \in Nodes : /\ groups'[a] \subseteq groups[a] \cup G
                           /\ destroyed'[a] \subseteq destroyed[a] \cup Known
       /\ reading' = reading /\ Tabled' /\ NewIds(G)

LEMMA PeersCounted ==
    ASSUME NEW n, NEW x
    PROVE  /\ PeersOf(n) \in SUBSET Nodes /\ Cardinality(PeersOf(n)) \in Nat
           /\ Cardinality({}) = 0 /\ Cardinality({x}) = 1
  BY NodesFinite, FS_EmptySet, FS_Singleton DEF PeersOf

\* The calls that tell every peer, and those that ask one.
TellsAll(n, o, k, g, p) ==
    /\ op[o].kind = "none" /\ k \in {"create", "destroy", "add", "remove", "info"} /\ g \in Nat
    /\ p \in Pkts /\ p.o = o /\ p.t \in {"create", "destroy", "joined", "left", "info"}
    /\ IF k = "info" THEN p.t = "info" /\ p.cb = "register" ELSE p.t # "info" /\ p.cb = "count"
    /\ \/ high' = Queued(high, n, Broadcast(n, p)) /\ medium' = medium
       \/ medium' = Queued(medium, n, Broadcast(n, p)) /\ high' = high
    /\ threads' = threads \cup {Thread(n, k, o, g)} /\ UNCHANGED <<acks, wire>>
    /\ Start(o, k, n, g, n, 1 + Cardinality(PeersOf(n)))

AsksOne(n, m, o, t, g) ==
    /\ op[o].kind = "none" /\ t \in {"allocate", "join", "leave"} /\ g \in Nat
    /\ high' = Queued(high, n, To(m, <<Packet(t, g, o, "register")>>))
    /\ UNCHANGED <<medium, acks, wire, threads>>
    /\ Start(o, AskedBy[t], n, g, m, 1)

LEMMA TellingAll ==
    ASSUME Typed, NEW n \in Nodes, NEW o \in OpIds, NEW k, NEW g, NEW p, TellsAll(n, o, k, g, p)
    PROVE  \E S \in SUBSET Nodes, T \in SUBSET ThreadSet, r \in OpRecs :
              Issue(n, o, S, p, T, r) /\ \A th \in T : th.g = g
<1> PICK S \in SUBSET Nodes : S = PeersOf(n)
  BY PeersCounted
<1> DEFINE th == Thread(n, k, o, g)
           c == Cardinality(S)
           r == [kind |-> k, node |-> n, g |-> g, target |-> n, pending |-> 1 + c, result |-> "ok", lost |-> 0]
<1>0. /\ op[o].kind = "none" /\ k \in {"create", "destroy", "add", "remove", "info"} /\ g \in Nat
      /\ p \in Pkts /\ p.o = o /\ p.t \in {"create", "destroy", "joined", "left", "info"}
      /\ IF k = "info" THEN p.t = "info" /\ p.cb = "register" ELSE p.t # "info" /\ p.cb = "count"
  BY DEF TellsAll
<1>1. th \in ThreadSet /\ th.o = o /\ th.g = g
  BY <1>0 DEF Thread, ThreadSet
<1>2. c \in Nat /\ Cardinality({th}) = 1 /\ c = Cardinality(PeersOf(n))
  BY PeersCounted
<1>3. r \in OpRecs /\ r.kind = k /\ r.lost = 0 /\ r.pending = 1 + c
  BY <1>0, <1>2 DEF OpRecs, AllKinds, Results
<1>4. /\ op' = [op EXCEPT ![o] = r]
      /\ \/ high' = Queued(high, n, Broadcast(n, p)) /\ medium' = medium
         \/ medium' = Queued(medium, n, Broadcast(n, p)) /\ high' = high
      /\ threads' = threads \cup {th} /\ UNCHANGED <<acks, wire>>
  BY DEF TellsAll, Start
<1>5. Broadcast(n, p) = Send(S, p)
  BY SendForms
<1> HIDE DEF th, r, c
<1>6. Issue(n, o, S, p, {th}, r)
  <2>1. p.t # "ack" /\ (p.cb = "register" => p.t \in Requests) /\ p.cb # "none"
    BY <1>0 DEF Requests
  <2>2. p.t \in Requests => r.kind = AskedBy[p.t]
    BY <1>0, <1>3 DEF Requests, AskedBy
  <2>3. r.pending = Cardinality({th}) + (IF p.cb = "none" THEN 0 ELSE Cardinality(S))
    BY <1>2, <1>3, <2>1 DEF c
  <2>4. (r.kind = "create" => p.cb = "count") /\ r.kind # "none"
    BY <1>0, <1>3
  <2>5. \A x \in {th} : {th} = {x} /\ x.o = o
    BY <1>1
  <2> QED BY <1>0, <1>3, <1>4, <1>5, <2>1, <2>2, <2>3, <2>4, <2>5 DEF Issue
<1> QED BY <1>1, <1>3, <1>6

\* The calls that ask one peer.
LEMMA AskingOne ==
    ASSUME Typed, NEW n \in Nodes, NEW m \in Nodes, NEW o \in OpIds, NEW t, NEW g, AsksOne(n, m, o, t, g)
    PROVE  /\ \E r \in OpRecs : Issue(n, o, {m}, Packet(t, g, o, "register"), {}, r)
           /\ Packet(t, g, o, "register") \in Pkts /\ Mentions(Packet(t, g, o, "register")) \subseteq {g} \ {0}
<1> DEFINE p == Packet(t, g, o, "register")
           r == [kind |-> AskedBy[t], node |-> n, g |-> g, target |-> m, pending |-> 1, result |-> "ok", lost |-> 0]
<1>0. t \in {"allocate", "join", "leave"} /\ g \in Nat /\ op[o].kind = "none"
  BY DEF AsksOne
<1>1. /\ p \in Pkts /\ p.o = o /\ p.t = t /\ p.cb = "register" /\ p.g = g /\ p.s = {}
  BY <1>0, PacketFields, GroupsAssumption DEF PacketTypes, OpIds
<1>2. AskedBy[t] \in {"create", "add", "remove"}
  BY <1>0 DEF AskedBy
<1>3. r \in OpRecs /\ r.kind = AskedBy[t] /\ r.lost = 0 /\ r.pending = 1
  BY <1>0, <1>2 DEF OpRecs, AllKinds, Results
<1>4. /\ op' = [op EXCEPT ![o] = r] /\ UNCHANGED <<medium, acks, wire, threads>>
      /\ high' = Queued(high, n, To(m, <<p>>))
  BY DEF AsksOne, Start
<1>5. To(m, <<p>>) = Send({m}, p)
  BY SendForms
<1>6. Cardinality({}) = 0 /\ Cardinality({m}) = 1
  BY PeersCounted
<1> HIDE DEF p, r
<1>8. Issue(n, o, {m}, p, {}, r)
  <2>1. p.t # "ack" /\ p.t \in Requests
    BY <1>0, <1>1 DEF Requests
  <2>2. r.kind # "none" /\ r.kind = AskedBy[p.t]
    BY <1>1, <1>2, <1>3
  <2>3. threads' = threads \cup {} /\ \A th \in {} : {} = {th} /\ th.o = o
    BY <1>4
  <2>4. r.pending = Cardinality({}) + (IF p.cb = "none" THEN 0 ELSE Cardinality({m}))
    BY <1>1, <1>3, <1>6
  <2> QED BY <1>0, <1>1, <1>3, <1>4, <1>5, <2>1, <2>2, <2>3, <2>4 DEF Issue
<1>9. Mentions(p) \subseteq {g} \ {0}
  BY <1>0, <1>1 DEF Mentions
<1> QED BY <1>1, <1>3, <1>8, <1>9 DEF p

\* The calls about one group, or none.
CallsOf(n, o, g, m) ==
    \/ SetApplicationDesc(o) /\ n = Host
    \/ CreateGroup(n, o) \/ CreateGroupRemote(n, o) \/ SetPeerInfo(n, o)
    \/ DestroyGroup(n, o, g) \/ AddSelf(n, o, g) \/ RemoveSelf(n, o, g)
    \/ AddRemote(n, o, g, m) \/ RemoveRemote(n, o, g, m)

LEMMA CallsAreIssues ==
    ASSUME Typed, NEW n \in Nodes, NEW o \in OpIds, NEW g \in Nat \ {0}, NEW m \in Nodes, CallsOf(n, o, g, m)
    PROVE  \E G \in SUBSET Nat : Called(n, o, G)
<1>0. Tabled /\ op[o].kind = "none" /\ Host \in Nodes /\ g \in Nat \ {0} /\ next_id \in Nat \ {0}
  <2>1. NextOp(o)
    <3>1. CASE SetApplicationDesc(o) \/ CreateGroup(n, o) \/ CreateGroupRemote(n, o) \/ SetPeerInfo(n, o)
      BY <3>1 DEF SetApplicationDesc, CreateGroup, CreateGroupRemote, SetPeerInfo, MayCall
    <3>2. CASE DestroyGroup(n, o, g) \/ AddSelf(n, o, g) \/ RemoveSelf(n, o, g)
      BY <3>2 DEF DestroyGroup, AddSelf, RemoveSelf, MayCall
    <3>3. CASE AddRemote(n, o, g, m) \/ RemoveRemote(n, o, g, m)
      BY <3>3 DEF AddRemote, RemoveRemote, MayCall
    <3> QED BY <3>1, <3>2, <3>3 DEF CallsOf
  <2>2. op[o].kind = "none"
    BY <2>1 DEF NextOp, Issued
  <2> QED BY <2>2, NodesFinite DEF Typed, Tabled
<1>1. /\ groups \in GroupTables /\ destroyed \in GroupTables
      /\ info \in [Nodes -> [Nodes -> 0..MaxOps]] /\ desc \in [Nodes -> 0..MaxOps] /\ o \in 0..MaxOps
  <2>1. o \in 0..MaxOps
    BY GroupsAssumption DEF OpIds
  <2> QED BY <1>0, <2>1 DEF Tabled
<1>2. g \in groups[n] => g \in Known
  BY <1>0 DEF Known
<1>3. \A t \in PacketTypes : \A x \in Nat : \A cb \in {"none", "count", "register"} :
         LET p == Packet(t, x, o, cb)
         IN  p \in Pkts /\ p.t = t /\ p.g = x /\ p.o = o /\ p.cb = cb /\ p.s = {}
                /\ (t # "ack" => Mentions(p) = {x} \ {0})
  BY <1>1, PacketFields DEF Mentions
<1>4. \A x \in Nodes : groups[x] \subseteq groups[x] \cup {} /\ destroyed[x] \subseteq destroyed[x] \cup Known
  OBVIOUS
<1>5. CASE CreateGroup(n, o)
  <2> PICK x \in Nat : x = next_id
    BY <1>0
  <2> DEFINE p == Packet("create", x, o, "count")
  <2>1. p \in Pkts /\ p.t = "create" /\ p.o = o /\ p.cb = "count" /\ Mentions(p) \subseteq Known \cup {x}
    BY <1>3 DEF PacketTypes
  <2>2. PICK S \in SUBSET Nodes, T \in SUBSET ThreadSet, r \in OpRecs :
           Issue(n, o, S, p, T, r) /\ \A th \in T : th.g = x
    <3>1. TellsAll(n, o, "create", x, p)
      <4> HIDE DEF p
      <4>1. /\ high' = Queued(high, n, Broadcast(n, p)) /\ medium' = medium /\ UNCHANGED <<acks, wire>>
            /\ threads' = threads \cup {Thread(n, "create", o, x)}
            /\ Start(o, "create", n, x, n, 1 + Cardinality(PeersOf(n)))
        BY <1>5 DEF CreateGroup, CreateTheGroup, p
      <4> QED BY <1>0, <2>1, <4>1 DEF TellsAll
    <3> HIDE DEF p
    <3> QED BY <3>1, TellingAll
  <2>3. groups' = [groups EXCEPT ![n] = @ \cup {next_id}] /\ UNCHANGED <<destroyed, reading>>
    BY <1>5 DEF CreateGroup, CreateTheGroup
  <2>4. groups' \in GroupTables /\ \A a \in Nodes : groups'[a] \subseteq groups[a] \cup {next_id}
    <3>1. groups' \in GroupTables
      BY <1>0, <1>1, <2>3, GroupAdded
    <3> QED BY <1>1, <2>3, <3>1 DEF GroupTables
  <2>5. Tabled' /\ NewIds({x})
    BY <1>0, <1>5, <2>4 DEF CreateGroup, Tabled, NewIds
  <2> HIDE DEF p
  <2>6. NewIds({x}) /\ \A a \in Nodes : groups'[a] \subseteq groups[a] \cup {x}
    BY <2>4, <2>5
  <2>7. Called(n, o, {x})
    BY <2>1, <2>2, <2>3, <2>5, <2>6 DEF Called
  <2> QED BY <2>7
<1>6. ASSUME NEW k \in {"destroy", "add", "remove"}, NEW t \in {"destroy", "joined", "left"}, g \in groups[n],
             high' = Queued(high, n, Broadcast(n, Packet(t, g, o, "count"))), medium' = medium,
             threads' = threads \cup {Thread(n, k, o, g)}, UNCHANGED <<acks, wire, reading, groups, next_id>>,
             Start(o, k, n, g, n, 1 + Cardinality(PeersOf(n))), Tabled',
             destroyed' \in {destroyed, [destroyed EXCEPT ![n] = @ \cup {g}]}
      PROVE  Called(n, o, {})
  <2> DEFINE p == Packet(t, g, o, "count")
  <2>1. p \in Pkts /\ p.t = t /\ p.o = o /\ p.cb = "count" /\ Mentions(p) \subseteq Known \cup {}
    BY <1>0, <1>2, <1>3, <1>6 DEF PacketTypes
  <2>2. PICK S \in SUBSET Nodes, T \in SUBSET ThreadSet, r \in OpRecs :
           Issue(n, o, S, p, T, r) /\ \A th \in T : th.g = g
    <3>1. TellsAll(n, o, k, g, p)
      <4> HIDE DEF p
      <4>1. high' = Queued(high, n, Broadcast(n, p)) /\ medium' = medium
        BY <1>6 DEF p
      <4>2. p.t # "info" /\ k # "info" /\ p.t \in {"create", "destroy", "joined", "left", "info"} /\ UNCHANGED <<acks, wire>>
        BY <1>6, <2>1
      <4> QED BY <1>0, <1>6, <2>1, <4>1, <4>2 DEF TellsAll
    <3> HIDE DEF p
    <3> QED BY <3>1, TellingAll
  <2>3. \A x \in Nodes : groups'[x] \subseteq groups[x] \cup {} /\ destroyed'[x] \subseteq destroyed[x] \cup Known
    BY <1>1, <1>2, <1>6 DEF GroupTables
  <2>4. NewIds({}) /\ reading' = reading
    BY <1>6 DEF NewIds
  <2>5. \A th \in T : th.g \in Known \cup {} \cup {0}
    BY <1>2, <1>6, <2>2
  <2> HIDE DEF p
  <2> QED BY <1>6, <2>1, <2>2, <2>3, <2>4, <2>5 DEF Called
<1>7. CASE DestroyGroup(n, o, g)
  <2>1. destroyed' = [destroyed EXCEPT ![n] = @ \cup {g}] /\ destroyed' \in GroupTables
    <3>1. destroyed' = [destroyed EXCEPT ![n] = @ \cup {g}]
      BY <1>7 DEF DestroyGroup
    <3> QED BY <1>0, <1>1, <3>1, GroupAdded
  <2>2. Tabled'
    BY <1>0, <1>7, <2>1 DEF DestroyGroup, Tabled, facts
  <2>3. Called(n, o, {})
    BY <1>6, <1>7, <2>1, <2>2 DEF DestroyGroup, facts
  <2> QED BY <2>3
<1>8. CASE AddSelf(n, o, g)
  <2>1. Tabled'
    BY <1>0, <1>8 DEF AddSelf, Tabled, facts
  <2>2. Called(n, o, {})
    BY <1>6, <1>8, <2>1 DEF AddSelf, facts
  <2> QED BY <2>2
<1>9. CASE RemoveSelf(n, o, g)
  <2>1. Tabled'
    BY <1>0, <1>9 DEF RemoveSelf, Tabled, facts
  <2>2. Called(n, o, {})
    BY <1>6, <1>9, <2>1 DEF RemoveSelf, facts
  <2> QED BY <2>2
<1>10. CASE SetPeerInfo(n, o)
  <2> DEFINE q == Packet("info", 0, o, "register")
             p == [q EXCEPT !.v = o]
  <2>1. q \in Pkts /\ q.t = "info" /\ q.g = 0 /\ q.o = o /\ q.cb = "register" /\ q.s = {}
    BY <1>3 DEF PacketTypes
  <2>2. p.t = "info" /\ p.g = 0 /\ p.o = o /\ p.cb = "register" /\ p.s = {}
    BY DEF Packet
  <2>3. p \in Pkts
    <3> HIDE DEF q
    <3> QED BY <1>1, <2>1 DEF Pkts
  <2>4. /\ medium' = Queued(medium, n, Broadcast(n, p)) /\ high' = high /\ UNCHANGED <<acks, wire>>
        /\ threads' = threads \cup {Thread(n, "info", o, 0)}
        /\ Start(o, "info", n, 0, n, 1 + Cardinality(PeersOf(n)))
    BY <1>10 DEF SetPeerInfo
  <2> HIDE DEF p
  <2>5. Mentions(p) \subseteq Known \cup {}
    BY <2>2 DEF Mentions
  <2>6. PICK S \in SUBSET Nodes, T \in SUBSET ThreadSet, r \in OpRecs :
           Issue(n, o, S, p, T, r) /\ \A th \in T : th.g = 0
    <3>1. TellsAll(n, o, "info", 0, p)
      BY <1>0, <2>2, <2>3, <2>4 DEF TellsAll
    <3> QED BY <3>1, TellingAll
  <2>7. info' \in [Nodes -> [Nodes -> 0..MaxOps]]
    BY <1>1, <1>10 DEF SetPeerInfo
  <2>8. Tabled' /\ reading' = reading /\ UNCHANGED <<groups, destroyed, next_id>>
    BY <1>0, <1>10, <2>7 DEF SetPeerInfo, Tabled, tables
  <2>9. NewIds({})
    BY <2>8 DEF NewIds
  <2>10. \A th \in T : th.g \in Known \cup {} \cup {0}
    BY <2>6
  <2>11. \A x \in Nodes : groups'[x] \subseteq groups[x] \cup {} /\ destroyed'[x] \subseteq destroyed[x] \cup Known
    BY <2>8
  <2>12. Called(n, o, {})
    BY <2>3, <2>5, <2>6, <2>8, <2>9, <2>10, <2>11 DEF Called
  <2> QED BY <2>12
<1>11. ASSUME NEW t \in {"allocate", "join", "leave"}, NEW x \in Nodes, NEW y \in Known \cup {0}, y \in Nat,
              high' = Queued(high, n, To(x, <<Packet(t, y, o, "register")>>)),
              UNCHANGED <<medium, acks, wire, threads, reading, groups, destroyed, next_id>>,
              Start(o, AskedBy[t], n, y, x, 1), Tabled'
       PROVE  Called(n, o, {})
  <2> DEFINE p == Packet(t, y, o, "register")
  <2>1. /\ \E r \in OpRecs : Issue(n, o, {x}, p, {}, r)
        /\ p \in Pkts /\ Mentions(p) \subseteq {y} \ {0}
    <3>1. AsksOne(n, x, o, t, y)
      BY <1>0, <1>11 DEF AsksOne
    <3> QED BY <3>1, AskingOne
  <2> HIDE DEF p
  <2>2. {x} \in SUBSET Nodes /\ {} \in SUBSET ThreadSet /\ NewIds({}) /\ Mentions(p) \subseteq Known \cup {}
    BY <1>11, <2>1 DEF NewIds
  <2>3. \A z \in Nodes : groups'[z] \subseteq groups[z] \cup {} /\ destroyed'[z] \subseteq destroyed[z] \cup Known
    BY <1>11
  <2> QED BY <1>11, <2>1, <2>2, <2>3 DEF Called
<1>12. AskedBy["allocate"] = "create" /\ AskedBy["join"] = "add" /\ AskedBy["leave"] = "remove"
  BY DEF AskedBy
<1>13. CASE CreateGroupRemote(n, o)
  <2>1. Tabled'
    BY <1>0, <1>13 DEF CreateGroupRemote, Tabled, tables, facts
  <2>2. 0 \in Known \cup {0} /\ 0 \in Nat /\ "allocate" \in {"allocate", "join", "leave"}
    OBVIOUS
  <2>3. /\ high' = Queued(high, n, To(Host, <<Packet("allocate", 0, o, "register")>>))
        /\ UNCHANGED <<medium, acks, wire, threads, reading, groups, destroyed, next_id>>
        /\ Start(o, AskedBy["allocate"], n, 0, Host, 1)
    BY <1>12, <1>13 DEF CreateGroupRemote, tables, facts
  <2>4. Called(n, o, {})
    BY <1>0, <1>11, <2>1, <2>2, <2>3
  <2> QED BY <2>4
<1>14. CASE AddRemote(n, o, g, m)
  <2>1. Tabled'
    BY <1>0, <1>14 DEF AddRemote, Tabled, tables, facts
  <2>2. g \in Known \cup {0} /\ g \in Nat /\ "join" \in {"allocate", "join", "leave"}
    BY <1>0, <1>2, <1>14 DEF AddRemote
  <2>3. /\ high' = Queued(high, n, To(m, <<Packet("join", g, o, "register")>>))
        /\ UNCHANGED <<medium, acks, wire, threads, reading, groups, destroyed, next_id>>
        /\ Start(o, AskedBy["join"], n, g, m, 1)
    BY <1>12, <1>14 DEF AddRemote, tables, facts
  <2>4. Called(n, o, {})
    BY <1>11, <2>1, <2>2, <2>3
  <2> QED BY <2>4
<1>15. CASE RemoveRemote(n, o, g, m)
  <2>1. Tabled'
    BY <1>0, <1>15 DEF RemoveRemote, Tabled, tables, facts
  <2>2. g \in Known \cup {0} /\ g \in Nat /\ "leave" \in {"allocate", "join", "leave"}
    BY <1>0, <1>2, <1>15 DEF RemoveRemote
  <2>3. /\ high' = Queued(high, n, To(m, <<Packet("leave", g, o, "register")>>))
        /\ UNCHANGED <<medium, acks, wire, threads, reading, groups, destroyed, next_id>>
        /\ Start(o, AskedBy["leave"], n, g, m, 1)
    BY <1>12, <1>15 DEF RemoveRemote, tables, facts
  <2>4. Called(n, o, {})
    BY <1>11, <2>1, <2>2, <2>3
  <2> QED BY <2>4
<1>16. CASE SetApplicationDesc(o) /\ n = Host
  <2> PICK S \in SUBSET Nodes : S = PeersOf(n)
    BY PeersCounted
  <2> DEFINE q == Packet("desc", 0, o, "none")
             p == [q EXCEPT !.d = o]
             r == [kind |-> "desc", node |-> n, g |-> 0, target |-> n, pending |-> 0, result |-> "ok", lost |-> 0]
  <2>1. q \in Pkts
    BY <1>3 DEF PacketTypes
  <2>2. p.t = "desc" /\ p.g = 0 /\ p.o = o /\ p.cb = "none" /\ p.s = {}
    BY DEF Packet
  <2>3. p \in Pkts
    <3> HIDE DEF q
    <3> QED BY <1>1, <2>1 DEF Pkts
  <2>4. r \in OpRecs /\ r.kind = "desc" /\ r.pending = 0 /\ r.lost = 0
    BY <1>0 DEF OpRecs, AllKinds, Results
  <2>5. /\ medium' = Queued(medium, n, Broadcast(n, p)) /\ high' = high /\ op' = [op EXCEPT ![o] = r]
        /\ UNCHANGED <<acks, wire, threads>>
    BY <1>16 DEF SetApplicationDesc, Announce, Start
  <2> HIDE DEF p, r
  <2>6. Mentions(p) \subseteq Known \cup {} /\ p.t \notin Requests
    BY <2>2 DEF Mentions, Requests
  <2>7. Broadcast(n, p) = Send(S, p) /\ Cardinality({}) = 0
    BY SendForms, PeersCounted
  <2>8. r.pending = Cardinality({}) + (IF p.cb = "none" THEN 0 ELSE Cardinality(S))
    BY <2>2, <2>4, <2>7
  <2>9. Issue(n, o, S, p, {}, r)
    BY <1>0, <2>2, <2>4, <2>5, <2>6, <2>7, <2>8 DEF Issue
  <2>10. desc' \in [Nodes -> 0..MaxOps]
    BY <1>1, <1>16 DEF SetApplicationDesc
  <2>11. Tabled' /\ reading' = reading /\ UNCHANGED <<groups, destroyed, next_id>>
    BY <1>0, <1>16, <2>10 DEF SetApplicationDesc, Tabled, tables
  <2>12. {} \in SUBSET ThreadSet /\ NewIds({})
    BY <2>11 DEF NewIds
  <2>13. \A x \in Nodes : groups'[x] \subseteq groups[x] \cup {} /\ destroyed'[x] \subseteq destroyed[x] \cup Known
    BY <2>11
  <2>14. Called(n, o, {})
    BY <2>3, <2>4, <2>6, <2>9, <2>11, <2>12, <2>13 DEF Called
  <2> QED BY <2>14
<1> QED BY <1>5, <1>7, <1>8, <1>9, <1>10, <1>13, <1>14, <1>15, <1>16 DEF CallsOf

-------------------------------------------------------------------------------
(* Counting down.                                                            *)

LEMMA SettleTypes ==
    ASSUME NEW ops \in [OpIds -> OpRecs], NEW S, NEW r \in Results
    PROVE  /\ Settle(ops, S, r) \in [OpIds -> OpRecs]
           /\ \A o \in OpIds :
                 LET x == Settle(ops, S, r)[o]
                 IN  /\ x.kind = ops[o].kind /\ x.lost = ops[o].lost /\ x.node = ops[o].node
                     /\ x.g = ops[o].g
                     /\ x.pending = IF o \in S THEN ops[o].pending - 1 ELSE ops[o].pending
<1> SUFFICES ASSUME NEW o \in OpIds
             PROVE  LET x == Settle(ops, S, r)[o]
                    IN  /\ x \in OpRecs
                        /\ x.kind = ops[o].kind /\ x.lost = ops[o].lost /\ x.node = ops[o].node
                        /\ x.g = ops[o].g
                        /\ x.pending = IF o \in S THEN ops[o].pending - 1 ELSE ops[o].pending
  BY DEF Settle
<1> DEFINE y == ops[o]
           x == Settle(ops, S, r)[o]
<1>1. y \in OpRecs
  OBVIOUS
<1>2. x = IF o \in S THEN Settled(y, r) ELSE y
  BY DEF Settle
<1>3. y.pending \in Int /\ y.result \in Results
  BY <1>1 DEF OpRecs
<1> HIDE DEF y, x
<1>4. Settled(y, r) \in OpRecs /\ Settled(y, r).pending = y.pending - 1
  <2> PICK s \in Results : s = IF y.kind = "info" /\ y.result # "ok" THEN y.result ELSE r
    BY <1>3
  <2>1. Settled(y, r) = [y EXCEPT !.pending = y.pending - 1, !.result = s]
    BY DEF Settled
  <2>2. y.pending - 1 \in Int
    BY <1>3
  <2> QED BY <1>1, <2>1, <2>2 DEF OpRecs
<1>5. Settled(y, r).kind = y.kind /\ Settled(y, r).lost = y.lost /\ Settled(y, r).node = y.node /\ Settled(y, r).g = y.g
  BY <1>1 DEF Settled, OpRecs
<1> QED BY <1>1, <1>2, <1>4, <1>5 DEF x, y

\* The types after a step that makes no call.
LEMMA TypedStep ==
    ASSUME Typed, Asking, Tabled', \A x \in {high', medium', wire'} : x \in QueueSet(Kinds),
           op' \in [OpIds -> OpRecs], \A o \in OpIds : op'[o].kind = op[o].kind,
           threads' \subseteq ThreadSet, acks' \in [Nodes -> [Nodes -> SUBSET OpIds]],
           \A n, m \in Nodes : \A o \in acks'[n][m] : op[o].kind # "none",
           reading' = reading
    PROVE  Typed' /\ Asking' /\ Kinds' = Kinds
<1>1. Kinds' = Kinds
  BY DEF Kinds
<1>2. Packeted' /\ Counted'
  BY <1>1 DEF Packeted, Counted
<1>3. Asking'
  <2>1. \A n, m \in Nodes : \A o \in acks'[n][m] : o \in OpIds /\ op'[o].kind # "none"
    OBVIOUS
  <2>2. \A n, m \in Nodes : reading[n][m].at = "join" => reading[n][m].o \in OpIds /\ op'[reading[n][m].o].kind = "add"
    BY DEF Asking
  <2> QED BY <2>1, <2>2 DEF Asking
<1> QED BY <1>1, <1>2, <1>3 DEF Typed

\* An op in a queue that somebody waits for has been issued.
LEMMA WaitedIssued ==
    ASSUME NEW p \in FitPkts(Kinds), p.cb # "none"
    PROVE  p.o \in OpIds /\ op[p.o].kind # "none"
  BY DEF FitPkts, Fits, Kinds

\* The queues of one connection.
LEMMA QueueTypes ==
    ASSUME Typed, NEW n \in Nodes, NEW m \in Nodes
    PROVE  /\ high[n][m] \in Seq(FitPkts(Kinds)) /\ medium[n][m] \in Seq(FitPkts(Kinds))
           /\ wire[n][m] \in Seq(FitPkts(Kinds))
           /\ high[n][m] \o medium[n][m] \in Seq(FitPkts(Kinds))
           /\ acks[n][m] \subseteq OpIds
<1>1. /\ high[n][m] \in Seq(FitPkts(Kinds)) /\ medium[n][m] \in Seq(FitPkts(Kinds))
      /\ wire[n][m] \in Seq(FitPkts(Kinds))
  BY DEF Typed, Packeted, QueueSet
<1>2. acks[n][m] \subseteq OpIds
  BY DEF Typed, Counted
<1> QED BY <1>1, <1>2, ConcatProperties

\* Writing takes the first packet of one queue.
WriteStep(n, m, p) ==
    /\ \/ /\ high[n][m] # <<>> /\ p = Head(high[n][m])
          /\ high' = Put(high, n, m, Tail(high[n][m])) /\ medium' = medium
       \/ /\ medium[n][m] # <<>> /\ p = Head(medium[n][m])
          /\ medium' = Put(medium, n, m, Tail(medium[n][m])) /\ high' = high
    /\ wire' = IF {n, m} \in cut THEN wire ELSE Put(wire, n, m, Append(wire[n][m], p))
    /\ op' = IF p.cb = "count" THEN Settle(op, {p.o}, "ok") ELSE op
    /\ acks' = IF p.cb = "register" THEN Put(acks, n, m, acks[n][m] \cup {p.o}) ELSE acks

LEMMA Writing ==
    ASSUME Typed, NEW n \in Nodes, NEW m \in Nodes, Write(n, m)
    PROVE  \E p \in FitPkts(Kinds) : WriteStep(n, m, p)
<1> DEFINE h == high[n][m]
           e == medium[n][m]
           q == h \o e
           p == Head(q)
<1>1. h \in Seq(FitPkts(Kinds)) /\ e \in Seq(FitPkts(Kinds)) /\ q \in Seq(FitPkts(Kinds))
  BY QueueTypes
<1>2. /\ q # <<>>
      /\ IF h # <<>> THEN high' = [high EXCEPT ![n][m] = Tail(@)] /\ medium' = medium
                     ELSE medium' = [medium EXCEPT ![n][m] = Tail(@)] /\ high' = high
      /\ wire' = IF {n, m} \in cut THEN wire ELSE [wire EXCEPT ![n][m] = Append(@, p)]
      /\ op' = IF p.cb = "count" THEN Settle(op, {p.o}, "ok") ELSE op
      /\ acks' = Registered(n, m, p)
  BY DEF Write
<1>3. p \in FitPkts(Kinds) /\ p = q[1]
  BY <1>1, <1>2, TailElements
<1>4. CASE h # <<>>
  <2>1. 1 \in DOMAIN h /\ Head(h) = h[1] /\ q[1] = h[1]
    <3>1. 1 \in DOMAIN h /\ Head(h) = h[1]
      BY <1>1, <1>4, TailElements
    <3>2. \A i \in DOMAIN h : q[i] = h[i]
      <4> HIDE DEF h, e
      <4>1. h \in Seq(FitPkts(Kinds)) /\ e \in Seq(FitPkts(Kinds))
        BY <1>1
      <4> QED BY <4>1, ConcatElements
    <3> QED BY <3>1, <3>2
  <2>2. high' = Put(high, n, m, Tail(h)) /\ medium' = medium /\ p = Head(h)
    BY <1>2, <1>3, <1>4, <2>1 DEF Put
  <2>3. /\ wire' = IF {n, m} \in cut THEN wire ELSE Put(wire, n, m, Append(wire[n][m], p))
        /\ acks' = IF p.cb = "register" THEN Put(acks, n, m, acks[n][m] \cup {p.o}) ELSE acks
    BY <1>2 DEF Put, Registered
  <2> HIDE DEF p
  <2> QED BY <1>2, <1>3, <1>4, <2>2, <2>3 DEF WriteStep
<1>5. CASE h = <<>>
  <2>1. q = e
    BY <1>1, <1>5, ConcatEmptySeq
  <2>2. medium' = Put(medium, n, m, Tail(e)) /\ high' = high /\ p = Head(e) /\ e # <<>>
    BY <1>2, <1>5, <2>1 DEF Put
  <2>3. /\ wire' = IF {n, m} \in cut THEN wire ELSE Put(wire, n, m, Append(wire[n][m], p))
        /\ acks' = IF p.cb = "register" THEN Put(acks, n, m, acks[n][m] \cup {p.o}) ELSE acks
    BY <1>2 DEF Put, Registered
  <2> HIDE DEF p
  <2> QED BY <1>2, <1>3, <1>5, <2>2, <2>3 DEF WriteStep
<1> QED BY <1>4, <1>5

LEMMA WriteTypes ==
    ASSUME Typed, Asking, NEW n \in Nodes, NEW m \in Nodes, Write(n, m)
    PROVE  Typed' /\ Asking' /\ Kinds' = Kinds
<1>1. PICK p \in FitPkts(Kinds) : WriteStep(n, m, p)
  BY Writing
<1>2. /\ high \in QueueSet(Kinds) /\ medium \in QueueSet(Kinds) /\ wire \in QueueSet(Kinds)
      /\ op \in [OpIds -> OpRecs] /\ threads \subseteq ThreadSet /\ acks \in [Nodes -> [Nodes -> SUBSET OpIds]]
  BY DEF Typed, Packeted, Counted
<1>3. \A T \in QueueSet(Kinds) : \A q \in Seq(FitPkts(Kinds)) : Put(T, n, m, q) \in QueueSet(Kinds)
  BY DEF Put, QueueSet
<1>4. high' \in QueueSet(Kinds) /\ medium' \in QueueSet(Kinds)
  <2>1. /\ high[n][m] # <<>> => Tail(high[n][m]) \in Seq(FitPkts(Kinds))
        /\ medium[n][m] # <<>> => Tail(medium[n][m]) \in Seq(FitPkts(Kinds))
    BY QueueTypes, TailElements
  <2> QED BY <1>1, <1>2, <1>3, <2>1 DEF WriteStep
<1>5. wire' \in QueueSet(Kinds)
  <2>1. Append(wire[n][m], p) \in Seq(FitPkts(Kinds))
    BY QueueTypes, AppendProperties
  <2> QED BY <1>1, <1>2, <1>3, <2>1 DEF WriteStep
<1>6. op' \in [OpIds -> OpRecs] /\ \A o \in OpIds : op'[o].kind = op[o].kind
  <2>1. "ok" \in Results
    BY DEF Results
  <2> QED BY <1>1, <1>2, <2>1, SettleTypes DEF WriteStep
<1>7. /\ acks' \in [Nodes -> [Nodes -> SUBSET OpIds]]
      /\ \A a, b \in Nodes : \A o \in acks'[a][b] : op[o].kind # "none"
  <2>1. CASE p.cb = "register"
    <3>1. p.o \in OpIds /\ op[p.o].kind # "none"
      BY <2>1, WaitedIssued
    <3>2. acks[n][m] \cup {p.o} \in SUBSET OpIds /\ acks' = Put(acks, n, m, acks[n][m] \cup {p.o})
      BY <1>1, <2>1, <3>1, QueueTypes DEF WriteStep
    <3>3. /\ acks' \in [Nodes -> [Nodes -> SUBSET OpIds]]
          /\ \A a, b \in Nodes : acks'[a][b] \subseteq acks[a][b] \cup {p.o}
      BY <1>2, <3>2 DEF Put
    <3> QED BY <3>1, <3>3 DEF Asking
  <2>2. CASE p.cb # "register"
    <3>1. acks' = acks
      BY <1>1, <2>2 DEF WriteStep
    <3> QED BY <1>2, <3>1 DEF Asking
  <2> QED BY <2>1, <2>2
<1>8. Tabled'
  BY DEF Write, Typed, Tabled, tables, facts
<1>9. threads' = threads /\ reading' = reading
  BY DEF Write
<1> QED BY <1>2, <1>4, <1>5, <1>6, <1>7, <1>8, <1>9, TypedStep

\* handle_ack(): either the id of a new group, which is announced to S, or an answer.
Announces(n, m, p, S) ==
    /\ p.o \in acks[n][m] /\ op[p.o].kind = "create" /\ p.g # 0
    /\ groups' = [groups EXCEPT ![n] = @ \cup {p.g}]
    /\ high' = Queued(high, n, Send(S, Packet("create", p.g, p.o, "count")))
    /\ threads' = threads \cup {Thread(n, "create", p.o, p.g)}
    /\ op' = [op EXCEPT ![p.o] = [@ EXCEPT !.g = p.g, !.pending = op[p.o].pending + Cardinality(S)]]

AckStep(n, m, p, S) ==
    /\ p = Received(n, m) /\ p.t = "ack" /\ S = PeersOf(n) /\ wire[m][n] # <<>> /\ p = Head(wire[m][n])
    /\ wire' = Put(wire, m, n, Tail(wire[m][n]))
    /\ acks' = Put(acks, n, m, acks[n][m] \ {p.o})
    /\ \/ Announces(n, m, p, S)
       \/ op' = Settle(op, {p.o} \cap acks[n][m], p.r) /\ UNCHANGED <<groups, high, threads>>

LEMMA Acking ==
    ASSUME Typed, Asking, NEW n \in Nodes, NEW m \in Nodes, HandleAck(n, m)
    PROVE  \E p \in FitPkts(Kinds), S \in SUBSET Nodes : AckStep(n, m, p, S)
<1> PICK p \in FitPkts(Kinds), S \in SUBSET Nodes : p = Received(n, m) /\ S = PeersOf(n)
  <2>1. Received(n, m) \in FitPkts(Kinds)
    BY Receiving DEF HandleAck
  <2>2. PeersOf(n) \in SUBSET Nodes
    BY PeersCounted
  <2> QED BY <2>1, <2>2
<1>1. Take(n, m, "ack") /\ p.t = "ack" /\ wire[m][n] # <<>>
  BY Receiving DEF HandleAck
<1>2. wire' = Put(wire, m, n, Tail(wire[m][n])) /\ acks' = Put(acks, n, m, acks[n][m] \ {p.o})
  BY <1>1 DEF HandleAck, Take, Put
<1>3. p = Head(wire[m][n])
  BY DEF Received
<1>4. CASE p.o \in acks[n][m] /\ op[p.o].kind = "create" /\ p.r = "ok"
  <2>1. p.o \in OpIds /\ Kinds[p.o] = "create" /\ op \in [OpIds -> OpRecs]
    BY <1>4, QueueTypes DEF Kinds, Typed, Counted
  <2>2. p.g # 0
    BY <1>1, <2>1 DEF FitPkts, Fits
  <2>3. /\ groups' = [groups EXCEPT ![n] = @ \cup {p.g}]
        /\ high' = Queued(high, n, Broadcast(n, Packet("create", p.g, p.o, "count")))
        /\ threads' = threads \cup {Thread(n, "create", p.o, p.g)}
        /\ op' = [op EXCEPT ![p.o].g = p.g, ![p.o].pending = @ + Cardinality(PeersOf(n))]
    BY <1>4 DEF HandleAck, CreateTheGroup
  <2>4. Broadcast(n, Packet("create", p.g, p.o, "count")) = Send(S, Packet("create", p.g, p.o, "count"))
    BY SendForms
  <2>5. op' = [op EXCEPT ![p.o] = [@ EXCEPT !.g = p.g, !.pending = op[p.o].pending + Cardinality(S)]]
    BY <2>1, <2>3
  <2> QED BY <1>1, <1>2, <1>3, <1>4, <2>2, <2>3, <2>4, <2>5 DEF AckStep, Announces
<1>5. CASE ~(p.o \in acks[n][m] /\ op[p.o].kind = "create" /\ p.r = "ok")
  <2>1. /\ op' = IF p.o \in acks[n][m] THEN Settle(op, {p.o}, p.r) ELSE op
        /\ UNCHANGED <<groups, high, threads>>
    BY <1>5 DEF HandleAck
  <2>2. op' = Settle(op, {p.o} \cap acks[n][m], p.r)
    <3>1. CASE p.o \in acks[n][m]
      <4>1. {p.o} \cap acks[n][m] = {p.o}
        BY <3>1
      <4> QED BY <2>1, <3>1, <4>1
    <3>2. CASE p.o \notin acks[n][m]
      <4>1. {p.o} \cap acks[n][m] = {} /\ op' = op
        BY <2>1, <3>2
      <4>2. op = [o \in OpIds |-> op[o]]
        BY DEF Typed, Counted
      <4>3. Settle(op, {}, p.r) = op
        BY <4>2 DEF Settle
      <4> QED BY <4>1, <4>3
    <3> QED BY <3>1, <3>2
  <2> QED BY <1>1, <1>2, <1>3, <2>1, <2>2 DEF AckStep
<1> QED BY <1>4, <1>5

LEMMA AckTypes ==
    ASSUME Typed, Asking, NEW n \in Nodes, NEW m \in Nodes, HandleAck(n, m)
    PROVE  Typed' /\ Asking' /\ Kinds' = Kinds
<1>1. PICK p \in FitPkts(Kinds), S \in SUBSET Nodes : AckStep(n, m, p, S)
  BY Acking
<1>2. /\ high \in QueueSet(Kinds) /\ medium \in QueueSet(Kinds) /\ wire \in QueueSet(Kinds)
      /\ op \in [OpIds -> OpRecs] /\ threads \subseteq ThreadSet /\ acks \in [Nodes -> [Nodes -> SUBSET OpIds]]
      /\ Tabled /\ groups \in GroupTables
  BY DEF Typed, Packeted, Counted, Tabled
<1>3. wire' \in QueueSet(Kinds)
  BY Receiving DEF HandleAck
<1>4. /\ acks' \in [Nodes -> [Nodes -> SUBSET OpIds]]
      /\ \A a, b \in Nodes : \A o \in acks'[a][b] : op[o].kind # "none"
  <2>1. /\ acks' \in [Nodes -> [Nodes -> SUBSET OpIds]]
        /\ \A a, b \in Nodes : acks'[a][b] \subseteq acks[a][b]
    BY <1>1, <1>2 DEF Put, AckStep
  <2> QED BY <2>1 DEF Asking
<1>5. p.g \in Nat /\ p.r \in Results /\ Cardinality(S) \in Nat /\ p.o \in 0..MaxOps
  BY NodesFinite DEF FitPkts, Pkts
<1>6. medium' = medium /\ reading' = reading
  BY DEF HandleAck
<1>7. CASE Announces(n, m, p, S)
  <2>1. p.o \in OpIds
    BY <1>7, QueueTypes DEF Announces
  <2>2. groups' \in GroupTables
    BY <1>2, <1>5, <1>7, GroupAdded DEF Announces
  <2>3. Tabled'
    BY <1>2, <2>2 DEF HandleAck, Tabled, facts
  <2>4. Packet("create", p.g, p.o, "count") \in FitPkts(Kinds)
    <3> DEFINE c == Packet("create", p.g, p.o, "count")
    <3>1. c \in Pkts /\ c.t = "create" /\ c.cb = "count" /\ c.o = p.o
      BY <1>5, PacketFields DEF PacketTypes
    <3>2. Kinds[p.o] # "none"
      BY <1>7, <2>1 DEF Kinds, Announces
    <3> HIDE DEF c
    <3>3. c \in FitPkts(Kinds)
      BY <2>1, <3>1, <3>2 DEF FitPkts, Fits, Requests
    <3> QED BY <3>3 DEF c
  <2>5. high' \in QueueSet(Kinds)
    <3>1. Send(S, Packet("create", p.g, p.o, "count")) \in [Nodes -> Seq(FitPkts(Kinds))]
      BY <2>4, SendForms
    <3> QED BY <1>2, <1>7, <3>1, QueuedAt DEF QueueSet, Announces
  <2>6. threads' \subseteq ThreadSet
    <3>1. Thread(n, "create", p.o, p.g) \in ThreadSet
      BY <1>5, <2>1 DEF Thread, ThreadSet
    <3> QED BY <1>2, <1>7, <3>1 DEF Announces
  <2>7. op' \in [OpIds -> OpRecs] /\ \A o \in OpIds : op'[o].kind = op[o].kind
    <3> DEFINE y == op[p.o]
               x == [y EXCEPT !.g = p.g, !.pending = op[p.o].pending + Cardinality(S)]
    <3>1. y \in OpRecs /\ op[p.o].pending \in Int
      BY <1>2, <2>1 DEF OpRecs
    <3>2. op[p.o].pending + Cardinality(S) \in Int
      BY <1>5, <3>1
    <3>3. op' = [op EXCEPT ![p.o] = x]
      BY <1>7 DEF Announces
    <3>4. x \in OpRecs /\ x.kind = y.kind
      <4> HIDE DEF y
      <4> QED BY <1>5, <3>1, <3>2 DEF OpRecs
    <3> HIDE DEF x
    <3> QED BY <1>2, <2>1, <3>3, <3>4
  <2> QED BY <1>2, <1>3, <1>4, <1>6, <2>3, <2>5, <2>6, <2>7, TypedStep
<1>8. CASE op' = Settle(op, {p.o} \cap acks[n][m], p.r) /\ UNCHANGED <<groups, high, threads>>
  <2>1. Tabled'
    BY <1>2, <1>8 DEF HandleAck, Tabled, facts
  <2>2. op' \in [OpIds -> OpRecs] /\ \A o \in OpIds : op'[o].kind = op[o].kind
    BY <1>2, <1>5, <1>8, SettleTypes
  <2> QED BY <1>2, <1>3, <1>4, <1>6, <1>8, <2>1, <2>2, TypedStep
<1> QED BY <1>1, <1>7, <1>8 DEF AckStep

\* The ops whose callbacks the loss of a connection runs or deletes.
LEMMA PacketsWith ==
    ASSUME Typed, NEW n \in Nodes, NEW m \in Nodes, NEW cb
    PROVE  OpsWith(PacketsOf(n, m), cb) = Ops(high[n][m], {cb}) \cup Ops(medium[n][m], {cb})
<1> DEFINE h == high[n][m]
           e == medium[n][m]
           q == h \o e
<1>1. h \in Seq(FitPkts(Kinds)) /\ e \in Seq(FitPkts(Kinds))
  BY QueueTypes
<1>2. OpsWith(PacketsOf(n, m), cb) = {q[i].o : i \in {j \in DOMAIN q : q[j].cb = cb}}
  BY DEF OpsWith, PacketsOf
<1>3. /\ Ops(h, {cb}) = {h[i].o : i \in {j \in DOMAIN h : h[j].cb = cb}}
      /\ Ops(e, {cb}) = {e[i].o : i \in {j \in DOMAIN e : e[j].cb = cb}}
  BY DEF Ops
<1> HIDE DEF h, e
<1>4. /\ \A i \in DOMAIN h : i \in DOMAIN q /\ q[i] = h[i]
      /\ \A j \in DOMAIN e : Len(h) + j \in DOMAIN q /\ q[Len(h) + j] = e[j]
      /\ \A i \in DOMAIN q : i \notin DOMAIN h => i - Len(h) \in DOMAIN e /\ q[i] = e[i - Len(h)]
  BY <1>1, ConcatElements
<1> HIDE DEF q
<1>5. ASSUME NEW x \in Ops(h, {cb}) \cup Ops(e, {cb}) PROVE x \in OpsWith(PacketsOf(n, m), cb)
  <2>1. CASE x \in Ops(h, {cb})
    <3>1. PICK i \in DOMAIN h : h[i].cb = cb /\ x = h[i].o
      BY <1>3, <2>1
    <3> QED BY <1>2, <1>4, <3>1
  <2>2. CASE x \in Ops(e, {cb})
    <3>1. PICK i \in DOMAIN e : e[i].cb = cb /\ x = e[i].o
      BY <1>3, <2>2
    <3> QED BY <1>2, <1>4, <3>1
  <2> QED BY <1>5, <2>1, <2>2
<1>6. ASSUME NEW x \in OpsWith(PacketsOf(n, m), cb) PROVE x \in Ops(h, {cb}) \cup Ops(e, {cb})
  <2>1. PICK i \in DOMAIN q : q[i].cb = cb /\ x = q[i].o
    BY <1>2, <1>6
  <2>2. CASE i \in DOMAIN h
    BY <1>3, <1>4, <2>1, <2>2
  <2>3. CASE i \notin DOMAIN h
    BY <1>3, <1>4, <2>1, <2>3
  <2> QED BY <2>2, <2>3
<1> QED BY <1>5, <1>6 DEF h, e

\* The callbacks a connection still has to run.
Count(n, m) == Ops(high[n][m], {"count"}) \cup Ops(medium[n][m], {"count"})
Register(n, m) == Ops(high[n][m], {"register"}) \cup Ops(medium[n][m], {"register"})

\* At most one iteration of the loop that fails the acks, from the counters of ops.
FailStep(n, m, ops) ==
    \/ op' = ops /\ acks' = acks
    \/ \E o \in acks[n][m] : acks' = Put(acks, n, m, acks[n][m] \ {o}) /\ op' = Settle(ops, {o}, "lost")

LoseStep(n, m) ==
    \/ /\ FailStep(n, m, Settle(Settle(op, Count(n, m), "ok"), Register(n, m), "lost"))
       /\ high' = Put(high, n, m, <<>>) /\ medium' = Put(medium, n, m, <<>>) /\ wire' = wire
    \/ FailStep(n, m, op) /\ high' = high /\ medium' = medium /\ wire' = wire
    \/ /\ op' = [o \in OpIds |-> IF o \in Count(n, m) \cup Register(n, m) THEN [op[o] EXCEPT !.lost = @ + 1] ELSE op[o]]
       /\ high' = Put(high, n, m, <<>>) /\ medium' = Put(medium, n, m, <<>>)
       /\ wire' = Put(wire, m, n, <<>>) /\ acks' = acks

LEMMA Losing ==
    ASSUME Typed, NEW n \in Nodes, NEW m \in Nodes, Lose(n, m)
    PROVE  LoseStep(n, m) /\ UNCHANGED <<threads, reading, groups, destroyed, told, next_id>>
<1>1. /\ OpsWith(PacketsOf(n, m), "count") = Count(n, m)
      /\ OpsWith(PacketsOf(n, m), "register") = Register(n, m)
  BY PacketsWith DEF Count, Register
<1>2. Flushed(n, m) = Settle(Settle(op, Count(n, m), "ok"), Register(n, m), "lost")
  BY <1>1 DEF Flushed
<1>3. CASE PeerDestroy(n, m)
  <2>1. FailStep(n, m, Settle(Settle(op, Count(n, m), "ok"), Register(n, m), "lost"))
    BY <1>2, <1>3 DEF PeerDestroy, FailAck, FailStep, Put
  <2> QED BY <1>3, <2>1 DEF PeerDestroy, LoseStep, Put, facts
<1>4. CASE PeerDestroyAcks(n, m)
  <2>1. FailStep(n, m, op)
    BY <1>4 DEF PeerDestroyAcks, FailAck, FailStep, Put
  <2> QED BY <1>4, <2>1 DEF PeerDestroyAcks, LoseStep, queues, facts
<1>5. CASE PeerDestroyAgain(n, m)
  <2>1. FailStep(n, m, Settle(Settle(op, Count(n, m), "ok"), Register(n, m), "lost"))
    BY <1>2, <1>5 DEF PeerDestroyAgain, FailStep
  <2> QED BY <1>5, <2>1 DEF PeerDestroyAgain, LoseStep, Put, facts, tables
<1>6. CASE PeerErase(n, m) \/ PeerEraseEarly(n, m)
  BY <1>1, <1>6 DEF PeerErase, PeerEraseEarly, Erase, LoseStep, Put, facts
<1>7. CASE PeerErased(n, m)
  BY <1>7 DEF PeerErased, LoseStep, FailStep, queues, facts
<1> QED BY <1>3, <1>4, <1>5, <1>6, <1>7 DEF Lose

\* What happens to the states of the connection and the session, and what is left alone.
LEMMA LosingStates ==
    ASSUME Typed, NEW n \in Nodes, NEW m \in Nodes, Lose(n, m)
    PROVE  /\ \E x \in {"none", "failing", "closing", "gone"} : link' = [link EXCEPT ![n][m] = x]
           /\ sess' = sess \/ (sess[n] = "connected" /\ sess' = [sess EXCEPT ![n] = "terminated"])
           /\ cut \subseteq cut' /\ ~fault
           /\ UNCHANGED <<scenario, info, desc, fault, performed, dropped, early>>
<1>1. CASE PeerDestroy(n, m) \/ PeerDestroyAcks(n, m)
  BY <1>1 DEF PeerDestroy, PeerDestroyAcks, MayDestroy, FailAck, Bury, facts, history
<1>2. CASE PeerDestroyAgain(n, m)
  <2>1. link' = link /\ link[n][m] = "closing"
    BY <1>2 DEF PeerDestroyAgain
  <2>2. link' = [link EXCEPT ![n][m] = "closing"]
    BY <2>1 DEF Typed, Tabled
  <2> QED BY <1>2, <2>2 DEF PeerDestroyAgain, MayDestroy, facts, history
<1>3. CASE PeerErase(n, m) \/ PeerEraseEarly(n, m)
  BY <1>3 DEF PeerErase, PeerEraseEarly, PlayerGone, Erase, facts, history
<1>4. CASE PeerErased(n, m)
  BY <1>4 DEF PeerErased, PlayerGone, facts, history
<1> QED BY <1>1, <1>2, <1>3, <1>4 DEF Lose

LEMMA LoseTypes ==
    ASSUME Typed, Asking, NEW n \in Nodes, NEW m \in Nodes, Lose(n, m)
    PROVE  Typed' /\ Asking' /\ Kinds' = Kinds
<1>1. LoseStep(n, m) /\ UNCHANGED <<threads, reading, groups, destroyed, told, next_id>>
  BY Losing
<1>2. /\ high \in QueueSet(Kinds) /\ medium \in QueueSet(Kinds) /\ wire \in QueueSet(Kinds)
      /\ op \in [OpIds -> OpRecs] /\ threads \subseteq ThreadSet /\ acks \in [Nodes -> [Nodes -> SUBSET OpIds]]
      /\ Tabled
  BY DEF Typed, Packeted, Counted
<1>3. /\ high' \in QueueSet(Kinds) /\ medium' \in QueueSet(Kinds) /\ wire' \in QueueSet(Kinds)
  <2>1. \A T \in QueueSet(Kinds) : \A a, b \in Nodes : Put(T, a, b, <<>>) \in QueueSet(Kinds)
    BY EmptySeq DEF Put, QueueSet
  <2> QED BY <1>1, <1>2, <2>1 DEF LoseStep
<1>4. ASSUME NEW ops \in [OpIds -> OpRecs], \A o \in OpIds : ops[o].kind = op[o].kind, FailStep(n, m, ops)
      PROVE  /\ op' \in [OpIds -> OpRecs] /\ \A o \in OpIds : op'[o].kind = op[o].kind
             /\ acks' \in [Nodes -> [Nodes -> SUBSET OpIds]]
             /\ \A a, b \in Nodes : acks'[a][b] \subseteq acks[a][b]
  <2>1. CASE op' = ops /\ acks' = acks
    BY <1>2, <1>4, <2>1
  <2>2. ASSUME NEW o \in acks[n][m], acks' = Put(acks, n, m, acks[n][m] \ {o}), op' = Settle(ops, {o}, "lost")
        PROVE  /\ op' \in [OpIds -> OpRecs] /\ \A x \in OpIds : op'[x].kind = op[x].kind
               /\ acks' \in [Nodes -> [Nodes -> SUBSET OpIds]]
               /\ \A a, b \in Nodes : acks'[a][b] \subseteq acks[a][b]
    <3>1. "lost" \in Results
      BY DEF Results
    <3>2. op' \in [OpIds -> OpRecs] /\ \A x \in OpIds : op'[x].kind = op[x].kind
      BY <1>4, <2>2, <3>1, SettleTypes
    <3>3. /\ acks' \in [Nodes -> [Nodes -> SUBSET OpIds]]
          /\ \A a, b \in Nodes : acks'[a][b] \subseteq acks[a][b]
      BY <1>2, <2>2 DEF Put
    <3> QED BY <3>2, <3>3
  <2> QED BY <1>4, <2>1, <2>2 DEF FailStep
<1>5. /\ op' \in [OpIds -> OpRecs] /\ \A o \in OpIds : op'[o].kind = op[o].kind
      /\ acks' \in [Nodes -> [Nodes -> SUBSET OpIds]]
      /\ \A a, b \in Nodes : acks'[a][b] \subseteq acks[a][b]
  <2>1. CASE FailStep(n, m, Settle(Settle(op, Count(n, m), "ok"), Register(n, m), "lost"))
    <3> DEFINE one == Settle(op, Count(n, m), "ok")
               two == Settle(one, Register(n, m), "lost")
    <3>1. "ok" \in Results /\ "lost" \in Results
      BY DEF Results
    <3>2. one \in [OpIds -> OpRecs] /\ \A o \in OpIds : one[o].kind = op[o].kind
      BY <1>2, <3>1, SettleTypes
    <3>3. two \in [OpIds -> OpRecs] /\ \A o \in OpIds : two[o].kind = one[o].kind
      <4> HIDE DEF one
      <4> QED BY <3>1, <3>2, SettleTypes
    <3>4. FailStep(n, m, two)
      BY <2>1
    <3> HIDE DEF one, two
    <3>5. \A o \in OpIds : two[o].kind = op[o].kind
      BY <3>2, <3>3
    <3> QED BY <1>4, <3>3, <3>4, <3>5
  <2>2. CASE FailStep(n, m, op)
    BY <1>2, <1>4, <2>2
  <2>3. CASE /\ op' = [o \in OpIds |-> IF o \in Count(n, m) \cup Register(n, m) THEN [op[o] EXCEPT !.lost = @ + 1] ELSE op[o]]
             /\ acks' = acks
    <3>1. ASSUME NEW x \in OpRecs PROVE [x EXCEPT !.lost = @ + 1] \in OpRecs /\ [x EXCEPT !.lost = @ + 1].kind = x.kind
      BY DEF OpRecs
    <3>2. \A o \in OpIds : op[o] \in OpRecs
      BY <1>2
    <3>3. \A o \in OpIds : op'[o] \in OpRecs /\ op'[o].kind = op[o].kind
      BY <2>3, <3>1, <3>2
    <3>4. DOMAIN op' = OpIds /\ op' = [o \in OpIds |-> op'[o]]
      BY <2>3
    <3> QED BY <1>2, <2>3, <3>3, <3>4
  <2> QED BY <1>1, <2>1, <2>2, <2>3 DEF LoseStep
<1>6. Tabled'
  <2>1. link' \in [Nodes -> [Nodes -> {"none", "requesting", "connected", "failing", "closing", "gone"}]]
    <3>1. \A x \in {"none", "failing", "closing", "gone"} :
             [link EXCEPT ![n][m] = x] \in [Nodes -> [Nodes -> {"none", "requesting", "connected", "failing", "closing", "gone"}]]
      BY <1>2 DEF Tabled
    <3>2. \E x \in {"none", "failing", "closing", "gone"} : link' = [link EXCEPT ![n][m] = x]
      BY LosingStates
    <3> QED BY <3>1, <3>2
  <2>2. sess' \in [Nodes -> {"out", "connecting", "connected", "terminated"}]
    BY <1>2, LosingStates DEF Tabled
  <2>3. UNCHANGED <<scenario, info, desc, fault>>
    BY LosingStates
  <2> QED BY <1>1, <1>2, <2>1, <2>2, <2>3 DEF Tabled
<1>7. \A a, b \in Nodes : \A o \in acks'[a][b] : op[o].kind # "none"
  BY <1>5 DEF Asking
<1> QED BY <1>1, <1>2, <1>3, <1>5, <1>6, <1>7, TypedStep

\* The detached threads.
LEMMA ThreadTypes ==
    ASSUME Typed, Asking, NEW th \in threads, ThreadTells(th) \/ ThreadDestroys(th) \/ ThreadErases(th)
    PROVE  Typed' /\ Asking' /\ Kinds' = Kinds
<1>1. /\ high \in QueueSet(Kinds) /\ medium \in QueueSet(Kinds) /\ wire \in QueueSet(Kinds)
      /\ op \in [OpIds -> OpRecs] /\ threads \subseteq ThreadSet /\ acks \in [Nodes -> [Nodes -> SUBSET OpIds]]
      /\ Tabled /\ groups \in GroupTables /\ told \in [Nodes -> [GroupIds -> Nat \X Nat]]
  BY DEF Typed, Packeted, Counted, Tabled
<1>2. th.n \in Nodes /\ th.g \in Nat /\ th.o \in OpIds
  BY <1>1 DEF ThreadSet
<1>3. UNCHANGED <<queues, wire, acks, reading, scenario, sess, link, destroyed, next_id, info, desc, fault>>
  BY DEF ThreadTells, ThreadDestroys, ThreadErases, facts
<1>4. op' \in [OpIds -> OpRecs] /\ \A o \in OpIds : op'[o].kind = op[o].kind
  <2>1. "ok" \in Results
    BY DEF Results
  <2>2. op' = op \/ op' = Settle(op, {th.o}, "ok")
    BY DEF ThreadTells, ThreadDestroys, ThreadErases
  <2> QED BY <1>1, <2>1, <2>2, SettleTypes
<1>5. threads' \subseteq ThreadSet
  <2>1. [th EXCEPT !.k = "destroying"] \in ThreadSet
    BY <1>1 DEF ThreadSet
  <2>2. threads' \subseteq threads \cup {[th EXCEPT !.k = "destroying"]}
    BY DEF ThreadTells, ThreadDestroys, ThreadErases
  <2> QED BY <1>1, <2>1, <2>2
<1>6. Tabled'
  <2>1. groups' \in GroupTables
    <3>1. groups' = groups \/ groups' = [groups EXCEPT ![th.n] = @ \ {th.g}]
      BY DEF ThreadTells, ThreadDestroys, ThreadErases, EraseGroup
    <3>2. [groups EXCEPT ![th.n] = @ \ {th.g}] \in GroupTables
      BY <1>1, <1>2, GroupAdded
    <3> QED BY <1>1, <3>1, <3>2
  <2>2. told' \in [Nodes -> [GroupIds -> Nat \X Nat]]
    <3>1. told' = told \/ told' = Tell(told, th.n, th.g, 1) \/ told' = Tell(told, th.n, th.g, 2)
      BY DEF ThreadTells, ThreadDestroys, ThreadErases, Tell
    <3>2. /\ Tell(told, th.n, th.g, 1) \in [Nodes -> [GroupIds -> Nat \X Nat]]
          /\ Tell(told, th.n, th.g, 2) \in [Nodes -> [GroupIds -> Nat \X Nat]]
      BY <1>1, <1>2, TellTypes
    <3> QED BY <1>1, <3>1, <3>2
  <2> QED BY <1>1, <1>3, <2>1, <2>2 DEF Tabled
<1>7. \A n, m \in Nodes : \A o \in acks'[n][m] : op[o].kind # "none"
  BY <1>3 DEF Asking
<1>8. /\ \A x \in {high', medium', wire'} : x \in QueueSet(Kinds)
      /\ acks' \in [Nodes -> [Nodes -> SUBSET OpIds]] /\ reading' = reading
  BY <1>1, <1>3 DEF queues
<1> QED BY <1>4, <1>5, <1>6, <1>7, <1>8, TypedStep

\* The host gives out an id.
Offer(n, m, p) ==
    /\ p = AckPacket(Received(n, m).o, "ok", next_id) /\ Received(n, m).o \in OpIds
    /\ high' = Queued(high, n, Send({m}, p)) /\ next_id' = next_id + 1
    /\ UNCHANGED <<medium, acks, reading, groups, destroyed, told, threads, op, link, sess, scenario, fault, cut, dropped>>

LEMMA Allocated ==
    ASSUME Typed, Asking, NEW n \in Nodes, NEW m \in Nodes, HandleGroupAllocate(n, m)
    PROVE  /\ Typed' /\ Asking' /\ Kinds' = Kinds
           /\ \E p \in FitPkts(Kinds) : Offer(n, m, p)
<1> DEFINE q == Received(n, m)
<1>1. Take(n, m, "allocate") /\ q \in FitPkts(Kinds) /\ q.t = "allocate" /\ wire' \in QueueSet(Kinds)
  BY Receiving DEF HandleGroupAllocate
<1>2. q.o \in OpIds /\ Kinds[q.o] = "create"
  BY <1>1 DEF FitPkts, Fits, Requests, AskedBy
<1>3. /\ next_id \in Nat \ {0} /\ q.o \in 0..MaxOps /\ "ok" \in Results /\ "ok" \in ResultsOf("create")
      /\ Tabled /\ high \in QueueSet(Kinds) /\ medium \in QueueSet(Kinds)
      /\ threads \subseteq ThreadSet /\ op \in [OpIds -> OpRecs] /\ acks \in [Nodes -> [Nodes -> SUBSET OpIds]]
  BY <1>2, GroupsAssumption DEF Typed, Tabled, OpIds, Results, ResultsOf, Packeted, Counted
<1> PICK p : p = AckPacket(q.o, "ok", next_id)
  OBVIOUS
<1>4. p \in Pkts /\ p.t = "ack" /\ p.g = next_id /\ p.o = q.o /\ p.cb = "none" /\ p.r = "ok"
  BY <1>3, AckFields
<1>5. p \in FitPkts(Kinds)
  BY <1>2, <1>3, <1>4 DEF FitPkts, Fits, Requests
<1>6. Offer(n, m, p)
  <2>1. high' = Queued(high, n, To(m, <<p>>))
    BY DEF HandleGroupAllocate, Acknowledge
  <2>2. To(m, <<p>>) = Send({m}, p)
    BY SendForms
  <2> QED BY <1>2, <2>1, <2>2 DEF HandleGroupAllocate, Offer, tables, history
<1>7. high' \in QueueSet(Kinds)
  <2>1. Send({m}, p) \in [Nodes -> Seq(FitPkts(Kinds))]
    BY <1>5, SendForms
  <2> QED BY <1>3, <1>6, <2>1, QueuedAt DEF QueueSet, Offer
<1>8. Tabled'
  BY <1>3, <1>6 DEF HandleGroupAllocate, Tabled, tables
<1>9. \A a, b \in Nodes : \A o \in acks'[a][b] : op[o].kind # "none"
  BY <1>6 DEF Asking, Offer
<1>10. /\ \A x \in {high', medium', wire'} : x \in QueueSet(Kinds)
       /\ op' \in [OpIds -> OpRecs] /\ \A o \in OpIds : op'[o].kind = op[o].kind
       /\ threads' \subseteq ThreadSet /\ acks' \in [Nodes -> [Nodes -> SUBSET OpIds]] /\ reading' = reading
  BY <1>1, <1>3, <1>6, <1>7 DEF Offer
<1>11. Typed' /\ Asking' /\ Kinds' = Kinds
  BY <1>8, <1>9, <1>10, TypedStep
<1> QED BY <1>5, <1>6, <1>11

-------------------------------------------------------------------------------
(* Every step is a call, a step about hearsay, or one of the others.         *)

Hearing ==
    \E n, m \in Nodes :
       \/ HandleUnexpected(n, m) \/ HandleGroupCreate(n, m) \/ HandleGroupDestroy(n, m) \/ HandleGroupLeft(n, m)
       \/ HandleAppdesc(n, m) \/ HandlePlayerinfo(n, m) \/ GroupDestroyed(n, m)
       \/ HandleGroupJoin(n, m) \/ HandleGroupJoined(n, m) \/ HandleGroupLeave(n, m) \/ UnknownCreated(n, m)
       \/ HandleHostConnectRequest(n, m) \/ HandleHostConnectOk(n, m)
       \/ HandleConnectPeer(n, m) \/ HandleConnectPeerOk(n, m) \/ Connect(n)
       \/ Break(n, m) \/ GroupDestroyAll(n)

Steps ==
    \/ \E n, m \in Nodes, o \in OpIds, g \in Nat \ {0} : CallsOf(n, o, g, m)
    \/ Hearing
    \/ \E n, m \in Nodes : Write(n, m) \/ HandleAck(n, m) \/ HandleGroupAllocate(n, m) \/ Lose(n, m)
    \/ Threading
    \/ UNCHANGED vars

LEMMA NextIsSteps == ASSUME [Next]_vars PROVE Steps
<1>1. CASE Calls
  <2>0. Host \in Nodes
    BY NodesFinite
  <2>1. PICK o \in OpIds :
           \/ SetApplicationDesc(o)
           \/ \E n \in Nodes :
                 \/ CreateGroup(n, o) \/ CreateGroupRemote(n, o) \/ SetPeerInfo(n, o)
                 \/ \E g \in GroupIds :
                       \/ DestroyGroup(n, o, g) \/ AddSelf(n, o, g) \/ RemoveSelf(n, o, g)
                       \/ \E m \in Nodes : AddRemote(n, o, g, m) \/ RemoveRemote(n, o, g, m)
    BY <1>1 DEF Calls
  <2>2. 1 \in Nat \ {0} /\ \A g \in GroupIds : g \in Nat \ {0}
    BY GroupsAssumption DEF GroupIds
  <2>3. PICK n \in Nodes, m \in Nodes, g \in Nat \ {0} : CallsOf(n, o, g, m)
    <3>1. CASE SetApplicationDesc(o)
      BY <2>0, <2>2, <3>1 DEF CallsOf
    <3>2. CASE \E n \in Nodes : CreateGroup(n, o) \/ CreateGroupRemote(n, o) \/ SetPeerInfo(n, o)
      BY <2>0, <2>2, <3>2 DEF CallsOf
    <3>3. CASE \E n \in Nodes, g \in GroupIds : DestroyGroup(n, o, g) \/ AddSelf(n, o, g) \/ RemoveSelf(n, o, g)
      BY <2>0, <2>2, <3>3 DEF CallsOf
    <3>4. CASE \E n \in Nodes, g \in GroupIds, m \in Nodes : AddRemote(n, o, g, m) \/ RemoveRemote(n, o, g, m)
      BY <2>2, <3>4 DEF CallsOf
    <3> QED BY <2>1, <3>1, <3>2, <3>3, <3>4
  <2> QED BY <2>3 DEF Steps
<1> QED BY <1>1 DEF Next, Work, Handle, Steps, Hearing, Finished

\* The types are kept.
LEMMA TypedNext ==
    ASSUME Typed, Asking, Steps
    PROVE  Typed' /\ Asking'
<1>1. ASSUME NEW n \in Nodes, NEW m \in Nodes, NEW o \in OpIds, NEW g \in Nat \ {0}, CallsOf(n, o, g, m)
      PROVE  Typed' /\ Asking'
  <2>1. PICK G \in SUBSET Nat : Called(n, o, G)
    BY <1>1, CallsAreIssues
  <2>2. PICK S \in SUBSET Nodes, p \in Pkts, T \in SUBSET ThreadSet, r \in OpRecs :
           Issue(n, o, S, p, T, r) /\ reading' = reading /\ Tabled'
    BY <2>1 DEF Called
  <2> QED BY <2>2, IssueTypes
<1>2. CASE Hearing
  <2>1. Heard
    BY <1>2, GroupHandlersHeard, JoinHandlersHeard, WelcomesHeard, OthersHeard DEF Hearing
  <2> QED BY <2>1, TypedKept DEF Heard
<1>3. ASSUME NEW n \in Nodes, NEW m \in Nodes,
             Write(n, m) \/ HandleAck(n, m) \/ HandleGroupAllocate(n, m) \/ Lose(n, m)
      PROVE  Typed' /\ Asking'
  BY <1>3, WriteTypes, AckTypes, Allocated, LoseTypes
<1>4. CASE Threading
  BY <1>4, ThreadTypes DEF Threading
<1>5. CASE UNCHANGED vars
  <2>1. UNCHANGED <<high, medium, wire, op, threads, acks, reading>> /\ Tabled' /\ Kinds' = Kinds
    BY <1>5 DEF vars, queues, tables, facts, history, Typed, Tabled, Kinds
  <2>2. Packeted' /\ Counted'
    BY <2>1 DEF Typed, Packeted, Counted
  <2> QED BY <2>1, <2>2 DEF Typed, Asking
<1> QED BY <1>1, <1>2, <1>3, <1>4, <1>5 DEF Steps

-------------------------------------------------------------------------------
(* Ids.                                                                      *)

\* What a queue offers and mentions as it grows at its end and shrinks at its front.
LEMMA OffersInQueues ==
    ASSUME NEW S
    PROVE  /\ \A q \in Seq(S) : q # <<>> =>
                 /\ Offered(Tail(q)) \subseteq Offered(q)
                 /\ Mentioned(Tail(q)) \subseteq Mentioned(q) /\ Mentions(Head(q)) \subseteq Mentioned(q)
                 /\ Offers(Head(q)) => Head(q).g \in Offered(q)
                 /\ OffersOnce(q) => OffersOnce(Tail(q)) /\ (Offers(Head(q)) => Head(q).g \notin Offered(Tail(q)))
           /\ Offered(<<>>) = {} /\ Mentioned(<<>>) = {} /\ OffersOnce(<<>>)
<1>1. ASSUME NEW q \in Seq(S), q # <<>>
      PROVE  /\ Offered(Tail(q)) \subseteq Offered(q)
             /\ Mentioned(Tail(q)) \subseteq Mentioned(q) /\ Mentions(Head(q)) \subseteq Mentioned(q)
             /\ Offers(Head(q)) => Head(q).g \in Offered(q)
             /\ OffersOnce(q) => OffersOnce(Tail(q)) /\ (Offers(Head(q)) => Head(q).g \notin Offered(Tail(q)))
  <2> DEFINE t == Tail(q)
             h == Head(q)
  <2>1. /\ 1 \in DOMAIN q /\ h = q[1]
        /\ \A i \in DOMAIN t : i + 1 \in DOMAIN q /\ t[i] = q[i + 1]
        /\ \A i \in DOMAIN t : i \in Nat /\ i # 0
    <3>1. t \in Seq(S) /\ 1 \in DOMAIN q /\ h = q[1] /\ \A i \in DOMAIN t : i + 1 \in DOMAIN q /\ t[i] = q[i + 1]
      BY <1>1, TailElements
    <3>2. DOMAIN t = 1..Len(t) /\ Len(t) \in Nat
      BY <3>1, InSeq
    <3> QED BY <3>1, <3>2
  <2> HIDE DEF t, h
  <2>2. Offered(t) \subseteq Offered(q) /\ Mentioned(t) \subseteq Mentioned(q)
    BY <2>1 DEF Offered, Mentioned
  <2>3. Mentions(h) \subseteq Mentioned(q) /\ (Offers(h) => h.g \in Offered(q))
    BY <2>1 DEF Offered, Mentioned
  <2>4. ASSUME OffersOnce(q) PROVE OffersOnce(t)
    <3>1. \A i, j \in DOMAIN t : i + 1 = j + 1 => i = j
      BY <2>1
    <3> QED BY <2>1, <2>4, <3>1 DEF OffersOnce
  <2>5. ASSUME OffersOnce(q), Offers(h), h.g \in Offered(t) PROVE FALSE
    <3>1. PICK i \in DOMAIN t : Offers(t[i]) /\ t[i].g = h.g
      BY <2>5 DEF Offered
    <3>2. i + 1 \in DOMAIN q /\ t[i] = q[i + 1] /\ i + 1 # 1
      BY <2>1
    <3> QED BY <2>1, <2>5, <3>1, <3>2 DEF OffersOnce
  <2> QED BY <2>2, <2>3, <2>4, <2>5 DEF t, h
<1>2. Offered(<<>>) = {} /\ Mentioned(<<>>) = {} /\ OffersOnce(<<>>)
  BY DEF Offered, Mentioned, OffersOnce
<1> QED BY <1>1, <1>2

LEMMA OffersConcat ==
    ASSUME NEW S, NEW q \in Seq(S), NEW s \in Seq(S)
    PROVE  /\ Mentioned(q \o s) \subseteq Mentioned(q) \cup Mentioned(s)
           /\ Offered(q \o s) \subseteq Offered(q) \cup Offered(s)
           /\ OffersOnce(q) /\ OffersOnce(s) /\ Offered(q) \cap Offered(s) = {} => OffersOnce(q \o s)
<1> DEFINE c == q \o s
           L == Len(q)
<1>1. /\ \A i \in DOMAIN c : /\ i \in DOMAIN q => c[i] = q[i]
                             /\ i \notin DOMAIN q => i - L \in DOMAIN s /\ c[i] = s[i - L]
      /\ L \in Nat /\ DOMAIN c \subseteq Nat
  <2>1. /\ \A i \in DOMAIN q : c[i] = q[i]
        /\ \A i \in DOMAIN c : i \notin DOMAIN q => i - L \in DOMAIN s /\ c[i] = s[i - L]
        /\ c \in Seq(S)
    BY ConcatElements
  <2>2. DOMAIN c \subseteq Nat /\ L \in Nat
    <3>1. DOMAIN c = 1..Len(c) /\ Len(c) \in Nat /\ L \in Nat
      BY <2>1, InSeq
    <3> QED BY <3>1
  <2> QED BY <2>1, <2>2
<1> HIDE DEF c, L
<1>2. ASSUME NEW i \in DOMAIN c
      PROVE  /\ Mentions(c[i]) \subseteq Mentioned(q) \cup Mentioned(s)
             /\ Offers(c[i]) => /\ i \in DOMAIN q => c[i].g \in Offered(q)
                                /\ i \notin DOMAIN q => c[i].g \in Offered(s)
  <2>1. CASE i \in DOMAIN q
    BY <1>1, <2>1 DEF Mentioned, Offered
  <2>2. CASE i \notin DOMAIN q
    BY <1>1, <2>2 DEF Mentioned, Offered
  <2> QED BY <2>1, <2>2
<1>3. Mentioned(c) \subseteq Mentioned(q) \cup Mentioned(s)
  <2>1. \A x \in Mentioned(c) : \E i \in DOMAIN c : x \in Mentions(c[i])
    BY DEF Mentioned
  <2> QED BY <1>2, <2>1
<1>4. Offered(c) \subseteq Offered(q) \cup Offered(s)
  <2>1. \A x \in Offered(c) : \E i \in DOMAIN c : Offers(c[i]) /\ x = c[i].g
    BY DEF Offered
  <2> QED BY <1>2, <2>1
<1>5. ASSUME OffersOnce(q), OffersOnce(s), Offered(q) \cap Offered(s) = {} PROVE OffersOnce(c)
  <2> SUFFICES ASSUME NEW i \in DOMAIN c, NEW j \in DOMAIN c, Offers(c[i]), Offers(c[j]), c[i].g = c[j].g
               PROVE  i = j
    BY DEF OffersOnce
  <2>1. CASE i \in DOMAIN q /\ j \in DOMAIN q
    BY <1>1, <1>5, <2>1 DEF OffersOnce
  <2>2. CASE i \notin DOMAIN q /\ j \notin DOMAIN q
    <3>1. i - L \in DOMAIN s /\ j - L \in DOMAIN s /\ c[i] = s[i - L] /\ c[j] = s[j - L]
      BY <1>1, <2>2
    <3>2. i - L = j - L
      BY <1>5, <3>1 DEF OffersOnce
    <3>3. i \in Nat /\ j \in Nat /\ L \in Nat
      BY <1>1
    <3> QED BY <3>2, <3>3
  <2>3. CASE i \in DOMAIN q /\ j \notin DOMAIN q
    BY <1>2, <1>5, <2>3
  <2>4. CASE i \notin DOMAIN q /\ j \in DOMAIN q
    BY <1>2, <1>5, <2>4
  <2> QED BY <2>1, <2>2, <2>3, <2>4
<1> QED BY <1>3, <1>4, <1>5 DEF c

\* Queues that offer no more than before, and none of G.
LessOffered(q, r, G) == OffersOnce(r) /\ Offered(r) \subseteq Offered(q) \ G

\* Fresh ids stay fresh when G becomes known.
LEMMA FreshKept ==
    ASSUME NEW Q, NEW R, NEW K, NEW L, NEW G, NEW x \in Nat, NEW y \in Nat, x <= y, Fresh(Q, K, x),
           \A c \in Places : LessOffered(Q[c], R[c], G), L \subseteq K \cup G, G \subseteq 1..(y - 1)
    PROVE  Fresh(R, L, y)
<1>1. L \subseteq 1..(y - 1)
  BY DEF Fresh
<1>2. ASSUME NEW c \in Places
      PROVE  /\ OffersOnce(R[c]) /\ Offered(R[c]) \subseteq 1..(y - 1) /\ Offered(R[c]) \cap L = {}
             /\ Offered(R[c]) \subseteq Offered(Q[c])
  <2>1. OffersOnce(R[c]) /\ Offered(R[c]) \subseteq Offered(Q[c]) /\ Offered(R[c]) \cap G = {}
    BY DEF LessOffered
  <2>2. Offered(Q[c]) \subseteq 1..(x - 1) /\ Offered(Q[c]) \cap K = {}
    BY DEF Fresh
  <2>3. 1..(x - 1) \subseteq 1..(y - 1)
    OBVIOUS
  <2> QED BY <2>1, <2>2, <2>3
<1>3. \A c, d \in Places : c # d => Offered(R[c]) \cap Offered(R[d]) = {}
  <2>1. \A c, d \in Places : c # d => Offered(Q[c]) \cap Offered(Q[d]) = {}
    BY DEF Fresh
  <2> QED BY <1>2, <2>1
<1> QED BY <1>1, <1>2, <1>3 DEF Fresh

\* ... and when one offer goes to place d.
OneOffer(Q, R, d, g) ==
    /\ \A c \in Places : c # d => LessOffered(Q[c], R[c], {g})
    /\ OffersOnce(R[d]) /\ Offered(R[d]) \subseteq Offered(Q[d]) \cup {g}

LEMMA FreshMoved ==
    ASSUME NEW Q, NEW R, NEW K, NEW L, NEW x \in Nat, NEW y \in Nat, x <= y, Fresh(Q, K, x),
           NEW d \in Places, NEW g \in 1..(y - 1), g \notin K, L \subseteq K, OneOffer(Q, R, d, g)
    PROVE  Fresh(R, L, y)
<1>0. /\ \A c \in Places : c # d => LessOffered(Q[c], R[c], {g})
      /\ OffersOnce(R[d]) /\ Offered(R[d]) \subseteq Offered(Q[d]) \cup {g}
  BY DEF OneOffer
<1> USE <1>0
<1>1. L \subseteq 1..(y - 1)
  BY DEF Fresh
<1>2. ASSUME NEW c \in Places
      PROVE  /\ OffersOnce(R[c]) /\ Offered(R[c]) \subseteq 1..(y - 1) /\ Offered(R[c]) \cap L = {}
             /\ c # d => Offered(R[c]) \subseteq Offered(Q[c]) /\ g \notin Offered(R[c])
  <2>1. /\ OffersOnce(R[c]) /\ Offered(R[c]) \subseteq Offered(Q[c]) \cup {g}
        /\ c # d => Offered(R[c]) \subseteq Offered(Q[c]) /\ g \notin Offered(R[c])
    BY DEF LessOffered
  <2>2. Offered(Q[c]) \subseteq 1..(x - 1) /\ Offered(Q[c]) \cap K = {}
    BY DEF Fresh
  <2>3. 1..(x - 1) \subseteq 1..(y - 1)
    OBVIOUS
  <2> QED BY <2>1, <2>2, <2>3
<1>3. \A c, e \in Places : c # e => Offered(R[c]) \cap Offered(R[e]) = {}
  <2> SUFFICES ASSUME NEW c \in Places, NEW e \in Places, c # e PROVE Offered(R[c]) \cap Offered(R[e]) = {}
    OBVIOUS
  <2>1. Offered(Q[c]) \cap Offered(Q[e]) = {}
    BY DEF Fresh
  <2>2. CASE c = d
    BY <1>2, <2>1, <2>2
  <2>3. CASE e = d
    BY <1>2, <2>1, <2>3
  <2>4. CASE c # d /\ e # d
    BY <1>2, <2>1, <2>4
  <2> QED BY <2>2, <2>3, <2>4
<1> QED BY <1>1, <1>2, <1>3 DEF Fresh

\* Every queue is at its place.
At(k, n, m) == <<k, <<n, m>>>>

LEMMA PlacesAre ==
    ASSUME NEW H, NEW E, NEW W
    PROVE  /\ \A n, m \in Nodes : /\ At("high", n, m) \in Places /\ QueuesOf(H, E, W)[At("high", n, m)] = H[n][m]
                                  /\ At("medium", n, m) \in Places /\ QueuesOf(H, E, W)[At("medium", n, m)] = E[n][m]
                                  /\ At("wire", n, m) \in Places /\ QueuesOf(H, E, W)[At("wire", n, m)] = W[n][m]
           /\ \A c \in Places : \E n, m \in Nodes : c \in {At("high", n, m), At("medium", n, m), At("wire", n, m)}
<1>1. \A n, m \in Nodes : <<n, m>> \in Links /\ <<n, m>>[1] = n /\ <<n, m>>[2] = m
  BY DEF Links
<1>2. \A k \in {"high", "medium", "wire"} : \A l \in Links : <<k, l>> \in Places /\ <<k, l>>[1] = k /\ <<k, l>>[2] = l
  BY DEF Places
<1>3. ASSUME NEW n \in Nodes, NEW m \in Nodes
      PROVE  /\ At("high", n, m) \in Places /\ QueuesOf(H, E, W)[At("high", n, m)] = H[n][m]
             /\ At("medium", n, m) \in Places /\ QueuesOf(H, E, W)[At("medium", n, m)] = E[n][m]
             /\ At("wire", n, m) \in Places /\ QueuesOf(H, E, W)[At("wire", n, m)] = W[n][m]
  <2> DEFINE l == <<n, m>>
  <2>1. l \in Links /\ l[1] = n /\ l[2] = m
    BY <1>1
  <2> HIDE DEF l
  <2>2. /\ QueuesOf(H, E, W)[<<"high", l>>] = H[l[1]][l[2]]
        /\ QueuesOf(H, E, W)[<<"medium", l>>] = E[l[1]][l[2]]
        /\ QueuesOf(H, E, W)[<<"wire", l>>] = W[l[1]][l[2]]
    BY <1>2, <2>1 DEF QueuesOf
  <2>3. <<"high", l>> \in Places /\ <<"medium", l>> \in Places /\ <<"wire", l>> \in Places
    BY <1>2, <2>1
  <2> QED BY <2>1, <2>2, <2>3 DEF l, At
<1>4. ASSUME NEW c \in Places
      PROVE  \E n, m \in Nodes : c \in {At("high", n, m), At("medium", n, m), At("wire", n, m)}
  <2>1. PICK k \in {"high", "medium", "wire"}, l \in Links : c = <<k, l>>
    BY DEF Places
  <2>2. PICK n \in Nodes, m \in Nodes : l = <<n, m>>
    BY DEF Links
  <2> QED BY <2>1, <2>2 DEF At
<1> QED BY <1>3, <1>4

\* The invariant, queue by queue.
LEMMA IdsKept ==
    ASSUME Ids, next_id \in Nat, next_id' \in Nat, next_id <= next_id', NEW G, G \subseteq 1..(next_id' - 1),
           Known' \subseteq Known \cup G,
           \A n, m \in Nodes : /\ LessOffered(high[n][m], high'[n][m], G)
                               /\ LessOffered(medium[n][m], medium'[n][m], G)
                               /\ LessOffered(wire[n][m], wire'[n][m], G)
    PROVE  Ids'
<1> DEFINE Q == QueuesOf(high, medium, wire)
           R == QueuesOf(high', medium', wire')
<1>1. \A c \in Places : LessOffered(Q[c], R[c], G)
  <2> SUFFICES ASSUME NEW c \in Places PROVE LessOffered(Q[c], R[c], G)
    OBVIOUS
  <2>1. PICK n \in Nodes, m \in Nodes : c \in {At("high", n, m), At("medium", n, m), At("wire", n, m)}
    BY PlacesAre
  <2>2. /\ Q[At("high", n, m)] = high[n][m] /\ Q[At("medium", n, m)] = medium[n][m]
        /\ Q[At("wire", n, m)] = wire[n][m]
    BY PlacesAre
  <2>3. /\ R[At("high", n, m)] = high'[n][m] /\ R[At("medium", n, m)] = medium'[n][m]
        /\ R[At("wire", n, m)] = wire'[n][m]
    BY PlacesAre
  <2> HIDE DEF Q, R
  <2> QED BY <2>1, <2>2, <2>3
<1>2. Fresh(Q, Known, next_id)
  BY DEF Ids, AllQueues
<1> HIDE DEF Q, R
<1>3. Fresh(R, Known', next_id')
  BY <1>1, <1>2, FreshKept
<1> QED BY <1>3 DEF Ids, AllQueues, R

\* What is known, and what may become so.
LEMMA KnownStep ==
    ASSUME NEW G,
           \A n \in Nodes : groups'[n] \cup destroyed'[n] \subseteq Known \cup G \cup {0},
           \A n, m \in Nodes : /\ Mentioned(high'[n][m]) \cup Mentioned(medium'[n][m]) \cup Mentioned(wire'[n][m]) \subseteq Known \cup G
                               /\ reading'[n][m].g \in Known \cup G \cup {0},
           \A th \in threads' : th.g \in Known \cup G \cup {0}
    PROVE  Known' \subseteq Known \cup G
<1> SUFFICES ASSUME NEW g \in Known' PROVE g \in Known \cup G
  OBVIOUS
<1>1. /\ g \in Nat \ {0}
      /\ \/ \E n \in Nodes : g \in groups'[n] \cup destroyed'[n]
         \/ \E n, m \in Nodes : \/ g \in Mentioned(high'[n][m]) \cup Mentioned(medium'[n][m]) \cup Mentioned(wire'[n][m])
                                \/ g = reading'[n][m].g
         \/ \E th \in threads' : g = th.g
  BY DEF Known
<1> QED BY <1>1

LEMMA KnownNow ==
    ASSUME Typed
    PROVE  /\ \A n \in Nodes : groups[n] \cup destroyed[n] \subseteq Known \cup {0}
           /\ \A n, m \in Nodes : /\ Mentioned(high[n][m]) \cup Mentioned(medium[n][m]) \cup Mentioned(wire[n][m]) \subseteq Known
                                  /\ reading[n][m].g \in Known \cup {0}
           /\ \A th \in threads : th.g \in Known \cup {0}
<1>1. \A n \in Nodes : groups[n] \cup destroyed[n] \subseteq Nat
  BY DEF Typed, Tabled, GroupTables
<1>2. \A n, m \in Nodes : reading[n][m].g \in Nat
  BY DEF Typed, Tabled, Readings
<1>3. \A th \in threads : th.g \in Nat
  BY DEF Typed, Counted, ThreadSet
<1>4. ASSUME NEW K, NEW q \in Seq(FitPkts(K)) PROVE Mentioned(q) \subseteq Nat \ {0}
  <2>1. \A i \in DOMAIN q : q[i] \in Pkts
    BY InSeq DEF FitPkts
  <2>2. \A p \in Pkts : Mentions(p) \subseteq Nat \ {0}
    BY DEF Pkts, Mentions
  <2> QED BY <2>1, <2>2 DEF Mentioned
<1>5. ASSUME NEW n \in Nodes, NEW m \in Nodes
      PROVE  /\ Mentioned(high[n][m]) \subseteq Nat \ {0} /\ Mentioned(medium[n][m]) \subseteq Nat \ {0}
             /\ Mentioned(wire[n][m]) \subseteq Nat \ {0}
  BY <1>4, QueueTypes
<1> QED BY <1>1, <1>2, <1>3, <1>5 DEF Known

\* The offers of today.
LEMMA IdsNow ==
    ASSUME Ids, NEW n \in Nodes, NEW m \in Nodes
    PROVE  \A q \in {high[n][m], medium[n][m], wire[n][m]} :
              /\ OffersOnce(q) /\ Offered(q) \subseteq 1..(next_id - 1) /\ Offered(q) \cap Known = {}
              /\ LessOffered(q, q, {})
<1> DEFINE Q == QueuesOf(high, medium, wire)
<1>1. /\ At("high", n, m) \in Places /\ Q[At("high", n, m)] = high[n][m]
      /\ At("medium", n, m) \in Places /\ Q[At("medium", n, m)] = medium[n][m]
      /\ At("wire", n, m) \in Places /\ Q[At("wire", n, m)] = wire[n][m]
  BY PlacesAre
<1>2. Fresh(Q, Known, next_id)
  BY DEF Ids, AllQueues
<1> HIDE DEF Q
<1>3. \A c \in Places : OffersOnce(Q[c]) /\ Offered(Q[c]) \subseteq 1..(next_id - 1) /\ Offered(Q[c]) \cap Known = {}
  BY <1>2 DEF Fresh
<1> QED BY <1>1, <1>3 DEF LessOffered

\* The first packet of a queue goes.
LEMMA LessTail ==
    ASSUME NEW S, NEW q \in Seq(S), q # <<>>, OffersOnce(q)
    PROVE  /\ LessOffered(q, Tail(q), {}) /\ Mentioned(Tail(q)) \subseteq Mentioned(q)
           /\ Offers(Head(q)) => LessOffered(q, Tail(q), {Head(q).g})
  BY OffersInQueues DEF LessOffered

\* A queue that only grows by packets that offer nothing.
LEMMA LessConcat ==
    ASSUME NEW S, NEW q \in Seq(S), NEW s \in Seq(S), OffersOnce(q), \A i \in DOMAIN s : ~Offers(s[i])
    PROVE  LessOffered(q, q \o s, {})
<1>1. Offered(s) = {} /\ OffersOnce(s)
  BY DEF Offered, OffersOnce
<1>2. OffersOnce(q \o s) /\ Offered(q \o s) \subseteq Offered(q)
  BY <1>1, OffersConcat
<1> QED BY <1>2 DEF LessOffered

\* What is said in hearsay is known, and offers nothing.
LEMMA HearsaySays ==
    ASSUME NEW s \in Seq(Hearsay)
    PROVE  /\ s \in Seq(FitPkts(Kinds)) /\ Mentioned(s) \subseteq Known /\ \A i \in DOMAIN s : ~Offers(s[i]) /\ s[i].cb = "none"
<1>1. \A i \in DOMAIN s : s[i] \in Hearsay
  BY InSeq
<1>2. \A p \in Hearsay : ~Offers(p) /\ p.cb = "none" /\ Mentions(p) \subseteq Known
  BY DEF Hearsay
<1>3. s \in Seq(FitPkts(Kinds))
  BY HearsayFits, SeqLarger
<1> QED BY <1>1, <1>2, <1>3 DEF Mentioned

\* The queues after a step of hearsay.
LEMMA TalksIds ==
    ASSUME Typed, Ids, Talks(Hearsay), NEW a \in Nodes, NEW b \in Nodes
    PROVE  /\ LessOffered(high[a][b], high'[a][b], {}) /\ LessOffered(medium[a][b], medium'[a][b], {})
           /\ Mentioned(high'[a][b]) \subseteq Known /\ Mentioned(medium'[a][b]) \subseteq Known
<1>1. PICK n \in Nodes, f \in [Nodes -> Seq(Hearsay)], e \in [Nodes -> Seq(Hearsay)] :
         high' = Queued(high, n, f) /\ medium' = Queued(medium, n, e)
  BY DEF Talks
<1>2. /\ f[b] \in Seq(FitPkts(Kinds)) /\ Mentioned(f[b]) \subseteq Known /\ \A i \in DOMAIN f[b] : ~Offers(f[b][i])
      /\ e[b] \in Seq(FitPkts(Kinds)) /\ Mentioned(e[b]) \subseteq Known /\ \A i \in DOMAIN e[b] : ~Offers(e[b][i])
  BY HearsaySays
<1>3. /\ high \in [Nodes -> [Nodes -> Seq(FitPkts(Kinds))]] /\ medium \in [Nodes -> [Nodes -> Seq(FitPkts(Kinds))]]
      /\ f \in [Nodes -> Seq(FitPkts(Kinds))] /\ e \in [Nodes -> Seq(FitPkts(Kinds))]
  BY HearsaySays DEF Typed, Packeted, QueueSet
<1>4. /\ high'[a][b] = IF a = n THEN high[a][b] \o f[b] ELSE high[a][b]
      /\ medium'[a][b] = IF a = n THEN medium[a][b] \o e[b] ELSE medium[a][b]
  <2>1. DOMAIN high = Nodes /\ DOMAIN medium = Nodes
    BY <1>3
  <2> QED BY <1>1, <2>1, QueuedValue
<1>5. /\ high[a][b] \in Seq(FitPkts(Kinds)) /\ medium[a][b] \in Seq(FitPkts(Kinds))
      /\ OffersOnce(high[a][b]) /\ OffersOnce(medium[a][b])
      /\ LessOffered(high[a][b], high[a][b], {}) /\ LessOffered(medium[a][b], medium[a][b], {})
      /\ Mentioned(high[a][b]) \subseteq Known /\ Mentioned(medium[a][b]) \subseteq Known
  BY QueueTypes, IdsNow, KnownNow
<1>6. /\ LessOffered(high[a][b], high[a][b] \o f[b], {}) /\ LessOffered(medium[a][b], medium[a][b] \o e[b], {})
  BY <1>2, <1>5, LessConcat
<1>7. /\ Mentioned(high[a][b] \o f[b]) \subseteq Known
      /\ Mentioned(medium[a][b] \o e[b]) \subseteq Known
  BY <1>2, <1>5, OffersConcat
<1> QED BY <1>4, <1>5, <1>6, <1>7

\* A handler reads one packet, or none.
ReadStep == \A a, b \in Nodes : \/ wire'[a][b] = wire[a][b]
                                \/ wire[a][b] # <<>> /\ wire'[a][b] = Tail(wire[a][b])

LEMMA HearingReads == ASSUME Typed, Hearing PROVE ReadStep
<1>1. ASSUME NEW n \in Nodes, NEW m \in Nodes, NEW t, Take(n, m, t) PROVE ReadStep
  <2>1. /\ wire[m][n] # <<>>
        /\ \A a, b \in Nodes : wire'[a][b] = IF a = m /\ b = n THEN Tail(wire[a][b]) ELSE wire[a][b]
    BY <1>1, Receiving
  <2> QED BY <2>1 DEF ReadStep
<1>2. ASSUME wire' = wire PROVE ReadStep
  BY <1>2 DEF ReadStep
<1>3. PICK n \in Nodes, m \in Nodes :
       \/ HandleUnexpected(n, m) \/ HandleGroupCreate(n, m) \/ HandleGroupDestroy(n, m) \/ HandleGroupLeft(n, m)
       \/ HandleAppdesc(n, m) \/ HandlePlayerinfo(n, m) \/ GroupDestroyed(n, m)
       \/ HandleGroupJoin(n, m) \/ HandleGroupJoined(n, m) \/ HandleGroupLeave(n, m) \/ UnknownCreated(n, m)
       \/ HandleHostConnectRequest(n, m) \/ HandleHostConnectOk(n, m)
       \/ HandleConnectPeer(n, m) \/ HandleConnectPeerOk(n, m) \/ Connect(n)
       \/ Break(n, m) \/ GroupDestroyAll(n)
  BY DEF Hearing
<1>4. CASE \/ HandleUnexpected(n, m) \/ HandleGroupCreate(n, m) \/ HandleGroupDestroy(n, m) \/ HandleGroupLeft(n, m)
           \/ HandleAppdesc(n, m) \/ HandlePlayerinfo(n, m)
  BY <1>1, <1>4 DEF HandleUnexpected, HandleGroupCreate, HandleGroupDestroy, HandleGroupLeft, HandleAppdesc, HandlePlayerinfo
<1>5. CASE HandleGroupJoin(n, m) \/ HandleGroupJoined(n, m) \/ HandleGroupLeave(n, m)
  BY <1>1, <1>5 DEF HandleGroupJoin, HandleGroupJoined, HandleGroupLeave
<1>6. CASE \/ HandleHostConnectRequest(n, m) \/ HandleHostConnectOk(n, m)
           \/ HandleConnectPeer(n, m) \/ HandleConnectPeerOk(n, m)
  BY <1>1, <1>6 DEF HandleHostConnectRequest, HandleHostConnectOk, HandleConnectPeer, HandleConnectPeerOk
<1>7. CASE GroupDestroyed(n, m) \/ UnknownCreated(n, m) \/ Connect(n) \/ Break(n, m) \/ GroupDestroyAll(n)
  <2>1. wire' = wire
    BY <1>7 DEF GroupDestroyed, UnknownCreated, Connect, Break, GroupDestroyAll
  <2> QED BY <1>2, <2>1
<1> QED BY <1>3, <1>4, <1>5, <1>6, <1>7

\* ... and puts only groups into the tables that are known already.
HearTables ==
    /\ \A a \in Nodes : groups'[a] \cup destroyed'[a] \subseteq Known \cup {0}
    /\ \A a, b \in Nodes : reading'[a][b].g \in Known \cup {0}
    /\ next_id' = next_id

LEMMA HearingTables == ASSUME Typed, Hearing PROVE HearTables
<1>1. /\ groups \in [Nodes -> SUBSET Nat] /\ destroyed \in [Nodes -> SUBSET Nat]
      /\ reading \in [Nodes -> [Nodes -> Readings]]
  BY DEF Typed, Tabled, GroupTables
<1>2. /\ \A n \in Nodes : groups[n] \cup destroyed[n] \subseteq Known \cup {0}
      /\ \A n, m \in Nodes : reading[n][m].g \in Known \cup {0}
  BY KnownNow
<1>3. ASSUME UNCHANGED <<groups, destroyed, reading, next_id>> PROVE HearTables
  BY <1>2, <1>3 DEF HearTables
<1>4. ASSUME NEW n \in Nodes, NEW m \in Nodes, NEW g \in Known \cup {0}, NEW d, d.g \in Known \cup {0},
             groups' \in {groups, [groups EXCEPT ![n] = @ \cup {g}], [groups EXCEPT ![n] = @ \ {g}]},
             destroyed' \in {destroyed, [destroyed EXCEPT ![n] = @ \cup {g}]},
             reading' \in {reading, Put(reading, n, m, d)}, next_id' = next_id
      PROVE  HearTables
  <2>1. \A a \in Nodes : groups'[a] \subseteq groups[a] \cup {g} /\ destroyed'[a] \subseteq destroyed[a] \cup {g}
    BY <1>1, <1>4
  <2>2. \A a, b \in Nodes : reading'[a][b] = reading[a][b] \/ reading'[a][b] = d
    BY <1>1, <1>4 DEF Put
  <2>3. \A a \in Nodes : groups'[a] \cup destroyed'[a] \subseteq Known \cup {0}
    BY <1>2, <1>4, <2>1
  <2>4. \A a, b \in Nodes : reading'[a][b].g \in Known \cup {0}
    BY <1>2, <1>4, <2>2
  <2> QED BY <1>4, <2>3, <2>4 DEF HearTables
<1>5. ASSUME NEW n \in Nodes, NEW m \in Nodes, NEW t \in {"create", "destroy", "join", "joined"}, Take(n, m, t)
      PROVE  Received(n, m).g \in Known \cup {0}
  <2>1. Received(n, m).t = t /\ Mentions(Received(n, m)) \subseteq Known
    BY <1>5, Receiving
  <2> QED BY <2>1 DEF Mentions
<1>6. Idle.g \in Known \cup {0}
  BY DEF Idle
<1>7. PICK n \in Nodes, m \in Nodes :
       \/ HandleUnexpected(n, m) \/ HandleGroupCreate(n, m) \/ HandleGroupDestroy(n, m) \/ HandleGroupLeft(n, m)
       \/ HandleAppdesc(n, m) \/ HandlePlayerinfo(n, m) \/ GroupDestroyed(n, m)
       \/ HandleGroupJoin(n, m) \/ HandleGroupJoined(n, m) \/ HandleGroupLeave(n, m) \/ UnknownCreated(n, m)
       \/ HandleHostConnectRequest(n, m) \/ HandleHostConnectOk(n, m)
       \/ HandleConnectPeer(n, m) \/ HandleConnectPeerOk(n, m) \/ Connect(n)
       \/ Break(n, m) \/ GroupDestroyAll(n)
  BY DEF Hearing
<1>8. CASE \/ HandleUnexpected(n, m) \/ HandleGroupLeft(n, m) \/ HandleAppdesc(n, m) \/ HandlePlayerinfo(n, m)
           \/ HandleGroupLeave(n, m)
  <2>1. UNCHANGED <<groups, destroyed, reading, next_id>>
    BY <1>8 DEF HandleUnexpected, HandleGroupLeft, HandleAppdesc, HandlePlayerinfo, HandleGroupLeave, tables, facts
  <2> QED BY <1>3, <2>1
<1>9. CASE \/ HandleHostConnectRequest(n, m) \/ HandleHostConnectOk(n, m)
           \/ HandleConnectPeer(n, m) \/ HandleConnectPeerOk(n, m) \/ Connect(n) \/ Break(n, m)
  <2>1. UNCHANGED <<groups, destroyed, reading, next_id>>
    BY <1>9 DEF HandleHostConnectRequest, HandleHostConnectOk, HandleConnectPeer, HandleConnectPeerOk, Connect, Break, tables, facts
  <2> QED BY <1>3, <2>1
<1>10. CASE HandleGroupCreate(n, m)
  <2> PICK g \in Known \cup {0} : g = Received(n, m).g
    BY <1>5, <1>10 DEF HandleGroupCreate
  <2>1. /\ groups' \in {groups, [groups EXCEPT ![n] = @ \cup {g}]}
        /\ UNCHANGED <<destroyed, reading, next_id>>
    BY <1>10 DEF HandleGroupCreate, facts
  <2> QED BY <1>4, <1>6, <2>1
<1>11. CASE HandleGroupDestroy(n, m)
  <2> PICK g \in Known \cup {0} : g = Received(n, m).g
    BY <1>5, <1>11 DEF HandleGroupDestroy
  <2> DEFINE d == [at |-> "destroying", g |-> g, o |-> 0]
  <2>1. /\ destroyed' = [destroyed EXCEPT ![n] = @ \cup {g}]
        /\ reading' \in {reading, Put(reading, n, m, d)}
        /\ UNCHANGED <<groups, next_id>>
    BY <1>11 DEF HandleGroupDestroy, facts, Put
  <2>2. d.g \in Known \cup {0}
    OBVIOUS
  <2> HIDE DEF d
  <2> QED BY <1>4, <2>1, <2>2
<1>12. CASE GroupDestroyed(n, m)
  <2> PICK g \in Known \cup {0} : g = reading[n][m].g
    BY <1>2
  <2>1. /\ groups' = [groups EXCEPT ![n] = @ \ {g}] /\ reading' = Put(reading, n, m, Idle)
        /\ UNCHANGED <<destroyed, next_id>>
    BY <1>12 DEF GroupDestroyed, EraseGroup, facts, Put
  <2> QED BY <1>4, <1>6, <2>1
<1>13. CASE HandleGroupJoin(n, m) \/ HandleGroupJoined(n, m)
  <2> PICK g \in Known \cup {0} : g = Received(n, m).g
    BY <1>5, <1>13 DEF HandleGroupJoin, HandleGroupJoined
  <2>1. UNCHANGED <<destroyed, next_id>>
    BY <1>13 DEF HandleGroupJoin, HandleGroupJoined, facts
  <2>2. \/ UNCHANGED <<groups, reading>>
        \/ CreateUnknown(n, m, "join") \/ CreateUnknown(n, m, "joined")
    BY <1>13 DEF HandleGroupJoin, HandleGroupJoined
  <2>3. CASE UNCHANGED <<groups, reading>>
    BY <1>3, <2>1, <2>3
  <2>4. ASSUME NEW at, CreateUnknown(n, m, at) PROVE HearTables
    <3> DEFINE d == [at |-> at, g |-> g, o |-> Received(n, m).o]
    <3>1. groups' = [groups EXCEPT ![n] = @ \cup {g}] /\ reading' = Put(reading, n, m, d) /\ d.g = g
      BY <2>4 DEF CreateUnknown, Put
    <3> HIDE DEF d
    <3>2. PICK e : e = d
      OBVIOUS
    <3> QED BY <1>4, <2>1, <3>1, <3>2
  <2> QED BY <2>2, <2>3, <2>4
<1>14. CASE UnknownCreated(n, m)
  <2>1. reading' = Put(reading, n, m, Idle) /\ UNCHANGED <<groups, destroyed, next_id>>
    BY <1>14 DEF UnknownCreated, tables, facts, Put
  <2> QED BY <1>4, <1>6, <2>1
<1>15. CASE GroupDestroyAll(n)
  <2>1. PICK g \in groups[n] :
           \/ groups' = [groups EXCEPT ![n] = @ \ {g}] /\ UNCHANGED <<destroyed, reading>>
           \/ /\ destroyed' = [destroyed EXCEPT ![n] = @ \cup {g}]
              /\ reading' = Put(reading, n, n, [at |-> "destroying", g |-> g, o |-> 0])
              /\ groups' = groups
    BY <1>15 DEF GroupDestroyAll, EraseGroup, Put
  <2>2. g \in Known \cup {0} /\ next_id' = next_id
    BY <1>2, <1>15 DEF GroupDestroyAll, facts
  <2> DEFINE d == [at |-> "destroying", g |-> g, o |-> 0]
  <2>3. d.g \in Known \cup {0} /\ reading' \in {reading, Put(reading, n, n, d)}
    BY <2>1, <2>2
  <2> HIDE DEF d
  <2> QED BY <1>4, <2>1, <2>2, <2>3
<1> QED BY <1>7, <1>8, <1>9, <1>10, <1>11, <1>12, <1>13, <1>14, <1>15

\* Nothing is offered that was not, and none of G.
LEMMA LessMore ==
    ASSUME NEW q, NEW r, NEW G, LessOffered(q, r, {}), G \cap Offered(q) = {}
    PROVE  LessOffered(q, r, G)
  BY DEF LessOffered

\* The first packet of a queue of today, and the others.
LEMMA TailIds ==
    ASSUME Typed, Ids, NEW n \in Nodes, NEW m \in Nodes,
           NEW q, q \in {high[n][m], medium[n][m], wire[n][m]}, q # <<>>
    PROVE  /\ LessOffered(q, Tail(q), {}) /\ Mentioned(Tail(q)) \subseteq Known /\ Mentions(Head(q)) \subseteq Known
           /\ Offers(Head(q)) => /\ LessOffered(q, Tail(q), {Head(q).g}) /\ Head(q).g \in Offered(q)
                                 /\ Head(q).g \in 1..(next_id - 1) /\ Head(q).g \notin Known
<1>1. q \in Seq(FitPkts(Kinds)) /\ Mentioned(q) \subseteq Known
  BY QueueTypes, KnownNow
<1>2. OffersOnce(q) /\ Offered(q) \subseteq 1..(next_id - 1) /\ Offered(q) \cap Known = {}
  BY IdsNow
<1>3. /\ Mentioned(Tail(q)) \subseteq Mentioned(q) /\ Mentions(Head(q)) \subseteq Mentioned(q)
      /\ Offers(Head(q)) => Head(q).g \in Offered(q)
  BY <1>1, OffersInQueues
<1>4. LessOffered(q, Tail(q), {}) /\ (Offers(Head(q)) => LessOffered(q, Tail(q), {Head(q).g}))
  BY <1>1, <1>2, LessTail
<1> QED BY <1>1, <1>2, <1>3, <1>4

\* What one place offers, no other does.
LEMMA IdsApart ==
    ASSUME Ids, NEW c \in Places, NEW d \in Places, c # d
    PROVE  Offered(AllQueues[c]) \cap Offered(AllQueues[d]) = {}
  BY DEF Ids, Fresh

\* The queues of today and of tomorrow, at their places.
LEMMA QueuesNow ==
    ASSUME NEW n \in Nodes, NEW m \in Nodes
    PROVE  /\ /\ QueuesOf(high, medium, wire)[At("high", n, m)] = high[n][m]
              /\ QueuesOf(high, medium, wire)[At("medium", n, m)] = medium[n][m]
              /\ QueuesOf(high, medium, wire)[At("wire", n, m)] = wire[n][m]
           /\ /\ QueuesOf(high', medium', wire')[At("high", n, m)] = high'[n][m]
              /\ QueuesOf(high', medium', wire')[At("medium", n, m)] = medium'[n][m]
              /\ QueuesOf(high', medium', wire')[At("wire", n, m)] = wire'[n][m]
<1>1. \A H, E, W : /\ QueuesOf(H, E, W)[At("high", n, m)] = H[n][m]
                   /\ QueuesOf(H, E, W)[At("medium", n, m)] = E[n][m]
                   /\ QueuesOf(H, E, W)[At("wire", n, m)] = W[n][m]
  BY PlacesAre
<1> QED BY <1>1

\* The invariant, queue by queue, when one offer goes to place d.
LEMMA IdsMoved ==
    ASSUME Ids, next_id \in Nat, next_id' \in Nat, next_id <= next_id', NEW d \in Places,
           NEW g \in 1..(next_id' - 1), g \notin Known, Known' \subseteq Known,
           \A n, m \in Nodes : /\ At("high", n, m) # d => LessOffered(high[n][m], high'[n][m], {g})
                               /\ At("medium", n, m) # d => LessOffered(medium[n][m], medium'[n][m], {g})
                               /\ At("wire", n, m) # d => LessOffered(wire[n][m], wire'[n][m], {g}),
           NEW r, r = QueuesOf(high', medium', wire')[d], OffersOnce(r), Offered(r) \subseteq Offered(AllQueues[d]) \cup {g}
    PROVE  Ids'
<1> DEFINE Q == QueuesOf(high, medium, wire)
           R == QueuesOf(high', medium', wire')
<1>1. \A c \in Places : c # d => LessOffered(Q[c], R[c], {g})
  <2> SUFFICES ASSUME NEW c \in Places, c # d PROVE LessOffered(Q[c], R[c], {g})
    OBVIOUS
  <2>1. PICK n \in Nodes, m \in Nodes : c \in {At("high", n, m), At("medium", n, m), At("wire", n, m)}
    BY PlacesAre
  <2>2. Q[At("high", n, m)] = high[n][m] /\ R[At("high", n, m)] = high'[n][m]
    BY QueuesNow
  <2>3. Q[At("medium", n, m)] = medium[n][m] /\ R[At("medium", n, m)] = medium'[n][m]
    BY QueuesNow
  <2>4. Q[At("wire", n, m)] = wire[n][m] /\ R[At("wire", n, m)] = wire'[n][m]
    BY QueuesNow
  <2> HIDE DEF Q, R
  <2>5. CASE c = At("high", n, m)
    BY <2>2, <2>5
  <2>6. CASE c = At("medium", n, m)
    BY <2>3, <2>6
  <2>7. CASE c = At("wire", n, m)
    BY <2>4, <2>7
  <2> QED BY <2>1, <2>5, <2>6, <2>7
<1>2. Fresh(Q, Known, next_id) /\ Q = AllQueues
  BY DEF Ids, AllQueues
<1>3. r = R[d]
  OBVIOUS
<1> HIDE DEF Q, R
<1>4. OneOffer(Q, R, d, g)
  BY <1>1, <1>2, <1>3 DEF OneOffer
<1>5. Fresh(R, Known', next_id')
  BY <1>2, <1>4, FreshMoved
<1> QED BY <1>5 DEF Ids, AllQueues, R

\* Handlers that bring nothing new.
LEMMA IdsHeard ==
    ASSUME Typed, Asking, Ids, Hearing
    PROVE  Ids'
<1>1. Talks(Hearsay) /\ threads' = threads
  BY GroupHandlersHeard, JoinHandlersHeard, WelcomesHeard, OthersHeard DEF Hearing, Heard
<1>2. ReadStep /\ HearTables
  BY HearingReads, HearingTables
<1>3. ASSUME NEW a \in Nodes, NEW b \in Nodes
      PROVE  LessOffered(wire[a][b], wire'[a][b], {}) /\ Mentioned(wire'[a][b]) \subseteq Known
  <2>1. CASE wire'[a][b] = wire[a][b]
    <3>1. LessOffered(wire[a][b], wire[a][b], {})
      BY IdsNow
    <3>2. Mentioned(wire[a][b]) \subseteq Known
      BY KnownNow
    <3> QED BY <2>1, <3>1, <3>2
  <2>2. CASE wire[a][b] # <<>> /\ wire'[a][b] = Tail(wire[a][b])
    BY <2>2, TailIds
  <2> QED BY <1>2, <2>1, <2>2 DEF ReadStep
<1>4. ASSUME NEW a \in Nodes, NEW b \in Nodes
      PROVE  /\ LessOffered(high[a][b], high'[a][b], {}) /\ LessOffered(medium[a][b], medium'[a][b], {})
             /\ Mentioned(high'[a][b]) \subseteq Known /\ Mentioned(medium'[a][b]) \subseteq Known
  BY <1>1, TalksIds
<1>5. Known' \subseteq Known \cup {}
  <2>1. \A th \in threads' : th.g \in Known \cup {0}
    BY <1>1, KnownNow
  <2>2. /\ \A a \in Nodes : groups'[a] \cup destroyed'[a] \subseteq Known \cup {0}
        /\ \A a, b \in Nodes : reading'[a][b].g \in Known \cup {0}
    BY <1>2 DEF HearTables
  <2>3. \A a, b \in Nodes : Mentioned(high'[a][b]) \cup Mentioned(medium'[a][b]) \cup Mentioned(wire'[a][b]) \subseteq Known
    BY <1>3, <1>4
  <2> QED BY <2>1, <2>2, <2>3, KnownStep
<1>6. next_id \in Nat /\ next_id' = next_id
  BY <1>2 DEF HearTables, Typed, Tabled
<1> QED BY <1>3, <1>4, <1>5, <1>6, IdsKept

\* One packet that offers nothing is queued.
LEMMA SendIds ==
    ASSUME NEW Q, Q \in [Nodes -> [Nodes -> Seq(Pkts)]], NEW n \in Nodes, NEW S \in SUBSET Nodes, NEW p \in Pkts, ~Offers(p),
           NEW a \in Nodes, NEW b \in Nodes, OffersOnce(Q[a][b])
    PROVE  /\ LessOffered(Q[a][b], Queued(Q, n, Send(S, p))[a][b], {})
           /\ Mentioned(Queued(Q, n, Send(S, p))[a][b]) \subseteq Mentioned(Q[a][b]) \cup Mentions(p)
<1> DEFINE s == Send(S, p)[b]
           q == Q[a][b]
<1>1. s \in {<<p>>, <<>>} /\ DOMAIN Q = Nodes /\ q \in Seq(Pkts)
  BY DEF Send
<1>2. s \in Seq(Pkts) /\ Mentioned(s) \subseteq Mentions(p) /\ \A i \in DOMAIN s : ~Offers(s[i])
  <2>1. DOMAIN <<p>> = {1} /\ <<p>>[1] = p /\ <<p>> \in Seq(Pkts)
    OBVIOUS
  <2>2. <<>> \in Seq(Pkts) /\ DOMAIN <<>> = {}
    OBVIOUS
  <2> HIDE DEF s
  <2>3. \A i \in DOMAIN s : s[i] = p
    BY <1>1, <2>1, <2>2
  <2> QED BY <1>1, <2>1, <2>2, <2>3 DEF Mentioned
<1>3. Queued(Q, n, Send(S, p))[a][b] = IF a = n THEN q \o s ELSE q
  BY <1>1, QueuedValue
<1> HIDE DEF s, q
<1>4. OffersOnce(q) => LessOffered(q, q, {}) /\ LessOffered(q, q \o s, {})
  <2>1. ASSUME OffersOnce(q) PROVE LessOffered(q, q \o s, {})
    BY <1>1, <1>2, <2>1, LessConcat
  <2> QED BY <2>1 DEF LessOffered
<1>5. Mentioned(q \o s) \subseteq Mentioned(q) \cup Mentioned(s)
  BY <1>1, <1>2, OffersConcat
<1>6. OffersOnce(q)
  BY DEF q
<1>7. /\ LessOffered(q, Queued(Q, n, Send(S, p))[a][b], {})
      /\ Mentioned(Queued(Q, n, Send(S, p))[a][b]) \subseteq Mentioned(q) \cup Mentions(p)
  BY <1>2, <1>3, <1>4, <1>5, <1>6
<1> QED BY <1>7 DEF q

\* The queues as sequences of packets.
LEMMA PacketQueues ==
    ASSUME Typed
    PROVE  /\ high \in [Nodes -> [Nodes -> Seq(Pkts)]] /\ medium \in [Nodes -> [Nodes -> Seq(Pkts)]]
           /\ wire \in [Nodes -> [Nodes -> Seq(Pkts)]] /\ next_id \in Nat \ {0}
<1>1. FitPkts(Kinds) \subseteq Pkts
  BY DEF FitPkts
<1>2. \A q \in Seq(FitPkts(Kinds)) : q \in Seq(Pkts)
  BY <1>1, SeqLarger
<1> QED BY <1>2 DEF Typed, Packeted, QueueSet, Tabled

\* One packet that offers nothing is queued, and G becomes known.
LEMMA IdsSaid ==
    ASSUME Typed, Ids, NEW n \in Nodes, NEW S \in SUBSET Nodes, NEW p \in Pkts, ~Offers(p), NEW G, G \subseteq 1..(next_id' - 1),
           Mentions(p) \subseteq Known \cup G, next_id' \in Nat, next_id <= next_id',
           \A a, b \in Nodes : /\ G \cap (Offered(high[a][b]) \cup Offered(medium[a][b])) = {}
                               /\ LessOffered(wire[a][b], wire'[a][b], G) /\ Mentioned(wire'[a][b]) \subseteq Known,
           \/ high' = Queued(high, n, Send(S, p)) /\ medium' = medium
           \/ medium' = Queued(medium, n, Send(S, p)) /\ high' = high,
           \A a \in Nodes : groups'[a] \subseteq groups[a] \cup G /\ destroyed'[a] \subseteq destroyed[a] \cup Known,
           reading' = reading, \A th \in threads' : th \in threads \/ th.g \in Known \cup G \cup {0}
    PROVE  Ids'
<1>1. ASSUME NEW a \in Nodes, NEW b \in Nodes
      PROVE  /\ LessOffered(high[a][b], high'[a][b], G) /\ LessOffered(medium[a][b], medium'[a][b], G)
             /\ Mentioned(high'[a][b]) \cup Mentioned(medium'[a][b]) \subseteq Known \cup G
  <2>1. /\ OffersOnce(high[a][b]) /\ OffersOnce(medium[a][b])
        /\ LessOffered(high[a][b], high[a][b], {}) /\ LessOffered(medium[a][b], medium[a][b], {})
        /\ Mentioned(high[a][b]) \subseteq Known /\ Mentioned(medium[a][b]) \subseteq Known
    BY IdsNow, KnownNow
  <2>2. /\ LessOffered(high[a][b], Queued(high, n, Send(S, p))[a][b], {})
        /\ Mentioned(Queued(high, n, Send(S, p))[a][b]) \subseteq Known \cup G
    BY <2>1, PacketQueues, SendIds
  <2>3. /\ LessOffered(medium[a][b], Queued(medium, n, Send(S, p))[a][b], {})
        /\ Mentioned(Queued(medium, n, Send(S, p))[a][b]) \subseteq Known \cup G
    BY <2>1, PacketQueues, SendIds
  <2>4. /\ LessOffered(high[a][b], high'[a][b], {}) /\ LessOffered(medium[a][b], medium'[a][b], {})
        /\ Mentioned(high'[a][b]) \cup Mentioned(medium'[a][b]) \subseteq Known \cup G
    BY <2>1, <2>2, <2>3
  <2> QED BY <2>4, LessMore
<1>2. Known' \subseteq Known \cup G
  <2>1. \A a \in Nodes : groups'[a] \cup destroyed'[a] \subseteq Known \cup G \cup {0}
    BY KnownNow
  <2>2. \A a, b \in Nodes : reading'[a][b].g \in Known \cup G \cup {0}
    BY KnownNow
  <2>3. \A th \in threads' : th.g \in Known \cup G \cup {0}
    BY KnownNow
  <2>4. \A a, b \in Nodes : Mentioned(high'[a][b]) \cup Mentioned(medium'[a][b]) \cup Mentioned(wire'[a][b]) \subseteq Known \cup G
    BY <1>1
  <2> QED BY <2>1, <2>2, <2>3, <2>4, KnownStep
<1>3. next_id \in Nat
  BY PacketQueues
<1> QED BY <1>1, <1>2, <1>3, IdsKept

LEMMA IdsCalled ==
    ASSUME Typed, Ids, NEW n \in Nodes, NEW o \in OpIds, NEW G, Called(n, o, G)
    PROVE  Ids'
<1>1. PICK S \in SUBSET Nodes, p \in Pkts, T \in SUBSET ThreadSet, r \in OpRecs :
       /\ Issue(n, o, S, p, T, r) /\ Mentions(p) \subseteq Known \cup G
       /\ \A th \in T : th.g \in Known \cup G \cup {0}
       /\ \A a \in Nodes : /\ groups'[a] \subseteq groups[a] \cup G
                           /\ destroyed'[a] \subseteq destroyed[a] \cup Known
       /\ reading' = reading /\ NewIds(G)
  BY DEF Called
<1>2. /\ ~Offers(p) /\ threads' = threads \cup T /\ wire' = wire
      /\ \/ high' = Queued(high, n, Send(S, p)) /\ medium' = medium
         \/ medium' = Queued(medium, n, Send(S, p)) /\ high' = high
  BY <1>1 DEF Issue, Offers
<1>3. PICK x \in Nat \ {0} : x = next_id
  BY PacketQueues
<1>4. next_id' \in Nat /\ next_id <= next_id' /\ G \subseteq 1..(next_id' - 1) /\ G \cap (1..(next_id - 1)) = {}
  BY <1>1, <1>3 DEF NewIds
<1>5. ASSUME NEW a \in Nodes, NEW b \in Nodes
      PROVE  /\ G \cap (Offered(high[a][b]) \cup Offered(medium[a][b])) = {}
             /\ LessOffered(wire[a][b], wire'[a][b], G) /\ Mentioned(wire'[a][b]) \subseteq Known
  <2>1. /\ Offered(high[a][b]) \subseteq 1..(next_id - 1) /\ Offered(medium[a][b]) \subseteq 1..(next_id - 1)
        /\ Offered(wire[a][b]) \subseteq 1..(next_id - 1) /\ LessOffered(wire[a][b], wire[a][b], {})
    BY IdsNow
  <2>2. LessOffered(wire[a][b], wire[a][b], G)
    BY <1>4, <2>1, LessMore
  <2>3. Mentioned(wire[a][b]) \subseteq Known
    BY KnownNow
  <2> QED BY <1>2, <1>4, <2>1, <2>2, <2>3
<1> QED BY <1>1, <1>2, <1>4, <1>5, IdsSaid

\* A packet is written; an offer moves from its queue to the wire.
LEMMA IdsWritten ==
    ASSUME Typed, Ids, NEW n \in Nodes, NEW m \in Nodes, Write(n, m)
    PROVE  Ids'
<1>1. PICK p \in FitPkts(Kinds) : WriteStep(n, m, p)
  BY Writing
<1>2. PICK c \in {At("high", n, m), At("medium", n, m)}, q \in {high[n][m], medium[n][m]} :
         /\ q # <<>> /\ p = Head(q) /\ AllQueues[c] = q
         /\ \A a, b \in Nodes : /\ high'[a][b] = IF At("high", a, b) = c THEN Tail(q) ELSE high[a][b]
                                /\ medium'[a][b] = IF At("medium", a, b) = c THEN Tail(q) ELSE medium[a][b]
  <2>0. \A a, b \in Nodes : /\ (At("high", a, b) = At("high", n, m)) = (a = n /\ b = m)
                            /\ (At("medium", a, b) = At("medium", n, m)) = (a = n /\ b = m)
                            /\ At("high", a, b) # At("medium", n, m) /\ At("medium", a, b) # At("high", n, m)
    BY DEF At
  <2>1. AllQueues[At("high", n, m)] = high[n][m] /\ AllQueues[At("medium", n, m)] = medium[n][m]
    BY QueuesNow DEF AllQueues
  <2>2. \A q : /\ \A a, b \in Nodes : Put(high, n, m, q)[a][b] = IF a = n /\ b = m THEN q ELSE high[a][b]
               /\ \A a, b \in Nodes : Put(medium, n, m, q)[a][b] = IF a = n /\ b = m THEN q ELSE medium[a][b]
    BY PacketQueues DEF Put
  <2>3. CASE high[n][m] # <<>> /\ p = Head(high[n][m]) /\ high' = Put(high, n, m, Tail(high[n][m])) /\ medium' = medium
    BY <2>0, <2>1, <2>2, <2>3
  <2>4. CASE medium[n][m] # <<>> /\ p = Head(medium[n][m]) /\ medium' = Put(medium, n, m, Tail(medium[n][m])) /\ high' = high
    BY <2>0, <2>1, <2>2, <2>4
  <2> QED BY <1>1, <2>3, <2>4 DEF WriteStep
<1>3. /\ LessOffered(q, Tail(q), {}) /\ Mentioned(Tail(q)) \subseteq Known /\ Mentions(p) \subseteq Known
      /\ Offers(p) => /\ LessOffered(q, Tail(q), {p.g}) /\ p.g \in Offered(q)
                      /\ p.g \in 1..(next_id - 1) /\ p.g \notin Known
  <2>1. q \in {high[n][m], medium[n][m], wire[n][m]} /\ q # <<>>
    BY <1>2
  <2>2. /\ LessOffered(q, Tail(q), {}) /\ Mentioned(Tail(q)) \subseteq Known /\ Mentions(Head(q)) \subseteq Known
        /\ Offers(Head(q)) => /\ LessOffered(q, Tail(q), {Head(q).g}) /\ Head(q).g \in Offered(q)
                              /\ Head(q).g \in 1..(next_id - 1) /\ Head(q).g \notin Known
    <3>1. CASE q = high[n][m]
      BY <2>1, <3>1, TailIds
    <3>2. CASE q = medium[n][m]
      BY <2>1, <3>2, TailIds
    <3> QED BY <1>2, <3>1, <3>2
  <2> QED BY <1>2, <2>2
<1>4. p \in Pkts /\ next_id \in Nat /\ next_id' = next_id
  BY PacketQueues DEF FitPkts, Write, facts
<1>5. \A a, b \in Nodes : wire'[a][b] = IF a = n /\ b = m /\ {n, m} \notin cut THEN wire[a][b] \o <<p>> ELSE wire[a][b]
  <2>1. Append(wire[n][m], p) = wire[n][m] \o <<p>>
    BY <1>4, PacketQueues, AppendIsConcat
  <2>2. wire' = IF {n, m} \in cut THEN wire ELSE Put(wire, n, m, Append(wire[n][m], p))
    BY <1>1 DEF WriteStep
  <2>3. \A v : \A a, b \in Nodes : Put(wire, n, m, v)[a][b] = IF a = n /\ b = m THEN v ELSE wire[a][b]
    BY PacketQueues DEF Put
  <2> QED BY <2>1, <2>2, <2>3
<1>6. /\ <<p>> \in Seq(Pkts) /\ Mentioned(<<p>>) \subseteq Known /\ OffersOnce(<<p>>)
      /\ Offered(<<p>>) \subseteq {p.g} /\ (~Offers(p) => \A i \in DOMAIN <<p>> : ~Offers(<<p>>[i]))
  <2>1. DOMAIN <<p>> = {1} /\ <<p>>[1] = p /\ <<p>> \in Seq(Pkts)
    BY <1>4
  <2>2. \A i \in DOMAIN <<p>> : <<p>>[i] = p /\ i = 1
    BY <2>1
  <2> QED BY <1>3, <2>1, <2>2 DEF Mentioned, OffersOnce, Offered
<1>7. ASSUME NEW a \in Nodes, NEW b \in Nodes
      PROVE  /\ LessOffered(high[a][b], high'[a][b], {}) /\ LessOffered(medium[a][b], medium'[a][b], {})
             /\ Mentioned(high'[a][b]) \subseteq Known /\ Mentioned(medium'[a][b]) \subseteq Known
             /\ Mentioned(wire'[a][b]) \subseteq Known
  <2>1. /\ LessOffered(high[a][b], high[a][b], {}) /\ LessOffered(medium[a][b], medium[a][b], {})
        /\ Mentioned(high[a][b]) \subseteq Known /\ Mentioned(medium[a][b]) \subseteq Known
        /\ Mentioned(wire[a][b]) \subseteq Known
    BY IdsNow, KnownNow
  <2>2. /\ At("high", a, b) = c => high[a][b] = q
        /\ At("medium", a, b) = c => medium[a][b] = q
    BY <1>2, QueuesNow DEF AllQueues
  <2>3. Mentioned(wire[a][b] \o <<p>>) \subseteq Known
    <3>1. wire[a][b] \in Seq(Pkts)
      BY PacketQueues
    <3>2. Mentioned(wire[a][b] \o <<p>>) \subseteq Mentioned(wire[a][b]) \cup Mentioned(<<p>>)
      BY <1>6, <3>1, OffersConcat
    <3> QED BY <1>6, <2>1, <3>2
  <2> QED BY <1>2, <1>3, <1>5, <2>1, <2>2, <2>3
<1>8. Known' \subseteq Known
  <2>1. UNCHANGED <<groups, destroyed, reading, threads>>
    BY DEF Write, tables
  <2>2. \A a, b \in Nodes : Mentioned(high'[a][b]) \cup Mentioned(medium'[a][b]) \cup Mentioned(wire'[a][b]) \subseteq Known \cup {}
    BY <1>7
  <2>3. /\ \A a \in Nodes : groups'[a] \cup destroyed'[a] \subseteq Known \cup {} \cup {0}
        /\ \A a, b \in Nodes : reading'[a][b].g \in Known \cup {} \cup {0}
        /\ \A th \in threads' : th.g \in Known \cup {} \cup {0}
    BY <2>1, KnownNow
  <2>4. Known' \subseteq Known \cup {}
    BY <2>2, <2>3, KnownStep
  <2> QED BY <2>4
<1>9. CASE ~Offers(p) \/ {n, m} \in cut
  <2>1. ASSUME NEW a \in Nodes, NEW b \in Nodes PROVE LessOffered(wire[a][b], wire'[a][b], {})
    <3>1. OffersOnce(wire[a][b]) /\ LessOffered(wire[a][b], wire[a][b], {}) /\ wire[a][b] \in Seq(Pkts)
      BY IdsNow, PacketQueues
    <3>2. ~Offers(p) => LessOffered(wire[a][b], wire[a][b] \o <<p>>, {})
      BY <1>6, <3>1, LessConcat
    <3> QED BY <1>5, <1>9, <3>1, <3>2
  <2>2. Known' \subseteq Known \cup {} /\ next_id <= next_id' /\ {} \subseteq 1..(next_id' - 1) /\ next_id' \in Nat
    BY <1>4, <1>8
  <2> QED BY <1>4, <1>7, <2>1, <2>2, IdsKept
<1>10. CASE Offers(p) /\ {n, m} \notin cut
  <2> DEFINE d == At("wire", n, m)
             g == p.g
  <2>1. d \in Places /\ c \in Places /\ c # d /\ AllQueues[d] = wire[n][m] /\ QueuesOf(high', medium', wire')[d] = wire'[n][m]
    <3>1. d \in Places /\ c \in Places
      BY PlacesAre
    <3>2. c # d
      BY DEF At
    <3>3. AllQueues[d] = wire[n][m] /\ QueuesOf(high', medium', wire')[d] = wire'[n][m]
      BY QueuesNow DEF AllQueues
    <3> QED BY <3>1, <3>2, <3>3
  <2>2. g \in Offered(q) /\ g \in 1..(next_id' - 1) /\ g \notin Known /\ LessOffered(q, Tail(q), {g})
    BY <1>3, <1>4, <1>10
  <2>3. \A e \in Places : e # c => g \notin Offered(AllQueues[e])
    BY <1>2, <2>1, <2>2, IdsApart
  <2>4. ASSUME NEW a \in Nodes, NEW b \in Nodes
        PROVE  /\ At("high", a, b) # d => LessOffered(high[a][b], high'[a][b], {g})
               /\ At("medium", a, b) # d => LessOffered(medium[a][b], medium'[a][b], {g})
               /\ At("wire", a, b) # d => LessOffered(wire[a][b], wire'[a][b], {g})
    <3>1. /\ At("high", a, b) \in Places /\ AllQueues[At("high", a, b)] = high[a][b]
          /\ At("medium", a, b) \in Places /\ AllQueues[At("medium", a, b)] = medium[a][b]
          /\ At("wire", a, b) \in Places /\ AllQueues[At("wire", a, b)] = wire[a][b]
      BY PlacesAre, QueuesNow DEF AllQueues
    <3>2. /\ LessOffered(high[a][b], high[a][b], {}) /\ LessOffered(medium[a][b], medium[a][b], {})
          /\ LessOffered(wire[a][b], wire[a][b], {})
      BY IdsNow
    <3>3. /\ At("high", a, b) # c => LessOffered(high[a][b], high[a][b], {g})
          /\ At("medium", a, b) # c => LessOffered(medium[a][b], medium[a][b], {g})
      BY <2>3, <3>1, <3>2, LessMore
    <3>4. At("wire", a, b) # c /\ LessOffered(wire[a][b], wire[a][b], {g})
      <4>1. At("wire", a, b) # c
        BY DEF At
      <4> QED BY <2>3, <3>1, <3>2, <4>1, LessMore
    <3>5. At("wire", a, b) # d => wire'[a][b] = wire[a][b]
      BY <1>5 DEF At
    <3>6. /\ At("high", a, b) = c => high[a][b] = q /\ high'[a][b] = Tail(q)
          /\ At("medium", a, b) = c => medium[a][b] = q /\ medium'[a][b] = Tail(q)
          /\ At("high", a, b) # c => high'[a][b] = high[a][b]
          /\ At("medium", a, b) # c => medium'[a][b] = medium[a][b]
      BY <1>2, <3>1
    <3> QED BY <2>2, <3>3, <3>4, <3>5, <3>6
  <2> PICK r : r = wire[n][m] \o <<p>>
    OBVIOUS
  <2>5. r = wire'[n][m] /\ OffersOnce(r) /\ Offered(r) \subseteq Offered(wire[n][m]) \cup {g}
    <3>1. OffersOnce(wire[n][m]) /\ wire[n][m] \in Seq(Pkts)
      BY IdsNow, PacketQueues
    <3>2. g \notin Offered(wire[n][m])
      BY <2>1, <2>3
    <3>3. Offered(wire[n][m]) \cap Offered(<<p>>) = {}
      BY <1>6, <3>2
    <3> QED BY <1>5, <1>6, <1>10, <3>1, <3>3, OffersConcat
  <2>6. next_id <= next_id' /\ next_id' \in Nat
    BY <1>4
  <2> HIDE DEF d, g
  <2> QED BY <1>4, <1>8, <2>1, <2>2, <2>4, <2>5, <2>6, IdsMoved
<1> QED BY <1>9, <1>10

\* Nothing new is known or offered.
LEMMA IdsQuiet ==
    ASSUME Typed, Ids, next_id' = next_id,
           \A a, b \in Nodes : /\ LessOffered(high[a][b], high'[a][b], {}) /\ Mentioned(high'[a][b]) \subseteq Known
                               /\ LessOffered(medium[a][b], medium'[a][b], {}) /\ Mentioned(medium'[a][b]) \subseteq Known
                               /\ LessOffered(wire[a][b], wire'[a][b], {}) /\ Mentioned(wire'[a][b]) \subseteq Known,
           \A a \in Nodes : groups'[a] \subseteq groups[a] /\ destroyed'[a] \subseteq destroyed[a],
           reading' = reading, \A th \in threads' : \E x \in threads : th.g = x.g
    PROVE  Ids'
<1>1. Known' \subseteq Known \cup {}
  <2>1. /\ \A a \in Nodes : groups'[a] \cup destroyed'[a] \subseteq Known \cup {} \cup {0}
        /\ \A a, b \in Nodes : reading'[a][b].g \in Known \cup {} \cup {0}
        /\ \A th \in threads' : th.g \in Known \cup {} \cup {0}
    BY KnownNow
  <2>2. \A a, b \in Nodes : Mentioned(high'[a][b]) \cup Mentioned(medium'[a][b]) \cup Mentioned(wire'[a][b]) \subseteq Known \cup {}
    OBVIOUS
  <2> QED BY <2>1, <2>2, KnownStep
<1>2. next_id \in Nat /\ next_id' \in Nat /\ next_id <= next_id' /\ {} \subseteq 1..(next_id' - 1)
  BY PacketQueues
<1> QED BY <1>1, <1>2, IdsKept

\* The queues as they are.
LEMMA SameIds ==
    ASSUME Typed, Ids, NEW a \in Nodes, NEW b \in Nodes
    PROVE  /\ LessOffered(high[a][b], high[a][b], {}) /\ Mentioned(high[a][b]) \subseteq Known
           /\ LessOffered(medium[a][b], medium[a][b], {}) /\ Mentioned(medium[a][b]) \subseteq Known
           /\ LessOffered(wire[a][b], wire[a][b], {}) /\ Mentioned(wire[a][b]) \subseteq Known
           /\ Offered(high[a][b]) \subseteq 1..(next_id - 1) /\ Offered(medium[a][b]) \subseteq 1..(next_id - 1)
           /\ Offered(wire[a][b]) \subseteq 1..(next_id - 1)
  BY IdsNow, KnownNow

\* An ack is read; an id that was offered becomes known.
LEMMA IdsAcked ==
    ASSUME Typed, Asking, Ids, NEW n \in Nodes, NEW m \in Nodes, HandleAck(n, m)
    PROVE  Ids'
<1>1. PICK p \in FitPkts(Kinds), S \in SUBSET Nodes : AckStep(n, m, p, S)
  BY Acking
<1>2. /\ wire[m][n] # <<>> /\ p = Head(wire[m][n]) /\ p.t = "ack"
      /\ \A a, b \in Nodes : wire'[a][b] = IF a = m /\ b = n THEN Tail(wire[m][n]) ELSE wire[a][b]
  <2>1. \A v : \A a, b \in Nodes : Put(wire, m, n, v)[a][b] = IF a = m /\ b = n THEN v ELSE wire[a][b]
    BY PacketQueues DEF Put
  <2> QED BY <1>1, <2>1 DEF AckStep
<1>3. /\ LessOffered(wire[m][n], Tail(wire[m][n]), {}) /\ Mentioned(Tail(wire[m][n])) \subseteq Known
      /\ Offers(p) => /\ LessOffered(wire[m][n], Tail(wire[m][n]), {p.g}) /\ p.g \in Offered(wire[m][n])
                      /\ p.g \in 1..(next_id - 1) /\ p.g \notin Known
  BY <1>2, TailIds
<1>4. UNCHANGED <<medium, reading, destroyed, next_id>> /\ p.g \in Nat /\ p.o \in 0..MaxOps
  BY DEF HandleAck, facts, FitPkts, Pkts
<1>5. CASE Announces(n, m, p, S)
  <2> DEFINE c == Packet("create", p.g, p.o, "count")
             G == {p.g}
  <2>1. c \in Pkts /\ ~Offers(c) /\ Mentions(c) \subseteq G
    <3>1. c \in Pkts /\ c.t = "create" /\ c.g = p.g /\ c.s = {}
      BY <1>4, PacketFields DEF PacketTypes
    <3> HIDE DEF c
    <3> QED BY <3>1 DEF Offers, Mentions
  <2>2. Offers(p)
    BY <1>2, <1>5 DEF Announces, Offers
  <2>3. ASSUME NEW a \in Nodes, NEW b \in Nodes
        PROVE  /\ G \cap (Offered(high[a][b]) \cup Offered(medium[a][b])) = {}
               /\ LessOffered(wire[a][b], wire'[a][b], G) /\ Mentioned(wire'[a][b]) \subseteq Known
    <3>1. /\ At("high", a, b) \in Places /\ AllQueues[At("high", a, b)] = high[a][b]
          /\ At("medium", a, b) \in Places /\ AllQueues[At("medium", a, b)] = medium[a][b]
          /\ At("wire", a, b) \in Places /\ AllQueues[At("wire", a, b)] = wire[a][b]
          /\ At("wire", m, n) \in Places /\ AllQueues[At("wire", m, n)] = wire[m][n]
      BY PlacesAre, QueuesNow DEF AllQueues
    <3>2. /\ At("high", a, b) # At("wire", m, n) /\ At("medium", a, b) # At("wire", m, n)
          /\ At("wire", a, b) = At("wire", m, n) => a = m /\ b = n
      BY DEF At
    <3>3. p.g \notin Offered(high[a][b]) /\ p.g \notin Offered(medium[a][b])
      BY <1>3, <2>2, <3>1, <3>2, IdsApart
    <3>4. ~(a = m /\ b = n) => LessOffered(wire[a][b], wire[a][b], G)
      <4>1. ASSUME ~(a = m /\ b = n) PROVE p.g \notin Offered(wire[a][b])
        BY <1>3, <2>2, <3>1, <3>2, <4>1, IdsApart
      <4>2. LessOffered(wire[a][b], wire[a][b], {})
        BY SameIds
      <4> QED BY <4>1, <4>2, LessMore
    <3>5. Mentioned(wire[a][b]) \subseteq Known
      BY SameIds
    <3> QED BY <1>2, <1>3, <2>2, <3>3, <3>4, <3>5
  <2>4. /\ groups' = [groups EXCEPT ![n] = @ \cup {p.g}] /\ groups \in [Nodes -> SUBSET Nat]
        /\ high' = Queued(high, n, Send(S, c)) /\ threads' = threads \cup {Thread(n, "create", p.o, p.g)}
    BY <1>5 DEF Announces, Typed, Tabled, GroupTables
  <2>5. /\ \A a \in Nodes : groups'[a] \subseteq groups[a] \cup G /\ destroyed'[a] \subseteq destroyed[a] \cup Known
        /\ \A th \in threads' : th \in threads \/ th.g \in Known \cup G \cup {0}
    BY <1>4, <2>4 DEF Thread
  <2>6. G \subseteq 1..(next_id' - 1) /\ next_id' \in Nat /\ next_id <= next_id'
    BY <1>3, <1>4, <2>2, PacketQueues
  <2>7. Mentions(c) \subseteq Known \cup G
    BY <2>1
  <2> HIDE DEF c, G
  <2> QED BY <1>4, <2>1, <2>3, <2>4, <2>5, <2>6, <2>7, IdsSaid
<1>6. CASE UNCHANGED <<groups, high, threads>>
  BY <1>2, <1>3, <1>4, <1>6, SameIds, IdsQuiet
<1> QED BY <1>1, <1>5, <1>6 DEF AckStep

\* The host offers the next id.
LEMMA IdsAllocated ==
    ASSUME Typed, Asking, Ids, NEW n \in Nodes, NEW m \in Nodes, HandleGroupAllocate(n, m)
    PROVE  Ids'
<1>1. PICK p \in FitPkts(Kinds) : Offer(n, m, p)
  BY Allocated
<1> PICK g \in Nat \ {0} : g = next_id
  BY PacketQueues
<1>2. /\ p.t = "ack" /\ p.g = g /\ p \in Pkts
      /\ high' = Queued(high, n, Send({m}, p)) /\ next_id' = g + 1
      /\ UNCHANGED <<medium, reading, groups, destroyed, threads>>
  BY <1>1, AckFields DEF Offer, FitPkts
<1>3. /\ wire[m][n] # <<>>
      /\ \A a, b \in Nodes : wire'[a][b] = IF a = m /\ b = n THEN Tail(wire[m][n]) ELSE wire[a][b]
  BY Receiving DEF HandleGroupAllocate
<1>4. Mentions(p) = {} /\ Mentioned(<<p>>) = {} /\ Offered(<<p>>) = {g} /\ OffersOnce(<<p>>) /\ <<p>> \in Seq(Pkts)
  <2>1. DOMAIN <<p>> = {1} /\ <<p>>[1] = p /\ Offers(p) /\ Mentions(p) = {}
    BY <1>2 DEF Offers, Mentions
  <2>2. \A i \in DOMAIN <<p>> : <<p>>[i] = p /\ i = 1
    BY <2>1
  <2>3. Mentioned(<<p>>) = {}
    BY <2>1, <2>2 DEF Mentioned
  <2>4. Offered(<<p>>) = {g} /\ OffersOnce(<<p>>)
    BY <1>2, <2>1, <2>2 DEF Offered, OffersOnce
  <2> QED BY <1>2, <2>1, <2>3, <2>4
<1>5. \A a, b \in Nodes : high'[a][b] = IF a = n /\ b = m THEN high[n][m] \o <<p>> ELSE high[a][b]
  <2>1. DOMAIN high = Nodes
    BY PacketQueues
  <2>2. \A a, b \in Nodes : high'[a][b] = IF a = n THEN high[a][b] \o Send({m}, p)[b] ELSE high[a][b]
    BY <1>2, <2>1, QueuedValue
  <2>3. \A b \in Nodes : Send({m}, p)[b] = IF b = m THEN <<p>> ELSE <<>>
    BY DEF Send
  <2>4. \A a, b \in Nodes : high[a][b] \o <<>> = high[a][b]
    BY PacketQueues, ConcatEmptySeq
  <2> SUFFICES ASSUME NEW a \in Nodes, NEW b \in Nodes
               PROVE  high'[a][b] = IF a = n /\ b = m THEN high[n][m] \o <<p>> ELSE high[a][b]
    OBVIOUS
  <2>5. CASE b = m
    BY <2>2, <2>3, <2>5
  <2>6. CASE b # m
    <3>1. Send({m}, p)[b] = <<>>
      BY <2>3, <2>6
    <3>2. high[a][b] \o <<>> = high[a][b]
      BY <2>4
    <3>3. high[a][b] \o Send({m}, p)[b] = high[a][b]
      BY <3>1, <3>2
    <3> QED BY <2>2, <2>6, <3>3
  <2> QED BY <2>5, <2>6
<1>6. ASSUME NEW a \in Nodes, NEW b \in Nodes
      PROVE  /\ LessOffered(high[a][b], high[a][b], {g}) /\ LessOffered(medium[a][b], medium'[a][b], {g})
             /\ LessOffered(wire[a][b], wire'[a][b], {g})
             /\ Mentioned(high'[a][b]) \subseteq Known /\ Mentioned(medium'[a][b]) \subseteq Known
             /\ Mentioned(wire'[a][b]) \subseteq Known
  <2>1. /\ g \notin Offered(high[a][b]) /\ g \notin Offered(medium[a][b]) /\ g \notin Offered(wire[a][b])
        /\ Mentioned(high[a][b]) \subseteq Known /\ Mentioned(medium[a][b]) \subseteq Known
        /\ Mentioned(wire[a][b]) \subseteq Known
    <3>1. g \notin 1..(next_id - 1)
      OBVIOUS
    <3> QED BY <3>1, SameIds
  <2>2. LessOffered(high[a][b], high[a][b], {g}) /\ LessOffered(medium[a][b], medium[a][b], {g})
    BY <2>1, SameIds, LessMore
  <2>3. LessOffered(wire[a][b], wire'[a][b], {g}) /\ Mentioned(wire'[a][b]) \subseteq Known
    <3>1. LessOffered(wire[a][b], wire[a][b], {})
      BY SameIds
    <3>2. LessOffered(wire[m][n], Tail(wire[m][n]), {}) /\ Mentioned(Tail(wire[m][n])) \subseteq Known
      BY <1>3, TailIds
    <3>3. LessOffered(wire[a][b], wire'[a][b], {}) /\ Mentioned(wire'[a][b]) \subseteq Known
      BY <1>3, <2>1, <3>1, <3>2
    <3> QED BY <2>1, <3>3, LessMore
  <2>4. Mentioned(high'[a][b]) \subseteq Known
    <3>1. high[n][m] \in Seq(Pkts)
      BY PacketQueues
    <3>2. Mentioned(high[n][m] \o <<p>>) \subseteq Mentioned(high[n][m]) \cup Mentioned(<<p>>)
      BY <1>4, <3>1, OffersConcat
    <3> QED BY <1>4, <1>5, <2>1, <3>2
  <2> QED BY <1>2, <2>1, <2>2, <2>3, <2>4
<1>7. Known' \subseteq Known
  <2>1. /\ \A a \in Nodes : groups'[a] \cup destroyed'[a] \subseteq Known \cup {} \cup {0}
        /\ \A a, b \in Nodes : reading'[a][b].g \in Known \cup {} \cup {0}
        /\ \A th \in threads' : th.g \in Known \cup {} \cup {0}
    BY <1>2, KnownNow
  <2>2. \A a, b \in Nodes : Mentioned(high'[a][b]) \cup Mentioned(medium'[a][b]) \cup Mentioned(wire'[a][b]) \subseteq Known \cup {}
    BY <1>6
  <2>3. Known' \subseteq Known \cup {}
    BY <2>1, <2>2, KnownStep
  <2> QED BY <2>3
<1> DEFINE d == At("high", n, m)
<1>8. d \in Places /\ AllQueues[d] = high[n][m] /\ QueuesOf(high', medium', wire')[d] = high'[n][m]
  <2>1. d \in Places
    BY PlacesAre
  <2> QED BY <2>1, QueuesNow DEF AllQueues
<1>9. \A a, b \in Nodes : At("high", a, b) # d => high'[a][b] = high[a][b]
  BY <1>5 DEF At
<1> PICK r : r = high[n][m] \o <<p>>
  OBVIOUS
<1>10. r = high'[n][m] /\ OffersOnce(r) /\ Offered(r) \subseteq Offered(high[n][m]) \cup {g}
  <2>1. OffersOnce(high[n][m]) /\ high[n][m] \in Seq(Pkts) /\ g \notin Offered(high[n][m])
    <3>1. g \notin 1..(next_id - 1)
      OBVIOUS
    <3>2. OffersOnce(high[n][m])
      BY IdsNow
    <3>3. Offered(high[n][m]) \subseteq 1..(next_id - 1)
      BY SameIds
    <3> QED BY <3>1, <3>2, <3>3, PacketQueues
  <2>2. Offered(high[n][m]) \cap Offered(<<p>>) = {}
    BY <1>4, <2>1
  <2> QED BY <1>4, <1>5, <2>1, <2>2, OffersConcat
<1>11. g \notin Known /\ g \in 1..(next_id' - 1) /\ next_id \in Nat /\ next_id' \in Nat /\ next_id <= next_id'
  <2>1. Known \subseteq 1..(next_id - 1)
    BY DEF Ids, Fresh
  <2> QED BY <1>2, <2>1
<1> HIDE DEF d
<1>12. \A a, b \in Nodes : /\ At("high", a, b) # d => LessOffered(high[a][b], high'[a][b], {g})
                           /\ At("medium", a, b) # d => LessOffered(medium[a][b], medium'[a][b], {g})
                           /\ At("wire", a, b) # d => LessOffered(wire[a][b], wire'[a][b], {g})
  BY <1>6, <1>9
<1>13. r = QueuesOf(high', medium', wire')[d] /\ OffersOnce(r) /\ Offered(r) \subseteq Offered(AllQueues[d]) \cup {g}
  BY <1>8, <1>10
<1> QED BY <1>7, <1>8, <1>11, <1>12, <1>13, IdsMoved

\* The loss of a connection empties queues.
LEMMA IdsLost ==
    ASSUME Typed, Ids, NEW n \in Nodes, NEW m \in Nodes, Lose(n, m)
    PROVE  Ids'
<1>1. LoseStep(n, m) /\ UNCHANGED <<threads, reading, groups, destroyed, next_id>>
  BY Losing
<1>2. \A q : OffersOnce(q) => LessOffered(q, <<>>, {}) /\ Mentioned(<<>>) = {}
  BY OffersInQueues DEF LessOffered
<1>3. \A a, b \in Nodes : /\ high'[a][b] \in {high[a][b], <<>>} /\ medium'[a][b] \in {medium[a][b], <<>>}
                          /\ wire'[a][b] \in {wire[a][b], <<>>}
  <2>1. /\ \A a, b \in Nodes : Put(high, n, m, <<>>)[a][b] \in {high[a][b], <<>>}
        /\ \A a, b \in Nodes : Put(medium, n, m, <<>>)[a][b] \in {medium[a][b], <<>>}
        /\ \A a, b \in Nodes : Put(wire, m, n, <<>>)[a][b] \in {wire[a][b], <<>>}
    BY PacketQueues DEF Put
  <2>2. /\ high' \in {high, Put(high, n, m, <<>>)} /\ medium' \in {medium, Put(medium, n, m, <<>>)}
        /\ wire' \in {wire, Put(wire, m, n, <<>>)}
    BY <1>1 DEF LoseStep
  <2> QED BY <2>1, <2>2
<1>4. ASSUME NEW a \in Nodes, NEW b \in Nodes
      PROVE  /\ LessOffered(high[a][b], high'[a][b], {}) /\ Mentioned(high'[a][b]) \subseteq Known
             /\ LessOffered(medium[a][b], medium'[a][b], {}) /\ Mentioned(medium'[a][b]) \subseteq Known
             /\ LessOffered(wire[a][b], wire'[a][b], {}) /\ Mentioned(wire'[a][b]) \subseteq Known
  BY <1>2, <1>3, SameIds, IdsNow
<1> QED BY <1>1, <1>4, IdsQuiet

LEMMA IdsThreads ==
    ASSUME Typed, Ids, Threading \/ UNCHANGED vars
    PROVE  Ids'
<1>1. /\ UNCHANGED <<high, medium, wire, reading, destroyed, next_id>>
      /\ \A a \in Nodes : groups'[a] \subseteq groups[a]
      /\ \A th \in threads' : \E x \in threads : th.g = x.g
  <2>1. CASE UNCHANGED vars
    BY <2>1 DEF vars, queues, tables, facts
  <2>2. ASSUME NEW th \in threads, ThreadTells(th) \/ ThreadDestroys(th) \/ ThreadErases(th)
        PROVE  /\ UNCHANGED <<high, medium, wire, reading, destroyed, next_id>>
               /\ \A a \in Nodes : groups'[a] \subseteq groups[a]
               /\ \A x \in threads' : \E y \in threads : x.g = y.g
    <3>1. groups' = groups \/ groups' = [groups EXCEPT ![th.n] = @ \ {th.g}]
      BY <2>2 DEF ThreadTells, ThreadDestroys, ThreadErases, EraseGroup
    <3>2. groups \in [Nodes -> SUBSET Nat]
      BY DEF Typed, Tabled, GroupTables
    <3>3. UNCHANGED <<high, medium, wire, reading, destroyed, next_id>>
      BY <2>2 DEF ThreadTells, ThreadDestroys, ThreadErases, queues, facts
    <3>4. threads' \subseteq threads \cup {[th EXCEPT !.k = "destroying"]}
      BY <2>2 DEF ThreadTells, ThreadDestroys, ThreadErases
    <3>5. th \in ThreadSet
      BY DEF Typed, Counted
    <3>6. [th EXCEPT !.k = "destroying"].g = th.g
      BY <3>5 DEF ThreadSet
    <3> QED BY <3>1, <3>2, <3>3, <3>4, <3>6
  <2> QED BY <2>1, <2>2 DEF Threading
<1> QED BY <1>1, SameIds, IdsQuiet

\* Ids stay fresh.
LEMMA IdsNext ==
    ASSUME Typed, Asking, Ids, Steps
    PROVE  Ids'
<1>1. ASSUME NEW n \in Nodes, NEW m \in Nodes, NEW o \in OpIds, NEW g \in Nat \ {0}, CallsOf(n, o, g, m)
      PROVE  Ids'
  <2>1. PICK G \in SUBSET Nat : Called(n, o, G)
    BY <1>1, CallsAreIssues
  <2> QED BY <2>1, IdsCalled
<1>2. ASSUME NEW n \in Nodes, NEW m \in Nodes,
             Write(n, m) \/ HandleAck(n, m) \/ HandleGroupAllocate(n, m) \/ Lose(n, m)
      PROVE  Ids'
  BY <1>2, IdsWritten, IdsAcked, IdsAllocated, IdsLost
<1> QED BY <1>1, <1>2, IdsHeard, IdsThreads DEF Steps

-------------------------------------------------------------------------------
(* The start.                                                                *)

LEMMA TypedInit ==
    ASSUME Init
    PROVE  Typed /\ Asking /\ Ids
<1> PICK s \in Scenarios :
       /\ scenario = s
       /\ sess = [n \in Nodes |-> IF n \in s.present THEN "connected" ELSE "out"]
       /\ link = [n \in Nodes |-> [m \in Nodes |->
                     IF {n, m} \subseteq s.present /\ n # m THEN "connected" ELSE "none"]]
       /\ high = [n \in Nodes |-> [m \in Nodes |-> <<>>]]
       /\ medium = high
       /\ wire = high
       /\ acks = [n \in Nodes |-> [m \in Nodes |-> {}]]
       /\ reading = [n \in Nodes |-> [m \in Nodes |-> Idle]]
       /\ groups = [n \in Nodes |-> IF n \in s.present THEN s.groups ELSE {}]
       /\ destroyed = [n \in Nodes |-> {}]
       /\ threads = {}
       /\ op = [o \in OpIds |-> NoOp]
       /\ next_id = Cardinality(s.groups) + 1
       /\ info = [n \in Nodes |-> [m \in Nodes |-> 0]]
       /\ desc = [n \in Nodes |-> 0]
       /\ fault = FALSE
       /\ told = [n \in Nodes |-> [g \in GroupIds |->
                     IF n \in s.present /\ g \in s.groups THEN <<1, 0>> ELSE <<0, 0>>]]
  BY DEF Init
<1>1. PICK k \in 0..MaxGroups : s.groups = 1..k
  BY GroupsAssumption
<1>2. k \in Nat /\ Cardinality(s.groups) = k /\ IsFiniteSet(s.groups) /\ IsFiniteSet({}) /\ s.groups \subseteq Nat /\ MaxOps \in Nat
  <2>1. k \in Nat /\ MaxOps \in Nat
    BY GroupsAssumption
  <2>2. IsFiniteSet(1..k) /\ Cardinality(1..k) = IF 1 > k THEN 0 ELSE k - 1 + 1
    BY <2>1, FS_Interval
  <2> QED BY <1>1, <2>1, <2>2, FS_EmptySet
<1>3. next_id = k + 1
  BY <1>2
<1>4. Packeted
  <2>1. <<>> \in Seq(FitPkts(Kinds))
    OBVIOUS
  <2> QED BY <2>1 DEF Packeted, QueueSet
<1>5. Tabled
  <2>1. groups \in GroupTables /\ destroyed \in GroupTables
    BY <1>2 DEF GroupTables
  <2>2. reading \in [Nodes -> [Nodes -> Readings]]
    BY <1>2 DEF Idle, Readings
  <2>3. told \in [Nodes -> [GroupIds -> Nat \X Nat]]
    OBVIOUS
  <2>4. next_id \in Nat \ {0}
    BY <1>2, <1>3
  <2>5. info \in [Nodes -> [Nodes -> 0..MaxOps]] /\ desc \in [Nodes -> 0..MaxOps]
    BY <1>2
  <2>6. /\ sess \in [Nodes -> {"out", "connecting", "connected", "terminated"}]
        /\ link \in [Nodes -> [Nodes -> {"none", "requesting", "connected", "failing", "closing", "gone"}]]
        /\ fault \in BOOLEAN /\ scenario \in Scenarios
    OBVIOUS
  <2> QED BY <2>1, <2>2, <2>3, <2>4, <2>5, <2>6 DEF Tabled
<1>6. Counted
  <2>1. NoOp \in OpRecs
    BY NodesFinite DEF NoOp, OpRecs, Results
  <2> QED BY <2>1 DEF Counted
<1>7. Asking
  BY DEF Asking, Idle
<1>8. Ids
  <2>1. Known \subseteq 1..(next_id - 1)
    <3>1. \A n, m \in Nodes : Mentioned(high[n][m]) = {} /\ Mentioned(medium[n][m]) = {} /\ Mentioned(wire[n][m]) = {}
      BY OffersInQueues
    <3>2. \A n \in Nodes : groups[n] \cup destroyed[n] \subseteq s.groups
      OBVIOUS
    <3>3. \A n, m \in Nodes : reading[n][m].g = 0
      BY DEF Idle
    <3>4. Known \subseteq s.groups
      BY <3>1, <3>2, <3>3 DEF Known
    <3> QED BY <1>1, <1>2, <1>3, <3>4
  <2>2. ASSUME NEW c \in Places PROVE AllQueues[c] = <<>>
    <3>1. PICK n \in Nodes, m \in Nodes : c \in {At("high", n, m), At("medium", n, m), At("wire", n, m)}
      BY PlacesAre
    <3>2. /\ AllQueues[At("high", n, m)] = <<>> /\ AllQueues[At("medium", n, m)] = <<>>
          /\ AllQueues[At("wire", n, m)] = <<>>
      BY QueuesNow DEF AllQueues
    <3> QED BY <3>1, <3>2
  <2>3. Offered(<<>>) = {} /\ OffersOnce(<<>>)
    BY OffersInQueues
  <2> QED BY <2>1, <2>2, <2>3 DEF Ids, Fresh
<1> QED BY <1>4, <1>5, <1>6, <1>7, <1>8 DEF Typed

-------------------------------------------------------------------------------
(* Destroyed groups.                                                         *)

\* A handler takes a group into the table only when it is not known to be destroyed.
LEMMA HearingRevivesNone ==
    ASSUME Typed, Hearing
    PROVE  \A a \in Nodes : groups'[a] \cap destroyed[a] \subseteq groups[a]
<1>1. groups \in [Nodes -> SUBSET Nat] /\ destroyed \in [Nodes -> SUBSET Nat]
  BY DEF Typed, Tabled, GroupTables
<1>2. ASSUME NEW n \in Nodes, NEW g, groups' = [groups EXCEPT ![n] = @ \cup {g}], g \notin destroyed[n]
      PROVE  \A a \in Nodes : groups'[a] \cap destroyed[a] \subseteq groups[a]
  BY <1>1, <1>2
<1>3. PICK n \in Nodes, m \in Nodes :
       \/ HandleUnexpected(n, m) \/ HandleGroupCreate(n, m) \/ HandleGroupDestroy(n, m) \/ HandleGroupLeft(n, m)
       \/ HandleAppdesc(n, m) \/ HandlePlayerinfo(n, m) \/ GroupDestroyed(n, m)
       \/ HandleGroupJoin(n, m) \/ HandleGroupJoined(n, m) \/ HandleGroupLeave(n, m) \/ UnknownCreated(n, m)
       \/ HandleHostConnectRequest(n, m) \/ HandleHostConnectOk(n, m)
       \/ HandleConnectPeer(n, m) \/ HandleConnectPeerOk(n, m) \/ Connect(n)
       \/ Break(n, m) \/ GroupDestroyAll(n)
  BY DEF Hearing
<1>4. CASE \/ HandleUnexpected(n, m) \/ HandleGroupDestroy(n, m) \/ HandleGroupLeft(n, m)
           \/ HandleAppdesc(n, m) \/ HandlePlayerinfo(n, m) \/ HandleGroupLeave(n, m) \/ UnknownCreated(n, m)
  <2>1. groups' = groups
    BY <1>4 DEF HandleUnexpected, HandleGroupDestroy, HandleGroupLeft, HandleAppdesc, HandlePlayerinfo, HandleGroupLeave,
                UnknownCreated, tables
  <2> QED BY <2>1
<1>5. CASE \/ HandleHostConnectRequest(n, m) \/ HandleHostConnectOk(n, m)
           \/ HandleConnectPeer(n, m) \/ HandleConnectPeerOk(n, m) \/ Connect(n) \/ Break(n, m)
  <2>1. groups' = groups
    BY <1>5 DEF HandleHostConnectRequest, HandleHostConnectOk, HandleConnectPeer, HandleConnectPeerOk, Connect, Break, tables
  <2> QED BY <2>1
<1>6. CASE HandleGroupCreate(n, m)
  <2> PICK g : g = Received(n, m).g
    OBVIOUS
  <2>1. groups' = groups \/ (g \notin destroyed[n] /\ groups' = [groups EXCEPT ![n] = @ \cup {g}])
    BY <1>6 DEF HandleGroupCreate, IsOld
  <2> QED BY <1>2, <2>1
<1>7. CASE HandleGroupJoin(n, m) \/ HandleGroupJoined(n, m)
  <2> PICK g : g = Received(n, m).g
    OBVIOUS
  <2>1. groups' = groups \/ (g \notin destroyed[n] /\ groups' = [groups EXCEPT ![n] = @ \cup {g}])
    BY <1>7 DEF HandleGroupJoin, HandleGroupJoined, CreateUnknown
  <2> QED BY <1>2, <2>1
<1>8. CASE GroupDestroyed(n, m) \/ GroupDestroyAll(n)
  <2>1. \A a \in Nodes : groups'[a] \subseteq groups[a]
    BY <1>1, <1>8 DEF GroupDestroyed, GroupDestroyAll, EraseGroup
  <2> QED BY <2>1
<1> QED BY <1>3, <1>4, <1>5, <1>6, <1>7, <1>8

\* ... and an id that was not known to anybody is not known to be destroyed.
LEMMA RevivesNone ==
    ASSUME Typed, Asking, Ids, Steps
    PROVE  \A a \in Nodes : (destroyed[a] \ groups[a]) \cap groups'[a] = {}
<1>1. groups \in [Nodes -> SUBSET Nat] /\ destroyed \in [Nodes -> SUBSET Nat]
  BY DEF Typed, Tabled, GroupTables
<1>2. ASSUME NEW g, g \notin Known, g # 0 PROVE \A a \in Nodes : g \notin destroyed[a]
  BY <1>1, <1>2 DEF Known
<1>3. ASSUME NEW n \in Nodes, NEW m \in Nodes, NEW o \in OpIds, NEW g \in Nat \ {0}, CallsOf(n, o, g, m)
      PROVE  \A a \in Nodes : (destroyed[a] \ groups[a]) \cap groups'[a] = {}
  <2>1. PICK G \in SUBSET Nat : Called(n, o, G)
    BY <1>3, CallsAreIssues
  <2>2. /\ \A a \in Nodes : groups'[a] \subseteq groups[a] \cup G
        /\ G \subseteq {next_id}
    BY <2>1 DEF Called, NewIds
  <2>3. next_id # 0 /\ next_id \notin Known
    <3>1. Known \subseteq 1..(next_id - 1) /\ next_id \in Nat \ {0}
      BY PacketQueues DEF Ids, Fresh
    <3>2. next_id \notin 1..(next_id - 1)
      BY <3>1
    <3> QED BY <3>1, <3>2
  <2> QED BY <1>2, <2>2, <2>3
<1>4. ASSUME NEW n \in Nodes, NEW m \in Nodes, HandleAck(n, m)
      PROVE  \A a \in Nodes : (destroyed[a] \ groups[a]) \cap groups'[a] = {}
  <2>1. PICK p \in FitPkts(Kinds), S \in SUBSET Nodes : AckStep(n, m, p, S)
    BY <1>4, Acking
  <2>2. CASE groups' = groups
    BY <2>2
  <2>3. CASE Announces(n, m, p, S)
    <3>1. Offers(p) /\ wire[m][n] # <<>> /\ p = Head(wire[m][n])
      BY <2>1, <2>3 DEF AckStep, Announces, Offers
    <3>2. p.g \notin Known /\ p.g # 0
      BY <3>1, TailIds DEF Offers
    <3>3. groups' = [groups EXCEPT ![n] = @ \cup {p.g}]
      BY <2>3 DEF Announces
    <3> QED BY <1>1, <1>2, <3>2, <3>3
  <2> QED BY <2>1, <2>2, <2>3 DEF AckStep
<1>5. ASSUME NEW n \in Nodes, NEW m \in Nodes, Write(n, m) \/ HandleGroupAllocate(n, m) \/ Lose(n, m)
      PROVE  \A a \in Nodes : (destroyed[a] \ groups[a]) \cap groups'[a] = {}
  <2>1. groups' = groups
    BY <1>5, Allocated, Losing DEF Write, tables, HandleGroupAllocate
  <2> QED BY <2>1
<1>6. CASE Threading
  <2>1. PICK th \in threads : ThreadTells(th) \/ ThreadDestroys(th) \/ ThreadErases(th)
    BY <1>6 DEF Threading
  <2>2. groups' = groups \/ groups' = [groups EXCEPT ![th.n] = @ \ {th.g}]
    BY <2>1 DEF ThreadTells, ThreadDestroys, ThreadErases, EraseGroup
  <2> QED BY <1>1, <2>2
<1>7. CASE UNCHANGED vars
  BY <1>7 DEF vars, tables
<1>8. CASE Hearing
  BY <1>8, HearingRevivesNone
<1> QED BY <1>3, <1>4, <1>5, <1>6, <1>7, <1>8 DEF Steps

-------------------------------------------------------------------------------
(* Indications.                                                              *)

\* What becomes of group h at member a: whether it is in the table and known to be
\* destroyed, what has been indicated, and who is about to create, destroy and erase it.
Becomes(a, h, in, gone, t1, t2, c, d, e0, e1) ==
    /\ h \in groups'[a] <=> in
    /\ h \in destroyed'[a] <=> gone
    /\ told'[a][h][1] = t1 /\ told'[a][h][2] = t2
    /\ HasThread(threads', a, h, "create") <=> c
    /\ HasThread(threads', a, h, "destroy") <=> d
    /\ HasThread(threads', a, h, "destroying") \/ InIndication(reading', a, h) => e1
    /\ e0 => HasThread(threads', a, h, "destroying") \/ InIndication(reading', a, h)

Tells(a, h) ==
    LET in == h \in groups[a]
        gone == h \in destroyed[a]
        t1 == told[a][h][1]
        t2 == told[a][h][2]
        c == Creating(a, h)
        d == Destroying(a, h)
        e == Erasing(a, h)
    IN  /\ sess'[a] = "terminated" \/ sess[a] # "terminated"
        /\ \/ Becomes(a, h, in, gone, t1, t2, c, d, e, e)
           \* created by a thread, or by a handler
           \/ ~in /\ ~gone /\ Becomes(a, h, TRUE, gone, t1, t2, TRUE, d, e, e)
           \/ ~in /\ ~gone /\ Becomes(a, h, TRUE, gone, t1 + 1, t2, c, d, e, e)
           \* destroyed by a thread, or by a handler
           \/ in /\ ~gone /\ Becomes(a, h, in, TRUE, t1, t2, c, TRUE, e, e)
           \/ in /\ ~gone /\ Becomes(a, h, in, TRUE, t1, t2 + 1, c, d, TRUE, TRUE)
           \/ ~in /\ Becomes(a, h, in, TRUE, t1, t2, c, d, e, e)
           \* erased
           \/ (e \/ (gone /\ sess[a] = "terminated")) /\ Becomes(a, h, FALSE, gone, t1, t2, c, d, FALSE, e)
           \* a thread indicates
           \/ c /\ Becomes(a, h, in, gone, t1 + 1, t2, FALSE, d, e, e)
           \/ d /\ in /\ Becomes(a, h, in, gone, t1, t2 + 1, c, FALSE, TRUE, TRUE)
           \/ d /\ ~in /\ Becomes(a, h, in, gone, t1, t2, c, FALSE, e, e)

LEMMA TellsKept ==
    ASSUME Typed, NEW a \in Nodes, NEW h \in GroupIds, Told(a, h), Tells(a, h)
    PROVE  Told(a, h)'
<1>1. told[a][h][1] \in Nat /\ told[a][h][2] \in Nat
  BY DEF Typed, Tabled
<1> QED BY <1>1 DEF Told, Tells, Becomes, Creating, Destroying, Erasing

\* Threads come and go.
LEMMA ThreadsAre ==
    ASSUME NEW T, NEW th, NEW a, NEW h, NEW k
    PROVE  /\ HasThread(T \cup {th}, a, h, k) <=> HasThread(T, a, h, k) \/ (th.n = a /\ th.g = h /\ th.k = k)
           /\ ~(th.n = a /\ th.g = h /\ th.k = k) => (HasThread(T \ {th}, a, h, k) <=> HasThread(T, a, h, k))
           /\ th \in T /\ Single(T) /\ k \in {"create", "destroy"} /\ th.n = a /\ th.g = h /\ th.k = k /\ h \in GroupIds =>
                 ~HasThread(T \ {th}, a, h, k)
  BY DEF HasThread, Single

LEMMA SingleKept ==
    ASSUME NEW T, NEW th, Single(T)
    PROVE  /\ Single(T \ {th})
           /\ th.k \notin {"create", "destroy"} \/ th.g \notin GroupIds \/ ~HasThread(T, th.n, th.g, th.k) => Single(T \cup {th})
  BY DEF HasThread, Single

\* A handler that was in no DESTROY_GROUP goes into an indication.
LEMMA IndicationIs ==
    ASSUME NEW R \in [Nodes -> [Nodes -> Readings]], NEW n \in Nodes, NEW m \in Nodes, NEW d, NEW a \in Nodes, NEW h
    PROVE  /\ R[n][m].at # "destroying" =>
                 (InIndication(Put(R, n, m, d), a, h)
                     <=> InIndication(R, a, h) \/ (a = n /\ d.at = "destroying" /\ d.g = h))
           /\ d.at # "destroying" => (InIndication(Put(R, n, m, d), a, h) => InIndication(R, a, h))
           /\ d.at # "destroying" /\ ~(a = n /\ R[n][m].at = "destroying" /\ R[n][m].g = h) =>
                 (InIndication(Put(R, n, m, d), a, h) <=> InIndication(R, a, h))
<1>1. \A b \in Nodes : Put(R, n, m, d)[a][b] = IF a = n /\ b = m THEN d ELSE R[a][b]
  BY DEF Put
<1> QED BY <1>1 DEF InIndication

LEMMA TellingStep ==
    ASSUME Typed, Telling, Single(threads'), \A a \in Nodes, h \in GroupIds : Tells(a, h)
    PROVE  Telling'
<1>1. \A a \in Nodes, h \in GroupIds : Told(a, h)'
  BY TellsKept DEF Telling
<1> QED BY <1>1 DEF Telling

TablesTyped ==
    /\ groups \in [Nodes -> SUBSET Nat] /\ destroyed \in [Nodes -> SUBSET Nat]
    /\ told \in [Nodes -> [GroupIds -> Nat \X Nat]] /\ reading \in [Nodes -> [Nodes -> Readings]]
    /\ threads \subseteq ThreadSet

LEMMA TablesTypes == ASSUME Typed PROVE TablesTyped
  BY DEF TablesTyped, Typed, Tabled, Counted, GroupTables

\* A session that is over stays so.
SessKept == \A a \in Nodes : sess'[a] = "terminated" \/ sess[a] # "terminated"

\* The reading of one connection does not come to or from DESTROY_GROUP.
ReadingKept ==
    \/ reading' = reading
    \/ \E n, m \in Nodes : \E d : /\ reading' = Put(reading, n, m, d) /\ d.at # "destroying"
                                  /\ reading[n][m].at # "destroying"

LEMMA ReadingSame ==
    ASSUME Typed, ReadingKept, NEW a \in Nodes, NEW h
    PROVE  InIndication(reading', a, h) <=> InIndication(reading, a, h)
<1>1. reading \in [Nodes -> [Nodes -> Readings]]
  BY DEF Typed, Tabled
<1>2. CASE reading' = reading
  BY <1>2
<1>3. ASSUME NEW n \in Nodes, NEW m \in Nodes, NEW d, reading' = Put(reading, n, m, d), d.at # "destroying",
             reading[n][m].at # "destroying"
      PROVE  InIndication(reading', a, h) <=> InIndication(reading, a, h)
  <2>1. /\ d.at # "destroying" => (InIndication(Put(reading, n, m, d), a, h) => InIndication(reading, a, h))
        /\ reading[n][m].at # "destroying" =>
              (InIndication(Put(reading, n, m, d), a, h)
                  <=> InIndication(reading, a, h) \/ (a = n /\ d.at = "destroying" /\ d.g = h))
    BY <1>1, IndicationIs
  <2> QED BY <1>3, <2>1
<1> QED BY <1>2, <1>3 DEF ReadingKept

\* Nothing happens to any group.
LEMMA NothingTold ==
    ASSUME Typed, Telling, SessKept, ReadingKept, UNCHANGED <<groups, destroyed, told>>,
           \/ threads' = threads
           \/ \E th : th.k \notin {"create", "destroy", "destroying"} /\ threads' \in {threads \cup {th}, threads \ {th}}
    PROVE  Telling'
<1>1. /\ Single(threads')
      /\ \A a \in Nodes, h \in GroupIds, k \in {"create", "destroy", "destroying"} :
            HasThread(threads', a, h, k) <=> HasThread(threads, a, h, k)
  <2>1. CASE threads' = threads
    BY <2>1 DEF Telling
  <2>2. ASSUME NEW th, th.k \notin {"create", "destroy", "destroying"}, threads' \in {threads \cup {th}, threads \ {th}}
        PROVE  /\ Single(threads')
               /\ \A a \in Nodes, h \in GroupIds, k \in {"create", "destroy", "destroying"} :
                     HasThread(threads', a, h, k) <=> HasThread(threads, a, h, k)
    <3>1. \A a \in Nodes, h \in GroupIds, k \in {"create", "destroy", "destroying"} : ~(th.n = a /\ th.g = h /\ th.k = k)
      BY <2>2
    <3>2. Single(threads)
      BY DEF Telling
    <3>3. CASE threads' = threads \cup {th}
      <4>1. Single(threads')
        BY <2>2, <3>2, <3>3, SingleKept
      <4>2. ASSUME NEW a \in Nodes, NEW h \in GroupIds, NEW k \in {"create", "destroy", "destroying"}
            PROVE  HasThread(threads', a, h, k) <=> HasThread(threads, a, h, k)
        <5>1. HasThread(threads \cup {th}, a, h, k) <=> HasThread(threads, a, h, k) \/ (th.n = a /\ th.g = h /\ th.k = k)
          BY ThreadsAre
        <5> QED BY <3>1, <3>3, <5>1
      <4> QED BY <4>1, <4>2
    <3>4. CASE threads' = threads \ {th}
      <4>1. Single(threads')
        BY <3>2, <3>4, SingleKept
      <4>2. ASSUME NEW a \in Nodes, NEW h \in GroupIds, NEW k \in {"create", "destroy", "destroying"}
            PROVE  HasThread(threads', a, h, k) <=> HasThread(threads, a, h, k)
        <5>1. ~(th.n = a /\ th.g = h /\ th.k = k) => (HasThread(threads \ {th}, a, h, k) <=> HasThread(threads, a, h, k))
          BY ThreadsAre
        <5> QED BY <3>1, <3>4, <5>1
      <4> QED BY <4>1, <4>2
    <3> QED BY <2>2, <3>3, <3>4
  <2> QED BY <2>1, <2>2
<1>2. ASSUME NEW a \in Nodes, NEW h \in GroupIds PROVE Tells(a, h)
  <2>1. InIndication(reading', a, h) <=> InIndication(reading, a, h)
    BY ReadingSame
  <2> QED BY <1>1, <2>1 DEF Tells, Becomes, Creating, Destroying, Erasing, SessKept
<1> QED BY <1>1, <1>2, TellingStep

\* A group is created, by a thread that will indicate it or by a handler that has.
LEMMA CreationTold ==
    ASSUME Typed, Telling, SessKept, ReadingKept, NEW n \in Nodes, NEW g \in Nat, g \notin groups[n], g \notin destroyed[n],
           groups' = [groups EXCEPT ![n] = @ \cup {g}], destroyed' = destroyed,
           \/ /\ told' = told
              /\ \E th : threads' = threads \cup {th} /\ th.n = n /\ th.g = g /\ th.k = "create"
           \/ told' = Tell(told, n, g, 1) /\ threads' = threads
    PROVE  Telling'
<1>1. TablesTyped
  BY TablesTypes
<1>2. \A a \in Nodes, h \in GroupIds : /\ h \in groups'[a] <=> h \in groups[a] \/ (a = n /\ h = g)
                                       /\ h \in destroyed'[a] <=> h \in destroyed[a]
                                       /\ InIndication(reading', a, h) <=> InIndication(reading, a, h)
  BY <1>1, ReadingSame DEF TablesTyped
<1>3. CASE told' = Tell(told, n, g, 1) /\ threads' = threads
  <2>1. Single(threads')
    BY <1>3 DEF Telling
  <2>2. ASSUME NEW a \in Nodes, NEW h \in GroupIds PROVE Tells(a, h)
    <3>1. \A i \in {1, 2} : told'[a][h][i] = IF a = n /\ h = g /\ i = 1 THEN told[a][h][i] + 1 ELSE told[a][h][i]
      <4>1. ToldTable(told)
        BY <1>1 DEF TablesTyped, ToldTable
      <4>2. \A k, i \in {1, 2} : Tell(told, n, g, k)[a][h][i]
               = IF a = n /\ h = g /\ i = k THEN told[a][h][i] + 1 ELSE told[a][h][i]
        BY <4>1, TellValue
      <4> QED BY <1>3, <4>2
    <3>2. CASE a = n /\ h = g
      BY <1>2, <1>3, <3>1, <3>2 DEF Tells, Becomes, Creating, Destroying, Erasing, SessKept
    <3>3. CASE ~(a = n /\ h = g)
      BY <1>2, <1>3, <3>1, <3>3 DEF Tells, Becomes, Creating, Destroying, Erasing, SessKept
    <3> QED BY <3>2, <3>3
  <2> QED BY <2>1, <2>2, TellingStep
<1>4. ASSUME NEW th, told' = told, threads' = threads \cup {th}, th.n = n, th.g = g, th.k = "create"
      PROVE  Telling'
  <2>1. Single(threads')
    <3>1. g \in GroupIds => ~HasThread(threads, n, g, "create")
      BY DEF Telling, Told, Creating
    <3> QED BY <1>4, <3>1, SingleKept DEF Telling
  <2>2. ASSUME NEW a \in Nodes, NEW h \in GroupIds PROVE Tells(a, h)
    <3>1. \A k \in {"create", "destroy", "destroying"} :
             HasThread(threads', a, h, k) <=> HasThread(threads, a, h, k) \/ (a = n /\ h = g /\ k = "create")
      BY <1>4, ThreadsAre
    <3>2. CASE a = n /\ h = g
      BY <1>2, <1>4, <3>1, <3>2 DEF Tells, Becomes, Creating, Destroying, Erasing, SessKept
    <3>3. CASE ~(a = n /\ h = g)
      BY <1>2, <1>4, <3>1, <3>3 DEF Tells, Becomes, Creating, Destroying, Erasing, SessKept
    <3> QED BY <3>2, <3>3
  <2> QED BY <2>1, <2>2, TellingStep
<1> QED BY <1>3, <1>4

\* A group is destroyed, by a thread that will indicate it or by a handler that has.
LEMMA DestructionTold ==
    ASSUME Typed, Telling, SessKept, NEW n \in Nodes, NEW g \in Nat, groups' = groups,
           destroyed' = [destroyed EXCEPT ![n] = @ \cup {g}],
           \/ /\ g \in groups[n] \ destroyed[n] /\ told' = told /\ reading' = reading
              /\ \E th : threads' = threads \cup {th} /\ th.n = n /\ th.g = g /\ th.k = "destroy"
           \/ g \notin groups[n] \ destroyed[n] /\ told' = told /\ threads' = threads /\ ReadingKept
           \/ /\ g \in groups[n] \ destroyed[n] /\ told' = Tell(told, n, g, 2) /\ threads' = threads
              /\ \E m \in Nodes : \E d : /\ reading' = Put(reading, n, m, d) /\ d.at = "destroying" /\ d.g = g
                                     /\ reading[n][m].at # "destroying"
    PROVE  Telling'
<1>1. TablesTyped
  BY TablesTypes
<1>2. \A a \in Nodes, h \in GroupIds : /\ h \in groups'[a] <=> h \in groups[a]
                                       /\ h \in destroyed'[a] <=> h \in destroyed[a] \/ (a = n /\ h = g)
  BY <1>1 DEF TablesTyped
<1>3. ASSUME NEW th, g \in groups[n] \ destroyed[n], told' = told, reading' = reading, threads' = threads \cup {th}, th.n = n, th.g = g, th.k = "destroy"
      PROVE  Telling'
  <2>1. Single(threads')
    <3>1. g \in GroupIds => ~HasThread(threads, n, g, "destroy")
      BY <1>3 DEF Telling, Told, Destroying
    <3> QED BY <1>3, <3>1, SingleKept DEF Telling
  <2>2. ASSUME NEW a \in Nodes, NEW h \in GroupIds PROVE Tells(a, h)
    <3>1. \A k \in {"create", "destroy", "destroying"} :
             HasThread(threads', a, h, k) <=> HasThread(threads, a, h, k) \/ (a = n /\ h = g /\ k = "destroy")
      BY <1>3, ThreadsAre
    <3>2. CASE a = n /\ h = g
      BY <1>2, <1>3, <3>1, <3>2 DEF Tells, Becomes, Creating, Destroying, Erasing, SessKept
    <3>3. CASE ~(a = n /\ h = g)
      BY <1>2, <1>3, <3>1, <3>3 DEF Tells, Becomes, Creating, Destroying, Erasing, SessKept
    <3> QED BY <3>2, <3>3
  <2> QED BY <2>1, <2>2, TellingStep
<1>4. CASE g \notin groups[n] \ destroyed[n] /\ told' = told /\ threads' = threads /\ ReadingKept
  <2>1. Single(threads')
    BY <1>4 DEF Telling
  <2>2. ASSUME NEW a \in Nodes, NEW h \in GroupIds PROVE Tells(a, h)
    <3>1. InIndication(reading', a, h) <=> InIndication(reading, a, h)
      BY <1>4, ReadingSame
    <3>2. CASE a = n /\ h = g
      BY <1>2, <1>4, <3>1, <3>2 DEF Tells, Becomes, Creating, Destroying, Erasing, SessKept
    <3>3. CASE ~(a = n /\ h = g)
      BY <1>2, <1>4, <3>1, <3>3 DEF Tells, Becomes, Creating, Destroying, Erasing, SessKept
    <3> QED BY <3>2, <3>3
  <2> QED BY <2>1, <2>2, TellingStep
<1>5. ASSUME NEW m \in Nodes, NEW d, g \in groups[n] \ destroyed[n], told' = Tell(told, n, g, 2), threads' = threads,
             reading' = Put(reading, n, m, d), d.at = "destroying", d.g = g, reading[n][m].at # "destroying"
      PROVE  Telling'
  <2>1. Single(threads')
    BY <1>5 DEF Telling
  <2>2. ASSUME NEW a \in Nodes, NEW h \in GroupIds PROVE Tells(a, h)
    <3>1. InIndication(reading', a, h) <=> InIndication(reading, a, h) \/ (a = n /\ h = g)
      <4>1. reading \in [Nodes -> [Nodes -> Readings]]
        BY <1>1 DEF TablesTyped
      <4>2. InIndication(Put(reading, n, m, d), a, h) <=> InIndication(reading, a, h) \/ (a = n /\ h = g)
        BY <1>5, <4>1, IndicationIs
      <4> QED BY <1>5, <4>2
    <3>2. \A i \in {1, 2} : told'[a][h][i] = IF a = n /\ h = g /\ i = 2 THEN told[a][h][i] + 1 ELSE told[a][h][i]
      <4>1. ToldTable(told)
        BY <1>1 DEF TablesTyped, ToldTable
      <4>2. \A k, i \in {1, 2} : Tell(told, n, g, k)[a][h][i]
               = IF a = n /\ h = g /\ i = k THEN told[a][h][i] + 1 ELSE told[a][h][i]
        BY <4>1, TellValue
      <4> QED BY <1>5, <4>2
    <3>3. CASE a = n /\ h = g
      BY <1>2, <1>5, <3>1, <3>2, <3>3 DEF Tells, Becomes, Creating, Destroying, Erasing, SessKept
    <3>4. CASE ~(a = n /\ h = g)
      BY <1>2, <1>5, <3>1, <3>2, <3>4 DEF Tells, Becomes, Creating, Destroying, Erasing, SessKept
    <3> QED BY <3>3, <3>4
  <2> QED BY <2>1, <2>2, TellingStep
<1> QED BY <1>3, <1>4, <1>5

\* A group is erased once its destruction has been indicated, or when the session is over.
LEMMA ErasureTold ==
    ASSUME Typed, Telling, SessKept, NEW n \in Nodes, NEW g, groups' = [groups EXCEPT ![n] = @ \ {g}],
           UNCHANGED <<destroyed, told>>,
           \/ /\ threads' = threads
              /\ \E m \in Nodes : \E d : /\ reading[n][m].at = "destroying" /\ reading[n][m].g = g
                                     /\ d.at # "destroying" /\ reading' = Put(reading, n, m, d)
           \/ /\ reading' = reading
              /\ \E th \in threads : th.n = n /\ th.g = g /\ th.k = "destroying" /\ threads' = threads \ {th}
           \/ UNCHANGED <<threads, reading>> /\ sess[n] = "terminated" /\ g \in destroyed[n]
    PROVE  Telling'
<1>1. TablesTyped
  BY TablesTypes
<1>2. \A a \in Nodes, h \in GroupIds : /\ h \in groups'[a] <=> h \in groups[a] /\ ~(a = n /\ h = g)
                                       /\ h \in destroyed'[a] <=> h \in destroyed[a]
  BY <1>1 DEF TablesTyped
<1>3. /\ Single(threads')
      /\ \A a \in Nodes, h \in GroupIds :
            /\ HasThread(threads', a, h, "create") <=> HasThread(threads, a, h, "create")
            /\ HasThread(threads', a, h, "destroy") <=> HasThread(threads, a, h, "destroy")
            /\ HasThread(threads', a, h, "destroying") => HasThread(threads, a, h, "destroying")
            /\ ~(a = n /\ h = g) => (HasThread(threads', a, h, "destroying") <=> HasThread(threads, a, h, "destroying"))
            /\ InIndication(reading', a, h) => InIndication(reading, a, h)
            /\ ~(a = n /\ h = g) => (InIndication(reading', a, h) <=> InIndication(reading, a, h))
      /\ Erasing(n, g) \/ (g \in destroyed[n] /\ sess[n] = "terminated")
  <2>1. ASSUME NEW m \in Nodes, NEW d, threads' = threads, reading[n][m].at = "destroying", reading[n][m].g = g,
               d.at # "destroying", reading' = Put(reading, n, m, d)
        PROVE  /\ Single(threads') /\ Erasing(n, g)
               /\ \A a \in Nodes, h \in GroupIds :
                     /\ InIndication(reading', a, h) => InIndication(reading, a, h)
                     /\ ~(a = n /\ h = g) => (InIndication(reading', a, h) <=> InIndication(reading, a, h))
    <3>1. Single(threads') /\ Erasing(n, g)
      BY <2>1 DEF Telling, Erasing, InIndication
    <3>2. reading \in [Nodes -> [Nodes -> Readings]]
      BY <1>1 DEF TablesTyped
    <3>3. ASSUME NEW a \in Nodes, NEW h \in GroupIds
          PROVE  /\ InIndication(reading', a, h) => InIndication(reading, a, h)
                 /\ ~(a = n /\ h = g) => (InIndication(reading', a, h) <=> InIndication(reading, a, h))
      <4>1. \A b \in Nodes : Put(reading, n, m, d)[a][b] = IF a = n /\ b = m THEN d ELSE reading[a][b]
        BY <3>2 DEF Put
      <4>2. \A b \in Nodes : reading'[a][b] = IF a = n /\ b = m THEN d ELSE reading[a][b]
        BY <2>1, <4>1
      <4> QED BY <2>1, <4>2 DEF InIndication
    <3> QED BY <3>1, <3>3
  <2>2. ASSUME NEW th \in threads, reading' = reading, th.n = n, th.g = g, th.k = "destroying", threads' = threads \ {th}
        PROVE  /\ Single(threads') /\ Erasing(n, g)
               /\ \A a \in Nodes, h \in GroupIds :
                     /\ HasThread(threads', a, h, "create") <=> HasThread(threads, a, h, "create")
                     /\ HasThread(threads', a, h, "destroy") <=> HasThread(threads, a, h, "destroy")
                     /\ HasThread(threads', a, h, "destroying") => HasThread(threads, a, h, "destroying")
                     /\ ~(a = n /\ h = g) => (HasThread(threads', a, h, "destroying") <=> HasThread(threads, a, h, "destroying"))
    <3>1. Single(threads') /\ Erasing(n, g)
      BY <2>2, SingleKept DEF Telling, Erasing, HasThread
    <3>2. ASSUME NEW a \in Nodes, NEW h \in GroupIds
          PROVE  /\ HasThread(threads', a, h, "create") <=> HasThread(threads, a, h, "create")
                 /\ HasThread(threads', a, h, "destroy") <=> HasThread(threads, a, h, "destroy")
                 /\ HasThread(threads', a, h, "destroying") => HasThread(threads, a, h, "destroying")
                 /\ ~(a = n /\ h = g) => (HasThread(threads', a, h, "destroying") <=> HasThread(threads, a, h, "destroying"))
      <4>1. HasThread(threads', a, h, "destroying") => HasThread(threads, a, h, "destroying")
        BY <2>2 DEF HasThread
      <4> QED BY <2>2, <4>1, ThreadsAre
    <3> QED BY <3>1, <3>2
  <2>3. CASE UNCHANGED <<threads, reading>> /\ sess[n] = "terminated" /\ g \in destroyed[n]
    BY <2>3 DEF Telling
  <2> QED BY <2>1, <2>2, <2>3
<1>4. ASSUME NEW a \in Nodes, NEW h \in GroupIds PROVE Tells(a, h)
  <2>1. CASE a = n /\ h = g
    BY <1>2, <1>3, <2>1 DEF Tells, Becomes, Creating, Destroying, Erasing, SessKept
  <2>2. CASE ~(a = n /\ h = g)
    BY <1>2, <1>3, <2>2 DEF Tells, Becomes, Creating, Destroying, Erasing, SessKept
  <2> QED BY <2>1, <2>2
<1> QED BY <1>3, <1>4, TellingStep

\* A detached thread indicates.
LEMMA ThreadTold ==
    ASSUME Typed, Telling, NEW th \in threads, ThreadTells(th) \/ ThreadDestroys(th) \/ ThreadErases(th)
    PROVE  Telling'
<1>1. TablesTyped
  BY TablesTypes
<1> DEFINE n == th.n
           g == th.g
<1>2. n \in Nodes /\ g \in Nat
  BY <1>1 DEF TablesTyped, ThreadSet
<1>3. /\ SessKept /\ ReadingKept /\ UNCHANGED <<destroyed, reading, sess>>
  BY DEF ThreadTells, ThreadDestroys, ThreadErases, SessKept, ReadingKept
<1>4. ToldTable(told) /\ Single(threads)
  BY <1>1 DEF TablesTyped, Telling, ToldTable
<1>5. CASE ThreadTells(th) /\ th.k # "create"
  <2>1. UNCHANGED <<groups, told>> /\ threads' = threads \ {th} /\ th.k \notin {"create", "destroy", "destroying"}
    BY <1>5 DEF ThreadTells
  <2> QED BY <1>3, <2>1, NothingTold
<1>6. CASE ThreadTells(th) /\ th.k = "create"
  <2>1. groups' = groups /\ told' = Tell(told, n, g, 1) /\ threads' = threads \ {th}
    BY <1>6 DEF ThreadTells, Tell
  <2>2. Single(threads')
    BY <1>4, <2>1, SingleKept
  <2>3. ASSUME NEW a \in Nodes, NEW h \in GroupIds PROVE Tells(a, h)
    <3>1. \A k, i \in {1, 2} : Tell(told, n, g, k)[a][h][i] = IF a = n /\ h = g /\ i = k THEN told[a][h][i] + 1 ELSE told[a][h][i]
      BY <1>2, <1>4, TellValue
    <3>2. CASE a = n /\ h = g
      <4>1. /\ HasThread(threads, a, h, "create") /\ ~HasThread(threads', a, h, "create")
            /\ HasThread(threads', a, h, "destroy") <=> HasThread(threads, a, h, "destroy")
            /\ HasThread(threads', a, h, "destroying") <=> HasThread(threads, a, h, "destroying")
        <5>1. HasThread(threads, a, h, "create")
          BY <1>6, <3>2 DEF HasThread
        <5> QED BY <1>4, <1>6, <2>1, <3>2, <5>1, ThreadsAre
      <4>2. told'[a][h][1] = told[a][h][1] + 1 /\ told'[a][h][2] = told[a][h][2]
        BY <1>2, <1>4, <2>1, <3>1, <3>2
      <4>3. SessKept /\ UNCHANGED <<groups, destroyed, reading>>
        BY <1>3, <2>1
      <4> QED BY <4>1, <4>2, <4>3 DEF Tells, Becomes, Creating, Destroying, Erasing, SessKept
    <3>3. CASE ~(a = n /\ h = g)
      <4>1. \A k \in {"create", "destroy", "destroying"} : HasThread(threads', a, h, k) <=> HasThread(threads, a, h, k)
        BY <2>1, <3>3, ThreadsAre
      <4> QED BY <1>3, <2>1, <3>1, <3>3, <4>1 DEF Tells, Becomes, Creating, Destroying, Erasing, SessKept
    <3> QED BY <3>2, <3>3
  <2> QED BY <2>2, <2>3, TellingStep
<1>7. CASE ThreadDestroys(th) /\ g \in groups[n]
  <2> DEFINE x == [th EXCEPT !.k = "destroying"]
  <2>1. /\ groups' = groups /\ told' = Tell(told, n, g, 2) /\ threads' = (threads \ {th}) \cup {x} /\ th.k = "destroy"
        /\ x.k = "destroying" /\ x.n = n /\ x.g = g
    <3>1. th \in ThreadSet
      BY <1>1 DEF TablesTyped
    <3>2. x.k = "destroying" /\ x.n = n /\ x.g = g
      BY <3>1 DEF ThreadSet
    <3> QED BY <1>7, <3>2 DEF ThreadDestroys, Tell
  <2> HIDE DEF x
  <2>2. Single(threads')
    <3>1. Single(threads \ {th})
      BY <1>4, SingleKept
    <3> QED BY <2>1, <3>1, SingleKept
  <2>3. ASSUME NEW a \in Nodes, NEW h \in GroupIds PROVE Tells(a, h)
    <3>1. \A k, i \in {1, 2} : Tell(told, n, g, k)[a][h][i] = IF a = n /\ h = g /\ i = k THEN told[a][h][i] + 1 ELSE told[a][h][i]
      BY <1>2, <1>4, TellValue
    <3>2. \A k \in {"create", "destroy", "destroying"} :
             HasThread(threads', a, h, k) <=> HasThread(threads \ {th}, a, h, k) \/ (a = n /\ h = g /\ k = "destroying")
      <4> PICK T : T = threads \ {th}
        OBVIOUS
      <4> SUFFICES ASSUME NEW k \in {"create", "destroy", "destroying"}
                   PROVE  HasThread(threads', a, h, k) <=> HasThread(T, a, h, k) \/ (a = n /\ h = g /\ k = "destroying")
        OBVIOUS
      <4>1. HasThread(T \cup {x}, a, h, k) <=> HasThread(T, a, h, k) \/ (x.n = a /\ x.g = h /\ x.k = k)
        BY ThreadsAre
      <4>2. (x.n = a /\ x.g = h /\ x.k = k) <=> (a = n /\ h = g /\ k = "destroying")
        BY <2>1
      <4>3. threads' = T \cup {x}
        BY <2>1
      <4> QED BY <4>1, <4>2, <4>3
    <3>3. CASE a = n /\ h = g
      <4>1. /\ HasThread(threads, a, h, "destroy") /\ ~HasThread(threads', a, h, "destroy")
            /\ HasThread(threads', a, h, "create") <=> HasThread(threads, a, h, "create")
            /\ HasThread(threads', a, h, "destroying")
        <5>1. HasThread(threads, a, h, "destroy")
          BY <2>1, <3>3 DEF HasThread
        <5>2. ~HasThread(threads \ {th}, a, h, "destroy")
          BY <1>4, <2>1, <3>3, ThreadsAre
        <5>3. HasThread(threads \ {th}, a, h, "create") <=> HasThread(threads, a, h, "create")
          BY <2>1, ThreadsAre
        <5> QED BY <3>2, <3>3, <5>1, <5>2, <5>3
      <4>2. told'[a][h][1] = told[a][h][1] /\ told'[a][h][2] = told[a][h][2] + 1
        BY <1>2, <1>4, <2>1, <3>1, <3>3
      <4>3. SessKept /\ UNCHANGED <<groups, destroyed, reading>> /\ g \in groups[n]
        BY <1>3, <1>7, <2>1
      <4> QED BY <3>3, <4>1, <4>2, <4>3 DEF Tells, Becomes, Creating, Destroying, Erasing, SessKept
    <3>4. CASE ~(a = n /\ h = g)
      <4>1. \A k \in {"create", "destroy", "destroying"} : HasThread(threads', a, h, k) <=> HasThread(threads, a, h, k)
        BY <3>2, <3>4, ThreadsAre
      <4> QED BY <1>3, <2>1, <3>1, <3>4, <4>1 DEF Tells, Becomes, Creating, Destroying, Erasing, SessKept
    <3> QED BY <3>3, <3>4
  <2> QED BY <2>2, <2>3, TellingStep
<1>8. CASE ThreadDestroys(th) /\ g \notin groups[n]
  <2>1. groups' = groups /\ told' = told /\ threads' = threads \ {th} /\ th.k = "destroy"
    BY <1>8 DEF ThreadDestroys
  <2>2. Single(threads')
    BY <1>4, <2>1, SingleKept
  <2>3. ASSUME NEW a \in Nodes, NEW h \in GroupIds PROVE Tells(a, h)
    <3>2. CASE a = n /\ h = g
      <4>1. /\ HasThread(threads, a, h, "destroy") /\ ~HasThread(threads', a, h, "destroy")
            /\ HasThread(threads', a, h, "create") <=> HasThread(threads, a, h, "create")
            /\ HasThread(threads', a, h, "destroying") <=> HasThread(threads, a, h, "destroying")
        <5>1. HasThread(threads, a, h, "destroy")
          BY <2>1, <3>2 DEF HasThread
        <5> QED BY <1>4, <2>1, <3>2, <5>1, ThreadsAre
      <4> QED BY <1>3, <1>8, <2>1, <3>2, <4>1 DEF Tells, Becomes, Creating, Destroying, Erasing, SessKept
    <3>3. CASE ~(a = n /\ h = g)
      <4>1. \A k \in {"create", "destroy", "destroying"} : HasThread(threads', a, h, k) <=> HasThread(threads, a, h, k)
        BY <2>1, <3>3, ThreadsAre
      <4> QED BY <1>3, <2>1, <3>3, <4>1 DEF Tells, Becomes, Creating, Destroying, Erasing, SessKept
    <3> QED BY <3>2, <3>3
  <2> QED BY <2>2, <2>3, TellingStep
<1>9. CASE ThreadErases(th)
  <2>1. groups' = [groups EXCEPT ![n] = @ \ {g}] /\ told' = told /\ threads' = threads \ {th} /\ th.k = "destroying"
    BY <1>9 DEF ThreadErases, EraseGroup
  <2> HIDE DEF n, g
  <2>2. th.n = n /\ th.g = g
    BY DEF n, g
  <2> QED BY <1>2, <1>3, <2>1, <2>2, ErasureTold
<1> QED BY <1>5, <1>6, <1>7, <1>8, <1>9

\* A member with a connection that is not complete is connecting.
LEMMA StaysNext ==
    ASSUME Typed, Stays, Next \/ UNCHANGED vars
    PROVE  Stays' /\ SessKept
<1>0. /\ link \in [Nodes -> [Nodes -> {"none", "requesting", "connected", "failing", "closing", "gone"}]]
      /\ sess \in [Nodes -> {"out", "connecting", "connected", "terminated"}] /\ Host \in Nodes
  BY NodesFinite DEF Typed, Tabled
<1>1. ASSUME UNCHANGED <<sess, link>> PROVE Stays' /\ SessKept
  BY <1>1 DEF Stays, SessKept
<1>2. ASSUME NEW n \in Nodes, NEW m \in Nodes, NEW x, x # "requesting", link' = [link EXCEPT ![n][m] = x],
             sess' = sess \/ (sess[n] = "connected" /\ sess' = [sess EXCEPT ![n] = "terminated"])
      PROVE  Stays' /\ SessKept
  <2>1. \A a, b \in Nodes : link'[a][b] = "requesting" => link[a][b] = "requesting"
    BY <1>0, <1>2
  <2>2. \A a \in Nodes : sess'[a] # sess[a] => sess[a] = "connected" /\ sess'[a] = "terminated"
    BY <1>0, <1>2
  <2> QED BY <2>1, <2>2 DEF Stays, SessKept
<1>3. CASE Calls
  <2>1. PICK o \in OpIds :
           \/ SetApplicationDesc(o)
           \/ \E n \in Nodes :
                 \/ CreateGroup(n, o) \/ CreateGroupRemote(n, o) \/ SetPeerInfo(n, o)
                 \/ \E g \in GroupIds :
                       \/ DestroyGroup(n, o, g) \/ AddSelf(n, o, g) \/ RemoveSelf(n, o, g)
                       \/ \E m \in Nodes : AddRemote(n, o, g, m) \/ RemoveRemote(n, o, g, m)
    BY <1>3 DEF Calls
  <2>2. CASE SetApplicationDesc(o)
    BY <1>1, <2>2 DEF SetApplicationDesc
  <2>3. ASSUME NEW n \in Nodes, CreateGroup(n, o) \/ CreateGroupRemote(n, o) \/ SetPeerInfo(n, o)
        PROVE  UNCHANGED <<sess, link>>
    BY <2>3 DEF CreateGroup, CreateGroupRemote, SetPeerInfo
  <2>4. ASSUME NEW n \in Nodes, NEW g \in GroupIds, DestroyGroup(n, o, g) \/ AddSelf(n, o, g) \/ RemoveSelf(n, o, g)
        PROVE  UNCHANGED <<sess, link>>
    BY <2>4 DEF DestroyGroup, AddSelf, RemoveSelf
  <2>5. ASSUME NEW n \in Nodes, NEW g \in GroupIds, NEW m \in Nodes, AddRemote(n, o, g, m) \/ RemoveRemote(n, o, g, m)
        PROVE  UNCHANGED <<sess, link>>
    BY <2>5 DEF AddRemote, RemoveRemote
  <2> QED BY <1>1, <2>1, <2>2, <2>3, <2>4, <2>5
<1>4. ASSUME NEW n \in Nodes, NEW m \in Nodes, Handle(n, m) PROVE Stays' /\ SessKept
  <2>1. CASE \/ HandleUnexpected(n, m) \/ HandleGroupAllocate(n, m) \/ HandleGroupCreate(n, m)
             \/ HandleGroupDestroy(n, m) \/ HandleGroupJoin(n, m) \/ HandleGroupJoined(n, m)
             \/ HandleGroupLeave(n, m) \/ HandleGroupLeft(n, m) \/ HandleAck(n, m)
             \/ HandlePlayerinfo(n, m) \/ HandleAppdesc(n, m)
             \/ GroupDestroyed(n, m) \/ UnknownCreated(n, m)
    <3>1. UNCHANGED <<sess, link>>
      BY <2>1 DEF HandleUnexpected, HandleGroupAllocate, HandleGroupCreate, HandleGroupDestroy, HandleGroupJoin,
                  HandleGroupJoined, HandleGroupLeave, HandleGroupLeft, HandleAck, HandlePlayerinfo, HandleAppdesc,
                  GroupDestroyed, UnknownCreated
    <3> QED BY <1>1, <3>1
  <2>2. CASE HandleHostConnectRequest(n, m) \/ HandleConnectPeer(n, m)
    <3>1. link' = [link EXCEPT ![n][m] = "connected"] /\ sess' = sess
      BY <2>2 DEF HandleHostConnectRequest, HandleConnectPeer
    <3> QED BY <1>2, <3>1
  <2>3. ASSUME link[n][m] = "requesting", NEW f \in [Nodes -> {"none", "requesting", "connected", "failing", "closing", "gone"}],
               link' = [link EXCEPT ![n] = f], sess' = Complete(n, f)
        PROVE  Stays' /\ SessKept
    <3>1. sess[n] = "connecting"
      BY <2>3 DEF Stays
    <3>2. /\ \A a, b \in Nodes : link'[a][b] = IF a = n THEN f[b] ELSE link[a][b]
          /\ \A a \in Nodes : sess'[a] = IF a = n /\ \A b \in Nodes : f[b] # "requesting" THEN "connected" ELSE sess[a]
      BY <1>0, <2>3 DEF Complete
    <3>3. Stays'
      <4> SUFFICES ASSUME NEW a \in Nodes, NEW b \in Nodes, link'[a][b] = "requesting" PROVE sess'[a] = "connecting"
        BY DEF Stays
      <4>1. CASE a = n
        BY <3>1, <3>2, <4>1
      <4>2. CASE a # n
        BY <3>2, <4>2 DEF Stays
      <4> QED BY <4>1, <4>2
    <3>4. SessKept
      BY <3>1, <3>2 DEF SessKept
    <3> QED BY <3>3, <3>4
  <2>4. CASE HandleHostConnectOk(n, m)
    <3> DEFINE f == [x \in Nodes |-> IF x = m THEN "connected"
                                          ELSE IF x \in Received(n, m).p THEN "requesting" ELSE link[n][x]]
    <3>1. f \in [Nodes -> {"none", "requesting", "connected", "failing", "closing", "gone"}]
      BY <1>0
    <3>2. link[n][m] = "requesting" /\ link' = [link EXCEPT ![n] = f] /\ sess' = Complete(n, link'[n])
      BY <2>4 DEF HandleHostConnectOk
    <3>3. link'[n] = f
      BY <1>0, <3>2
    <3> HIDE DEF f
    <3> QED BY <2>3, <3>1, <3>2, <3>3
  <2>5. CASE HandleConnectPeerOk(n, m)
    <3> DEFINE f == [link[n] EXCEPT ![m] = "connected"]
    <3>1. f \in [Nodes -> {"none", "requesting", "connected", "failing", "closing", "gone"}]
      BY <1>0
    <3>2. link[n][m] = "requesting" /\ link' = [link EXCEPT ![n] = f] /\ sess' = Complete(n, link'[n])
      BY <2>5 DEF HandleConnectPeerOk
    <3>3. link'[n] = f
      BY <1>0, <3>2
    <3> HIDE DEF f
    <3> QED BY <2>3, <3>1, <3>2, <3>3
  <2> QED BY <1>4, <2>1, <2>2, <2>4, <2>5 DEF Handle
<1>5. ASSUME NEW n \in Nodes, NEW m \in Nodes, Write(n, m) \/ Break(n, m) \/ GroupDestroyAll(n)
      PROVE  Stays' /\ SessKept
  <2>1. UNCHANGED <<sess, link>>
    BY <1>5 DEF Write, Break, GroupDestroyAll
  <2> QED BY <1>1, <2>1
<1>6. ASSUME NEW n \in Nodes, NEW m \in Nodes, Lose(n, m) PROVE Stays' /\ SessKept
  <2>1. PICK x \in {"none", "failing", "closing", "gone"} : link' = [link EXCEPT ![n][m] = x]
    BY <1>6, LosingStates
  <2>2. sess' = sess \/ (sess[n] = "connected" /\ sess' = [sess EXCEPT ![n] = "terminated"])
    BY <1>6, LosingStates
  <2> QED BY <1>2, <2>1, <2>2
<1>7. CASE Threading
  <2>1. UNCHANGED <<sess, link>>
    BY <1>7 DEF Threading, ThreadTells, ThreadDestroys, ThreadErases
  <2> QED BY <1>1, <2>1
<1>8. ASSUME NEW n \in Nodes, Connect(n) PROVE Stays' /\ SessKept
  <2>1. /\ sess[n] = "out" /\ sess' = [sess EXCEPT ![n] = "connecting"]
        /\ link' = [link EXCEPT ![n][Host] = "requesting"]
    BY <1>8 DEF Connect
  <2>2. /\ \A a, b \in Nodes : link'[a][b] = "requesting" => a = n \/ link[a][b] = "requesting"
        /\ \A a \in Nodes : sess'[a] = IF a = n THEN "connecting" ELSE sess[a]
    BY <1>0, <2>1
  <2> QED BY <2>1, <2>2 DEF Stays, SessKept
<1>9. CASE UNCHANGED vars
  BY <1>1, <1>9 DEF vars
<1> QED BY <1>3, <1>4, <1>5, <1>6, <1>7, <1>8, <1>9, NodesFinite DEF Next, Work, Finished

\* A handler is about to read from m, so it is in no indication.
LEMMA TakesIdle ==
    ASSUME NEW n, NEW m, NEW t, Take(n, m, t)
    PROVE  reading[n][m].at = "idle"
  BY DEF Take, Idle

\* A handler creates a group it has not heard of and goes on afterwards.
LEMMA UnknownTold ==
    ASSUME Typed, Telling, SessKept, NEW n \in Nodes, NEW m \in Nodes, NEW t, NEW at \in {"join", "joined"}, Take(n, m, t),
           Received(n, m).g \notin destroyed[n] \cup groups[n], CreateUnknown(n, m, at), UNCHANGED <<destroyed, threads>>
    PROVE  Telling'
<1> PICK p : p = Received(n, m)
  OBVIOUS
<1> PICK g \in Nat : g = p.g
  BY Receiving
<1> PICK d : d = [at |-> at, g |-> g, o |-> p.o]
  OBVIOUS
<1>1. d.at # "destroying"
  OBVIOUS
<1>2. /\ groups' = [groups EXCEPT ![n] = @ \cup {g}] /\ told' = Tell(told, n, g, 1)
      /\ reading' = Put(reading, n, m, d)
  BY DEF CreateUnknown, Tell, Put
<1>3. ReadingKept
  BY <1>1, <1>2, TakesIdle DEF ReadingKept
<1>4. g \notin groups[n] /\ g \notin destroyed[n]
  OBVIOUS
<1> QED BY <1>2, <1>3, <1>4, CreationTold

\* DESTROY_GROUP is indicated by a handler, or by group_destroy_all().
LEMMA IndicationTold ==
    ASSUME Typed, Telling, SessKept, NEW n \in Nodes, NEW m \in Nodes, NEW g \in Nat, g \in groups[n] \ destroyed[n],
           reading[n][m].at # "destroying", destroyed' = [destroyed EXCEPT ![n] = @ \cup {g}],
           told' = [told EXCEPT ![n][g][2] = @ + 1],
           reading' = [reading EXCEPT ![n][m] = [at |-> "destroying", g |-> g, o |-> 0]],
           UNCHANGED <<groups, threads>>
    PROVE  Telling'
<1> PICK d : d = [at |-> "destroying", g |-> g, o |-> 0]
  OBVIOUS
<1>1. d.at = "destroying" /\ d.g = g
  OBVIOUS
<1>2. told' = Tell(told, n, g, 2) /\ reading' = Put(reading, n, m, d)
  BY DEF Tell, Put
<1>3. \E b \in Nodes : \E x : /\ reading' = Put(reading, n, b, x) /\ x.at = "destroying" /\ x.g = g
                          /\ reading[n][b].at # "destroying"
  BY <1>1, <1>2
<1> QED BY <1>2, <1>3, DestructionTold

LEMMA HearingTold ==
    ASSUME Typed, Telling, SessKept, Hearing
    PROVE  Telling'
<1>2. PICK n \in Nodes, m \in Nodes :
       \/ HandleUnexpected(n, m) \/ HandleGroupCreate(n, m) \/ HandleGroupDestroy(n, m) \/ HandleGroupLeft(n, m)
       \/ HandleAppdesc(n, m) \/ HandlePlayerinfo(n, m) \/ GroupDestroyed(n, m)
       \/ HandleGroupJoin(n, m) \/ HandleGroupJoined(n, m) \/ HandleGroupLeave(n, m) \/ UnknownCreated(n, m)
       \/ HandleHostConnectRequest(n, m) \/ HandleHostConnectOk(n, m)
       \/ HandleConnectPeer(n, m) \/ HandleConnectPeerOk(n, m) \/ Connect(n)
       \/ Break(n, m) \/ GroupDestroyAll(n)
  BY DEF Hearing
<1>3. groups[n] \subseteq Nat
  BY TablesTypes DEF TablesTyped
<1>4. ASSUME UNCHANGED <<groups, destroyed, told, reading, threads>> PROVE Telling'
  BY <1>4, NothingTold DEF ReadingKept
<1>5. CASE \/ HandleUnexpected(n, m) \/ HandleGroupLeft(n, m) \/ HandleAppdesc(n, m) \/ HandlePlayerinfo(n, m)
           \/ HandleGroupLeave(n, m)
  <2>1. UNCHANGED <<groups, destroyed, told, reading, threads>>
    BY <1>5 DEF HandleUnexpected, HandleGroupLeft, HandleAppdesc, HandlePlayerinfo, HandleGroupLeave, tables
  <2> QED BY <1>4, <2>1
<1>6. CASE \/ HandleHostConnectRequest(n, m) \/ HandleHostConnectOk(n, m)
           \/ HandleConnectPeer(n, m) \/ HandleConnectPeerOk(n, m) \/ Connect(n) \/ Break(n, m)
  <2>1. UNCHANGED <<groups, destroyed, told, reading, threads>>
    BY <1>6 DEF HandleHostConnectRequest, HandleHostConnectOk, HandleConnectPeer, HandleConnectPeerOk, Connect, Break, tables
  <2> QED BY <1>4, <2>1
<1>7. CASE HandleGroupCreate(n, m)
  <2>1. PICK g \in Nat : g = Received(n, m).g
    BY <1>7, Receiving DEF HandleGroupCreate
  <2>2. UNCHANGED <<destroyed, reading, threads>> /\ ReadingKept
    BY <1>7 DEF HandleGroupCreate, ReadingKept
  <2>3. \/ UNCHANGED <<groups, told>>
        \/ /\ groups' = [groups EXCEPT ![n] = @ \cup {g}] /\ told' = Tell(told, n, g, 1)
           /\ g \notin groups[n] /\ g \notin destroyed[n]
    BY <1>7, <2>1 DEF HandleGroupCreate, IsOld, Tell
  <2>4. CASE UNCHANGED <<groups, told>>
    BY <1>4, <2>2, <2>4
  <2>5. CASE /\ groups' = [groups EXCEPT ![n] = @ \cup {g}] /\ told' = Tell(told, n, g, 1)
             /\ g \notin groups[n] /\ g \notin destroyed[n]
    BY <2>2, <2>5, CreationTold
  <2> QED BY <2>3, <2>4, <2>5
<1>8. CASE HandleGroupDestroy(n, m)
  <2>1. PICK g \in Nat : g = Received(n, m).g
    BY <1>8, Receiving DEF HandleGroupDestroy
  <2>2. /\ UNCHANGED <<groups, threads>> /\ destroyed' = [destroyed EXCEPT ![n] = @ \cup {g}]
        /\ reading[n][m].at # "destroying"
    BY <1>8, <2>1, TakesIdle DEF HandleGroupDestroy
  <2>3. CASE ~MustIndicate(n, g)
    <3>1. g \notin groups[n] \ destroyed[n] /\ told' = told /\ ReadingKept
      BY <1>8, <2>1, <2>3 DEF HandleGroupDestroy, MustIndicate, ReadingKept
    <3> QED BY <2>2, <3>1, DestructionTold
  <2>4. CASE MustIndicate(n, g)
    <3>1. /\ g \in groups[n] \ destroyed[n] /\ told' = [told EXCEPT ![n][g][2] = @ + 1]
          /\ reading' = [reading EXCEPT ![n][m] = [at |-> "destroying", g |-> g, o |-> 0]]
      BY <1>8, <2>1, <2>4 DEF HandleGroupDestroy, MustIndicate
    <3> QED BY <2>2, <3>1, IndicationTold
  <2> QED BY <2>3, <2>4
<1>9. CASE GroupDestroyed(n, m)
  <2>1. PICK g : g = reading[n][m].g
    OBVIOUS
  <2>2. /\ groups' = [groups EXCEPT ![n] = @ \ {g}] /\ UNCHANGED <<destroyed, told, threads>>
        /\ reading[n][m].at = "destroying" /\ reading[n][m].g = g
        /\ Idle.at # "destroying" /\ reading' = Put(reading, n, m, Idle)
    BY <1>9, <2>1 DEF GroupDestroyed, EraseGroup, Put, Idle
  <2>3. \E b \in Nodes : \E d : /\ reading[n][b].at = "destroying" /\ reading[n][b].g = g
                            /\ d.at # "destroying" /\ reading' = Put(reading, n, b, d)
    BY <2>2
  <2> QED BY <2>2, <2>3, ErasureTold
<1>10. CASE HandleGroupJoin(n, m)
  <2>1. Take(n, m, "join") /\ UNCHANGED <<destroyed, threads>>
    BY <1>10 DEF HandleGroupJoin
  <2>2. \/ UNCHANGED <<groups, told, reading>>
        \/ Received(n, m).g \notin destroyed[n] \cup groups[n] /\ CreateUnknown(n, m, "join")
    BY <1>10 DEF HandleGroupJoin
  <2>3. CASE UNCHANGED <<groups, told, reading>>
    BY <1>4, <2>1, <2>3
  <2> QED BY <2>1, <2>2, <2>3, UnknownTold
<1>11. CASE HandleGroupJoined(n, m)
  <2>1. Take(n, m, "joined") /\ UNCHANGED <<destroyed, threads>>
    BY <1>11 DEF HandleGroupJoined
  <2>2. \/ UNCHANGED <<groups, told, reading>>
        \/ Received(n, m).g \notin destroyed[n] \cup groups[n] /\ CreateUnknown(n, m, "joined")
    BY <1>11 DEF HandleGroupJoined
  <2>3. CASE UNCHANGED <<groups, told, reading>>
    BY <1>4, <2>1, <2>3
  <2> QED BY <2>1, <2>2, <2>3, UnknownTold
<1>12. CASE UnknownCreated(n, m)
  <2>1. UNCHANGED <<groups, destroyed, told, threads>>
    BY <1>12 DEF UnknownCreated, tables
  <2>2. ReadingKept
    <3>1. reading' = Put(reading, n, m, Idle) /\ Idle.at # "destroying" /\ reading[n][m].at # "destroying"
      BY <1>12 DEF UnknownCreated, Put, Idle
    <3> QED BY <3>1 DEF ReadingKept
  <2> QED BY <2>1, <2>2, NothingTold
<1>13. CASE GroupDestroyAll(n)
  <2>1. PICK g \in groups[n] :
           \/ /\ g \in destroyed[n]
              /\ EraseGroup(n, g)
              /\ UNCHANGED <<destroyed, told, reading>>
           \/ /\ g \notin destroyed[n]
              /\ destroyed' = [destroyed EXCEPT ![n] = @ \cup {g}]
              /\ told' = [told EXCEPT ![n][g][2] = @ + 1]
              /\ reading' = [reading EXCEPT ![n][n] = [at |-> "destroying", g |-> g, o |-> 0]]
              /\ UNCHANGED <<groups, player_ids>>
    BY <1>13 DEF GroupDestroyAll
  <2>2. sess[n] = "terminated" /\ reading[n][n].at # "destroying" /\ threads' = threads /\ g \in Nat
    BY <1>3, <1>13 DEF GroupDestroyAll, Idle
  <2>3. CASE g \in destroyed[n] /\ EraseGroup(n, g) /\ UNCHANGED <<destroyed, told, reading>>
    <3>1. groups' = [groups EXCEPT ![n] = @ \ {g}]
      BY <2>3 DEF EraseGroup
    <3> QED BY <2>2, <2>3, <3>1, ErasureTold
  <2>4. CASE /\ g \in groups[n] \ destroyed[n]
             /\ destroyed' = [destroyed EXCEPT ![n] = @ \cup {g}]
             /\ told' = [told EXCEPT ![n][g][2] = @ + 1]
             /\ reading' = [reading EXCEPT ![n][n] = [at |-> "destroying", g |-> g, o |-> 0]]
             /\ UNCHANGED groups
    BY <2>2, <2>4, IndicationTold
  <2> QED BY <2>1, <2>3, <2>4
<1> QED BY <1>2, <1>5, <1>6, <1>7, <1>8, <1>9, <1>10, <1>11, <1>12, <1>13

LEMMA CallsTold ==
    ASSUME Typed, Ids, Telling, SessKept,
           NEW n \in Nodes, NEW o \in OpIds, NEW g \in Nat \ {0}, NEW m \in Nodes, CallsOf(n, o, g, m)
    PROVE  Telling'
<1>1. \A k, x : LET th == Thread(n, k, o, x) IN th.n = n /\ th.k = k /\ th.g = x
  BY DEF Thread
<1>2. ASSUME UNCHANGED <<groups, destroyed, told, reading>>, NEW k \in {"add", "remove", "info"}, NEW x,
             threads' = threads \cup {Thread(n, k, o, x)}
      PROVE  Telling'
  <2>1. \E th : th.k \notin {"create", "destroy", "destroying"} /\ threads' = threads \cup {th}
    BY <1>1, <1>2
  <2>2. ReadingKept
    BY <1>2 DEF ReadingKept
  <2> QED BY <1>2, <2>1, <2>2, NothingTold
<1>3. CASE SetApplicationDesc(o) \/ CreateGroupRemote(n, o) \/ AddRemote(n, o, g, m) \/ RemoveRemote(n, o, g, m)
  <2>1. UNCHANGED <<groups, destroyed, told, reading, threads>>
    BY <1>3 DEF SetApplicationDesc, CreateGroupRemote, AddRemote, RemoveRemote, tables
  <2> QED BY <2>1, NothingTold DEF ReadingKept
<1>4. CASE SetPeerInfo(n, o)
  <2>1. UNCHANGED <<groups, destroyed, told, reading>> /\ threads' = threads \cup {Thread(n, "info", o, 0)}
    BY <1>4 DEF SetPeerInfo, tables
  <2> QED BY <1>2, <2>1
<1>5. CASE AddSelf(n, o, g)
  <2>1. UNCHANGED <<groups, destroyed, told, reading>> /\ threads' = threads \cup {Thread(n, "add", o, g)}
    BY <1>5 DEF AddSelf
  <2> QED BY <1>2, <2>1
<1>6. CASE RemoveSelf(n, o, g)
  <2>1. UNCHANGED <<groups, destroyed, told, reading>> /\ threads' = threads \cup {Thread(n, "remove", o, g)}
    BY <1>6 DEF RemoveSelf
  <2> QED BY <1>2, <2>1
<1>7. CASE CreateGroup(n, o)
  <2>1. PICK x \in Nat \ {0} : x = next_id
    BY DEF Typed, Tabled
  <2>2. x \notin Known
    <3>1. Known \subseteq 1..(next_id - 1)
      BY DEF Ids, Fresh
    <3>2. x \notin 1..(x - 1)
      BY <2>1
    <3> QED BY <2>1, <3>1, <3>2
  <2>3. x \notin groups[n] /\ x \notin destroyed[n]
    BY <2>1, <2>2 DEF Known
  <2>4. /\ groups' = [groups EXCEPT ![n] = @ \cup {x}] /\ UNCHANGED <<destroyed, told, reading>>
        /\ threads' = threads \cup {Thread(n, "create", o, x)}
    BY <1>7, <2>1 DEF CreateGroup, CreateTheGroup
  <2>5. ReadingKept /\ \E th : threads' = threads \cup {th} /\ th.n = n /\ th.g = x /\ th.k = "create"
    BY <1>1, <2>4 DEF ReadingKept
  <2> QED BY <2>3, <2>4, <2>5, CreationTold
<1>8. CASE DestroyGroup(n, o, g)
  <2>1. /\ g \in groups[n] \ destroyed[n] /\ UNCHANGED <<groups, told, reading>>
        /\ destroyed' = [destroyed EXCEPT ![n] = @ \cup {g}]
        /\ threads' = threads \cup {Thread(n, "destroy", o, g)}
    BY <1>8 DEF DestroyGroup
  <2>2. \E th : threads' = threads \cup {th} /\ th.n = n /\ th.g = g /\ th.k = "destroy"
    BY <1>1, <2>1
  <2> QED BY <2>1, <2>2, DestructionTold
<1> QED BY <1>3, <1>4, <1>5, <1>6, <1>7, <1>8 DEF CallsOf

\* What is indicated stays right.
LEMMA TellingNext ==
    ASSUME Typed, Asking, Ids, Telling, SessKept, Steps
    PROVE  Telling'
<1>1. ASSUME NEW n \in Nodes, NEW m \in Nodes, HandleAck(n, m) PROVE Telling'
  <2>1. PICK p \in FitPkts(Kinds), S \in SUBSET Nodes : AckStep(n, m, p, S)
    BY <1>1, Acking
  <2>2. UNCHANGED <<destroyed, told, reading>> /\ ReadingKept
    BY <1>1 DEF HandleAck, ReadingKept
  <2>3. CASE UNCHANGED <<groups, threads>>
    BY <2>2, <2>3, NothingTold
  <2>4. CASE Announces(n, m, p, S)
    <3>1. Offers(p) /\ wire[m][n] # <<>> /\ p = Head(wire[m][n])
      BY <2>1, <2>4 DEF AckStep, Announces, Offers
    <3>2. p.g \notin Known /\ p.g # 0
      BY <3>1, TailIds DEF Offers
    <3>3. p.g \in Nat
      BY DEF FitPkts, Pkts
    <3>4. p.g \notin groups[n] /\ p.g \notin destroyed[n]
      BY <3>2, <3>3 DEF Known
    <3>5. PICK th : th = Thread(n, "create", p.o, p.g)
      OBVIOUS
    <3>6. th.n = n /\ th.g = p.g /\ th.k = "create"
      BY <3>5 DEF Thread
    <3>7. groups' = [groups EXCEPT ![n] = @ \cup {p.g}] /\ threads' = threads \cup {th}
      BY <2>4, <3>5 DEF Announces
    <3> QED BY <2>2, <3>3, <3>4, <3>6, <3>7, CreationTold
  <2> QED BY <2>1, <2>3, <2>4 DEF AckStep
<1>2. ASSUME NEW n \in Nodes, NEW m \in Nodes, Write(n, m) \/ HandleGroupAllocate(n, m) \/ Lose(n, m) PROVE Telling'
  <2>1. UNCHANGED <<groups, destroyed, told, reading, threads>>
    BY <1>2, Losing DEF Write, HandleGroupAllocate, tables
  <2> QED BY <2>1, NothingTold DEF ReadingKept
<1>3. CASE UNCHANGED vars
  <2>1. UNCHANGED <<groups, destroyed, told, reading, threads>>
    BY <1>3 DEF vars, tables
  <2> QED BY <2>1, NothingTold DEF ReadingKept
<1>4. CASE Threading
  BY <1>4, ThreadTold DEF Threading
<1> QED BY <1>1, <1>2, <1>3, <1>4, CallsTold, HearingTold DEF Steps

LEMMA TellingInit == ASSUME Init PROVE Telling /\ Stays
<1> PICK s \in Scenarios :
       /\ sess = [n \in Nodes |-> IF n \in s.present THEN "connected" ELSE "out"]
       /\ link = [n \in Nodes |-> [m \in Nodes |->
                     IF {n, m} \subseteq s.present /\ n # m THEN "connected" ELSE "none"]]
       /\ reading = [n \in Nodes |-> [m \in Nodes |-> Idle]]
       /\ groups = [n \in Nodes |-> IF n \in s.present THEN s.groups ELSE {}]
       /\ destroyed = [n \in Nodes |-> {}]
       /\ threads = {}
       /\ told = [n \in Nodes |-> [g \in GroupIds |->
                     IF n \in s.present /\ g \in s.groups THEN <<1, 0>> ELSE <<0, 0>>]]
  BY DEF Init
<1>1. Stays /\ Single(threads)
  BY DEF Stays, Single
<1>2. ASSUME NEW n \in Nodes, NEW g \in GroupIds PROVE Told(n, g)
  <2>1. ~Creating(n, g) /\ ~Destroying(n, g) /\ ~Erasing(n, g)
    BY DEF Creating, Destroying, Erasing, HasThread, InIndication, Idle
  <2>2. told[n][g] = IF g \in groups[n] THEN <<1, 0>> ELSE <<0, 0>>
    OBVIOUS
  <2>3. destroyed[n] = {}
    OBVIOUS
  <2>4. told[n][g][1] = (IF g \in groups[n] THEN 1 ELSE 0) /\ told[n][g][2] = 0
    BY <2>2
  <2> QED BY <2>1, <2>3, <2>4 DEF Told
<1> QED BY <1>1, <1>2 DEF Telling

-------------------------------------------------------------------------------
(* The counters.  First, who waits in a queue.                               *)

LEMMA OpsInTail ==
    ASSUME NEW S, NEW q \in Seq(S), q # <<>>, NEW C
    PROVE  /\ Ops(q, C) = Ops(Tail(q), C) \cup (IF Head(q).cb \in C THEN {Head(q).o} ELSE {})
           /\ Once(q) => Once(Tail(q))
           /\ Once(q) /\ "none" \notin C /\ Head(q).cb # "none" => Head(q).o \notin Ops(Tail(q), C)
<1> DEFINE t == Tail(q)
<1>1. /\ 1 \in DOMAIN q /\ Head(q) = q[1]
      /\ \A i \in DOMAIN t : i + 1 \in DOMAIN q /\ t[i] = q[i + 1] /\ i \in Nat /\ i # 0
      /\ \A i \in DOMAIN q : i # 1 => i - 1 \in DOMAIN t /\ t[i - 1] = q[i]
  <2>1. t \in Seq(S)
    BY TailElements
  <2>2. \A i \in DOMAIN t : i \in Nat /\ i # 0
    <3> HIDE DEF t
    <3> QED BY <2>1, InSeq
  <2> QED BY <2>2, TailElements
<1> HIDE DEF t
<1>2. ASSUME NEW o PROVE o \in Ops(q, C) <=> o \in Ops(t, C) \/ (Head(q).cb \in C /\ o = Head(q).o)
  <2>1. ASSUME o \in Ops(q, C) PROVE o \in Ops(t, C) \/ (Head(q).cb \in C /\ o = Head(q).o)
    <3>1. PICK i \in DOMAIN q : q[i].cb \in C /\ o = q[i].o
      BY <2>1 DEF Ops
    <3>2. CASE i = 1
      BY <1>1, <3>1, <3>2
    <3>3. CASE i # 1
      BY <1>1, <3>1, <3>3 DEF Ops
    <3> QED BY <3>2, <3>3
  <2>2. ASSUME o \in Ops(t, C) PROVE o \in Ops(q, C)
    <3>1. PICK i \in DOMAIN t : t[i].cb \in C /\ o = t[i].o
      BY <2>2 DEF Ops
    <3> QED BY <1>1, <3>1 DEF Ops
  <2>3. ASSUME Head(q).cb \in C, o = Head(q).o PROVE o \in Ops(q, C)
    BY <1>1, <2>3 DEF Ops
  <2> QED BY <2>1, <2>2, <2>3
<1>3. ASSUME Once(q) PROVE Once(t)
  <2> SUFFICES ASSUME NEW i \in DOMAIN t, NEW j \in DOMAIN t, t[i].cb # "none", t[j].cb # "none", t[i].o = t[j].o
               PROVE  i = j
    BY DEF Once
  <2>1. i + 1 = j + 1
    BY <1>1, <1>3 DEF Once
  <2> QED BY <1>1, <2>1
<1>4. ASSUME Once(q), "none" \notin C, Head(q).cb # "none", Head(q).o \in Ops(t, C) PROVE FALSE
  <2>1. PICK i \in DOMAIN t : t[i].cb \in C /\ Head(q).o = t[i].o
    BY <1>4 DEF Ops
  <2>2. i + 1 = 1
    BY <1>1, <1>4, <2>1 DEF Once
  <2> QED BY <1>1, <2>2
<1> QED BY <1>2, <1>3, <1>4 DEF t

Callbacked(S) == \A p \in S : p.cb \in {"none", "count", "register"}

LEMMA OpsInConcat ==
    ASSUME NEW S, Callbacked(S), NEW q \in Seq(S), NEW s \in Seq(S), NEW C
    PROVE  /\ Ops(q \o s, C) = Ops(q, C) \cup Ops(s, C)
           /\ Once(q) /\ Once(s) /\ Waiting(q) \cap Waiting(s) = {} => Once(q \o s)
<1> DEFINE c == q \o s
<1>1. /\ \A i \in DOMAIN q : i \in DOMAIN c /\ c[i] = q[i]
      /\ \A j \in DOMAIN s : Len(q) + j \in DOMAIN c /\ c[Len(q) + j] = s[j]
      /\ \A i \in DOMAIN c : i \notin DOMAIN q => i - Len(q) \in DOMAIN s /\ c[i] = s[i - Len(q)]
  BY ConcatElements
<1>2. Len(q) \in Nat /\ c \in Seq(S) /\ \A i \in DOMAIN c : i \in Nat /\ c[i] \in S
  <2>1. c \in Seq(S) /\ Len(q) \in Nat
    BY ConcatElements, InSeq
  <2> HIDE DEF c
  <2> QED BY <2>1, InSeq
<1> HIDE DEF c
<1>3. ASSUME NEW o PROVE o \in Ops(c, C) <=> o \in Ops(q, C) \/ o \in Ops(s, C)
  <2>1. ASSUME o \in Ops(c, C) PROVE o \in Ops(q, C) \/ o \in Ops(s, C)
    <3>1. PICK i \in DOMAIN c : c[i].cb \in C /\ o = c[i].o
      BY <2>1 DEF Ops
    <3>2. CASE i \in DOMAIN q
      BY <1>1, <3>1, <3>2 DEF Ops
    <3>3. CASE i \notin DOMAIN q
      BY <1>1, <3>1, <3>3 DEF Ops
    <3> QED BY <3>2, <3>3
  <2>2. ASSUME o \in Ops(q, C) PROVE o \in Ops(c, C)
    <3>1. PICK i \in DOMAIN q : q[i].cb \in C /\ o = q[i].o
      BY <2>2 DEF Ops
    <3> QED BY <1>1, <3>1 DEF Ops
  <2>3. ASSUME o \in Ops(s, C) PROVE o \in Ops(c, C)
    <3>1. PICK i \in DOMAIN s : s[i].cb \in C /\ o = s[i].o
      BY <2>3 DEF Ops
    <3> QED BY <1>1, <3>1 DEF Ops
  <2> QED BY <2>1, <2>2, <2>3
<1>4. ASSUME Once(q), Once(s), Waiting(q) \cap Waiting(s) = {} PROVE Once(c)
  <2> SUFFICES ASSUME NEW i \in DOMAIN c, NEW j \in DOMAIN c, c[i].cb # "none", c[j].cb # "none", c[i].o = c[j].o
               PROVE  i = j
    BY DEF Once
  <2>1. c[i].cb \in {"count", "register"} /\ c[j].cb \in {"count", "register"}
    BY <1>2 DEF Callbacked
  <2>2. \A k \in DOMAIN c : c[k].cb \in {"count", "register"} =>
           (k \in DOMAIN q => c[k].o \in Waiting(q)) /\ (k \notin DOMAIN q => c[k].o \in Waiting(s))
    BY <1>1 DEF Waiting, Ops
  <2>3. CASE i \in DOMAIN q /\ j \in DOMAIN q
    BY <1>1, <1>4, <2>3 DEF Once
  <2>4. CASE i \notin DOMAIN q /\ j \notin DOMAIN q
    <3>1. i - Len(q) = j - Len(q)
      BY <1>1, <1>4, <2>4 DEF Once
    <3> QED BY <1>2, <3>1
  <2> QED BY <1>4, <2>1, <2>2, <2>3, <2>4
<1> QED BY <1>3, <1>4 DEF c

LEMMA OpsOfFew ==
    ASSUME NEW p, NEW C
    PROVE  /\ Ops(<<>>, C) = {} /\ Once(<<>>) /\ Once(<<p>>)
           /\ Ops(<<p>>, C) = IF p.cb \in C THEN {p.o} ELSE {}
<1>1. DOMAIN <<p>> = {1} /\ <<p>>[1] = p /\ \A i \in DOMAIN <<>> : FALSE
  OBVIOUS
<1>2. Ops(<<>>, C) = {} /\ Once(<<>>)
  BY <1>1 DEF Ops, Once
<1>3. ASSUME NEW o PROVE o \in Ops(<<p>>, C) <=> p.cb \in C /\ o = p.o
  BY <1>1 DEF Ops
<1>4. Once(<<p>>)
  BY <1>1 DEF Once
<1> QED BY <1>2, <1>3, <1>4

LEMMA OpsOfSilence ==
    ASSUME NEW s, \A i \in DOMAIN s : s[i].cb = "none"
    PROVE  /\ \A C : "none" \notin C => Ops(s, C) = {}
           /\ Once(s) /\ Waiting(s) = {}
<1>1. ASSUME NEW C, "none" \notin C PROVE Ops(s, C) = {}
  BY <1>1 DEF Ops
<1>2. Waiting(s) = {}
  BY <1>1 DEF Waiting
<1> QED BY <1>1, <1>2 DEF Once

LEMMA WaitingIs ==
    ASSUME NEW q
    PROVE  Waiting(q) = Ops(q, {"count"}) \cup Ops(q, {"register"}) /\ Ops(q, {"register"}) \subseteq Waiting(q)
<1>1. ASSUME NEW o PROVE o \in Waiting(q) <=> o \in Ops(q, {"count"}) \/ o \in Ops(q, {"register"})
  BY DEF Waiting, Ops
<1> QED BY <1>1

-------------------------------------------------------------------------------
(* Who waits for a connection, with high priority queue h, medium e, acks a. *)

\* The ops of X no longer wait, the others do as before.
Served(h, e, a, h2, e2, a2, X) ==
    /\ Tidy(h2, e2, a2) /\ Due(h2, e2, a2) = Due(h, e, a) \ X
    /\ AckDue(h2, e2, a2) \subseteq AckDue(h, e, a)

LEMMA ServedSame == ASSUME NEW h, NEW e, NEW a, Tidy(h, e, a) PROVE Served(h, e, a, h, e, a, {})
  BY DEF Served

\* Packets without callbacks are queued.
LEMMA ServedSilence ==
    ASSUME NEW S, Callbacked(S), NEW h \in Seq(S), NEW e \in Seq(S), NEW a, Tidy(h, e, a),
           NEW s \in Seq(S), NEW t \in Seq(S), \A i \in DOMAIN s : s[i].cb = "none", \A i \in DOMAIN t : t[i].cb = "none"
    PROVE  Served(h, e, a, h \o s, e \o t, a, {})
<1>1. /\ Waiting(s) = {} /\ Waiting(t) = {} /\ Once(s) /\ Once(t)
      /\ Ops(s, {"register"}) = {} /\ Ops(t, {"register"}) = {}
  BY OpsOfSilence
<1>2. Once(h) /\ Once(e)
  BY DEF Tidy
<1>3. Waiting(h \o s) = Waiting(h) /\ Ops(h \o s, {"register"}) = Ops(h, {"register"}) /\ Once(h \o s)
  <2>1. Waiting(h \o s) = Waiting(h) \cup Waiting(s)
    BY OpsInConcat DEF Waiting
  <2>2. Ops(h \o s, {"register"}) = Ops(h, {"register"}) \cup Ops(s, {"register"})
    BY OpsInConcat
  <2>3. Once(h) /\ Once(s) /\ Waiting(h) \cap Waiting(s) = {} => Once(h \o s)
    BY OpsInConcat
  <2> QED BY <1>1, <1>2, <2>1, <2>2, <2>3
<1>4. Waiting(e \o t) = Waiting(e) /\ Ops(e \o t, {"register"}) = Ops(e, {"register"}) /\ Once(e \o t)
  <2>1. Waiting(e \o t) = Waiting(e) \cup Waiting(t)
    BY OpsInConcat DEF Waiting
  <2>2. Ops(e \o t, {"register"}) = Ops(e, {"register"}) \cup Ops(t, {"register"})
    BY OpsInConcat
  <2>3. Once(e) /\ Once(t) /\ Waiting(e) \cap Waiting(t) = {} => Once(e \o t)
    BY OpsInConcat
  <2> QED BY <1>1, <1>2, <2>1, <2>2, <2>3
<1> QED BY <1>3, <1>4 DEF Served, Tidy, Due, AckDue

\* What a packet at the head of a queue waits for when it is written.
Settles(p) == IF p.cb = "count" THEN {p.o} ELSE {}
Registers(p) == IF p.cb = "register" THEN {p.o} ELSE {}

\* The head of queue q is taken out.
LEMMA HeadWaits ==
    ASSUME NEW S, Callbacked(S), NEW q \in Seq(S), q # <<>>, Once(q)
    PROVE  LET p == Head(q)
           IN  /\ Once(Tail(q)) /\ Waiting(q) = Waiting(Tail(q)) \cup Settles(p) \cup Registers(p)
               /\ Ops(q, {"register"}) = Ops(Tail(q), {"register"}) \cup Registers(p)
               /\ (Settles(p) \cup Registers(p)) \cap Waiting(Tail(q)) = {}
<1>1. Head(q).cb \in {"none", "count", "register"}
  BY TailElements DEF Callbacked
<1>2. Once(Tail(q))
  BY OpsInTail
<1>3. Waiting(q) = Waiting(Tail(q)) \cup (IF Head(q).cb \in {"count", "register"} THEN {Head(q).o} ELSE {})
  BY OpsInTail DEF Waiting
<1>4. Ops(q, {"register"}) = Ops(Tail(q), {"register"}) \cup (IF Head(q).cb \in {"register"} THEN {Head(q).o} ELSE {})
  BY OpsInTail
<1>5. Head(q).cb # "none" => Head(q).o \notin Waiting(Tail(q))
  <2>1. "none" \notin {"count", "register"}
    OBVIOUS
  <2> QED BY <2>1, OpsInTail DEF Waiting
<1> QED BY <1>1, <1>2, <1>3, <1>4, <1>5 DEF Settles, Registers

\* A packet is written.
LEMMA ServedWrite ==
    ASSUME NEW S, Callbacked(S), NEW h \in Seq(S), NEW e \in Seq(S), NEW a, Tidy(h, e, a)
    PROVE  /\ h # <<>> => LET p == Head(h)
                          IN  /\ Settles(p) \subseteq Due(h, e, a)
                              /\ Served(h, e, a, Tail(h), e, a \cup Registers(p), Settles(p))
           /\ e # <<>> => LET p == Head(e)
                          IN  /\ Settles(p) \subseteq Due(h, e, a)
                              /\ Served(h, e, a, h, Tail(e), a \cup Registers(p), Settles(p))
<1>1. Once(h) /\ Once(e)
  BY DEF Tidy
<1>2. \A p : Settles(p) \cap Registers(p) = {}
  BY DEF Settles, Registers
<1>3. ASSUME h # <<>>
      PROVE  LET p == Head(h)
             IN  /\ Settles(p) \subseteq Due(h, e, a)
                 /\ Served(h, e, a, Tail(h), e, a \cup Registers(p), Settles(p))
  <2> DEFINE p == Head(h)
             t == Tail(h)
             c == Settles(p)
             r == Registers(p)
  <2>1. /\ Once(t) /\ Waiting(h) = Waiting(t) \cup c \cup r
        /\ Ops(h, {"register"}) = Ops(t, {"register"}) \cup r
        /\ (c \cup r) \cap Waiting(t) = {} /\ c \cap r = {}
    BY <1>1, <1>2, <1>3, HeadWaits
  <2> HIDE DEF p, t, c, r
  <2>2. Tidy(t, e, a \cup r)
    BY <1>1, <2>1 DEF Tidy
  <2>3. Due(t, e, a \cup r) = Due(h, e, a) \ c /\ c \subseteq Due(h, e, a)
    BY <2>1 DEF Tidy, Due
  <2>4. AckDue(t, e, a \cup r) \subseteq AckDue(h, e, a)
    BY <2>1 DEF AckDue
  <2>5. c \subseteq Due(h, e, a) /\ Served(h, e, a, t, e, a \cup r, c)
    BY <2>2, <2>3, <2>4 DEF Served
  <2> QED BY <2>5 DEF p, t, c, r
<1>4. ASSUME e # <<>>
      PROVE  LET p == Head(e)
             IN  /\ Settles(p) \subseteq Due(h, e, a)
                 /\ Served(h, e, a, h, Tail(e), a \cup Registers(p), Settles(p))
  <2> DEFINE p == Head(e)
             t == Tail(e)
             c == Settles(p)
             r == Registers(p)
  <2>1. /\ Once(t) /\ Waiting(e) = Waiting(t) \cup c \cup r
        /\ Ops(e, {"register"}) = Ops(t, {"register"}) \cup r
        /\ (c \cup r) \cap Waiting(t) = {} /\ c \cap r = {}
    BY <1>1, <1>2, <1>4, HeadWaits
  <2> HIDE DEF p, t, c, r
  <2>2. Tidy(h, t, a \cup r)
    BY <1>1, <2>1 DEF Tidy
  <2>3. Due(h, t, a \cup r) = Due(h, e, a) \ c /\ c \subseteq Due(h, e, a)
    BY <2>1 DEF Tidy, Due
  <2>4. AckDue(h, t, a \cup r) \subseteq AckDue(h, e, a)
    BY <2>1 DEF AckDue
  <2>5. c \subseteq Due(h, e, a) /\ Served(h, e, a, h, t, a \cup r, c)
    BY <2>2, <2>3, <2>4 DEF Served
  <2> QED BY <2>5 DEF p, t, c, r
<1> QED BY <1>3, <1>4

\* Acks come or are failed, and the queues are flushed.
LEMMA ServedAcks ==
    ASSUME NEW h, NEW e, NEW a, NEW X, X \subseteq a, Tidy(h, e, a)
    PROVE  Served(h, e, a, h, e, a \ X, X) /\ X \subseteq Due(h, e, a)
  BY DEF Served, Tidy, Due, AckDue

LEMMA ServedFlush ==
    ASSUME NEW h, NEW e, NEW a, Tidy(h, e, a)
    PROVE  /\ Served(h, e, a, <<>>, <<>>, a, Waiting(h) \cup Waiting(e))
           /\ Waiting(h) \cup Waiting(e) \subseteq Due(h, e, a)
<1>1. Waiting(<<>>) = {} /\ Ops(<<>>, {"register"}) = {} /\ Once(<<>>)
  BY OpsOfFew DEF Waiting
<1> QED BY <1>1 DEF Served, Tidy, Due, AckDue

\* Op o begins to wait.
Lent(h, e, a, h2, e2, a2, o, cb) ==
    /\ Tidy(h2, e2, a2) /\ Due(h2, e2, a2) = Due(h, e, a) \cup {o}
    /\ AckDue(h2, e2, a2) \subseteq AckDue(h, e, a) \cup (IF cb = "register" THEN {o} ELSE {})

LEMMA LentPacket ==
    ASSUME NEW S, Callbacked(S), NEW h \in Seq(S), NEW e \in Seq(S), NEW a, Tidy(h, e, a),
           NEW p \in S, p.cb # "none", p.o \notin Due(h, e, a)
    PROVE  Lent(h, e, a, h \o <<p>>, e, a, p.o, p.cb) /\ Lent(h, e, a, h, e \o <<p>>, a, p.o, p.cb)
<1> DEFINE s == <<p>>
<1>1. s \in Seq(S) /\ p.cb \in {"count", "register"}
  BY DEF Callbacked
<1>2. Waiting(s) = {p.o} /\ Ops(s, {"register"}) = (IF p.cb = "register" THEN {p.o} ELSE {}) /\ Once(s)
  BY <1>1, OpsOfFew DEF Waiting
<1> HIDE DEF s
<1>3. ASSUME NEW q \in Seq(S), Once(q), p.o \notin Waiting(q)
      PROVE  /\ Waiting(q \o s) = Waiting(q) \cup {p.o} /\ Once(q \o s)
             /\ Ops(q \o s, {"register"}) = Ops(q, {"register"}) \cup (IF p.cb = "register" THEN {p.o} ELSE {})
  <2>1. Waiting(q \o s) = Waiting(q) \cup Waiting(s)
    BY <1>1, OpsInConcat DEF Waiting
  <2>2. Ops(q \o s, {"register"}) = Ops(q, {"register"}) \cup Ops(s, {"register"})
    BY <1>1, OpsInConcat
  <2>3. Once(q) /\ Once(s) /\ Waiting(q) \cap Waiting(s) = {} => Once(q \o s)
    BY <1>1, OpsInConcat
  <2> QED BY <1>2, <1>3, <2>1, <2>2, <2>3
<1>4. Once(h) /\ Once(e) /\ p.o \notin Waiting(h) /\ p.o \notin Waiting(e) /\ p.o \notin a
  BY DEF Tidy, Due
<1>5. Lent(h, e, a, h \o s, e, a, p.o, p.cb)
  <2>1. /\ Waiting(h \o s) = Waiting(h) \cup {p.o} /\ Once(h \o s)
        /\ Ops(h \o s, {"register"}) = Ops(h, {"register"}) \cup (IF p.cb = "register" THEN {p.o} ELSE {})
    BY <1>3, <1>4
  <2> QED BY <1>4, <2>1 DEF Lent, Tidy, Due, AckDue
<1>6. Lent(h, e, a, h, e \o s, a, p.o, p.cb)
  <2>1. /\ Waiting(e \o s) = Waiting(e) \cup {p.o} /\ Once(e \o s)
        /\ Ops(e \o s, {"register"}) = Ops(e, {"register"}) \cup (IF p.cb = "register" THEN {p.o} ELSE {})
    BY <1>3, <1>4
  <2> QED BY <1>4, <2>1 DEF Lent, Tidy, Due, AckDue
<1> QED BY <1>5, <1>6 DEF s

-------------------------------------------------------------------------------
(* How the counters change.                                                  *)

LEMMA ClaimedIs ==
    ASSUME NEW H, NEW E, NEW A, NEW o
    PROVE  /\ \A n, m \in Nodes : /\ <<n, m>> \in Claimed(H, E, A, o) <=> o \in Due(H[n][m], E[n][m], A[n][m])
                                  /\ <<n, m>> \in Asked(H, E, A, o) <=> o \in AckDue(H[n][m], E[n][m], A[n][m])
           /\ Claimed(H, E, A, o) \subseteq Links /\ Asked(H, E, A, o) \subseteq Claimed(H, E, A, o)
<1>1. \A n, m \in Nodes : <<n, m>> \in Links /\ <<n, m>>[1] = n /\ <<n, m>>[2] = m
  BY DEF Links
<1>2. \A n, m \in Nodes : /\ <<n, m>> \in Claimed(H, E, A, o) <=> o \in Due(H[n][m], E[n][m], A[n][m])
                          /\ <<n, m>> \in Asked(H, E, A, o) <=> o \in AckDue(H[n][m], E[n][m], A[n][m])
  BY <1>1 DEF Claimed, Asked
<1>3. \A h, e, a : AckDue(h, e, a) \subseteq Due(h, e, a)
  BY WaitingIs DEF AckDue, Due
<1>4. Claimed(H, E, A, o) \subseteq Links /\ Asked(H, E, A, o) \subseteq Claimed(H, E, A, o)
  BY <1>3 DEF Claimed, Asked
<1> QED BY <1>2, <1>4

LEMMA LinkSets ==
    ASSUME NEW C, NEW D, C \subseteq Links, D \subseteq Links, \A n, m \in Nodes : <<n, m>> \in C <=> <<n, m>> \in D
    PROVE  C = D
<1>1. \A l \in Links : \E n, m \in Nodes : l = <<n, m>>
  BY DEF Links
<1> QED BY <1>1

LEMMA LinkSubsets ==
    ASSUME NEW C, NEW D, C \subseteq Links, \A n, m \in Nodes : <<n, m>> \in C => <<n, m>> \in D
    PROVE  C \subseteq D
<1>1. \A l \in Links : \E n, m \in Nodes : l = <<n, m>>
  BY DEF Links
<1> QED BY <1>1

\* One fewer, and one more.
LEMMA CountLess ==
    ASSUME NEW C, IsFiniteSet(C), NEW x
    PROVE  /\ Cardinality(C) \in Nat
           /\ x \in C => Cardinality(C \ {x}) = Cardinality(C) - 1
           /\ x \notin C => Cardinality(C \cup {x}) = Cardinality(C) + 1
           /\ IsFiniteSet(C \ {x}) /\ IsFiniteSet(C \cup {x})
  BY FS_CardinalityType, FS_AddElement, FS_RemoveElement

LEMMA ThreadsCounted ==
    ASSUME NEW T, NEW o, \A a, b \in T : a.o = b.o => a = b
    PROVE  /\ IsFiniteSet(Of(T, o)) /\ Cardinality(Of(T, o)) \in Nat
           /\ Of(T, o) = {} \/ \E th \in T : Of(T, o) = {th}
<1>1. Of(T, o) = {} \/ \E th \in T : Of(T, o) = {th}
  BY DEF Of
<1>2. IsFiniteSet(Of(T, o))
  BY <1>1, FS_EmptySet, FS_Singleton
<1> QED BY <1>1, <1>2, FS_CardinalityType

LEMMA Counting ==
    ASSUME NEW H, NEW E, NEW A, NEW T, NEW P, ClaimsOf(H, E, A, T, P), NEW o \in OpIds, P[o] \in OpRecs
    PROVE  /\ IsFiniteSet(Claimed(H, E, A, o)) /\ Cardinality(Claimed(H, E, A, o)) \in Nat
           /\ IsFiniteSet(Of(T, o)) /\ Cardinality(Of(T, o)) \in Nat
           /\ P[o].pending \in Int /\ P[o].lost \in Nat
           /\ P[o].pending = Cardinality(Claimed(H, E, A, o)) + Cardinality(Of(T, o)) + P[o].lost
           /\ P[o].kind = "none" => Claimed(H, E, A, o) = {} /\ Of(T, o) = {} /\ P[o].lost = 0
<1>1. IsFiniteSet(Claimed(H, E, A, o)) /\ Cardinality(Claimed(H, E, A, o)) \in Nat
  BY ClaimedIs, NodesFinite
<1>2. IsFiniteSet(Of(T, o)) /\ Cardinality(Of(T, o)) \in Nat
  BY ThreadsCounted DEF ClaimsOf
<1>3. P[o].pending \in Int /\ P[o].lost \in Nat
  BY DEF OpRecs
<1>4. P[o].pending = Cardinality(Claimed(H, E, A, o)) + Cardinality(Of(T, o)) + P[o].lost
  BY DEF ClaimsOf
<1>5. P[o].kind = "none" => P[o].pending = 0 /\ P[o].lost = 0
  BY DEF ClaimsOf
<1>6. P[o].kind = "none" => Cardinality(Claimed(H, E, A, o)) = 0 /\ Cardinality(Of(T, o)) = 0
  BY <1>1, <1>2, <1>3, <1>4, <1>5
<1>7. P[o].kind = "none" => Claimed(H, E, A, o) = {} /\ Of(T, o) = {}
  BY <1>1, <1>2, <1>6, FS_EmptySet
<1> QED BY <1>1, <1>2, <1>3, <1>4, <1>5, <1>7

\* The counter of an op that loses d claims.
CountedDown(P, R, o, d) ==
    /\ R[o] \in OpRecs /\ R[o].kind = P[o].kind
    /\ R[o].pending - R[o].lost = P[o].pending - P[o].lost - d
    /\ d = 0 => R[o].pending = P[o].pending /\ R[o].lost = P[o].lost

\* The ops of X are served on the connection from n to m.
ServedOn(H, E, A, H2, E2, A2, n, m, X) ==
    \A a, b \in Nodes :
       Served(H[a][b], E[a][b], A[a][b], H2[a][b], E2[a][b], A2[a][b], IF a = n /\ b = m THEN X ELSE {})

AllDown(P, R, X) == \A o \in OpIds : CountedDown(P, R, o, IF o \in X THEN 1 ELSE 0)

LEMMA ClaimsServed ==
    ASSUME NEW H, NEW E, NEW A, NEW T, NEW P, ClaimsOf(H, E, A, T, P), \A o \in OpIds : P[o] \in OpRecs,
           NEW H2, NEW E2, NEW A2, NEW R, NEW n \in Nodes, NEW m \in Nodes, NEW X, X \subseteq Due(H[n][m], E[n][m], A[n][m]),
           ServedOn(H, E, A, H2, E2, A2, n, m, X), AllDown(P, R, X)
    PROVE  ClaimsOf(H2, E2, A2, T, R)
<1>0. /\ \A a, b \in Nodes :
            Served(H[a][b], E[a][b], A[a][b], H2[a][b], E2[a][b], A2[a][b], IF a = n /\ b = m THEN X ELSE {})
      /\ \A o \in OpIds : CountedDown(P, R, o, IF o \in X THEN 1 ELSE 0)
  BY DEF ServedOn, AllDown
<1> USE <1>0
<1>1. \A a, b \in Nodes : Tidy(H2[a][b], E2[a][b], A2[a][b])
  BY DEF Served
<1>2. ASSUME NEW o \in OpIds
      PROVE  /\ R[o].pending = Cardinality(Claimed(H2, E2, A2, o)) + Cardinality(Of(T, o)) + R[o].lost
             /\ R[o].kind = "none" => R[o].pending = 0 /\ R[o].lost = 0
             /\ R[o].kind = "create" =>
                   \A l \in Asked(H2, E2, A2, o) : Claimed(H2, E2, A2, o) = {l} /\ Of(T, o) = {}
  <2> DEFINE C == Claimed(H, E, A, o)
             D == Claimed(H2, E2, A2, o)
             d == IF o \in X THEN 1 ELSE 0
  <2>1. /\ IsFiniteSet(C) /\ Cardinality(C) \in Nat /\ Cardinality(Of(T, o)) \in Nat
        /\ P[o].pending \in Int /\ P[o].lost \in Nat
        /\ P[o].pending = Cardinality(C) + Cardinality(Of(T, o)) + P[o].lost
        /\ P[o].kind = "none" => C = {} /\ P[o].lost = 0
    BY Counting
  <2>2. CountedDown(P, R, o, d) /\ R[o].pending \in Int /\ R[o].lost \in Nat
    BY DEF CountedDown, OpRecs
  <2>3. /\ C \subseteq Links /\ D \subseteq Links /\ Asked(H2, E2, A2, o) \subseteq D /\ Asked(H2, E2, A2, o) \subseteq Links
    BY ClaimedIs
  <2>4. \A a, b \in Nodes : <<a, b>> \in D <=> <<a, b>> \in C /\ ~(o \in X /\ a = n /\ b = m)
    <3> SUFFICES ASSUME NEW a \in Nodes, NEW b \in Nodes
                 PROVE  <<a, b>> \in D <=> <<a, b>> \in C /\ ~(o \in X /\ a = n /\ b = m)
      OBVIOUS
    <3>1. <<a, b>> \in C <=> o \in Due(H[a][b], E[a][b], A[a][b])
      BY ClaimedIs
    <3>2. <<a, b>> \in D <=> o \in Due(H2[a][b], E2[a][b], A2[a][b])
      BY ClaimedIs
    <3>3. Due(H2[a][b], E2[a][b], A2[a][b]) = Due(H[a][b], E[a][b], A[a][b]) \ (IF a = n /\ b = m THEN X ELSE {})
      BY DEF Served
    <3> HIDE DEF C, D
    <3> QED BY <3>1, <3>2, <3>3
  <2>5. Asked(H2, E2, A2, o) \subseteq Asked(H, E, A, o)
    <3>1. \A a, b \in Nodes : <<a, b>> \in Asked(H2, E2, A2, o) => <<a, b>> \in Asked(H, E, A, o)
      BY ClaimedIs DEF Served
    <3> QED BY <2>3, <3>1, LinkSubsets
  <2>6. o \in X => <<n, m>> \in C
    BY ClaimedIs
  <2>7. \A k \in {"none", "create"} : R[o].kind = k => P[o].kind = k
    BY <2>2 DEF CountedDown
  <2>8. P[o].kind = "create" => \A l \in Asked(H, E, A, o) : C = {l} /\ Of(T, o) = {}
    BY DEF ClaimsOf
  <2> HIDE DEF C, D
  <2>9. CASE o \in X
    <3>1. \A a, b \in Nodes : <<a, b>> \in D <=> <<a, b>> \in C \ {<<n, m>>}
      BY <2>4, <2>9
    <3>2. D = C \ {<<n, m>>}
      <4> DEFINE B == C \ {<<n, m>>}
      <4>1. B \subseteq Links /\ \A a, b \in Nodes : <<a, b>> \in D <=> <<a, b>> \in B
        BY <2>3, <3>1
      <4> HIDE DEF B
      <4>2. D = B
        BY <2>3, <4>1, LinkSets
      <4> QED BY <4>2 DEF B
    <3>3. Cardinality(D) = Cardinality(C) - 1
      BY <2>1, <2>6, <2>9, <3>2, CountLess
    <3>4. R[o].pending = Cardinality(D) + Cardinality(Of(T, o)) + R[o].lost
      BY <2>1, <2>2, <2>9, <3>3 DEF CountedDown
    <3>5. R[o].kind = "none" => FALSE
      BY <2>1, <2>6, <2>7, <2>9
    <3>6. R[o].kind = "create" => \A l \in Asked(H2, E2, A2, o) : D = {l} /\ Of(T, o) = {}
      BY <2>3, <2>5, <2>7, <2>8, <3>2
    <3> QED BY <3>4, <3>5, <3>6 DEF D
  <2>10. CASE o \notin X
    <3>1. D = C
      BY <2>3, <2>4, <2>10, LinkSets
    <3>2. R[o].pending = P[o].pending /\ R[o].lost = P[o].lost
      BY <2>2, <2>10 DEF CountedDown
    <3>3. R[o].kind = "create" => \A l \in Asked(H2, E2, A2, o) : D = {l} /\ Of(T, o) = {}
      BY <2>5, <2>7, <2>8, <3>1
    <3>4. P[o].kind = "none" => P[o].pending = 0 /\ P[o].lost = 0
      BY DEF ClaimsOf
    <3> QED BY <2>1, <2>7, <3>1, <3>2, <3>3, <3>4 DEF D
  <2> QED BY <2>9, <2>10
<1>3. \A a, b \in T : a.o = b.o => a = b
  BY DEF ClaimsOf
<1> QED BY <1>1, <1>2, <1>3 DEF ClaimsOf

\* Thread th is gone, or goes on as another.
ThreadMoves(T, th, U, P, R) ==
    \/ U = T \ {th} /\ \A o \in OpIds : CountedDown(P, R, o, IF o = th.o THEN 1 ELSE 0) /\ R[o].lost = P[o].lost
    \/ R = P /\ \E tg : U = (T \ {th}) \cup {tg} /\ tg.o = th.o

LEMMA ClaimsThread ==
    ASSUME NEW H, NEW E, NEW A, NEW T, NEW P, ClaimsOf(H, E, A, T, P), \A o \in OpIds : P[o] \in OpRecs,
           NEW th \in T, th.o \in OpIds, NEW U, NEW R, ThreadMoves(T, th, U, P, R)
    PROVE  ClaimsOf(H, E, A, U, R)
<1>0. \/ U = T \ {th} /\ \A o \in OpIds : CountedDown(P, R, o, IF o = th.o THEN 1 ELSE 0) /\ R[o].lost = P[o].lost
      \/ R = P /\ \E tg : U = (T \ {th}) \cup {tg} /\ tg.o = th.o
  BY DEF ThreadMoves
<1> USE <1>0
<1>1. \A a, b \in T : a.o = b.o => a = b
  BY DEF ClaimsOf
<1>2. \A a, b \in U : a.o = b.o => a = b
  <2>1. CASE U = T \ {th}
    BY <1>1, <2>1
  <2>2. ASSUME NEW tg, U = (T \ {th}) \cup {tg}, tg.o = th.o PROVE \A a, b \in U : a.o = b.o => a = b
    BY <1>1, <2>2
  <2> QED BY <2>1, <2>2
<1>3. \A o \in OpIds : o # th.o => Of(U, o) = Of(T, o)
  <2>1. CASE U = T \ {th}
    BY <2>1 DEF Of
  <2>2. ASSUME NEW tg, U = (T \ {th}) \cup {tg}, tg.o = th.o PROVE \A o \in OpIds : o # th.o => Of(U, o) = Of(T, o)
    BY <2>2 DEF Of
  <2> QED BY <2>1, <2>2
<1>4. Of(T, th.o) = {th} /\ Cardinality({th}) = 1 /\ Cardinality({}) = 0
  BY <1>1, FS_Singleton, FS_EmptySet DEF Of
<1>5. ASSUME NEW o \in OpIds
      PROVE  /\ R[o].pending = Cardinality(Claimed(H, E, A, o)) + Cardinality(Of(U, o)) + R[o].lost
             /\ R[o].kind = "none" => R[o].pending = 0 /\ R[o].lost = 0
             /\ R[o].kind = "create" =>
                   \A l \in Asked(H, E, A, o) : Claimed(H, E, A, o) = {l} /\ Of(U, o) = {}
  <2>1. /\ Cardinality(Claimed(H, E, A, o)) \in Nat
        /\ P[o].pending \in Int /\ P[o].lost \in Nat
        /\ P[o].pending = Cardinality(Claimed(H, E, A, o)) + Cardinality(Of(T, o)) + P[o].lost
        /\ P[o].kind = "none" => Of(T, o) = {}
    BY Counting
  <2>2. /\ P[o].kind = "none" => P[o].pending = 0 /\ P[o].lost = 0
        /\ P[o].kind = "create" => \A l \in Asked(H, E, A, o) : Claimed(H, E, A, o) = {l} /\ Of(T, o) = {}
    BY DEF ClaimsOf
  <2>3. CASE o # th.o
    <3>1. R[o].pending = P[o].pending /\ R[o].lost = P[o].lost /\ R[o].kind = P[o].kind
      BY <2>3 DEF CountedDown
    <3> QED BY <1>3, <2>1, <2>2, <2>3, <3>1
  <2>4. CASE o = th.o /\ U = T \ {th} /\ R # P
    <3>1. R[o].pending = P[o].pending - 1 /\ R[o].lost = P[o].lost /\ R[o].kind = P[o].kind /\ R[o].pending \in Int
      <4>1. CountedDown(P, R, o, 1) /\ R[o].lost = P[o].lost
        BY <2>4
      <4> QED BY <2>1, <4>1 DEF CountedDown, OpRecs
    <3>2. Of(U, o) = {}
      BY <1>4, <2>4 DEF Of
    <3>3. Of(T, o) = {th} /\ Cardinality(Of(T, o)) = 1 /\ Cardinality(Of(U, o)) = 0
      BY <1>4, <2>4, <3>2
    <3>4. R[o].kind = "none" => FALSE
      BY <2>1, <3>1, <3>3
    <3>5. R[o].pending = Cardinality(Claimed(H, E, A, o)) + Cardinality(Of(U, o)) + R[o].lost
      BY <2>1, <3>1, <3>3
    <3> QED BY <2>2, <3>1, <3>2, <3>4, <3>5
  <2>5. CASE o = th.o /\ R = P
    <3>1. PICK tg : U = (T \ {th}) \cup {tg} /\ tg.o = th.o
      <4>1. ASSUME CountedDown(P, R, o, 1), R[o].lost = P[o].lost PROVE FALSE
        BY <2>1, <2>5, <4>1 DEF CountedDown
      <4> QED BY <2>5, <4>1
    <3>2. Of(U, o) = {tg}
      BY <1>1, <1>2, <2>5, <3>1 DEF Of
    <3>3. Cardinality({tg}) = 1
      BY FS_Singleton
    <3> QED BY <1>4, <2>1, <2>2, <2>5, <3>2, <3>3
  <2> QED BY <2>3, <2>4, <2>5
<1>6. \A a, b \in Nodes : Tidy(H[a][b], E[a][b], A[a][b])
  BY DEF ClaimsOf
<1> QED BY <1>2, <1>5, <1>6 DEF ClaimsOf

\* Op o, which waits for nothing, begins to wait on the connections of N, for a callback cb,
\* and for the threads of V.
LentOn(H, E, A, H2, E2, A2, N, o, cb) ==
    \A a, b \in Nodes :
       IF <<a, b>> \in N THEN Lent(H[a][b], E[a][b], A[a][b], H2[a][b], E2[a][b], A2[a][b], o, cb)
                         ELSE Served(H[a][b], E[a][b], A[a][b], H2[a][b], E2[a][b], A2[a][b], {})

Begun(P, R, V, N, o, cb) ==
    /\ \A th \in V : V = {th} /\ th.o = o
    /\ \A x \in OpIds : x # o => R[x] = P[x]
    /\ R[o].pending = Cardinality(N) + Cardinality(V) + R[o].lost /\ R[o].kind # "none"
    /\ R[o].kind = "create" => N = {} \/ cb # "register" \/ (V = {} /\ \E l : N = {l})

LEMMA ClaimsLent ==
    ASSUME NEW H, NEW E, NEW A, NEW T, NEW P, ClaimsOf(H, E, A, T, P), \A x \in OpIds : P[x] \in OpRecs,
           NEW H2, NEW E2, NEW A2, NEW V, NEW R, NEW o \in OpIds, NEW N, N \subseteq Links, NEW cb,
           Claimed(H, E, A, o) = {}, Of(T, o) = {},
           LentOn(H, E, A, H2, E2, A2, N, o, cb), Begun(P, R, V, N, o, cb)
    PROVE  ClaimsOf(H2, E2, A2, T \cup V, R)
<1>0. /\ \A a, b \in Nodes :
            IF <<a, b>> \in N THEN Lent(H[a][b], E[a][b], A[a][b], H2[a][b], E2[a][b], A2[a][b], o, cb)
                              ELSE Served(H[a][b], E[a][b], A[a][b], H2[a][b], E2[a][b], A2[a][b], {})
      /\ \A th \in V : V = {th} /\ th.o = o
      /\ \A x \in OpIds : x # o => R[x] = P[x]
      /\ R[o].pending = Cardinality(N) + Cardinality(V) + R[o].lost /\ R[o].kind # "none"
      /\ R[o].kind = "create" => N = {} \/ cb # "register" \/ (V = {} /\ \E l : N = {l})
  BY DEF LentOn, Begun
<1> USE <1>0
<1>1. \A a, b \in T \cup V : a.o = b.o => a = b
  BY DEF ClaimsOf, Of
<1>2. \A a, b \in Nodes : Tidy(H2[a][b], E2[a][b], A2[a][b])
  BY DEF Served, Lent
<1>3. \A x \in OpIds : Of(T \cup V, x) = IF x = o THEN V ELSE Of(T, x)
  BY DEF Of
<1>4. ASSUME NEW x \in OpIds
      PROVE  /\ Claimed(H2, E2, A2, x) = IF x = o THEN N ELSE Claimed(H, E, A, x)
             /\ Asked(H2, E2, A2, x) \subseteq Asked(H, E, A, x) \cup (IF x = o /\ cb = "register" THEN N ELSE {})
  <2> DEFINE C == Claimed(H, E, A, x)
             D == Claimed(H2, E2, A2, x)
             B == IF x = o THEN N ELSE C
             F == Asked(H, E, A, x) \cup (IF x = o /\ cb = "register" THEN N ELSE {})
             G == Asked(H2, E2, A2, x)
  <2>1. C \subseteq Links /\ D \subseteq Links /\ G \subseteq Links /\ B \subseteq Links
    BY ClaimedIs
  <2>2. ASSUME NEW a \in Nodes, NEW b \in Nodes
        PROVE  /\ <<a, b>> \in D <=> <<a, b>> \in B
               /\ <<a, b>> \in G => <<a, b>> \in F
    <3>1. /\ <<a, b>> \in C <=> x \in Due(H[a][b], E[a][b], A[a][b])
          /\ <<a, b>> \in D <=> x \in Due(H2[a][b], E2[a][b], A2[a][b])
      BY ClaimedIs
    <3>2. /\ <<a, b>> \in Asked(H, E, A, x) <=> x \in AckDue(H[a][b], E[a][b], A[a][b])
          /\ <<a, b>> \in G <=> x \in AckDue(H2[a][b], E2[a][b], A2[a][b])
      BY ClaimedIs
    <3>3. x = o => <<a, b>> \notin C
      OBVIOUS
    <3> HIDE DEF C, D, G
    <3>4. CASE <<a, b>> \in N
      <4>1. Lent(H[a][b], E[a][b], A[a][b], H2[a][b], E2[a][b], A2[a][b], o, cb)
        BY <3>4
      <4> QED BY <3>1, <3>2, <3>3, <3>4, <4>1 DEF Lent
    <3>5. CASE <<a, b>> \notin N
      <4>1. Served(H[a][b], E[a][b], A[a][b], H2[a][b], E2[a][b], A2[a][b], {})
        BY <3>5
      <4> QED BY <3>1, <3>2, <3>3, <3>5, <4>1 DEF Served
    <3> QED BY <3>4, <3>5
  <2> HIDE DEF B, C, D, F, G
  <2>3. D = B
    <3>1. \A a, b \in Nodes : <<a, b>> \in D <=> <<a, b>> \in B
      BY <2>2
    <3> QED BY <2>1, <3>1, LinkSets
  <2>4. G \subseteq F
    <3>1. \A a, b \in Nodes : <<a, b>> \in G => <<a, b>> \in F
      BY <2>2
    <3> QED BY <2>1, <3>1, LinkSubsets
  <2> QED BY <2>3, <2>4 DEF B, C, D, F, G
<1>5. ASSUME NEW x \in OpIds
      PROVE  /\ R[x].pending = Cardinality(Claimed(H2, E2, A2, x)) + Cardinality(Of(T \cup V, x)) + R[x].lost
             /\ R[x].kind = "none" => R[x].pending = 0 /\ R[x].lost = 0
             /\ R[x].kind = "create" =>
                   \A l \in Asked(H2, E2, A2, x) : Claimed(H2, E2, A2, x) = {l} /\ Of(T \cup V, x) = {}
  <2>1. /\ P[x].pending = Cardinality(Claimed(H, E, A, x)) + Cardinality(Of(T, x)) + P[x].lost
        /\ P[x].kind = "none" => P[x].pending = 0 /\ P[x].lost = 0
        /\ P[x].kind = "create" => \A l \in Asked(H, E, A, x) : Claimed(H, E, A, x) = {l} /\ Of(T, x) = {}
    BY DEF ClaimsOf
  <2>2. /\ Claimed(H2, E2, A2, x) = IF x = o THEN N ELSE Claimed(H, E, A, x)
        /\ Asked(H2, E2, A2, x) \subseteq Asked(H, E, A, x) \cup (IF x = o /\ cb = "register" THEN N ELSE {})
    BY <1>4
  <2>3. CASE x # o
    <3>1. R[x] = P[x]
      BY <2>3
    <3> QED BY <1>3, <2>1, <2>2, <2>3, <3>1
  <2>4. CASE x = o
    <3>1. Of(T \cup V, x) = V /\ Claimed(H2, E2, A2, x) = N
      BY <1>3, <2>2, <2>4
    <3>2. Asked(H, E, A, x) = {}
      BY <2>4, ClaimedIs
    <3>3. R[x].kind = "create" => \A l \in Asked(H2, E2, A2, x) : N = {l} /\ V = {}
      BY <2>2, <2>4, <3>2
    <3> QED BY <2>4, <3>1, <3>3
  <2> QED BY <2>3, <2>4
<1> QED BY <1>1, <1>2, <1>5 DEF ClaimsOf

-------------------------------------------------------------------------------
(* The counters, step by step.                                               *)

LEMMA ClaimsNow ==
    ASSUME Typed, Claims
    PROVE  /\ high \in [Nodes -> [Nodes -> Seq(Pkts)]] /\ medium \in [Nodes -> [Nodes -> Seq(Pkts)]]
           /\ op \in [OpIds -> OpRecs] /\ (\A o \in OpIds : op[o] \in OpRecs) /\ threads \subseteq ThreadSet
           /\ acks \in [Nodes -> [Nodes -> SUBSET OpIds]]
           /\ \A a, b \in Nodes : Tidy(high[a][b], medium[a][b], acks[a][b])
           /\ Callbacked(Pkts) /\ ClaimsOf(high, medium, acks, threads, op)
<1>1. op \in [OpIds -> OpRecs] /\ threads \subseteq ThreadSet /\ acks \in [Nodes -> [Nodes -> SUBSET OpIds]]
  BY DEF Typed, Counted
<1>2. Callbacked(Pkts)
  BY DEF Callbacked, Pkts
<1> QED BY <1>1, <1>2, PacketQueues DEF Claims, ClaimsOf

\* No counter and no thread changes, and nobody waits more or less.
LEMMA ClaimsSame ==
    ASSUME Typed, Claims, UNCHANGED <<op, threads>>,
           \A a, b \in Nodes : Served(high[a][b], medium[a][b], acks[a][b], high'[a][b], medium'[a][b], acks'[a][b], {})
    PROVE  Claims'
<1>1. ClaimsOf(high, medium, acks, threads, op) /\ Host \in Nodes /\ \A o \in OpIds : op[o] \in OpRecs
  BY ClaimsNow, NodesFinite
<1>2. \A o \in OpIds : CountedDown(op, op, o, 0)
  BY <1>1 DEF CountedDown, OpRecs
<1> PICK X : X = {}
  OBVIOUS
<1>3. AllDown(op, op, X)
  BY <1>2 DEF AllDown
<1>4. ServedOn(high, medium, acks, high', medium', acks', Host, Host, X)
  BY DEF ServedOn
<1>5. X \subseteq Due(high[Host][Host], medium[Host][Host], acks[Host][Host])
  OBVIOUS
<1>6. ClaimsOf(high', medium', acks', threads, op)
  BY <1>1, <1>3, <1>4, <1>5, ClaimsServed
<1> QED BY <1>6 DEF Claims

LEMMA ClaimsHeard ==
    ASSUME Typed, Claims, Talks(Hearsay), UNCHANGED <<op, threads, acks>>
    PROVE  Claims'
<1>1. PICK n \in Nodes, f \in [Nodes -> Seq(Hearsay)], e \in [Nodes -> Seq(Hearsay)] :
         high' = Queued(high, n, f) /\ medium' = Queued(medium, n, e)
  BY DEF Talks
<1>2. /\ high \in [Nodes -> [Nodes -> Seq(Pkts)]] /\ medium \in [Nodes -> [Nodes -> Seq(Pkts)]] /\ Callbacked(Pkts)
      /\ \A a, b \in Nodes : Tidy(high[a][b], medium[a][b], acks[a][b])
  BY ClaimsNow
<1>3. \A s \in Seq(Hearsay) : s \in Seq(Pkts) /\ \A i \in DOMAIN s : s[i].cb = "none"
  <2>1. Hearsay \subseteq Pkts
    BY DEF Hearsay, FitPkts
  <2> QED BY <2>1, HearsaySays, SeqLarger
<1>4. ASSUME NEW a \in Nodes, NEW b \in Nodes
      PROVE  Served(high[a][b], medium[a][b], acks[a][b], high'[a][b], medium'[a][b], acks'[a][b], {})
  <2>1. Tidy(high[a][b], medium[a][b], acks[a][b]) /\ high[a][b] \in Seq(Pkts) /\ medium[a][b] \in Seq(Pkts)
    BY <1>2
  <2>2. /\ high'[a][b] = (IF a = n THEN high[a][b] \o f[b] ELSE high[a][b])
        /\ medium'[a][b] = (IF a = n THEN medium[a][b] \o e[b] ELSE medium[a][b])
    <3>1. DOMAIN high = Nodes /\ DOMAIN medium = Nodes
      BY <1>2
    <3>2. Queued(high, n, f)[a][b] = IF a = n THEN high[a][b] \o f[b] ELSE high[a][b]
      BY <3>1, QueuedValue
    <3>3. Queued(medium, n, e)[a][b] = IF a = n THEN medium[a][b] \o e[b] ELSE medium[a][b]
      BY <3>1, QueuedValue
    <3> QED BY <1>1, <3>2, <3>3
  <2>3. /\ f[b] \in Seq(Pkts) /\ e[b] \in Seq(Pkts)
        /\ (\A i \in DOMAIN f[b] : f[b][i].cb = "none") /\ \A i \in DOMAIN e[b] : e[b][i].cb = "none"
    BY <1>3
  <2>4. CASE a = n
    <3>1. Served(high[a][b], medium[a][b], acks[a][b], high[a][b] \o f[b], medium[a][b] \o e[b], acks[a][b], {})
      BY <1>2, <2>1, <2>3, ServedSilence
    <3> QED BY <2>2, <2>4, <3>1
  <2>5. CASE a # n
    BY <2>1, <2>2, <2>5, ServedSame
  <2> QED BY <2>4, <2>5
<1> QED BY <1>4, ClaimsSame

\* A packet is sent to the nodes of S.
Mail(H) == H \in [Nodes -> [Nodes -> Seq(Pkts)]]

Posted(H, E, n, S, p, H2, E2) ==
    \/ H2 = Queued(H, n, Send(S, p)) /\ E2 = E
    \/ E2 = Queued(E, n, Send(S, p)) /\ H2 = H

AllTidy(H, E, A) == \A a, b \in Nodes : Tidy(H[a][b], E[a][b], A[a][b])

\* What a connection's queue holds after a broadcast.
LEMMA QueuedSent ==
    ASSUME NEW H, Mail(H), NEW n \in Nodes, NEW S, NEW p, NEW a \in Nodes, NEW b \in Nodes
    PROVE  Queued(H, n, Send(S, p))[a][b] = IF a = n THEN H[a][b] \o Send(S, p)[b] ELSE H[a][b]
<1> DEFINE s == Send(S, p)
<1>1. DOMAIN H = Nodes
  BY DEF Mail
<1> HIDE DEF s
<1>2. Queued(H, n, s)[a][b] = IF a = n THEN H[a][b] \o s[b] ELSE H[a][b]
  BY <1>1, QueuedValue
<1> QED BY <1>2 DEF s

LEMMA LentBroadcast ==
    ASSUME NEW H, NEW E, Mail(H), Mail(E), NEW A, AllTidy(H, E, A),
           NEW n \in Nodes, NEW S \in SUBSET Nodes, NEW p \in Pkts, p.cb = "none" \/ Claimed(H, E, A, p.o) = {},
           NEW H2, NEW E2, Posted(H, E, n, S, p, H2, E2),
           NEW a \in Nodes, NEW b \in Nodes
    PROVE  IF p.cb # "none" /\ a = n /\ b \in S
             THEN Lent(H[a][b], E[a][b], A[a][b], H2[a][b], E2[a][b], A[a][b], p.o, p.cb)
             ELSE Served(H[a][b], E[a][b], A[a][b], H2[a][b], E2[a][b], A[a][b], {})
<1>9. /\ Queued(H, n, Send(S, p))[a][b] = IF a = n THEN H[a][b] \o Send(S, p)[b] ELSE H[a][b]
      /\ Queued(E, n, Send(S, p))[a][b] = IF a = n THEN E[a][b] \o Send(S, p)[b] ELSE E[a][b]
  BY QueuedSent
<1>0. /\ H \in [Nodes -> [Nodes -> Seq(Pkts)]] /\ E \in [Nodes -> [Nodes -> Seq(Pkts)]]
      /\ \A x, y \in Nodes : Tidy(H[x][y], E[x][y], A[x][y])
      /\ \/ H2 = Queued(H, n, Send(S, p)) /\ E2 = E
         \/ E2 = Queued(E, n, Send(S, p)) /\ H2 = H
  BY DEF Mail, Posted, AllTidy
<1> USE <1>0
<1> DEFINE h == H[a][b]
           e == E[a][b]
           s == Send(S, p)[b]
<1>1. h \in Seq(Pkts) /\ e \in Seq(Pkts) /\ Tidy(h, e, A[a][b]) /\ Callbacked(Pkts) /\ <<>> \in Seq(Pkts)
  <2>1. Callbacked(Pkts)
    BY DEF Callbacked, Pkts
  <2> QED BY <2>1, EmptySeq
<1>2. \/ H2[a][b] = (IF a = n THEN h \o s ELSE h) /\ E2[a][b] = e
      \/ E2[a][b] = (IF a = n THEN e \o s ELSE e) /\ H2[a][b] = h
  BY <1>0, <1>9
<1>3. s = (IF b \in S THEN <<p>> ELSE <<>>) /\ s \in Seq(Pkts)
  BY <1>1, SentTypes DEF Send
<1>4. p.cb # "none" => p.o \notin Due(h, e, A[a][b])
  BY ClaimedIs
<1> HIDE DEF h, e
<1>5. CASE p.cb # "none" /\ a = n /\ b \in S
  <2>1. Lent(h, e, A[a][b], h \o <<p>>, e, A[a][b], p.o, p.cb) /\ Lent(h, e, A[a][b], h, e \o <<p>>, A[a][b], p.o, p.cb)
    BY <1>1, <1>4, <1>5, LentPacket
  <2> HIDE DEF s
  <2> QED BY <1>2, <1>3, <1>5, <2>1 DEF h, e
<1>6. CASE a # n
  <2>1. Served(h, e, A[a][b], h, e, A[a][b], {})
    BY <1>1, ServedSame
  <2> QED BY <1>2, <1>6, <2>1 DEF h, e
<1>7. CASE a = n /\ ~(p.cb # "none" /\ b \in S)
  <2>1. \A i \in DOMAIN s : s[i].cb = "none"
    BY <1>3, <1>7
  <2> HIDE DEF s
  <2>2. \A i \in DOMAIN <<>> : <<>>[i].cb = "none"
    OBVIOUS
  <2>3. Served(h, e, A[a][b], h \o s, e \o <<>>, A[a][b], {})
    BY <1>1, <1>3, <2>1, <2>2, ServedSilence
  <2>4. Served(h, e, A[a][b], h \o <<>>, e \o s, A[a][b], {})
    BY <1>1, <1>3, <2>1, <2>2, ServedSilence
  <2>5. h \o <<>> = h /\ e \o <<>> = e
    BY <1>1, ConcatEmptySeq
  <2> QED BY <1>2, <1>7, <2>3, <2>4, <2>5 DEF h, e
<1> QED BY <1>5, <1>6, <1>7

LEMMA PutValue ==
    ASSUME NEW T, DOMAIN T = Nodes, NEW n \in Nodes, NEW m \in Nodes, DOMAIN T[n] = Nodes, NEW v,
           NEW a \in Nodes, NEW b \in Nodes
    PROVE  Put(T, n, m, v)[a][b] = IF a = n /\ b = m THEN v ELSE T[a][b]
<1>1. CASE a = n
  <2>1. Put(T, n, m, v)[a] = [T[n] EXCEPT ![m] = v]
    BY <1>1 DEF Put
  <2> QED BY <1>1, <2>1
<1>2. CASE a # n
  BY <1>2 DEF Put
<1> QED BY <1>1, <1>2

LEMMA RowsOf ==
    ASSUME Typed
    PROVE  /\ DOMAIN high = Nodes /\ DOMAIN medium = Nodes /\ DOMAIN acks = Nodes
           /\ \A n \in Nodes : DOMAIN high[n] = Nodes /\ DOMAIN medium[n] = Nodes /\ DOMAIN acks[n] = Nodes
  BY DEF Typed, Packeted, QueueSet, Counted

LEMMA CountedSettle ==
    ASSUME NEW P \in [OpIds -> OpRecs], NEW S, NEW r \in Results, NEW o \in OpIds
    PROVE  /\ CountedDown(P, Settle(P, S, r), o, IF o \in S THEN 1 ELSE 0)
           /\ Settle(P, S, r)[o].lost = P[o].lost /\ Settle(P, S, r)[o] \in OpRecs
<1> DEFINE R == Settle(P, S, r)
<1>1. /\ R \in [OpIds -> OpRecs] /\ R[o].kind = P[o].kind /\ R[o].lost = P[o].lost
      /\ R[o].pending = IF o \in S THEN P[o].pending - 1 ELSE P[o].pending
  BY SettleTypes
<1> HIDE DEF R
<1>2. P[o] \in OpRecs /\ R[o] \in OpRecs
  BY <1>1
<1>3. P[o].pending \in Int /\ P[o].lost \in Nat
  BY <1>2 DEF OpRecs
<1>4. CountedDown(P, R, o, IF o \in S THEN 1 ELSE 0)
  BY <1>1, <1>2, <1>3 DEF CountedDown
<1> QED BY <1>1, <1>2, <1>4 DEF R

LEMMA SettleNone == ASSUME NEW P \in [OpIds -> OpRecs], NEW r PROVE Settle(P, {}, r) = P
  BY DEF Settle

\* A packet is written.
LEMMA ClaimsWritten ==
    ASSUME Typed, Claims, NEW n \in Nodes, NEW m \in Nodes, Write(n, m)
    PROVE  Claims'
<1>1. PICK p \in FitPkts(Kinds) : WriteStep(n, m, p)
  BY Writing
<1>2. /\ high[n][m] \in Seq(Pkts) /\ medium[n][m] \in Seq(Pkts) /\ Tidy(high[n][m], medium[n][m], acks[n][m])
      /\ Callbacked(Pkts) /\ op \in [OpIds -> OpRecs] /\ ClaimsOf(high, medium, acks, threads, op)
      /\ \A a, b \in Nodes : Tidy(high[a][b], medium[a][b], acks[a][b])
  BY ClaimsNow
<1> PICK X : X = Settles(p)
  OBVIOUS
<1>3. acks'[n][m] = acks[n][m] \cup Registers(p) /\ \A a, b \in Nodes : ~(a = n /\ b = m) => acks'[a][b] = acks[a][b]
  <2>1. CASE p.cb = "register"
    <3>1. acks' = Put(acks, n, m, acks[n][m] \cup {p.o}) /\ Registers(p) = {p.o}
      BY <1>1, <2>1 DEF WriteStep, Registers
    <3>2. \A v : \A a, b \in Nodes : Put(acks, n, m, v)[a][b] = IF a = n /\ b = m THEN v ELSE acks[a][b]
      BY PutValue, RowsOf
    <3> QED BY <3>1, <3>2
  <2>2. CASE p.cb # "register"
    BY <1>1, <2>2 DEF WriteStep, Registers
  <2> QED BY <2>1, <2>2
<1>4. /\ \A v : \A a, b \in Nodes : Put(high, n, m, v)[a][b] = IF a = n /\ b = m THEN v ELSE high[a][b]
      /\ \A v : \A a, b \in Nodes : Put(medium, n, m, v)[a][b] = IF a = n /\ b = m THEN v ELSE medium[a][b]
  BY PutValue, RowsOf
<1>5. \A a, b \in Nodes : ~(a = n /\ b = m) => high'[a][b] = high[a][b] /\ medium'[a][b] = medium[a][b]
  BY <1>1, <1>4 DEF WriteStep
<1>6. /\ X \subseteq Due(high[n][m], medium[n][m], acks[n][m])
      /\ Served(high[n][m], medium[n][m], acks[n][m], high'[n][m], medium'[n][m], acks'[n][m], X)
  <2>1. CASE high[n][m] # <<>> /\ p = Head(high[n][m]) /\ high' = Put(high, n, m, Tail(high[n][m])) /\ medium' = medium
    <3>1. high'[n][m] = Tail(high[n][m]) /\ medium'[n][m] = medium[n][m]
      BY <1>4, <2>1
    <3>2. /\ Settles(p) \subseteq Due(high[n][m], medium[n][m], acks[n][m])
          /\ Served(high[n][m], medium[n][m], acks[n][m], Tail(high[n][m]), medium[n][m],
                    acks[n][m] \cup Registers(p), Settles(p))
      BY <1>2, <2>1, ServedWrite
    <3> QED BY <1>3, <3>1, <3>2
  <2>2. CASE medium[n][m] # <<>> /\ p = Head(medium[n][m]) /\ medium' = Put(medium, n, m, Tail(medium[n][m])) /\ high' = high
    <3>1. high'[n][m] = high[n][m] /\ medium'[n][m] = Tail(medium[n][m])
      BY <1>4, <2>2
    <3>2. /\ Settles(p) \subseteq Due(high[n][m], medium[n][m], acks[n][m])
          /\ Served(high[n][m], medium[n][m], acks[n][m], high[n][m], Tail(medium[n][m]),
                    acks[n][m] \cup Registers(p), Settles(p))
      BY <1>2, <2>2, ServedWrite
    <3> QED BY <1>3, <3>1, <3>2
  <2> QED BY <1>1, <2>1, <2>2 DEF WriteStep
<1>7. op' = Settle(op, X, "ok") /\ "ok" \in Results
  <2>1. CASE p.cb = "count"
    BY <1>1, <2>1 DEF WriteStep, Settles, Results
  <2>2. CASE p.cb # "count"
    <3>1. X = {} /\ op' = op
      BY <1>1, <2>2 DEF WriteStep, Settles
    <3> QED BY <1>2, <3>1, SettleNone DEF Results
  <2> QED BY <2>1, <2>2
<1> PICK R : R = Settle(op, X, "ok")
  OBVIOUS
<1>8. AllDown(op, R, X)
  BY <1>2, <1>7, CountedSettle DEF AllDown
<1>9. ServedOn(high, medium, acks, high', medium', acks', n, m, X)
  <2> SUFFICES ASSUME NEW a \in Nodes, NEW b \in Nodes
               PROVE  Served(high[a][b], medium[a][b], acks[a][b], high'[a][b], medium'[a][b], acks'[a][b],
                             IF a = n /\ b = m THEN X ELSE {})
    BY DEF ServedOn
  <2>1. CASE a = n /\ b = m
    BY <1>6, <2>1
  <2>2. CASE ~(a = n /\ b = m)
    <3>1. Served(high[a][b], medium[a][b], acks[a][b], high[a][b], medium[a][b], acks[a][b], {})
      BY <1>2, ServedSame
    <3> QED BY <1>3, <1>5, <2>2, <3>1
  <2> QED BY <2>1, <2>2
<1>10. \A o \in OpIds : op[o] \in OpRecs
  BY <1>2
<1>11. ClaimsOf(high', medium', acks', threads, R)
  <2>1. ClaimsOf(high, medium, acks, threads, op) /\ X \subseteq Due(high[n][m], medium[n][m], acks[n][m])
    BY <1>2, <1>6
  <2> QED BY <1>8, <1>9, <1>10, <2>1, ClaimsServed
<1> QED BY <1>7, <1>11 DEF Claims, Write

\* The connections from n to the nodes of S.
Fan(n, S) == {n} \X S

LEMMA FanIs ==
    ASSUME NEW n \in Nodes, NEW S \in SUBSET Nodes
    PROVE  /\ Fan(n, S) \subseteq Links /\ Cardinality(Fan(n, S)) = Cardinality(S)
           /\ \A a, b \in Nodes : <<a, b>> \in Fan(n, S) <=> a = n /\ b \in S
           /\ S = {} => Fan(n, S) = {}
           /\ \A m : S = {m} => Fan(n, S) = {<<n, m>>}
<1>1. IsFiniteSet({n}) /\ Cardinality({n}) = 1 /\ IsFiniteSet(S) /\ Cardinality(S) \in Nat
  BY NodesFinite, FS_Singleton
<1>2. Cardinality(Fan(n, S)) = Cardinality({n}) * Cardinality(S)
  BY <1>1, FS_Product DEF Fan
<1>3. Cardinality(Fan(n, S)) = Cardinality(S)
  BY <1>1, <1>2
<1>4. Fan(n, S) \subseteq Links /\ \A a, b \in Nodes : <<a, b>> \in Fan(n, S) <=> a = n /\ b \in S
  BY DEF Fan, Links
<1>5. (S = {} => Fan(n, S) = {}) /\ \A m : S = {m} => Fan(n, S) = {<<n, m>>}
  BY DEF Fan
<1> QED BY <1>3, <1>4, <1>5

\* An op that waits for nothing sends a packet to the nodes of S and starts the threads of V.
Starting(P, R, V, S, p) ==
    /\ \A th \in V : V = {th} /\ th.o = p.o
    /\ \A x \in OpIds : x # p.o => R[x] = P[x]
    /\ R[p.o] \in OpRecs /\ R[p.o].kind # "none"
    /\ R[p.o].pending = Cardinality(V) + (IF p.cb = "none" THEN 0 ELSE Cardinality(S)) + R[p.o].lost
    /\ R[p.o].kind = "create" => p.cb = "count" \/ (V = {} /\ \E m \in Nodes : S = {m})

LEMMA ClaimsSent ==
    ASSUME NEW H, NEW E, Mail(H), Mail(E), NEW A, NEW T, NEW P,
           ClaimsOf(H, E, A, T, P), \A x \in OpIds : P[x] \in OpRecs,
           NEW n \in Nodes, NEW S \in SUBSET Nodes, NEW p \in Pkts, p.o \in OpIds,
           Claimed(H, E, A, p.o) = {}, Of(T, p.o) = {}, NEW V,
           NEW H2, NEW E2, Posted(H, E, n, S, p, H2, E2),
           NEW R, Starting(P, R, V, S, p)
    PROVE  ClaimsOf(H2, E2, A, T \cup V, R)
<1>0. /\ \A th \in V : V = {th} /\ th.o = p.o
      /\ \A x \in OpIds : x # p.o => R[x] = P[x]
      /\ R[p.o] \in OpRecs /\ R[p.o].kind # "none"
      /\ R[p.o].pending = Cardinality(V) + (IF p.cb = "none" THEN 0 ELSE Cardinality(S)) + R[p.o].lost
      /\ R[p.o].kind = "create" => p.cb = "count" \/ (V = {} /\ \E m \in Nodes : S = {m})
  BY DEF Starting
<1> USE <1>0
<1> PICK N : N = IF p.cb = "none" THEN {} ELSE Fan(n, S)
  OBVIOUS
<1> PICK o \in OpIds : o = p.o
  OBVIOUS
<1> PICK cb : cb = p.cb
  OBVIOUS
<1>1. V = {} \/ \E th : V = {th}
  OBVIOUS
<1>2. Cardinality(V) \in Nat /\ Cardinality(S) \in Nat /\ R[o].lost \in Nat /\ Cardinality({}) = 0
  <2>1. IsFiniteSet(V)
    <3>1. CASE V = {}
      BY <3>1, FS_EmptySet
    <3>2. ASSUME NEW th, V = {th} PROVE IsFiniteSet(V)
      BY <3>2, FS_Singleton
    <3> QED BY <1>1, <3>1, <3>2
  <2> QED BY <2>1, FS_CardinalityType, FS_EmptySet, NodesFinite DEF OpRecs
<1>3. /\ N \subseteq Links /\ Cardinality(N) = (IF p.cb = "none" THEN 0 ELSE Cardinality(S))
      /\ \A a, b \in Nodes : <<a, b>> \in N <=> p.cb # "none" /\ a = n /\ b \in S
      /\ \A m : S = {m} => N = {} \/ N = {<<n, m>>}
  <2>1. CASE p.cb = "none"
    BY <1>2, <2>1
  <2>2. CASE p.cb # "none"
    <3>1. N = Fan(n, S)
      BY <2>2
    <3> QED BY <2>2, <3>1, FanIs
  <2> QED BY <2>1, <2>2
<1>4. AllTidy(H, E, A)
  BY DEF ClaimsOf, AllTidy
<1>5. \A a, b \in Nodes : IF p.cb # "none" /\ a = n /\ b \in S
               THEN Lent(H[a][b], E[a][b], A[a][b], H2[a][b], E2[a][b], A[a][b], p.o, p.cb)
               ELSE Served(H[a][b], E[a][b], A[a][b], H2[a][b], E2[a][b], A[a][b], {})
  BY <1>4, LentBroadcast
<1>6. LentOn(H, E, A, H2, E2, A, N, o, cb)
  BY <1>3, <1>5 DEF LentOn
<1>7. R[o].pending = Cardinality(N) + Cardinality(V) + R[o].lost
  <2>1. Cardinality(N) \in Nat
    BY <1>3, NodesFinite
  <2> QED BY <1>2, <1>3, <2>1
<1>8. R[o].kind = "create" => N = {} \/ cb # "register" \/ (V = {} /\ \E l : N = {l})
  <2>1. ASSUME R[o].kind = "create", cb = "register" PROVE N = {} \/ (V = {} /\ \E l : N = {l})
    BY <1>3, <2>1
  <2> QED BY <2>1
<1>9. Begun(P, R, V, N, o, cb)
  BY <1>7, <1>8 DEF Begun
<1>10. N \subseteq Links /\ Claimed(H, E, A, o) = {} /\ Of(T, o) = {}
  BY <1>3
<1> QED BY <1>6, <1>9, <1>10, ClaimsLent

\* An op that waits for one connection only, in its last claim.
LEMMA OnlyClaim ==
    ASSUME NEW H, NEW E, NEW A, NEW T, NEW P, ClaimsOf(H, E, A, T, P), NEW o \in OpIds, P[o] \in OpRecs,
           P[o].pending = P[o].lost
    PROVE  Claimed(H, E, A, o) = {} /\ Of(T, o) = {}
<1>1. /\ IsFiniteSet(Claimed(H, E, A, o)) /\ Cardinality(Claimed(H, E, A, o)) \in Nat
      /\ IsFiniteSet(Of(T, o)) /\ Cardinality(Of(T, o)) \in Nat
      /\ P[o].pending = Cardinality(Claimed(H, E, A, o)) + Cardinality(Of(T, o)) + P[o].lost
  BY Counting
<1>2. P[o].lost \in Nat
  BY DEF OpRecs
<1>3. Cardinality(Claimed(H, E, A, o)) = 0 /\ Cardinality(Of(T, o)) = 0
  BY <1>1, <1>2
<1> QED BY <1>1, <1>3, FS_EmptySet

\* Acks of X have come, or are failed.
AckTable(A) == DOMAIN A = Nodes /\ \A n \in Nodes : DOMAIN A[n] = Nodes
Counters(P) == P \in [OpIds -> OpRecs]

LEMMA ClaimsAcked ==
    ASSUME NEW H, NEW E, NEW A, NEW T, NEW P, ClaimsOf(H, E, A, T, P), Counters(P), AckTable(A),
           NEW n \in Nodes, NEW m \in Nodes, NEW X, X \subseteq A[n][m], NEW r \in Results
    PROVE  ClaimsOf(H, E, Put(A, n, m, A[n][m] \ X), T, Settle(P, X, r)) /\ Counters(Settle(P, X, r))
<1>1. P \in [OpIds -> OpRecs] /\ \A o \in OpIds : P[o] \in OpRecs
  BY DEF Counters
<1>2. \A a, b \in Nodes : Tidy(H[a][b], E[a][b], A[a][b])
  BY DEF ClaimsOf
<1> PICK A2 : A2 = Put(A, n, m, A[n][m] \ X)
  OBVIOUS
<1>3. \A a, b \in Nodes : A2[a][b] = IF a = n /\ b = m THEN A[n][m] \ X ELSE A[a][b]
  <2>1. \A v : \A a, b \in Nodes : Put(A, n, m, v)[a][b] = IF a = n /\ b = m THEN v ELSE A[a][b]
    BY PutValue DEF AckTable
  <2> QED BY <2>1
<1>4. Tidy(H[n][m], E[n][m], A[n][m])
  BY <1>2
<1>5. /\ Served(H[n][m], E[n][m], A[n][m], H[n][m], E[n][m], A[n][m] \ X, X)
      /\ X \subseteq Due(H[n][m], E[n][m], A[n][m])
  BY <1>4, ServedAcks
<1>6. ServedOn(H, E, A, H, E, A2, n, m, X)
  <2> SUFFICES ASSUME NEW a \in Nodes, NEW b \in Nodes
               PROVE  Served(H[a][b], E[a][b], A[a][b], H[a][b], E[a][b], A2[a][b], IF a = n /\ b = m THEN X ELSE {})
    BY DEF ServedOn
  <2>1. CASE a = n /\ b = m
    BY <1>3, <1>5, <2>1
  <2>2. CASE ~(a = n /\ b = m)
    <3>1. Served(H[a][b], E[a][b], A[a][b], H[a][b], E[a][b], A[a][b], {})
      BY <1>2, ServedSame
    <3> QED BY <1>3, <2>2, <3>1
  <2> QED BY <2>1, <2>2
<1> PICK R : R = Settle(P, X, r)
  OBVIOUS
<1>7. AllDown(P, R, X)
  BY <1>1, CountedSettle DEF AllDown
<1>8. X \subseteq Due(H[n][m], E[n][m], A[n][m])
  BY <1>5
<1>9. ClaimsOf(H, E, A2, T, R)
  BY <1>1, <1>6, <1>7, <1>8, ClaimsServed
<1>10. Counters(R)
  BY <1>1, SettleTypes DEF Counters
<1> QED BY <1>9, <1>10

LEMMA ClaimsAnswered ==
    ASSUME Typed, Asking, Claims, NEW n \in Nodes, NEW m \in Nodes, HandleAck(n, m)
    PROVE  Claims'
<1>1. PICK p \in FitPkts(Kinds), S \in SUBSET Nodes : AckStep(n, m, p, S)
  BY Acking
<1>2. /\ Mail(high) /\ Mail(medium) /\ Counters(op) /\ AckTable(acks) /\ ClaimsOf(high, medium, acks, threads, op)
      /\ op \in [OpIds -> OpRecs] /\ \A o \in OpIds : op[o] \in OpRecs
  BY ClaimsNow, RowsOf DEF Mail, Counters, AckTable
<1> PICK X : X = {p.o} \cap acks[n][m]
  OBVIOUS
<1>3. acks' = Put(acks, n, m, acks[n][m] \ X) /\ X \subseteq acks[n][m] /\ medium' = medium
  <2>1. acks[n][m] \ X = acks[n][m] \ {p.o}
    OBVIOUS
  <2> QED BY <1>1, <2>1 DEF AckStep, HandleAck
<1>4. p.g \in Nat /\ p.r \in Results /\ p.o \in 0..MaxOps
  BY DEF FitPkts, Pkts
<1>5. CASE op' = Settle(op, X, p.r) /\ UNCHANGED <<high, threads>>
  <2>1. ClaimsOf(high, medium, Put(acks, n, m, acks[n][m] \ X), threads, Settle(op, X, p.r))
    BY <1>2, <1>3, <1>4, ClaimsAcked
  <2> QED BY <1>3, <1>5, <2>1 DEF Claims
<1>6. CASE Announces(n, m, p, S)
  <2> PICK A : A = Put(acks, n, m, acks[n][m] \ X)
    OBVIOUS
  <2> PICK P : P = Settle(op, X, "ok")
    OBVIOUS
  <2> PICK o : o = p.o
    OBVIOUS
  <2>1. X = {o} /\ o \in acks[n][m] /\ o \in OpIds /\ op[o].kind = "create"
    <3>1. p.o \in acks[n][m] /\ op[p.o].kind = "create"
      BY <1>6 DEF Announces
    <3> QED BY <3>1, QueueTypes
  <2>2. ClaimsOf(high, medium, A, threads, P) /\ Counters(P)
    <3>1. "ok" \in Results
      BY DEF Results
    <3> QED BY <1>2, <1>3, <3>1, ClaimsAcked
  <2>3. /\ \A x \in OpIds : x # o => P[x] = op[x]
        /\ P[o].pending = op[o].pending - 1 /\ P[o].lost = op[o].lost /\ \A x \in OpIds : P[x] \in OpRecs
    <3>1. \A x \in OpIds : x # o => P[x] = op[x]
      BY <2>1 DEF Settle
    <3>2. "ok" \in Results
      BY DEF Results
    <3>3. P[o].pending = op[o].pending - 1 /\ P[o].lost = op[o].lost
      BY <1>2, <2>1, <3>2, SettleTypes
    <3> QED BY <2>2, <3>1, <3>3 DEF Counters
  <2>4. op[o].pending = 1 + op[o].lost /\ op[o].lost \in Nat
    <3>1. op[o].pending = Cardinality(Claimed(high, medium, acks, o)) + Cardinality(Of(threads, o)) + op[o].lost
          /\ op[o].lost \in Nat
      BY <1>2, <2>1, Counting
    <3>2. <<n, m>> \in Asked(high, medium, acks, o)
      <4>1. o \in AckDue(high[n][m], medium[n][m], acks[n][m])
        BY <2>1 DEF AckDue
      <4> QED BY <4>1, ClaimedIs
    <3>3. Claimed(high, medium, acks, o) = {<<n, m>>} /\ Of(threads, o) = {}
      BY <1>2, <2>1, <3>2 DEF ClaimsOf
    <3>4. Cardinality({<<n, m>>}) = 1 /\ Cardinality({}) = 0
      BY FS_Singleton, FS_EmptySet
    <3> QED BY <3>1, <3>3, <3>4
  <2>5. Claimed(high, medium, A, o) = {} /\ Of(threads, o) = {}
    <3>1. P[o].pending = op[o].pending - 1 /\ P[o].lost = op[o].lost /\ P[o] \in OpRecs
      BY <2>1, <2>3
    <3>2. P[o].pending = P[o].lost
      BY <2>4, <3>1
    <3> QED BY <2>1, <2>2, <3>1, <3>2, OnlyClaim
  <2> PICK c \in Pkts : c = Packet("create", p.g, o, "count") /\ c.o = o /\ c.cb = "count"
    BY <1>4, PacketFields DEF PacketTypes
  <2> PICK tg : tg = Thread(n, "create", o, p.g)
    OBVIOUS
  <2> PICK V : V = {tg}
    OBVIOUS
  <2>6. /\ \A th \in V : V = {th} /\ th.o = o
        /\ Cardinality(V) = 1 /\ Cardinality(S) \in Nat
    <3>1. tg.o = o
      BY DEF Thread
    <3>2. Cardinality({tg}) = 1 /\ Cardinality(S) \in Nat
      BY FS_Singleton, NodesFinite
    <3> QED BY <3>1, <3>2
  <2> PICK R : R = [op EXCEPT ![o] = [op[o] EXCEPT !.g = p.g, !.pending = op[o].pending + Cardinality(S)]]
    OBVIOUS
  <2>7. /\ \A x \in OpIds : x # o => R[x] = P[x]
        /\ R[o] \in OpRecs /\ R[o].pending = op[o].pending + Cardinality(S) /\ R[o].lost = op[o].lost
        /\ R[o].kind = "create"
    <3>1. R[o] = [op[o] EXCEPT !.g = p.g, !.pending = op[o].pending + Cardinality(S)] /\ op[o] \in OpRecs
      BY <1>2, <2>1
    <3>2. op[o].pending + Cardinality(S) \in Int
      BY <2>4, <2>6
    <3>3. R[o] \in OpRecs /\ R[o].pending = op[o].pending + Cardinality(S) /\ R[o].lost = op[o].lost /\ R[o].kind = op[o].kind
      <4> PICK y \in OpRecs : y = op[o]
        BY <3>1
      <4> PICK i \in Int : i = op[o].pending + Cardinality(S)
        BY <3>2
      <4>1. R[o] = [y EXCEPT !.g = p.g, !.pending = i]
        BY <3>1
      <4>2. [y EXCEPT !.g = p.g, !.pending = i] \in OpRecs
        BY <1>4 DEF OpRecs
      <4>3. [y EXCEPT !.g = p.g, !.pending = i].pending = i /\ [y EXCEPT !.g = p.g, !.pending = i].lost = y.lost
            /\ [y EXCEPT !.g = p.g, !.pending = i].kind = y.kind
        BY DEF OpRecs
      <4> QED BY <4>1, <4>2, <4>3
    <3>4. \A x \in OpIds : x # o => R[x] = op[x]
      BY <1>2
    <3> QED BY <2>1, <2>3, <3>3, <3>4
  <2>8. R[o].pending = Cardinality(V) + (IF c.cb = "none" THEN 0 ELSE Cardinality(S)) + R[o].lost
    BY <2>4, <2>6, <2>7
  <2> PICK h : h = Queued(high, n, Send(S, c))
    OBVIOUS
  <2>9. Posted(high, medium, n, S, c, h, medium)
    BY DEF Posted
  <2>10. Starting(P, R, V, S, c)
    BY <2>6, <2>7, <2>8 DEF Starting
  <2>12. ClaimsOf(h, medium, A, threads \cup V, R)
    <3>1. /\ Mail(high) /\ Mail(medium) /\ c.o \in OpIds /\ Claimed(high, medium, A, c.o) = {} /\ Of(threads, c.o) = {}
          /\ ClaimsOf(high, medium, A, threads, P) /\ \A x \in OpIds : P[x] \in OpRecs
      BY <1>2, <2>1, <2>2, <2>3, <2>5
    <3> QED BY <2>9, <2>10, <3>1, ClaimsSent
  <2>11. high' = h /\ threads' = threads \cup V /\ op' = R /\ acks' = A
    BY <1>3, <1>6 DEF Announces
  <2> QED BY <1>3, <2>11, <2>12 DEF Claims
<1> QED BY <1>1, <1>5, <1>6 DEF AckStep

LEMMA ClaimsCalled ==
    ASSUME Typed, Claims, NEW n \in Nodes, NEW o \in OpIds, NEW G, Called(n, o, G)
    PROVE  Claims'
<1>1. PICK S \in SUBSET Nodes, p \in Pkts, T \in SUBSET ThreadSet, r \in OpRecs : Issue(n, o, S, p, T, r)
  BY DEF Called
<1>2. /\ Mail(high) /\ Mail(medium) /\ ClaimsOf(high, medium, acks, threads, op)
      /\ op \in [OpIds -> OpRecs] /\ \A x \in OpIds : op[x] \in OpRecs
  BY ClaimsNow DEF Mail
<1>3. op[o].kind = "none" /\ p.o = o
  BY <1>1 DEF Issue
<1>4. op[o].pending = 0 /\ op[o].lost = 0
  BY <1>2, <1>3 DEF ClaimsOf
<1>5. Claimed(high, medium, acks, o) = {} /\ Of(threads, o) = {}
  BY <1>2, <1>4, OnlyClaim
<1> PICK R : R = [op EXCEPT ![o] = r]
  OBVIOUS
<1>6. Starting(op, R, T, S, p)
  <2>1. \A x \in OpIds : x # p.o => R[x] = op[x]
    BY <1>2, <1>3
  <2>2. R[p.o] = r
    BY <1>2, <1>3
  <2>3. /\ r.kind # "none" /\ r.lost = 0
        /\ r.pending = Cardinality(T) + (IF p.cb = "none" THEN 0 ELSE Cardinality(S))
        /\ r.kind = "create" => p.cb = "count" \/ (T = {} /\ \E m \in Nodes : S = {m})
    BY <1>1 DEF Issue
  <2>4. \A th \in T : T = {th} /\ th.o = p.o
    BY <1>1, <1>3 DEF Issue
  <2>5. r.pending \in Int
    BY DEF OpRecs
  <2>6. Cardinality(T) \in Nat /\ Cardinality(S) \in Nat
    <3>1. T = {} \/ \E th : T = {th}
      BY <2>4
    <3>2. IsFiniteSet(T)
      <4>1. CASE T = {}
        BY <4>1, FS_EmptySet
      <4>2. ASSUME NEW th, T = {th} PROVE IsFiniteSet(T)
        BY <4>2, FS_Singleton
      <4> QED BY <3>1, <4>1, <4>2
    <3> QED BY <3>2, FS_CardinalityType, NodesFinite
  <2>7. r.pending = Cardinality(T) + (IF p.cb = "none" THEN 0 ELSE Cardinality(S)) + r.lost
    BY <2>3, <2>6
  <2> QED BY <2>1, <2>2, <2>3, <2>4, <2>7 DEF Starting
<1> PICK h, e : h = high' /\ e = medium'
  OBVIOUS
<1>7. Posted(high, medium, n, S, p, h, e)
  BY <1>1 DEF Posted, Issue
<1>8. /\ p.o \in OpIds /\ Claimed(high, medium, acks, p.o) = {} /\ Of(threads, p.o) = {}
      /\ Mail(high) /\ Mail(medium) /\ ClaimsOf(high, medium, acks, threads, op) /\ \A x \in OpIds : op[x] \in OpRecs
  BY <1>2, <1>3, <1>5
<1>9. ClaimsOf(h, e, acks, threads \cup T, R)
  BY <1>6, <1>7, <1>8, ClaimsSent
<1>10. acks' = acks /\ threads' = threads \cup T /\ op' = R
  BY <1>1 DEF Issue
<1> QED BY <1>9, <1>10 DEF Claims

\* The host answers with an id.
LEMMA ClaimsOffered ==
    ASSUME Typed, Asking, Claims, NEW n \in Nodes, NEW m \in Nodes, HandleGroupAllocate(n, m)
    PROVE  Claims'
<1>1. PICK p \in FitPkts(Kinds) : Offer(n, m, p)
  BY Allocated
<1>2. Mail(high) /\ Mail(medium) /\ AllTidy(high, medium, acks)
  BY ClaimsNow DEF Mail, AllTidy
<1>3. p \in Pkts /\ p.cb = "none" /\ {m} \in SUBSET Nodes
  <2>1. p = AckPacket(Received(n, m).o, "ok", next_id)
    BY <1>1 DEF Offer
  <2> QED BY <2>1, AckFields DEF FitPkts
<1> PICK h : h = high'
  OBVIOUS
<1>4. Posted(high, medium, n, {m}, p, h, medium)
  BY <1>1 DEF Offer, Posted
<1>5. \A a, b \in Nodes : Served(high[a][b], medium[a][b], acks[a][b], h[a][b], medium[a][b], acks[a][b], {})
  <2> PICK S \in SUBSET Nodes : S = {m}
    BY <1>3
  <2>1. Posted(high, medium, n, S, p, h, medium)
    BY <1>4
  <2>2. p.cb = "none" \/ Claimed(high, medium, acks, p.o) = {}
    BY <1>3
  <2>3. \A a, b \in Nodes : IF p.cb # "none" /\ a = n /\ b \in S
               THEN Lent(high[a][b], medium[a][b], acks[a][b], h[a][b], medium[a][b], acks[a][b], p.o, p.cb)
               ELSE Served(high[a][b], medium[a][b], acks[a][b], h[a][b], medium[a][b], acks[a][b], {})
    BY <1>2, <1>3, <2>1, <2>2, LentBroadcast
  <2> QED BY <1>3, <2>3
<1>6. UNCHANGED <<op, threads, medium, acks>>
  BY <1>1 DEF Offer
<1>7. \A a, b \in Nodes : Served(high[a][b], medium[a][b], acks[a][b], high'[a][b], medium'[a][b], acks'[a][b], {})
  BY <1>5, <1>6
<1> QED BY <1>6, <1>7, ClaimsSame

\* The detached threads.
LEMMA ClaimsThreads ==
    ASSUME Typed, Claims, NEW th \in threads, ThreadTells(th) \/ ThreadDestroys(th) \/ ThreadErases(th)
    PROVE  Claims'
<1>1. /\ ClaimsOf(high, medium, acks, threads, op) /\ op \in [OpIds -> OpRecs] /\ \A x \in OpIds : op[x] \in OpRecs
      /\ threads \subseteq ThreadSet
  BY ClaimsNow
<1>2. th.o \in OpIds /\ "ok" \in Results
  BY <1>1 DEF ThreadSet, Results
<1>3. UNCHANGED <<high, medium, acks>>
  BY DEF ThreadTells, ThreadDestroys, ThreadErases, queues
<1>4. CASE threads' = threads \ {th} /\ op' = Settle(op, {th.o}, "ok")
  <2> PICK R : R = Settle(op, {th.o}, "ok")
    OBVIOUS
  <2>1. \A o \in OpIds : CountedDown(op, R, o, IF o = th.o THEN 1 ELSE 0) /\ R[o].lost = op[o].lost
    <3>1. \A o \in OpIds : CountedDown(op, R, o, IF o \in {th.o} THEN 1 ELSE 0) /\ R[o].lost = op[o].lost
      BY <1>1, <1>2, CountedSettle
    <3> QED BY <3>1
  <2> PICK U : U = threads \ {th}
    OBVIOUS
  <2>3. ThreadMoves(threads, th, U, op, R)
    BY <2>1 DEF ThreadMoves
  <2>2. ClaimsOf(high, medium, acks, U, R)
    BY <1>1, <1>2, <2>3, ClaimsThread
  <2> QED BY <1>3, <1>4, <2>2 DEF Claims
<1>5. CASE threads' = (threads \ {th}) \cup {[th EXCEPT !.k = "destroying"]} /\ op' = op
  <2> PICK tg : tg = [th EXCEPT !.k = "destroying"]
    OBVIOUS
  <2>1. tg.o = th.o
    BY <1>1 DEF ThreadSet
  <2> PICK U : U = (threads \ {th}) \cup {tg}
    OBVIOUS
  <2>3. ThreadMoves(threads, th, U, op, op)
    BY <2>1 DEF ThreadMoves
  <2>2. ClaimsOf(high, medium, acks, U, op)
    BY <1>1, <1>2, <2>3, ClaimsThread
  <2> QED BY <1>3, <1>5, <2>2 DEF Claims
<1>6. \/ threads' = threads \ {th} /\ op' = Settle(op, {th.o}, "ok")
      \/ threads' = (threads \ {th}) \cup {[th EXCEPT !.k = "destroying"]} /\ op' = op
  BY DEF ThreadTells, ThreadDestroys, ThreadErases
<1> QED BY <1>4, <1>5, <1>6

\* The loss of a connection.
LEMMA OpsApart ==
    ASSUME NEW q, Once(q)
    PROVE  Ops(q, {"count"}) \cap Ops(q, {"register"}) = {}
<1> SUFFICES ASSUME NEW i \in DOMAIN q, NEW j \in DOMAIN q, q[i].cb = "count", q[j].cb = "register", q[i].o = q[j].o
             PROVE  FALSE
  BY DEF Ops
<1>1. i = j
  BY DEF Once
<1> QED BY <1>1

LEMMA FlushIs ==
    ASSUME NEW n, NEW m, Tidy(high[n][m], medium[n][m], acks[n][m])
    PROVE  /\ Count(n, m) \cap Register(n, m) = {}
           /\ Count(n, m) \cup Register(n, m) = Waiting(high[n][m]) \cup Waiting(medium[n][m])
<1> PICK h : h = high[n][m]
  OBVIOUS
<1> PICK e : e = medium[n][m]
  OBVIOUS
<1>1. Once(h) /\ Once(e) /\ Waiting(h) \cap Waiting(e) = {}
  BY DEF Tidy
<1>2. /\ Waiting(h) = Ops(h, {"count"}) \cup Ops(h, {"register"})
      /\ Waiting(e) = Ops(e, {"count"}) \cup Ops(e, {"register"})
  BY WaitingIs
<1>3. Ops(h, {"count"}) \cap Ops(h, {"register"}) = {} /\ Ops(e, {"count"}) \cap Ops(e, {"register"}) = {}
  BY <1>1, OpsApart
<1>4. /\ Count(n, m) = Ops(h, {"count"}) \cup Ops(e, {"count"})
      /\ Register(n, m) = Ops(h, {"register"}) \cup Ops(e, {"register"})
  BY DEF Count, Register
<1> QED BY <1>1, <1>2, <1>3, <1>4

\* The queues of one connection are emptied.
LEMMA ClaimsFlushed ==
    ASSUME Typed, Claims, NEW n \in Nodes, NEW m \in Nodes, NEW R, AllDown(op, R, Count(n, m) \cup Register(n, m))
    PROVE  ClaimsOf(Put(high, n, m, <<>>), Put(medium, n, m, <<>>), acks, threads, R)
<1>1. /\ ClaimsOf(high, medium, acks, threads, op) /\ \A x \in OpIds : op[x] \in OpRecs
      /\ \A a, b \in Nodes : Tidy(high[a][b], medium[a][b], acks[a][b])
  BY ClaimsNow
<1> PICK H : H = Put(high, n, m, <<>>)
  OBVIOUS
<1> PICK E : E = Put(medium, n, m, <<>>)
  OBVIOUS
<1> PICK X : X = Count(n, m) \cup Register(n, m)
  OBVIOUS
<1>2. \A a, b \in Nodes : /\ H[a][b] = IF a = n /\ b = m THEN <<>> ELSE high[a][b]
                          /\ E[a][b] = IF a = n /\ b = m THEN <<>> ELSE medium[a][b]
  <2>1. /\ \A v : \A a, b \in Nodes : Put(high, n, m, v)[a][b] = IF a = n /\ b = m THEN v ELSE high[a][b]
        /\ \A v : \A a, b \in Nodes : Put(medium, n, m, v)[a][b] = IF a = n /\ b = m THEN v ELSE medium[a][b]
    BY PutValue, RowsOf
  <2> QED BY <2>1
<1>3. X = Waiting(high[n][m]) \cup Waiting(medium[n][m])
  BY <1>1, FlushIs
<1>4. /\ X \subseteq Due(high[n][m], medium[n][m], acks[n][m])
      /\ Served(high[n][m], medium[n][m], acks[n][m], <<>>, <<>>, acks[n][m], X)
  BY <1>1, <1>3, ServedFlush
<1>5. ServedOn(high, medium, acks, H, E, acks, n, m, X)
  <2> SUFFICES ASSUME NEW a \in Nodes, NEW b \in Nodes
               PROVE  Served(high[a][b], medium[a][b], acks[a][b], H[a][b], E[a][b], acks[a][b],
                             IF a = n /\ b = m THEN X ELSE {})
    BY DEF ServedOn
  <2>1. CASE a = n /\ b = m
    BY <1>2, <1>4, <2>1
  <2>2. CASE ~(a = n /\ b = m)
    <3>1. Served(high[a][b], medium[a][b], acks[a][b], high[a][b], medium[a][b], acks[a][b], {})
      BY <1>1, ServedSame
    <3> QED BY <1>2, <2>2, <3>1
  <2> QED BY <2>1, <2>2
<1>6. AllDown(op, R, X) /\ X \subseteq Due(high[n][m], medium[n][m], acks[n][m])
  BY <1>4
<1>7. ClaimsOf(H, E, acks, threads, R)
  BY <1>1, <1>5, <1>6, ClaimsServed
<1> QED BY <1>7

LEMMA ClaimsFailed ==
    ASSUME Typed, NEW H, NEW E, NEW P, ClaimsOf(H, E, acks, threads, P), Counters(P),
           NEW n \in Nodes, NEW m \in Nodes, FailStep(n, m, P)
    PROVE  ClaimsOf(H, E, acks', threads, op')
<1>1. CASE op' = P /\ acks' = acks
  BY <1>1
<1>2. ASSUME NEW o \in acks[n][m], acks' = Put(acks, n, m, acks[n][m] \ {o}), op' = Settle(P, {o}, "lost")
      PROVE  ClaimsOf(H, E, acks', threads, op')
  <2> PICK X : X = {o}
    OBVIOUS
  <2>1. AckTable(acks) /\ X \subseteq acks[n][m] /\ "lost" \in Results
    BY RowsOf DEF AckTable, Results
  <2>2. ClaimsOf(H, E, Put(acks, n, m, acks[n][m] \ X), threads, Settle(P, X, "lost"))
    BY <2>1, ClaimsAcked
  <2> QED BY <1>2, <2>2
<1> QED BY <1>1, <1>2 DEF FailStep

LEMMA ClaimsLost ==
    ASSUME Typed, Claims, NEW n \in Nodes, NEW m \in Nodes, Lose(n, m)
    PROVE  Claims'
<1>1. LoseStep(n, m) /\ threads' = threads
  BY Losing
<1>2. /\ ClaimsOf(high, medium, acks, threads, op) /\ op \in [OpIds -> OpRecs] /\ Counters(op)
      /\ Tidy(high[n][m], medium[n][m], acks[n][m])
  BY ClaimsNow DEF Counters
<1> PICK C : C = Count(n, m)
  OBVIOUS
<1> PICK D : D = Register(n, m)
  OBVIOUS
<1>3. C \cap D = {}
  BY <1>2, FlushIs
<1>4. CASE /\ FailStep(n, m, Settle(Settle(op, Count(n, m), "ok"), Register(n, m), "lost"))
           /\ high' = Put(high, n, m, <<>>) /\ medium' = Put(medium, n, m, <<>>)
  <2> PICK Q : Q = Settle(op, C, "ok")
    OBVIOUS
  <2> PICK P : P = Settle(Q, D, "lost")
    OBVIOUS
  <2>1. "ok" \in Results /\ "lost" \in Results
    BY DEF Results
  <2>2. /\ Q \in [OpIds -> OpRecs]
        /\ \A o \in OpIds : /\ Q[o].kind = op[o].kind /\ Q[o].lost = op[o].lost
                            /\ Q[o].pending = IF o \in C THEN op[o].pending - 1 ELSE op[o].pending
    BY <1>2, <2>1, SettleTypes
  <2>3. /\ P \in [OpIds -> OpRecs]
        /\ \A o \in OpIds : /\ P[o].kind = Q[o].kind /\ P[o].lost = Q[o].lost
                            /\ P[o].pending = IF o \in D THEN Q[o].pending - 1 ELSE Q[o].pending
    BY <2>1, <2>2, SettleTypes
  <2>4. AllDown(op, P, C \cup D)
    <3> SUFFICES ASSUME NEW o \in OpIds PROVE CountedDown(op, P, o, IF o \in C \cup D THEN 1 ELSE 0)
      BY DEF AllDown
    <3>1. op[o].pending \in Int /\ op[o].lost \in Nat /\ P[o] \in OpRecs
      BY <1>2, <2>3 DEF OpRecs
    <3>2. P[o].kind = op[o].kind /\ P[o].lost = op[o].lost
      BY <2>2, <2>3
    <3>3. P[o].pending = IF o \in C \cup D THEN op[o].pending - 1 ELSE op[o].pending
      BY <1>3, <2>2, <2>3
    <3> QED BY <3>1, <3>2, <3>3 DEF CountedDown
  <2> PICK H : H = Put(high, n, m, <<>>)
    OBVIOUS
  <2> PICK E : E = Put(medium, n, m, <<>>)
    OBVIOUS
  <2>5. ClaimsOf(H, E, acks, threads, P)
    BY <2>4, ClaimsFlushed
  <2>6. FailStep(n, m, P) /\ Counters(P)
    BY <1>4, <2>3 DEF Counters
  <2>7. ClaimsOf(H, E, acks', threads, op')
    BY <2>5, <2>6, ClaimsFailed
  <2> QED BY <1>1, <1>4, <2>7 DEF Claims
<1>5. CASE FailStep(n, m, op) /\ high' = high /\ medium' = medium
  <2>1. ClaimsOf(high, medium, acks', threads, op')
    BY <1>2, <1>5, ClaimsFailed
  <2> QED BY <1>1, <1>5, <2>1 DEF Claims
<1>6. CASE /\ op' = [o \in OpIds |-> IF o \in Count(n, m) \cup Register(n, m) THEN [op[o] EXCEPT !.lost = @ + 1] ELSE op[o]]
           /\ high' = Put(high, n, m, <<>>) /\ medium' = Put(medium, n, m, <<>>) /\ acks' = acks
  <2> PICK R : R = [o \in OpIds |-> IF o \in C \cup D THEN [op[o] EXCEPT !.lost = @ + 1] ELSE op[o]]
    OBVIOUS
  <2>1. AllDown(op, R, C \cup D)
    <3> SUFFICES ASSUME NEW o \in OpIds PROVE CountedDown(op, R, o, IF o \in C \cup D THEN 1 ELSE 0)
      BY DEF AllDown
    <3> PICK y \in OpRecs : y = op[o]
      BY <1>2
    <3>1. y.pending \in Int /\ y.lost \in Nat
      BY DEF OpRecs
    <3>2. /\ [y EXCEPT !.lost = @ + 1] \in OpRecs /\ [y EXCEPT !.lost = @ + 1].kind = y.kind
          /\ [y EXCEPT !.lost = @ + 1].pending = y.pending /\ [y EXCEPT !.lost = @ + 1].lost = y.lost + 1
      BY <3>1 DEF OpRecs
    <3>3. R[o] = IF o \in C \cup D THEN [y EXCEPT !.lost = @ + 1] ELSE y
      OBVIOUS
    <3> QED BY <3>1, <3>2, <3>3 DEF CountedDown
  <2>2. ClaimsOf(Put(high, n, m, <<>>), Put(medium, n, m, <<>>), acks, threads, R)
    BY <2>1, ClaimsFlushed
  <2>3. op' = R
    BY <1>6
  <2> QED BY <1>1, <1>6, <2>2, <2>3 DEF Claims
<1> QED BY <1>1, <1>4, <1>5, <1>6 DEF LoseStep

LEMMA ClaimsNext ==
    ASSUME Typed, Asking, Claims, Steps
    PROVE  Claims'
<1>1. ASSUME NEW n \in Nodes, NEW m \in Nodes, NEW o \in OpIds, NEW g \in Nat \ {0}, CallsOf(n, o, g, m)
      PROVE  Claims'
  <2>1. PICK G \in SUBSET Nat : Called(n, o, G)
    BY <1>1, CallsAreIssues
  <2> QED BY <2>1, ClaimsCalled
<1>2. CASE Hearing
  <2>1. Heard
    BY <1>2, GroupHandlersHeard, JoinHandlersHeard, WelcomesHeard, OthersHeard DEF Hearing
  <2>2. Talks(Hearsay) /\ UNCHANGED <<op, threads, acks>>
    BY <2>1 DEF Heard
  <2> QED BY <2>2, ClaimsHeard
<1>3. ASSUME NEW n \in Nodes, NEW m \in Nodes,
             Write(n, m) \/ HandleAck(n, m) \/ HandleGroupAllocate(n, m) \/ Lose(n, m)
      PROVE  Claims'
  BY <1>3, ClaimsWritten, ClaimsAnswered, ClaimsOffered, ClaimsLost
<1>4. CASE Threading
  BY <1>4, ClaimsThreads DEF Threading
<1>5. CASE UNCHANGED vars
  <2>1. UNCHANGED <<high, medium, acks, threads, op>>
    BY <1>5 DEF vars, queues
  <2> QED BY <2>1 DEF Claims
<1> QED BY <1>1, <1>2, <1>3, <1>4, <1>5 DEF Steps

LEMMA ClaimsInit == Init => Claims
<1> SUFFICES ASSUME Init PROVE Claims
  OBVIOUS
<1>1. /\ \A n, m \in Nodes : high[n][m] = <<>> /\ medium[n][m] = <<>> /\ acks[n][m] = {}
      /\ threads = {} /\ \A o \in OpIds : op[o] = NoOp
  BY DEF Init
<1>2. Waiting(<<>>) = {} /\ Ops(<<>>, {"register"}) = {} /\ Once(<<>>)
  BY OpsOfFew DEF Waiting
<1>3. \A n, m \in Nodes : Tidy(high[n][m], medium[n][m], acks[n][m]) /\ Due(high[n][m], medium[n][m], acks[n][m]) = {}
  BY <1>1, <1>2 DEF Tidy, Due
<1>4. ASSUME NEW o \in OpIds
      PROVE  /\ op[o].pending = Cardinality(Claimed(high, medium, acks, o)) + Cardinality(Of(threads, o)) + op[o].lost
             /\ op[o].kind = "none" /\ op[o].pending = 0 /\ op[o].lost = 0
  <2>1. Claimed(high, medium, acks, o) = {}
    <3>1. \A n, m \in Nodes : <<n, m>> \notin Claimed(high, medium, acks, o)
      BY <1>3, ClaimedIs
    <3>2. Claimed(high, medium, acks, o) \subseteq Links /\ \A l \in Links : \E n, m \in Nodes : l = <<n, m>>
      BY ClaimedIs DEF Links
    <3> QED BY <3>1, <3>2
  <2>2. Of(threads, o) = {} /\ Cardinality({}) = 0
    BY <1>1, FS_EmptySet DEF Of
  <2>3. op[o].kind = "none" /\ op[o].pending = 0 /\ op[o].lost = 0
    BY <1>1 DEF NoOp
  <2> QED BY <2>1, <2>2, <2>3
<1>5. \A o \in OpIds : op[o].kind # "create"
  BY <1>1 DEF NoOp
<1> QED BY <1>1, <1>3, <1>4, <1>5 DEF Claims, ClaimsOf

\* An op waits in a queue when a packet with a callback there is the op's.
Posts(q) == q \in Seq(Pkts) /\ Callbacked(Pkts)
CallsFor(q, o) == \E i \in DOMAIN q : q[i].cb # "none" /\ q[i].o = o

LEMMA WaitsIn ==
    ASSUME NEW q, Posts(q), NEW o
    PROVE  o \in Waiting(q) <=> CallsFor(q, o)
<1>0. q \in Seq(Pkts) /\ Callbacked(Pkts)
  BY DEF Posts
<1>1. o \in Waiting(q) <=> \E i \in DOMAIN q : q[i].cb \in {"count", "register"} /\ q[i].o = o
  BY DEF Waiting, Ops
<1>2. \A i \in DOMAIN q : q[i].cb # "none" <=> q[i].cb \in {"count", "register"}
  <2>1. \A i \in DOMAIN q : q[i] \in Pkts
    BY <1>0, InSeq
  <2> QED BY <1>0, <2>1 DEF Callbacked
<1> QED BY <1>1, <1>2 DEF CallsFor

\* The callbacks that wait for op o are as many as the connections whose queues hold one.
LEMMA CallbacksCounted ==
    ASSUME Typed, Claims, NEW o \in OpIds
    PROVE  Cardinality(Callbacks(o)) + Cardinality(Awaited(o)) = Cardinality(Claimed(high, medium, acks, o))
<1>1. /\ high \in [Nodes -> [Nodes -> Seq(Pkts)]] /\ medium \in [Nodes -> [Nodes -> Seq(Pkts)]] /\ Callbacked(Pkts)
      /\ \A a, b \in Nodes : Tidy(high[a][b], medium[a][b], acks[a][b])
  BY ClaimsNow
<1> DEFINE W == {l \in Links : o \in Waiting(high[l[1]][l[2]]) \cup Waiting(medium[l[1]][l[2]])}
           C == Callbacks(o)
<1>2. \A l \in Links : l[1] \in Nodes /\ l[2] \in Nodes
  BY DEF Links
<1>3. ASSUME NEW l \in Links
      PROVE  /\ Once(Unsent(l)) /\ (l \in W <=> \E i \in DOMAIN Unsent(l) : Unsent(l)[i].cb # "none" /\ Unsent(l)[i].o = o)
  <2> PICK n \in Nodes, m \in Nodes : n = l[1] /\ m = l[2]
    BY <1>2
  <2> PICK h \in Seq(Pkts), e \in Seq(Pkts) : h = high[n][m] /\ e = medium[n][m] /\ Tidy(h, e, acks[n][m])
    BY <1>1
  <2>1. Unsent(l) = h \o e
    BY DEF Unsent
  <2>2. Once(h) /\ Once(e) /\ Waiting(h) \cap Waiting(e) = {}
    BY DEF Tidy
  <2>3. Waiting(h \o e) = Waiting(h) \cup Waiting(e) /\ Once(h \o e)
    <3>0. Callbacked(Pkts)
      BY <1>1
    <3>1. Ops(h \o e, {"count", "register"}) = Ops(h, {"count", "register"}) \cup Ops(e, {"count", "register"})
      BY <3>0, OpsInConcat
    <3>2. Once(h \o e)
      BY <2>2, <3>0, OpsInConcat
    <3> QED BY <3>1, <3>2 DEF Waiting
  <2> PICK q \in Seq(Pkts) : q = h \o e
    BY ConcatProperties
  <2>4. l \in W <=> o \in Waiting(q)
    BY <2>3
  <2>5. Unsent(l) = q
    BY <2>1
  <2> HIDE DEF W, C
  <2>6. o \in Waiting(q) <=> \E i \in DOMAIN q : q[i].cb # "none" /\ q[i].o = o
    <3>1. Posts(q)
      BY <1>1 DEF Posts
    <3>2. o \in Waiting(q) <=> CallsFor(q, o)
      BY <3>1, WaitsIn
    <3> QED BY <3>2 DEF CallsFor
  <2> QED BY <2>3, <2>4, <2>5, <2>6
<1>4. \A c \in C : \E l \in W : \E i \in DOMAIN Unsent(l) : c = <<l, i>> /\ Unsent(l)[i].cb # "none" /\ Unsent(l)[i].o = o
  <2> SUFFICES ASSUME NEW c \in C
               PROVE  \E l \in W : \E i \in DOMAIN Unsent(l) : c = <<l, i>> /\ Unsent(l)[i].cb # "none" /\ Unsent(l)[i].o = o
    OBVIOUS
  <2>1. PICK l \in Links : \E i \in DOMAIN Unsent(l) : c = <<l, i>> /\ Unsent(l)[i].cb # "none" /\ Unsent(l)[i].o = o
    BY DEF Callbacks
  <2>2. l \in W
    BY <1>3, <2>1
  <2> QED BY <2>1, <2>2
<1>5. \A l \in Links : \A i \in DOMAIN Unsent(l) : Unsent(l)[i].cb # "none" /\ Unsent(l)[i].o = o => <<l, i>> \in C
  BY DEF Callbacks
<1>6. W \subseteq Links
  OBVIOUS
<1> HIDE DEF W, C
<1> DEFINE f == [c \in C |-> c[1]]
<1>7. f \in [C -> W]
  BY <1>4
<1>8. \A b, c \in C : f[b] = f[c] => b = c
  <2> SUFFICES ASSUME NEW b \in C, NEW c \in C, f[b] = f[c] PROVE b = c
    OBVIOUS
  <2> PICK l \in W : \E i \in DOMAIN Unsent(l) : b = <<l, i>> /\ Unsent(l)[i].cb # "none" /\ Unsent(l)[i].o = o
    BY <1>4
  <2>1. PICK i \in DOMAIN Unsent(l) : b = <<l, i>> /\ Unsent(l)[i].cb # "none" /\ Unsent(l)[i].o = o
    OBVIOUS
  <2> PICK k \in W : \E j \in DOMAIN Unsent(k) : c = <<k, j>> /\ Unsent(k)[j].cb # "none" /\ Unsent(k)[j].o = o
    BY <1>4
  <2>2. PICK j \in DOMAIN Unsent(k) : c = <<k, j>> /\ Unsent(k)[j].cb # "none" /\ Unsent(k)[j].o = o
    OBVIOUS
  <2>3. l = k
    BY <2>1, <2>2
  <2>4. Once(Unsent(l))
    BY <1>3, <1>6
  <2>5. i = j
    BY <2>1, <2>2, <2>3, <2>4 DEF Once
  <2> QED BY <2>1, <2>2, <2>3, <2>5
<1>9. \A l \in W : \E c \in C : f[c] = l
  <2> SUFFICES ASSUME NEW l \in W PROVE \E c \in C : f[c] = l
    OBVIOUS
  <2>1. PICK i \in DOMAIN Unsent(l) : Unsent(l)[i].cb # "none" /\ Unsent(l)[i].o = o
    BY <1>3, <1>6
  <2>2. <<l, i>> \in C /\ f[<<l, i>>] = l
    BY <1>5, <1>6, <2>1
  <2> QED BY <2>2
<1>10. Cardinality(C) = Cardinality(W) /\ IsFiniteSet(W)
  <2>1. f \in Bijection(C, W)
    BY <1>7, <1>8, <1>9 DEF Bijection, Injection, Surjection, IsInjective
  <2>2. ExistsBijection(C, W)
    BY <2>1 DEF ExistsBijection
  <2>3. ExistsBijection(W, C) /\ IsFiniteSet(W)
    BY <1>6, <2>2, Fun_ExistsBijSymmetric, NodesFinite
  <2> QED BY <2>3, FS_Bijection
<1>11. W \cap Awaited(o) = {} /\ W \cup Awaited(o) = Claimed(high, medium, acks, o)
  <2>1. \A l \in Links : l \in W <=> o \in Waiting(high[l[1]][l[2]]) \cup Waiting(medium[l[1]][l[2]])
    BY DEF W
  <2>2. \A l \in Links : (Waiting(high[l[1]][l[2]]) \cup Waiting(medium[l[1]][l[2]])) \cap acks[l[1]][l[2]] = {}
    BY <1>1, <1>2 DEF Tidy
  <2>3. Awaited(o) \subseteq Links /\ \A l \in Links : l \in Awaited(o) <=> o \in acks[l[1]][l[2]]
    BY DEF Awaited
  <2>4. /\ Claimed(high, medium, acks, o) \subseteq Links
        /\ \A l \in Links : l \in Claimed(high, medium, acks, o) <=>
              o \in Waiting(high[l[1]][l[2]]) \cup Waiting(medium[l[1]][l[2]]) \cup acks[l[1]][l[2]]
    BY DEF Claimed, Due
  <2> QED BY <1>6, <2>1, <2>2, <2>3, <2>4
<1>12. IsFiniteSet(Awaited(o)) /\ Cardinality(Awaited(o)) \in Nat /\ Cardinality(W) \in Nat
  BY <1>6, NodesFinite DEF Awaited
<1>13. Cardinality(W \cup Awaited(o)) = Cardinality(W) + Cardinality(Awaited(o)) - Cardinality(W \cap Awaited(o))
  BY <1>10, <1>12, FS_Union
<1>14. Cardinality({}) = 0
  BY FS_EmptySet
<1>15. Cardinality(Claimed(high, medium, acks, o)) = Cardinality(C) + Cardinality(Awaited(o))
  <2>1. Cardinality(W \cap Awaited(o)) = 0 /\ Cardinality(W \cup Awaited(o)) = Cardinality(Claimed(high, medium, acks, o))
    BY <1>11, <1>14
  <2> QED BY <1>10, <1>12, <1>13, <2>1
<1> QED BY <1>15 DEF C
-------------------------------------------------------------------------------
(* Acks.  An ack that is awaited is on its way, in a request, an answer or a *)
(* handler that has put it off, unless one of them was refused or lost.      *)

Has(q, T, o) == \E i \in DOMAIN q : q[i].t \in T /\ q[i].o = o

\* What n asked of m about op o: n's wire, m's queue and wire, and m's handler.
Travels(w, h, v, r, o) ==
    \/ Has(w, Requests, o) \/ Has(h, {"ack"}, o) \/ Has(v, {"ack"}, o)
    \/ r.at = "join" /\ r.o = o

Over(D, C, L, n, m, o) == <<n, m, o>> \in D \/ {n, m} \in C \/ L[m][n] \in {"failing", "closing"}

AnswersOf(W, H, R, A, D, C, L) ==
    \A n, m \in Nodes : \A o \in A[n][m] :
       Travels(W[n][m], H[m][n], W[m][n], R[m][n], o) \/ Over(D, C, L, n, m, o)

Answers == ~fault => AnswersOf(wire, high, reading, acks, dropped, cut, link)

\* The links on which acks are awaited.
Live == {"requesting", "connected", "failing"}
Awaiting == \A n, m \in Nodes : acks[n][m] # {} => link[n][m] \in Live

\* Nodes join, or connections break.
Apart ==
    /\ scenario.joins = 0 => /\ \A n \in Nodes : sess[n] # "connecting"
                             /\ \A n, m \in Nodes : link[n][m] # "requesting"
    /\ scenario.breaks = 0 => /\ cut = {} /\ \A n \in Nodes : sess[n] # "terminated"
                              /\ \A n, m \in Nodes : link[n][m] \notin {"failing", "closing", "gone"}

\* What is over stays so.
Ends ==
    /\ (~fault' => ~fault) /\ dropped \subseteq dropped' /\ cut \subseteq cut'
    /\ \A n, m \in Nodes : link[n][m] \in {"failing", "closing"} =>
          link'[n][m] \in {"failing", "closing"} \/ {n, m} \in cut'

AcksLess == \A n, m \in Nodes : acks'[n][m] \subseteq acks[n][m]

LEMMA EndsNext ==
    ASSUME Typed, Apart, Awaiting, Next \/ UNCHANGED vars
    PROVE  Ends /\ Apart' /\ Awaiting'
<1>0. /\ link \in [Nodes -> [Nodes -> {"none", "requesting", "connected", "failing", "closing", "gone"}]]
      /\ sess \in [Nodes -> {"out", "connecting", "connected", "terminated"}] /\ Host \in Nodes
      /\ scenario \in Scenarios /\ acks \in [Nodes -> [Nodes -> SUBSET OpIds]]
  BY NodesFinite DEF Typed, Tabled, Counted
<1>1. ASSUME UNCHANGED <<scenario, sess, link, cut>>, dropped \subseteq dropped', ~fault' => ~fault, AcksLess
      PROVE  Ends /\ Apart' /\ Awaiting'
  <2>1. Awaiting'
    BY <1>1 DEF Awaiting, AcksLess
  <2>2. Apart'
    BY <1>1 DEF Apart
  <2>3. Ends
    BY <1>1 DEF Ends
  <2> QED BY <2>1, <2>2, <2>3
<1>2. ASSUME acks' = acks PROVE AcksLess
  BY <1>2 DEF AcksLess
<1>3. CASE Calls
  <2>1. PICK o \in OpIds :
           \/ SetApplicationDesc(o)
           \/ \E n \in Nodes :
                 \/ CreateGroup(n, o) \/ CreateGroupRemote(n, o) \/ SetPeerInfo(n, o)
                 \/ \E g \in GroupIds :
                       \/ DestroyGroup(n, o, g) \/ AddSelf(n, o, g) \/ RemoveSelf(n, o, g)
                       \/ \E m \in Nodes : AddRemote(n, o, g, m) \/ RemoveRemote(n, o, g, m)
    BY <1>3 DEF Calls
  <2> DEFINE Same == UNCHANGED <<scenario, sess, link, cut, dropped, acks>> /\ (~fault' => ~fault)
  <2>2. ASSUME SetApplicationDesc(o) PROVE Same
    BY <2>2 DEF SetApplicationDesc, history
  <2>3. ASSUME NEW n \in Nodes, CreateGroup(n, o) \/ CreateGroupRemote(n, o) \/ SetPeerInfo(n, o) PROVE Same
    BY <2>3 DEF CreateGroup, CreateGroupRemote, SetPeerInfo, MayCall, history
  <2>4. ASSUME NEW n \in Nodes, NEW g \in GroupIds, DestroyGroup(n, o, g) \/ AddSelf(n, o, g) \/ RemoveSelf(n, o, g)
        PROVE  Same
    BY <2>4 DEF DestroyGroup, AddSelf, RemoveSelf, history
  <2>5. ASSUME NEW n \in Nodes, NEW g \in GroupIds, NEW m \in Nodes, AddRemote(n, o, g, m) \/ RemoveRemote(n, o, g, m)
        PROVE  Same
    BY <2>5 DEF AddRemote, RemoveRemote, history
  <2>6. Same
    BY <2>1, <2>2, <2>3, <2>4, <2>5
  <2> QED BY <1>1, <1>2, <2>6
<1>4. ASSUME NEW n \in Nodes, NEW m \in Nodes, link[n][m] = "none", link' = [link EXCEPT ![n][m] = "connected"],
             UNCHANGED <<scenario, sess, cut, dropped, fault, acks>>
      PROVE  Ends /\ Apart' /\ Awaiting'
  <2>1. \A a, b \in Nodes : link'[a][b] = IF a = n /\ b = m THEN "connected" ELSE link[a][b]
    BY <1>0, <1>4
  <2>2. Ends
    BY <1>4, <2>1 DEF Ends
  <2>3. Apart'
    BY <1>4, <2>1 DEF Apart
  <2>4. Awaiting'
    BY <1>4, <2>1 DEF Awaiting, Live
  <2> QED BY <2>2, <2>3, <2>4
<1>5. ASSUME NEW n \in Nodes, NEW m \in Nodes, link[n][m] = "requesting",
             NEW f \in [Nodes -> {"none", "requesting", "connected", "failing", "closing", "gone"}],
             \A x \in Nodes : f[x] \in {"connected", "requesting", link[n][x]},
             link' = [link EXCEPT ![n] = f], sess' = Complete(n, f),
             UNCHANGED <<scenario, cut, dropped, fault, acks>>
      PROVE  Ends /\ Apart' /\ Awaiting'
  <2>1. scenario.joins # 0 /\ scenario.breaks = 0
    BY <1>0, <1>5, UnmixedAssumption DEF Apart
  <2>2. /\ \A a, b \in Nodes : link'[a][b] \in {"connected", "requesting", link[a][b]}
        /\ \A a \in Nodes : sess'[a] \in {"connected", sess[a]}
    BY <1>0, <1>5 DEF Complete
  <2>3. Ends
    BY <1>5, <2>1 DEF Ends, Apart
  <2>4. Apart'
    BY <1>5, <2>1, <2>2 DEF Apart
  <2>5. Awaiting'
    BY <1>5, <2>2 DEF Awaiting, Live
  <2> QED BY <2>3, <2>4, <2>5
<1>6. ASSUME NEW n \in Nodes, NEW m \in Nodes, Handle(n, m) PROVE Ends /\ Apart' /\ Awaiting'
  <2>1. CASE \/ HandleUnexpected(n, m) \/ HandleGroupAllocate(n, m) \/ HandleGroupCreate(n, m)
             \/ HandleGroupDestroy(n, m) \/ HandleGroupJoin(n, m) \/ HandleGroupJoined(n, m)
             \/ HandleGroupLeave(n, m) \/ HandleGroupLeft(n, m)
             \/ HandlePlayerinfo(n, m) \/ HandleAppdesc(n, m)
             \/ GroupDestroyed(n, m) \/ UnknownCreated(n, m)
    <3>1. /\ UNCHANGED <<scenario, sess, link, cut, acks>> /\ (~fault' => ~fault)
          /\ dropped \subseteq dropped'
      <4>1. CASE HandleUnexpected(n, m) \/ HandleGroupAllocate(n, m) \/ HandleGroupCreate(n, m)
        BY <4>1 DEF HandleUnexpected, HandleGroupAllocate, HandleGroupCreate, history
      <4>2. CASE HandleGroupDestroy(n, m) \/ HandleGroupJoin(n, m)
        BY <4>2 DEF HandleGroupDestroy, HandleGroupJoin, history
      <4>3. CASE HandleGroupJoined(n, m) \/ HandleGroupLeave(n, m) \/ HandleGroupLeft(n, m)
        BY <4>3 DEF HandleGroupJoined, HandleGroupLeave, HandleGroupLeft, history
      <4>4. CASE HandlePlayerinfo(n, m) \/ HandleAppdesc(n, m)
        BY <4>4 DEF HandlePlayerinfo, HandleAppdesc, history
      <4>5. CASE GroupDestroyed(n, m) \/ UnknownCreated(n, m)
        BY <4>5 DEF GroupDestroyed, UnknownCreated, history
      <4> QED BY <2>1, <4>1, <4>2, <4>3, <4>4, <4>5
    <3> QED BY <1>1, <1>2, <3>1
  <2>2. CASE HandleAck(n, m)
    <3>1. UNCHANGED <<scenario, sess, link, cut, dropped, fault>> /\ acks' = [acks EXCEPT ![n][m] = @ \ {Received(n, m).o}]
      BY <2>2 DEF HandleAck, history
    <3>2. AcksLess
      BY <1>0, <3>1 DEF AcksLess
    <3> QED BY <1>1, <3>1, <3>2
  <2>3. CASE HandleHostConnectRequest(n, m) \/ HandleConnectPeer(n, m)
    <3>1. /\ link[n][m] = "none" /\ link' = [link EXCEPT ![n][m] = "connected"]
          /\ UNCHANGED <<scenario, sess, cut, dropped, fault, acks>>
      BY <2>3 DEF HandleHostConnectRequest, HandleConnectPeer, history
    <3> QED BY <1>4, <3>1
  <2>4. CASE HandleHostConnectOk(n, m)
    <3> DEFINE f == [x \in Nodes |-> IF x = m THEN "connected"
                                          ELSE IF x \in Received(n, m).p THEN "requesting" ELSE link[n][x]]
    <3>1. /\ f \in [Nodes -> {"none", "requesting", "connected", "failing", "closing", "gone"}]
          /\ \A x \in Nodes : f[x] \in {"connected", "requesting", link[n][x]}
      BY <1>0
    <3>2. /\ link[n][m] = "requesting" /\ link' = [link EXCEPT ![n] = f] /\ sess' = Complete(n, link'[n])
          /\ UNCHANGED <<scenario, cut, dropped, fault, acks>>
      BY <2>4 DEF HandleHostConnectOk, history
    <3>3. link'[n] = f
      BY <1>0, <3>2
    <3> HIDE DEF f
    <3> QED BY <1>5, <3>1, <3>2, <3>3
  <2>5. CASE HandleConnectPeerOk(n, m)
    <3> DEFINE f == [link[n] EXCEPT ![m] = "connected"]
    <3>1. /\ f \in [Nodes -> {"none", "requesting", "connected", "failing", "closing", "gone"}]
          /\ \A x \in Nodes : f[x] \in {"connected", "requesting", link[n][x]}
      BY <1>0
    <3>2. /\ link[n][m] = "requesting" /\ link' = [link EXCEPT ![n] = f] /\ sess' = Complete(n, link'[n])
          /\ UNCHANGED <<scenario, cut, dropped, fault, acks>>
      BY <2>5 DEF HandleConnectPeerOk, history
    <3>3. link'[n] = f
      BY <1>0, <3>2
    <3> HIDE DEF f
    <3> QED BY <1>5, <3>1, <3>2, <3>3
  <2> QED BY <1>6, <2>1, <2>2, <2>3, <2>4, <2>5 DEF Handle
<1>7. ASSUME NEW n \in Nodes, NEW m \in Nodes, Write(n, m) PROVE Ends /\ Apart' /\ Awaiting'
  <2>1. UNCHANGED <<scenario, sess, link, cut, dropped, fault>> /\ link[n][m] \in Live
    BY <1>7 DEF Write, Live, history
  <2>2. \A a, b \in Nodes : acks'[a][b] # acks[a][b] => a = n /\ b = m
    <3>1. acks' = acks \/ \E x : acks' = [acks EXCEPT ![n][m] = x]
      BY <1>7 DEF Write, Registered
    <3> QED BY <1>0, <3>1
  <2>3. Awaiting'
    BY <2>1, <2>2 DEF Awaiting, Live
  <2>4. Apart'
    BY <2>1 DEF Apart
  <2>5. Ends
    BY <2>1 DEF Ends
  <2> QED BY <2>3, <2>4, <2>5
<1>8. ASSUME NEW n \in Nodes, NEW m \in Nodes, Break(n, m) PROVE Ends /\ Apart' /\ Awaiting'
  <2>1. /\ UNCHANGED <<scenario, sess, link, acks, dropped, fault>> /\ cut \subseteq cut'
        /\ Cardinality(cut) < scenario.breaks
    BY <1>8 DEF Break, history
  <2>2. scenario.breaks # 0
    <3>1. Cardinality({}) = 0
      BY FS_EmptySet
    <3>2. ~(0 < 0)
      OBVIOUS
    <3> QED BY <2>1, <3>1, <3>2 DEF Apart
  <2>3. Apart'
    BY <2>1, <2>2 DEF Apart
  <2>4. Awaiting' /\ Ends
    BY <2>1 DEF Awaiting, Ends
  <2> QED BY <2>3, <2>4
<1>9. ASSUME NEW n \in Nodes, GroupDestroyAll(n) PROVE Ends /\ Apart' /\ Awaiting'
  <2>1. UNCHANGED <<scenario, sess, link, cut, dropped, fault, acks>>
    BY <1>9 DEF GroupDestroyAll, history
  <2> QED BY <1>1, <1>2, <2>1
<1>10. ASSUME NEW n \in Nodes, NEW m \in Nodes, Lose(n, m) PROVE Ends /\ Apart' /\ Awaiting'
  <2>1. PICK x \in {"none", "failing", "closing", "gone"} : link' = [link EXCEPT ![n][m] = x]
    BY <1>10, LosingStates
  <2>2. \A a, b \in Nodes : link'[a][b] = IF a = n /\ b = m THEN x ELSE link[a][b]
    BY <1>0, <2>1
  <2>3. scenario' = scenario /\ dropped' = dropped /\ fault' = fault /\ cut \subseteq cut' /\ AcksLess
    <3>1. acks' = acks \/ \E o \in acks[n][m] : acks' = Put(acks, n, m, acks[n][m] \ {o})
      BY <1>10, Losing DEF LoseStep, FailStep
    <3>2. AcksLess
      <4>1. CASE acks' = acks
        BY <4>1 DEF AcksLess
      <4>2. ASSUME NEW o \in acks[n][m], acks' = Put(acks, n, m, acks[n][m] \ {o}) PROVE AcksLess
        BY <1>0, <4>2 DEF AcksLess, Put
      <4> QED BY <3>1, <4>1, <4>2
    <3>3. cut \subseteq cut' /\ UNCHANGED <<scenario, info, desc, fault, performed, dropped, early>>
      BY <1>10, LosingStates
    <3> QED BY <3>2, <3>3
  <2>4. scenario.breaks # 0
    BY <1>10 DEF Apart, Lose, PeerDestroy, PeerDestroyAcks, PeerDestroyAgain, PeerErase, PeerEraseEarly, Erase,
                 PeerErased, MayDestroy
  <2>5. Apart'
    <3>1. sess' = sess \/ sess' = [sess EXCEPT ![n] = "terminated"]
      BY <1>10, LosingStates
    <3>2. \A a \in Nodes : sess'[a] = sess[a] \/ sess'[a] = "terminated"
      BY <1>0, <3>1
    <3> QED BY <2>2, <2>3, <2>4, <3>2 DEF Apart
  <2>6. /\ x \in {"failing", "closing"} \/ {n, m} \in cut' \/ link[n][m] = "gone"
        /\ x = "failing" \/ acks'[n][m] = {}
    <3>1. CASE PeerDestroy(n, m) \/ PeerDestroyAcks(n, m)
      <4>1. \/ acks[n][m] = {} /\ acks' = acks /\ link' = [link EXCEPT ![n][m] = "closing"]
            \/ link' = [link EXCEPT ![n][m] = "failing"]
        BY <3>1 DEF PeerDestroy, PeerDestroyAcks, FailAck, Bury
      <4> QED BY <1>0, <2>2, <4>1
    <3>2. CASE PeerDestroyAgain(n, m)
      <4>1. link[n][m] = "closing" /\ link' = link /\ acks' = acks
        BY <3>2 DEF PeerDestroyAgain
      <4> QED BY <2>2, <4>1 DEF Awaiting, Live
    <3>3. CASE PeerErase(n, m) \/ PeerEraseEarly(n, m)
      <4>1. {n, m} \in cut' /\ link[n][m] = "closing" /\ acks' = acks
        BY <3>3 DEF PeerErase, PeerEraseEarly, Erase
      <4> QED BY <4>1 DEF Awaiting, Live
    <3>4. CASE PeerErased(n, m)
      <4>1. link[n][m] = "gone" /\ acks' = acks
        BY <3>4 DEF PeerErased
      <4> QED BY <4>1 DEF Awaiting, Live
    <3> QED BY <1>10, <3>1, <3>2, <3>3, <3>4 DEF Lose
  <2>7. Ends
    BY <2>2, <2>3, <2>6 DEF Ends
  <2>9. Awaiting'
    <3> SUFFICES ASSUME NEW a \in Nodes, NEW b \in Nodes, acks'[a][b] # {} PROVE link'[a][b] \in Live
      BY DEF Awaiting
    <3>1. acks[a][b] # {} /\ link[a][b] \in Live
      BY <2>3 DEF AcksLess, Awaiting
    <3> QED BY <2>2, <2>6, <3>1 DEF Live
  <2> QED BY <2>5, <2>7, <2>9
<1>11. CASE Threading
  <2>1. UNCHANGED <<scenario, sess, link, cut, dropped, fault, acks>>
    BY <1>11 DEF Threading, ThreadTells, ThreadDestroys, ThreadErases, history
  <2> QED BY <1>1, <1>2, <2>1
<1>12. ASSUME NEW n \in Nodes, Connect(n) PROVE Ends /\ Apart' /\ Awaiting'
  <2>1. /\ sess[n] = "out" /\ sess' = [sess EXCEPT ![n] = "connecting"]
        /\ link' = [link EXCEPT ![n][Host] = "requesting"] /\ UNCHANGED <<scenario, cut, dropped, fault, acks>>
    BY <1>12 DEF Connect, history
  <2>2. /\ \A a, b \in Nodes : link'[a][b] = IF a = n /\ b = Host THEN "requesting" ELSE link[a][b]
        /\ \A a \in Nodes : sess'[a] = IF a = n THEN "connecting" ELSE sess[a]
    BY <1>0, <2>1
  <2>3. scenario.joins # 0
    <3> DEFINE S == {m \in Nodes : m \notin scenario.present /\ sess[m] # "out"}
    <3>1. Cardinality(S) \in Nat
      BY NodesFinite
    <3>2. Cardinality(S) < scenario.joins
      BY <1>12 DEF Connect
    <3> HIDE DEF S
    <3> QED BY <3>1, <3>2
  <2>4. scenario.breaks = 0
    BY <1>0, <2>3, UnmixedAssumption
  <2>5. Ends
    BY <2>1, <2>4 DEF Ends, Apart
  <2>6. Apart'
    BY <2>1, <2>2, <2>3 DEF Apart
  <2>7. Awaiting'
    BY <2>1, <2>2 DEF Awaiting, Live
  <2> QED BY <2>5, <2>6, <2>7
<1>13. CASE UNCHANGED vars
  <2>1. UNCHANGED <<scenario, sess, link, cut, dropped, fault, acks>>
    BY <1>13 DEF vars, history
  <2> QED BY <1>1, <1>2, <2>1
<1> QED BY <1>3, <1>6, <1>7, <1>8, <1>9, <1>10, <1>11, <1>12, <1>13 DEF Next, Work, Finished

\* What a queue holds after something has been appended or taken.
LEMMA HasConcat ==
    ASSUME NEW S, NEW q \in Seq(S), NEW s \in Seq(S), NEW T, NEW o, Has(q, T, o) \/ Has(s, T, o)
    PROVE  Has(q \o s, T, o)
<1>1. /\ \A i \in DOMAIN q : i \in DOMAIN (q \o s) /\ (q \o s)[i] = q[i]
      /\ \A j \in DOMAIN s : Len(q) + j \in DOMAIN (q \o s) /\ (q \o s)[Len(q) + j] = s[j]
  BY ConcatElements
<1> QED BY <1>1 DEF Has

LEMMA HasTail ==
    ASSUME NEW S, NEW q \in Seq(S), q # <<>>, NEW T, NEW o, Has(q, T, o)
    PROVE  Has(Tail(q), T, o) \/ (Head(q).t \in T /\ Head(q).o = o)
<1>1. Head(q) = q[1] /\ \A i \in DOMAIN q : i # 1 => i - 1 \in DOMAIN Tail(q) /\ Tail(q)[i - 1] = q[i]
  BY TailElements
<1>2. PICK i \in DOMAIN q : q[i].t \in T /\ q[i].o = o
  BY DEF Has
<1>3. CASE i = 1
  BY <1>1, <1>2, <1>3
<1>4. CASE i # 1
  BY <1>1, <1>2, <1>4 DEF Has
<1> QED BY <1>3, <1>4

LEMMA HasOne ==
    ASSUME NEW p, NEW T, p.t \in T
    PROVE  <<p>> \in Seq({p}) /\ Has(<<p>>, T, p.o)
<1>1. 1 \in DOMAIN <<p>> /\ <<p>>[1] = p
  OBVIOUS
<1> QED BY <1>1, SentTypes DEF Has

\* A packet at the end of a queue, after others.
LEMMA HasLast ==
    ASSUME NEW S, NEW q \in Seq(S), NEW p, NEW T, p.t \in T
    PROVE  /\ Has(q \o <<p>>, T, p.o) /\ Has(Append(q, p), T, p.o)
           /\ \A o : Has(q, T, o) => Has(Append(q, p), T, o)
           /\ \A x : \A b \in {<<>>, <<x>>} : Has(q \o (b \o <<p>>), T, p.o)
<1> DEFINE U == S \cup {p}
<1>1. q \in Seq(U) /\ <<p>> \in Seq(U)
  <2>1. S \subseteq U /\ {p} \subseteq U
    OBVIOUS
  <2> HIDE DEF U
  <2> QED BY <2>1, HasOne, SeqLarger
<1> HIDE DEF U
<1>2. Has(q \o <<p>>, T, p.o) /\ \A o : Has(q, T, o) => Has(q \o <<p>>, T, o)
  BY <1>1, HasOne, HasConcat
<1>3. Append(q, p) = q \o <<p>>
  BY <1>1, AppendIsConcat
<1>4. ASSUME NEW x, NEW b \in {<<>>, <<x>>} PROVE Has(q \o (b \o <<p>>), T, p.o)
  <2> DEFINE V == U \cup {x}
  <2>1. U \subseteq V /\ {p} \subseteq V /\ x \in V
    BY DEF U
  <2> HIDE DEF V
  <2>2. q \in Seq(V) /\ <<p>> \in Seq(V)
    BY <1>1, <2>1, SeqLarger
  <2>3. b \in Seq(V)
    BY <2>1, EmptySeq, SentTypes
  <2> PICK c \in Seq(V) : c = b \o <<p>>
    BY <2>2, <2>3, ConcatProperties
  <2>4. Has(c, T, p.o)
    BY <2>2, <2>3, HasOne, HasConcat
  <2> QED BY <2>2, <2>4, HasConcat
<1> QED BY <1>2, <1>3, <1>4

\* An ack that is queued stays queued.
Keeps(H, H2) == \A a, b \in Nodes : \A o \in OpIds : Has(H[a][b], {"ack"}, o) => Has(H2[a][b], {"ack"}, o)

LEMMA KeepsQueued ==
    ASSUME NEW S, NEW H \in [Nodes -> [Nodes -> Seq(S)]], NEW n \in Nodes, NEW f \in [Nodes -> Seq(S)]
    PROVE  Keeps(H, Queued(H, n, f))
<1> SUFFICES ASSUME NEW a \in Nodes, NEW b \in Nodes, NEW o \in OpIds, Has(H[a][b], {"ack"}, o)
             PROVE  Has(Queued(H, n, f)[a][b], {"ack"}, o)
  BY DEF Keeps
<1>1. Queued(H, n, f)[a][b] = IF a = n THEN H[a][b] \o f[b] ELSE H[a][b]
  <2>1. DOMAIN H = Nodes
    OBVIOUS
  <2> QED BY <2>1, QueuedValue
<1> PICK q \in Seq(S), s \in Seq(S) : q = H[a][b] /\ s = f[b]
  OBVIOUS
<1>2. Has(q \o s, {"ack"}, o)
  BY HasConcat
<1> QED BY <1>1, <1>2

LEMMA KeepsTalking ==
    ASSUME Typed, Talks(Hearsay)
    PROVE  Keeps(high, high')
<1> PICK n \in Nodes, f \in [Nodes -> Seq(Hearsay)] : high' = Queued(high, n, f)
  BY DEF Talks
<1>1. f \in [Nodes -> Seq(FitPkts(Kinds))]
  BY HearsayFits, SeqLarger
<1>2. high \in [Nodes -> [Nodes -> Seq(FitPkts(Kinds))]]
  BY DEF Typed, Packeted, QueueSet
<1> QED BY <1>1, <1>2, KeepsQueued

\* An answer is queued.
LEMMA AckQueued ==
    ASSUME Typed, NEW n \in Nodes, NEW m \in Nodes, NEW o, NEW r, NEW g, NEW x,
           LET p == AckPacket(o, r, g)
           IN  \/ high' = Queued(high, n, To(m, <<p>>))
               \/ high' = Queued(high, n, Both(Broadcast(n, x), To(m, <<p>>)))
    PROVE  Has(high'[n][m], {"ack"}, o)
<1> PICK p : p = AckPacket(o, r, g)
  OBVIOUS
<1>1. p.t \in {"ack"} /\ p.o = o
  BY AckFields
<1>2. high \in [Nodes -> [Nodes -> Seq(FitPkts(Kinds))]]
  BY DEF Typed, Packeted, QueueSet
<1> PICK q \in Seq(FitPkts(Kinds)) : q = high[n][m]
  BY <1>2
<1>3. DOMAIN high = Nodes
  BY <1>2
<1>4. CASE high' = Queued(high, n, To(m, <<p>>))
  <2> PICK f : f = To(m, <<p>>)
    OBVIOUS
  <2>1. f[m] = <<p>>
    BY DEF To
  <2>2. Queued(high, n, f)[n][m] = q \o <<p>>
    <3>1. Queued(high, n, f)[n][m] = high[n][m] \o f[m]
      BY <1>3 DEF Queued
    <3> QED BY <2>1, <3>1
  <2> QED BY <1>1, <1>4, <2>2, HasLast
<1>5. CASE high' = Queued(high, n, Both(Broadcast(n, x), To(m, <<p>>)))
  <2> PICK f : f = Both(Broadcast(n, x), To(m, <<p>>))
    OBVIOUS
  <2> PICK b : b = Broadcast(n, x)[m]
    OBVIOUS
  <2>1. b \in {<<>>, <<x>>} /\ f[m] = b \o <<p>>
    BY DEF Both, Broadcast, To
  <2>2. Queued(high, n, f)[n][m] = q \o (b \o <<p>>)
    <3>1. Queued(high, n, f)[n][m] = high[n][m] \o f[m]
      BY <1>3 DEF Queued
    <3> QED BY <2>1, <3>1
  <2>3. Has(q \o (b \o <<p>>), {"ack"}, p.o)
    BY <1>1, <2>1, HasLast
  <2> QED BY <1>1, <1>5, <2>2, <2>3
<1> QED BY <1>4, <1>5

\* Every ack that is awaited after a step is on its way, if it was before, or is over.
LEMMA AnswersMoved ==
    ASSUME Answers, Ends,
           ASSUME ~fault', NEW n \in Nodes, NEW m \in Nodes, NEW o \in acks'[n][m]
           PROVE  \/ Travels(wire'[n][m], high'[m][n], wire'[m][n], reading'[m][n], o)
                  \/ Over(dropped', cut', link', n, m, o)
                  \/ o \in acks[n][m] /\ ~Travels(wire[n][m], high[m][n], wire[m][n], reading[m][n], o)
    PROVE  Answers'
<1>1. ASSUME ~fault', NEW n \in Nodes, NEW m \in Nodes, NEW o \in acks'[n][m]
      PROVE  \/ Travels(wire'[n][m], high'[m][n], wire'[m][n], reading'[m][n], o)
             \/ Over(dropped', cut', link', n, m, o)
  <2>1. CASE o \in acks[n][m] /\ ~Travels(wire[n][m], high[m][n], wire[m][n], reading[m][n], o)
    <3>1. AnswersOf(wire, high, reading, acks, dropped, cut, link)
      BY <1>1 DEF Answers, Ends
    <3>2. Over(dropped, cut, link, n, m, o)
      BY <2>1, <3>1 DEF AnswersOf
    <3>3. {m, n} = {n, m}
      OBVIOUS
    <3>4. Over(dropped', cut', link', n, m, o)
      BY <3>2, <3>3 DEF Over, Ends
    <3> QED BY <3>4
  <2> QED BY <1>1, <2>1
<1>2. ~fault' => AnswersOf(wire', high', reading', acks', dropped', cut', link')
  BY <1>1 DEF AnswersOf
<1> QED BY <1>2 DEF Answers

\* Handlers that have put an answer off go on, or give it.
PutOff(R, H2, R2) ==
    \A a, b \in Nodes : R[a][b].at = "join" => R2[a][b] = R[a][b] \/ Has(H2[a][b], {"ack"}, R[a][b].o)

\* Nothing is read.
LEMMA AnswersStill ==
    ASSUME Typed, Answers, Ends, AcksLess, wire' = wire,
           fault' \/ (Keeps(high, high') /\ PutOff(reading, high', reading'))
    PROVE  Answers'
<1>1. ASSUME ~fault', NEW n \in Nodes, NEW m \in Nodes, NEW o \in acks'[n][m],
             Travels(wire[n][m], high[m][n], wire[m][n], reading[m][n], o)
      PROVE  Travels(wire'[n][m], high'[m][n], wire'[m][n], reading'[m][n], o)
  <2>1. o \in OpIds
    BY DEF Typed, Counted, AcksLess
  <2>2. Has(high[m][n], {"ack"}, o) => Has(high'[m][n], {"ack"}, o)
    BY <1>1, <2>1 DEF Keeps
  <2>3. reading[m][n].at = "join" /\ reading[m][n].o = o =>
           \/ reading'[m][n].at = "join" /\ reading'[m][n].o = o
           \/ Has(high'[m][n], {"ack"}, o)
    BY <1>1 DEF PutOff
  <2>4. wire'[n][m] = wire[n][m] /\ wire'[m][n] = wire[m][n]
    OBVIOUS
  <2> QED BY <1>1, <2>2, <2>3, <2>4 DEF Travels
<1>2. \A n, m \in Nodes : acks'[n][m] \subseteq acks[n][m]
  BY DEF AcksLess
<1> QED BY <1>1, <1>2, AnswersMoved

\* n reads a packet of m that is no ack; if it asks for one, then that is sent or put off, or
\* the packet is refused.
Given(n, m, o) ==
    \/ Has(high'[n][m], {"ack"}, o) \/ (reading'[n][m].at = "join" /\ reading'[n][m].o = o)
    \/ <<m, n, o>> \in dropped'

LEMMA AnswersTaken ==
    ASSUME Typed, Answers, Ends, NEW n \in Nodes, NEW m \in Nodes, NEW t, t # "ack", Take(n, m, t), acks' = acks,
           Keeps(high, high'), PutOff(reading, high', reading'),
           t \in Requests => Given(n, m, Received(n, m).o)
    PROVE  Answers'
<1> PICK p : p = Received(n, m)
  OBVIOUS
<1>1. /\ wire[m][n] # <<>> /\ p = Head(wire[m][n]) /\ p.t = t
      /\ \A a, b \in Nodes : wire'[a][b] = IF a = m /\ b = n THEN Tail(wire[a][b]) ELSE wire[a][b]
  BY Receiving DEF Received
<1>2. \A a, b \in Nodes : wire[a][b] \in Seq(FitPkts(Kinds))
  BY DEF Typed, Packeted, QueueSet
<1>3. ASSUME NEW a \in Nodes, NEW b \in Nodes, NEW T, NEW o, Has(wire[a][b], T, o)
      PROVE  Has(wire'[a][b], T, o) \/ (a = m /\ b = n /\ t \in T /\ p.o = o)
  <2>1. CASE a = m /\ b = n
    <3>1. Has(Tail(wire[m][n]), T, o) \/ (Head(wire[m][n]).t \in T /\ Head(wire[m][n]).o = o)
      BY <1>1, <1>2, <1>3, <2>1, HasTail
    <3> QED BY <1>1, <2>1, <3>1
  <2>2. CASE ~(a = m /\ b = n)
    BY <1>1, <1>3, <2>2
  <2> QED BY <2>1, <2>2
<1>4. ASSUME ~fault', NEW a \in Nodes, NEW b \in Nodes, NEW o \in acks'[a][b],
             Travels(wire[a][b], high[b][a], wire[b][a], reading[b][a], o)
      PROVE  \/ Travels(wire'[a][b], high'[b][a], wire'[b][a], reading'[b][a], o)
             \/ Over(dropped', cut', link', a, b, o)
  <2>1. o \in OpIds
    BY DEF Typed, Counted
  <2>2. Has(high[b][a], {"ack"}, o) => Has(high'[b][a], {"ack"}, o)
    BY <2>1 DEF Keeps
  <2>3. reading[b][a].at = "join" /\ reading[b][a].o = o =>
           \/ reading'[b][a].at = "join" /\ reading'[b][a].o = o
           \/ Has(high'[b][a], {"ack"}, o)
    BY DEF PutOff
  <2>4. Has(wire[b][a], {"ack"}, o) => Has(wire'[b][a], {"ack"}, o)
    BY <1>3
  <2>5. Has(wire[a][b], Requests, o) =>
           Has(wire'[a][b], Requests, o) \/ (a = m /\ b = n /\ t \in Requests /\ p.o = o)
    BY <1>3
  <2>6. a = m /\ b = n /\ t \in Requests /\ p.o = o =>
           \/ Has(high'[b][a], {"ack"}, o) \/ (reading'[b][a].at = "join" /\ reading'[b][a].o = o)
           \/ <<a, b, o>> \in dropped'
    BY DEF Given
  <2> QED BY <1>4, <2>2, <2>3, <2>4, <2>5, <2>6 DEF Travels, Over
<1> QED BY <1>4, AnswersMoved

\* A handler that reads is in no indication.
LEMMA PutOffTaken ==
    ASSUME Typed, NEW n \in Nodes, NEW m \in Nodes, NEW t, Take(n, m, t), NEW d,
           reading' = reading \/ reading' = [reading EXCEPT ![n][m] = d]
    PROVE  PutOff(reading, high', reading')
<1>1. reading \in [Nodes -> [Nodes -> Readings]]
  BY DEF Typed, Tabled
<1>2. reading[n][m].at = "idle"
  BY TakesIdle
<1>3. \A a, b \in Nodes : reading'[a][b] = reading[a][b] \/ (a = n /\ b = m)
  BY <1>1
<1> QED BY <1>2, <1>3 DEF PutOff

\* The handlers.
LEMMA AnswersHandled ==
    ASSUME Typed, Asking, Answers, Ends, NEW n \in Nodes, NEW m \in Nodes,
           \/ HandleUnexpected(n, m) \/ HandleGroupCreate(n, m) \/ HandleGroupDestroy(n, m) \/ HandleGroupLeft(n, m)
           \/ HandleAppdesc(n, m) \/ HandlePlayerinfo(n, m)
    PROVE  Answers'
<1>1. Keeps(high, high') /\ acks' = acks
  BY GroupHandlersHeard, KeepsTalking DEF Heard
<1>2. CASE HandleUnexpected(n, m)
  <2>1. PICK t \in {"allocate", "join", "joined", "leave", "left", "info", "desc"} : Take(n, m, t)
    BY <1>2 DEF HandleUnexpected
  <2>2. PutOff(reading, high', reading')
    BY <1>2, <2>1, PutOffTaken DEF HandleUnexpected
  <2>3. Given(n, m, Received(n, m).o)
    BY <1>2 DEF HandleUnexpected, Given
  <2> QED BY <1>1, <2>1, <2>2, <2>3, AnswersTaken
<1>3. CASE HandleGroupCreate(n, m) \/ HandleGroupLeft(n, m) \/ HandleAppdesc(n, m)
  <2>1. PICK t \in {"create", "left", "desc"} : Take(n, m, t) /\ reading' = reading
    BY <1>3 DEF HandleGroupCreate, HandleGroupLeft, HandleAppdesc
  <2>2. PutOff(reading, high', reading') /\ t \notin Requests
    BY <2>1, PutOffTaken DEF Requests
  <2> QED BY <1>1, <2>1, <2>2, AnswersTaken
<1>4. CASE HandleGroupDestroy(n, m)
  <2>1. Take(n, m, "destroy") /\ \E d : reading' = reading \/ reading' = [reading EXCEPT ![n][m] = d]
    BY <1>4 DEF HandleGroupDestroy
  <2>2. PutOff(reading, high', reading') /\ "destroy" \notin Requests
    BY <2>1, PutOffTaken DEF Requests
  <2> QED BY <1>1, <2>1, <2>2, AnswersTaken
<1>5. CASE HandlePlayerinfo(n, m)
  <2>1. Take(n, m, "info") /\ reading' = reading
    BY <1>5 DEF HandlePlayerinfo
  <2>2. PutOff(reading, high', reading')
    BY <2>1, PutOffTaken
  <2>3. Has(high'[n][m], {"ack"}, Received(n, m).o)
    BY <1>5, AckQueued DEF HandlePlayerinfo, Acknowledge
  <2> QED BY <1>1, <2>1, <2>2, <2>3, AnswersTaken DEF Given
<1> QED BY <1>2, <1>3, <1>4, <1>5

LEMMA AnswersJoining ==
    ASSUME Typed, Asking, Answers, Ends, NEW n \in Nodes, NEW m \in Nodes,
           HandleGroupJoin(n, m) \/ HandleGroupJoined(n, m) \/ HandleGroupLeave(n, m)
    PROVE  Answers'
<1>1. Keeps(high, high') /\ acks' = acks
  BY JoinHandlersHeard, KeepsTalking DEF Heard
<1> PICK p : p = Received(n, m)
  OBVIOUS
<1>2. CASE HandleGroupJoined(n, m)
  <2>1. Take(n, m, "joined") /\ \E d : reading' = reading \/ reading' = [reading EXCEPT ![n][m] = d]
    BY <1>2 DEF HandleGroupJoined, CreateUnknown
  <2>2. PutOff(reading, high', reading') /\ "joined" \notin Requests
    BY <2>1, PutOffTaken DEF Requests
  <2> QED BY <1>1, <2>1, <2>2, AnswersTaken
<1>3. CASE HandleGroupLeave(n, m)
  <2>1. Take(n, m, "leave") /\ reading' = reading
    BY <1>3 DEF HandleGroupLeave
  <2>2. PutOff(reading, high', reading')
    BY <2>1, PutOffTaken
  <2>3. \/ \E r : high' = Queued(high, n, To(m, <<AckPacket(p.o, r, 0)>>))
        \/ \E x : high' = Queued(high, n, Both(Broadcast(n, x), To(m, <<AckPacket(p.o, "ok", 0)>>)))
        \/ <<m, n, p.o>> \in dropped'
    BY <1>3 DEF HandleGroupLeave, Acknowledge, LeaveAnswer
  <2>4. Given(n, m, p.o)
    BY <2>3, AckQueued DEF Given
  <2> QED BY <1>1, <2>1, <2>2, <2>4, AnswersTaken
<1>4. CASE HandleGroupJoin(n, m)
  <2>1. Take(n, m, "join") /\ \E d : reading' = reading \/ reading' = [reading EXCEPT ![n][m] = d]
    BY <1>4 DEF HandleGroupJoin, CreateUnknown
  <2>2. PutOff(reading, high', reading')
    BY <2>1, PutOffTaken
  <2>3. \/ \E r : high' = Queued(high, n, To(m, <<AckPacket(p.o, r, 0)>>))
        \/ \E x : high' = Queued(high, n, Both(Broadcast(n, x), To(m, <<AckPacket(p.o, "ok", 0)>>)))
        \/ reading' = [reading EXCEPT ![n][m] = [at |-> "join", g |-> p.g, o |-> p.o]]
    BY <1>4 DEF HandleGroupJoin, Acknowledge, JoinAnswer, CreateUnknown
  <2>4. Given(n, m, p.o)
    <3>1. reading' = [reading EXCEPT ![n][m] = [at |-> "join", g |-> p.g, o |-> p.o]] =>
             reading'[n][m].at = "join" /\ reading'[n][m].o = p.o
      BY DEF Typed, Tabled
    <3> QED BY <2>3, <3>1, AckQueued DEF Given
  <2> QED BY <1>1, <2>1, <2>2, <2>4, AnswersTaken
<1> QED BY <1>2, <1>3, <1>4

\* Connections are made, break, and indications return.
LEMMA AnswersElse ==
    ASSUME Typed, Asking, Answers, Ends, NEW n \in Nodes, NEW m \in Nodes,
           \/ HandleHostConnectRequest(n, m) \/ HandleHostConnectOk(n, m)
           \/ HandleConnectPeer(n, m) \/ HandleConnectPeerOk(n, m)
           \/ Connect(n) \/ Break(n, m) \/ GroupDestroyAll(n) \/ GroupDestroyed(n, m)
    PROVE  Answers'
<1>1. Keeps(high, high') /\ acks' = acks
  BY GroupHandlersHeard, WelcomesHeard, OthersHeard, KeepsTalking DEF Heard
<1>2. CASE \/ HandleHostConnectRequest(n, m) \/ HandleHostConnectOk(n, m)
           \/ HandleConnectPeer(n, m) \/ HandleConnectPeerOk(n, m)
  <2>1. PICK t \in {"request", "host_ok", "connect", "peer_ok"} : Take(n, m, t) /\ reading' = reading
    BY <1>2 DEF HandleHostConnectRequest, HandleHostConnectOk, HandleConnectPeer, HandleConnectPeerOk
  <2>2. PutOff(reading, high', reading') /\ t \notin Requests
    BY <2>1, PutOffTaken DEF Requests
  <2> QED BY <1>1, <2>1, <2>2, AnswersTaken
<1>3. AcksLess
  BY <1>1 DEF AcksLess
<1>4. CASE Connect(n) \/ Break(n, m) \/ GroupDestroyAll(n) \/ GroupDestroyed(n, m)
  <2>1. wire' = wire
    BY <1>4 DEF Connect, Break, GroupDestroyAll, GroupDestroyed
  <2>2. \A a, b \in Nodes : reading[a][b].at = "join" => reading'[a][b] = reading[a][b]
    <3>1. reading \in [Nodes -> [Nodes -> Readings]] /\ Idle.at # "join"
      BY DEF Typed, Tabled, Idle
    <3>2. CASE Connect(n) \/ Break(n, m)
      BY <3>2 DEF Connect, Break
    <3>3. CASE GroupDestroyed(n, m)
      BY <3>1, <3>3 DEF GroupDestroyed
    <3>4. CASE GroupDestroyAll(n)
      <4>1. reading[n][n] = Idle /\ \E d : reading' = reading \/ reading' = [reading EXCEPT ![n][n] = d]
        BY <3>4 DEF GroupDestroyAll
      <4> QED BY <3>1, <4>1
    <3> QED BY <1>4, <3>2, <3>3, <3>4
  <2>3. PutOff(reading, high', reading')
    BY <2>2 DEF PutOff
  <2> QED BY <1>1, <1>3, <2>1, <2>3, AnswersStill
<1> QED BY <1>2, <1>4

\* CREATE_GROUP has returned: the answer that was put off is given.
LEMMA AnswersUnknown ==
    ASSUME Typed, Asking, Answers, Ends, NEW n \in Nodes, NEW m \in Nodes, UnknownCreated(n, m)
    PROVE  Answers'
<1>1. Keeps(high, high') /\ acks' = acks
  BY JoinHandlersHeard, KeepsTalking DEF Heard
<1>2. wire' = wire /\ AcksLess
  BY <1>1 DEF UnknownCreated, AcksLess
<1>3. ASSUME ~fault' PROVE PutOff(reading, high', reading')
  <2>1. reading \in [Nodes -> [Nodes -> Readings]]
    BY DEF Typed, Tabled
  <2>2. \A a, b \in Nodes : reading'[a][b] = reading[a][b] \/ (a = n /\ b = m)
    BY <2>1 DEF UnknownCreated
  <2>3. reading[n][m].at = "join" =>
           high' = Queued(high, n, To(m, <<AckPacket(reading[n][m].o, "invalidgroup", 0)>>))
    BY <1>3 DEF UnknownCreated
  <2>4. reading[n][m].at = "join" => Has(high'[n][m], {"ack"}, reading[n][m].o)
    BY <2>3, AckQueued
  <2> QED BY <2>2, <2>4 DEF PutOff
<1> QED BY <1>1, <1>2, <1>3, AnswersStill

\* A request is written, and its ack awaited; an ack is written.
LEMMA AnswersWritten ==
    ASSUME Typed, Answers, Ends, NEW n \in Nodes, NEW m \in Nodes, Write(n, m)
    PROVE  Answers'
<1>1. PICK p \in FitPkts(Kinds) : WriteStep(n, m, p)
  BY Writing
<1>2. /\ \A a, b \in Nodes : /\ wire[a][b] \in Seq(FitPkts(Kinds)) /\ high[a][b] \in Seq(FitPkts(Kinds))
      /\ \A q : \A a, b \in Nodes : Put(high, n, m, q)[a][b] = IF a = n /\ b = m THEN q ELSE high[a][b]
      /\ \A q : \A a, b \in Nodes : Put(wire, n, m, q)[a][b] = IF a = n /\ b = m THEN q ELSE wire[a][b]
      /\ \A q : \A a, b \in Nodes : Put(acks, n, m, q)[a][b] = IF a = n /\ b = m THEN q ELSE acks[a][b]
  BY DEF Typed, Packeted, QueueSet, Counted, Put
<1>3. /\ reading' = reading /\ dropped' = dropped /\ cut' = cut /\ link' = link
  BY DEF Write, history
<1>4. /\ \A a, b \in Nodes : \A T, o : Has(wire[a][b], T, o) => Has(wire'[a][b], T, o)
      /\ \A T : p.t \in T => {n, m} \in cut \/ Has(wire'[n][m], T, p.o)
  <2>1. /\ \A T, o : Has(wire[n][m], T, o) => Has(Append(wire[n][m], p), T, o)
        /\ \A T : p.t \in T => Has(Append(wire[n][m], p), T, p.o)
    <3>1. ASSUME NEW T, NEW o, Has(wire[n][m], T, o) PROVE Has(Append(wire[n][m], p), T, o)
      <4> PICK w \in Seq(FitPkts(Kinds)) : w = wire[n][m]
        BY <1>2
      <4>1. <<p>> \in Seq(FitPkts(Kinds))
        BY SentTypes
      <4>2. Has(w \o <<p>>, T, o)
        BY <3>1, <4>1, HasConcat
      <4>3. Append(w, p) = w \o <<p>>
        BY AppendIsConcat
      <4> QED BY <4>2, <4>3
    <3>2. ASSUME NEW T, p.t \in T PROVE Has(Append(wire[n][m], p), T, p.o)
      BY <1>2, <3>2, HasLast
    <3> QED BY <3>1, <3>2
  <2>2. CASE {n, m} \in cut
    BY <1>1, <2>2 DEF WriteStep
  <2>3. CASE {n, m} \notin cut
    <3>1. \A a, b \in Nodes : wire'[a][b] = IF a = n /\ b = m THEN Append(wire[n][m], p) ELSE wire[a][b]
      BY <1>1, <1>2, <2>3 DEF WriteStep
    <3> QED BY <2>1, <3>1
  <2> QED BY <2>2, <2>3
<1>5. ASSUME NEW a \in Nodes, NEW b \in Nodes, NEW o, Has(high[a][b], {"ack"}, o)
      PROVE  Has(high'[a][b], {"ack"}, o) \/ (a = n /\ b = m /\ p.t = "ack" /\ p.o = o)
  <2>1. CASE /\ high[n][m] # <<>> /\ p = Head(high[n][m])
             /\ high' = Put(high, n, m, Tail(high[n][m])) /\ medium' = medium
    <3>1. high'[a][b] = IF a = n /\ b = m THEN Tail(high[n][m]) ELSE high[a][b]
      BY <1>2, <2>1
    <3>2. CASE a = n /\ b = m
      <4>1. Has(Tail(high[n][m]), {"ack"}, o) \/ (Head(high[n][m]).t \in {"ack"} /\ Head(high[n][m]).o = o)
        BY <1>2, <1>5, <2>1, <3>2, HasTail
      <4> QED BY <2>1, <3>1, <3>2, <4>1
    <3> QED BY <1>5, <3>1, <3>2
  <2>2. CASE high' = high
    BY <1>5, <2>2
  <2> QED BY <1>1, <2>1, <2>2 DEF WriteStep
<1>6. \A a, b \in Nodes : acks'[a][b] = acks[a][b]
                          \/ (a = n /\ b = m /\ p.t \in Requests /\ acks'[a][b] = acks[a][b] \cup {p.o})
  <2>1. p.cb = "register" => p.t \in Requests
    BY DEF FitPkts, Fits
  <2> QED BY <1>1, <1>2, <2>1 DEF WriteStep
<1>7. {n, m} = {m, n}
  OBVIOUS
<1>8. ASSUME ~fault', NEW a \in Nodes, NEW b \in Nodes, NEW o \in acks'[a][b]
      PROVE  \/ Travels(wire'[a][b], high'[b][a], wire'[b][a], reading'[b][a], o)
             \/ Over(dropped', cut', link', a, b, o)
             \/ o \in acks[a][b] /\ ~Travels(wire[a][b], high[b][a], wire[b][a], reading[b][a], o)
  <2>1. CASE o \notin acks[a][b]
    <3>1. a = n /\ b = m /\ p.t \in Requests /\ o = p.o
      BY <1>6, <2>1
    <3>2. {n, m} \in cut' \/ Has(wire'[n][m], Requests, p.o)
      BY <1>3, <1>4, <3>1
    <3> QED BY <3>1, <3>2 DEF Travels, Over
  <2>2. CASE Travels(wire[a][b], high[b][a], wire[b][a], reading[b][a], o)
    <3>1. /\ Has(wire[a][b], Requests, o) => Has(wire'[a][b], Requests, o)
          /\ Has(wire[b][a], {"ack"}, o) => Has(wire'[b][a], {"ack"}, o)
      BY <1>4
    <3>2. Has(high[b][a], {"ack"}, o) => \/ Has(high'[b][a], {"ack"}, o) \/ Has(wire'[b][a], {"ack"}, o)
                                         \/ {a, b} \in cut'
      <4>1. p.t = "ack" => {n, m} \in cut' \/ Has(wire'[n][m], {"ack"}, p.o)
        BY <1>3, <1>4
      <4>2. b = n /\ a = m => {a, b} = {n, m}
        OBVIOUS
      <4> QED BY <1>5, <4>1, <4>2
    <3> QED BY <1>3, <2>2, <3>1, <3>2 DEF Travels, Over
  <2> QED BY <2>1, <2>2
<1> QED BY <1>8, AnswersMoved

\* An ack is read, and no longer awaited.
LEMMA AnswersAcked ==
    ASSUME Typed, Asking, Answers, Ends, NEW n \in Nodes, NEW m \in Nodes, HandleAck(n, m)
    PROVE  Answers'
<1>1. PICK p \in FitPkts(Kinds), S \in SUBSET Nodes : AckStep(n, m, p, S)
  BY Acking
<1>2. /\ \A a, b \in Nodes : wire[a][b] \in Seq(FitPkts(Kinds))
      /\ \A q : \A a, b \in Nodes : Put(wire, m, n, q)[a][b] = IF a = m /\ b = n THEN q ELSE wire[a][b]
      /\ \A q : \A a, b \in Nodes : Put(acks, n, m, q)[a][b] = IF a = n /\ b = m THEN q ELSE acks[a][b]
  <2>1. wire \in [Nodes -> [Nodes -> Seq(FitPkts(Kinds))]]
    BY DEF Typed, Packeted, QueueSet
  <2>2. acks \in [Nodes -> [Nodes -> SUBSET OpIds]]
    BY DEF Typed, Counted
  <2>3. \A q : \A a, b \in Nodes : Put(wire, m, n, q)[a][b] = IF a = m /\ b = n THEN q ELSE wire[a][b]
    BY <2>1 DEF Put
  <2>4. \A q : \A a, b \in Nodes : Put(acks, n, m, q)[a][b] = IF a = n /\ b = m THEN q ELSE acks[a][b]
    BY <2>2 DEF Put
  <2> QED BY <2>1, <2>3, <2>4
<1>3. /\ p.t = "ack" /\ wire[m][n] # <<>> /\ p = Head(wire[m][n])
      /\ \A a, b \in Nodes : wire'[a][b] = IF a = m /\ b = n THEN Tail(wire[m][n]) ELSE wire[a][b]
      /\ \A a, b \in Nodes : acks'[a][b] = IF a = n /\ b = m THEN acks[n][m] \ {p.o} ELSE acks[a][b]
  BY <1>1, <1>2 DEF AckStep
<1>4. Keeps(high, high')
  <2>1. high \in [Nodes -> [Nodes -> Seq(FitPkts(Kinds))]]
    BY DEF Typed, Packeted, QueueSet
  <2>2. CASE high' = high
    BY <2>2 DEF Keeps
  <2>3. CASE Announces(n, m, p, S)
    <3> PICK x : x = Packet("create", p.g, p.o, "count")
      OBVIOUS
    <3>1. x \in Pkts
      <4>1. "create" \in PacketTypes /\ p.g \in Nat /\ p.o \in 0..MaxOps
        BY DEF PacketTypes, FitPkts, Pkts
      <4> QED BY <4>1, PacketFields
    <3>2. high \in [Nodes -> [Nodes -> Seq(Pkts)]]
      <4>1. FitPkts(Kinds) \subseteq Pkts
        BY DEF FitPkts
      <4>2. \A a, b \in Nodes : high[a][b] \in Seq(Pkts)
        BY <2>1, <4>1, SeqLarger
      <4> QED BY <2>1, <4>2
    <3>3. Send(S, x) \in [Nodes -> Seq(Pkts)]
      BY <3>1, SendForms
    <3> PICK f \in [Nodes -> Seq(Pkts)] : f = Send(S, x)
      BY <3>3
    <3>4. high' = Queued(high, n, f)
      BY <2>3 DEF Announces
    <3> QED BY <3>2, <3>4, KeepsQueued
  <2> QED BY <1>1, <2>2, <2>3 DEF AckStep
<1>5. reading' = reading
  BY DEF HandleAck
<1>6. ASSUME NEW a \in Nodes, NEW b \in Nodes, NEW T, NEW o, Has(wire[a][b], T, o)
      PROVE  Has(wire'[a][b], T, o) \/ (a = m /\ b = n /\ "ack" \in T /\ o = p.o)
  <2>1. CASE a = m /\ b = n
    <3>1. Has(Tail(wire[m][n]), T, o) \/ (Head(wire[m][n]).t \in T /\ Head(wire[m][n]).o = o)
      BY <1>2, <1>3, <1>6, <2>1, HasTail
    <3> QED BY <1>3, <2>1, <3>1
  <2>2. CASE ~(a = m /\ b = n)
    BY <1>3, <1>6, <2>2
  <2> QED BY <2>1, <2>2
<1>7. ASSUME ~fault', NEW a \in Nodes, NEW b \in Nodes, NEW o \in acks'[a][b],
             Travels(wire[a][b], high[b][a], wire[b][a], reading[b][a], o)
      PROVE  Travels(wire'[a][b], high'[b][a], wire'[b][a], reading'[b][a], o)
  <2>1. o \in OpIds /\ ~(a = n /\ b = m /\ o = p.o)
    BY <1>3 DEF Typed, Counted
  <2>2. Has(wire[a][b], Requests, o) => Has(wire'[a][b], Requests, o)
    BY <1>6 DEF Requests
  <2>3. Has(wire[b][a], {"ack"}, o) => Has(wire'[b][a], {"ack"}, o)
    BY <1>6, <2>1
  <2>4. Has(high[b][a], {"ack"}, o) => Has(high'[b][a], {"ack"}, o)
    BY <1>4, <2>1 DEF Keeps
  <2> QED BY <1>5, <1>7, <2>2, <2>3, <2>4 DEF Travels
<1>8. \A a, b \in Nodes : acks'[a][b] \subseteq acks[a][b]
  BY <1>3
<1> QED BY <1>7, <1>8, AnswersMoved

LEMMA AnswersOffered ==
    ASSUME Typed, Asking, Answers, Ends, NEW n \in Nodes, NEW m \in Nodes, HandleGroupAllocate(n, m)
    PROVE  Answers'
<1>1. Take(n, m, "allocate") /\ reading' = reading /\ acks' = acks
  BY DEF HandleGroupAllocate
<1>2. PICK p \in FitPkts(Kinds) : Offer(n, m, p)
  BY Allocated
<1>3. Keeps(high, high')
  <2>1. Send({m}, p) \in [Nodes -> Seq(FitPkts(Kinds))]
    BY SendForms
  <2> PICK f \in [Nodes -> Seq(FitPkts(Kinds))] : f = Send({m}, p)
    BY <2>1
  <2>2. high' = Queued(high, n, f)
    BY <1>2 DEF Offer
  <2>3. high \in [Nodes -> [Nodes -> Seq(FitPkts(Kinds))]]
    BY DEF Typed, Packeted, QueueSet
  <2> QED BY <2>2, <2>3, KeepsQueued
<1>4. PutOff(reading, high', reading')
  BY <1>1, PutOffTaken
<1>5. Has(high'[n][m], {"ack"}, Received(n, m).o)
  BY AckQueued DEF HandleGroupAllocate, Acknowledge
<1> QED BY <1>1, <1>3, <1>4, <1>5, AnswersTaken DEF Given

\* What is lost with a connection is over.
LEMMA AnswersLost ==
    ASSUME Typed, Answers, Ends, NEW n \in Nodes, NEW m \in Nodes, Lose(n, m)
    PROVE  Answers'
<1>1. reading' = reading /\ \A a, b \in Nodes : acks'[a][b] \subseteq acks[a][b]
  <2>1. acks \in [Nodes -> [Nodes -> SUBSET OpIds]]
    BY DEF Typed, Counted
  <2>2. acks' = acks \/ \E o \in acks[n][m] : acks' = Put(acks, n, m, acks[n][m] \ {o})
    BY Losing DEF LoseStep, FailStep
  <2> QED BY <2>1, <2>2, Losing DEF Put
<1>2. \/ /\ {n, m} \in cut'
         /\ high' = [high EXCEPT ![n][m] = <<>>] /\ wire' = [wire EXCEPT ![m][n] = <<>>]
      \/ /\ wire' = wire /\ link'[n][m] \in {"failing", "closing"}
         /\ high' = high \/ high' = [high EXCEPT ![n][m] = <<>>]
      \/ wire' = wire /\ high' = high
  <2>1. CASE PeerDestroy(n, m) \/ PeerDestroyAcks(n, m)
    <3>1. wire' = wire /\ (high' = high \/ high' = [high EXCEPT ![n][m] = <<>>])
      BY <2>1 DEF PeerDestroy, PeerDestroyAcks, queues
    <3>2. link' = [link EXCEPT ![n][m] = "closing"] \/ link' = [link EXCEPT ![n][m] = "failing"]
      BY <2>1 DEF PeerDestroy, PeerDestroyAcks, FailAck, Bury
    <3>3. link'[n][m] \in {"failing", "closing"}
      BY <3>2 DEF Typed, Tabled
    <3> QED BY <3>1, <3>3
  <2>2. CASE PeerDestroyAgain(n, m)
    BY <2>2 DEF PeerDestroyAgain
  <2>3. CASE PeerErase(n, m) \/ PeerEraseEarly(n, m)
    BY <2>3 DEF PeerErase, PeerEraseEarly, Erase
  <2>4. CASE PeerErased(n, m)
    BY <2>4 DEF PeerErased, queues
  <2> QED BY <2>1, <2>2, <2>3, <2>4 DEF Lose
<1>3. /\ high \in [Nodes -> [Nodes -> Seq(FitPkts(Kinds))]] /\ wire \in [Nodes -> [Nodes -> Seq(FitPkts(Kinds))]]
  BY DEF Typed, Packeted, QueueSet
<1>4. CASE /\ {n, m} \in cut'
           /\ high' = [high EXCEPT ![n][m] = <<>>] /\ wire' = [wire EXCEPT ![m][n] = <<>>]
  <2>1. {m, n} \in cut'
    <3>1. {n, m} = {m, n}
      OBVIOUS
    <3> QED BY <1>4, <3>1
  <2>2. \A a, b \in Nodes : ~(a = n /\ b = m) /\ ~(a = m /\ b = n) =>
           wire'[a][b] = wire[a][b] /\ high'[a][b] = high[a][b]
    BY <1>3, <1>4
  <2>3. ASSUME NEW a \in Nodes, NEW b \in Nodes, NEW o
        PROVE  \/ {a, b} \in cut'
               \/ /\ wire'[a][b] = wire[a][b] /\ high'[b][a] = high[b][a]
                  /\ wire'[b][a] = wire[b][a] /\ reading'[b][a] = reading[b][a]
    BY <1>1, <1>4, <2>1, <2>2
  <2> QED BY <1>1, <2>3, AnswersMoved DEF Over
<1>5. CASE /\ wire' = wire /\ link'[n][m] \in {"failing", "closing"}
           /\ high' = high \/ high' = [high EXCEPT ![n][m] = <<>>]
  <2>1. \A a, b \in Nodes : ~(a = n /\ b = m) => high'[a][b] = high[a][b]
    <3>1. high' = high \/ high' = [high EXCEPT ![n][m] = <<>>]
      BY <1>5
    <3>2. CASE high' = high
      BY <3>2
    <3>3. CASE high' = [high EXCEPT ![n][m] = <<>>]
      BY <1>3, <3>3
    <3> QED BY <3>1, <3>2, <3>3
  <2>2. ASSUME NEW a \in Nodes, NEW b \in Nodes
        PROVE  link'[b][a] \in {"failing", "closing"} \/ high'[b][a] = high[b][a]
    BY <1>5, <2>1
  <2> QED BY <1>1, <1>5, <2>2, AnswersMoved DEF Over
<1>6. CASE wire' = wire /\ high' = high
  BY <1>1, <1>6, AnswersMoved DEF Over
<1> QED BY <1>2, <1>4, <1>5, <1>6

\* Nothing is read or answered.
LEMMA AnswersQuiet ==
    ASSUME Typed, Answers, Ends, UNCHANGED <<wire, acks, reading>>, Keeps(high, high')
    PROVE  Answers'
<1>1. AcksLess /\ PutOff(reading, high', reading')
  BY DEF AcksLess, PutOff
<1> QED BY <1>1, AnswersStill

LEMMA AnswersCalled ==
    ASSUME Typed, Answers, Ends, NEW n \in Nodes, NEW o \in OpIds, NEW G \in SUBSET Nat, Called(n, o, G)
    PROVE  Answers'
<1>1. PICK S \in SUBSET Nodes, p \in Pkts, T \in SUBSET ThreadSet, r \in OpRecs :
         Issue(n, o, S, p, T, r) /\ reading' = reading
  BY DEF Called
<1>2. high \in [Nodes -> [Nodes -> Seq(Pkts)]]
  <2>1. high \in [Nodes -> [Nodes -> Seq(FitPkts(Kinds))]] /\ FitPkts(Kinds) \subseteq Pkts
    BY DEF Typed, Packeted, QueueSet, FitPkts
  <2>2. \A a, b \in Nodes : high[a][b] \in Seq(Pkts)
    BY <2>1, SeqLarger
  <2> QED BY <2>1, <2>2
<1>3. Send(S, p) \in [Nodes -> Seq(Pkts)]
  BY SendForms
<1> PICK f \in [Nodes -> Seq(Pkts)] : f = Send(S, p)
  BY <1>3
<1>4. Keeps(high, Queued(high, n, f)) /\ Keeps(high, high)
  BY <1>2, KeepsQueued DEF Keeps
<1>5. Keeps(high, high') /\ UNCHANGED <<wire, acks, reading>>
  BY <1>1, <1>4 DEF Issue
<1> QED BY <1>5, AnswersQuiet

LEMMA AnswersNext ==
    ASSUME Typed, Asking, Answers, Ends, Steps
    PROVE  Answers'
<1>1. ASSUME NEW n \in Nodes, NEW m \in Nodes, NEW o \in OpIds, NEW g \in Nat \ {0}, CallsOf(n, o, g, m)
      PROVE  Answers'
  <2>1. PICK G \in SUBSET Nat : Called(n, o, G)
    BY <1>1, CallsAreIssues
  <2> QED BY <2>1, AnswersCalled
<1>2. CASE Hearing
  BY <1>2, AnswersHandled, AnswersJoining, AnswersElse, AnswersUnknown DEF Hearing
<1>3. ASSUME NEW n \in Nodes, NEW m \in Nodes,
             Write(n, m) \/ HandleAck(n, m) \/ HandleGroupAllocate(n, m) \/ Lose(n, m)
      PROVE  Answers'
  BY <1>3, AnswersWritten, AnswersAcked, AnswersOffered, AnswersLost
<1>4. CASE Threading \/ UNCHANGED vars
  <2>1. UNCHANGED <<wire, acks, reading, high>>
    BY <1>4 DEF Threading, ThreadTells, ThreadDestroys, ThreadErases, vars, queues
  <2>2. Keeps(high, high')
    BY <2>1 DEF Keeps
  <2> QED BY <2>1, <2>2, AnswersQuiet
<1> QED BY <1>1, <1>2, <1>3, <1>4 DEF Steps

LEMMA AnswersInit == Init => Answers /\ Awaiting /\ Apart
<1> SUFFICES ASSUME Init PROVE Answers /\ Awaiting /\ Apart
  OBVIOUS
<1> PICK s \in Scenarios :
       /\ scenario = s
       /\ sess = [n \in Nodes |-> IF n \in s.present THEN "connected" ELSE "out"]
       /\ link = [n \in Nodes |-> [m \in Nodes |->
                     IF {n, m} \subseteq s.present /\ n # m THEN "connected" ELSE "none"]]
       /\ acks = [n \in Nodes |-> [m \in Nodes |-> {}]]
       /\ cut = {}
  BY DEF Init
<1>1. \A n, m \in Nodes : acks[n][m] = {}
  OBVIOUS
<1>2. Answers /\ Awaiting
  BY <1>1 DEF Answers, AnswersOf, Awaiting
<1>3. /\ \A n \in Nodes : sess[n] \in {"connected", "out"}
      /\ \A n, m \in Nodes : link[n][m] \in {"connected", "none"}
  OBVIOUS
<1>4. Apart
  BY <1>3 DEF Apart
<1> QED BY <1>2, <1>4


\* The inductive invariant: types, what an ack may be about, ids, indications, who is still
\* connecting, and counters.
GroupsInv == Typed /\ Asking /\ Ids /\ Telling /\ Stays /\ Claims

LEMMA GroupsNext ==
    ASSUME GroupsInv, [Next]_vars
    PROVE  GroupsInv' /\ \A a \in Nodes : (destroyed[a] \ groups[a]) \cap groups'[a] = {}
<1>1. Steps /\ Stays' /\ SessKept
  BY NextIsSteps, StaysNext DEF GroupsInv
<1> QED BY <1>1, TypedNext, IdsNext, TellingNext, ClaimsNext, RevivesNone DEF GroupsInv

\* It holds in every reachable state.
THEOREM GroupsInvariant == Spec => []GroupsInv
<1>1. Init => GroupsInv
  BY TypedInit, TellingInit, ClaimsInit DEF GroupsInv
<1>2. GroupsInv /\ [Next]_vars => GroupsInv'
  BY GroupsNext
<1> QED BY <1>1, <1>2, PTL DEF Spec

\* A group a member has destroyed and forgotten is never created there again, whatever GROUP_CREATE
\* or GROUP_JOIN still arrives: destroyed_groups keeps the id.
THEOREM DestroyedStaysDestroyed == Spec => NoRevival
<1>1. GroupsInv /\ [Next]_vars => [\A n \in Nodes : (destroyed[n] \ groups[n]) \cap groups'[n] = {}]_vars
  BY GroupsNext
<1> QED BY <1>1, GroupsInvariant, PTL DEF Spec, NoRevival

\* CREATE_GROUP and DESTROY_GROUP are each indicated at most once per member and group, by whichever
\* of a detached thread, a handler and group_destroy_all() comes first; when nothing is under way the
\* application has been told of exactly the groups there are.
THEOREM ToldOnce == Spec => []IndicatedOnce
<1>1. GroupsInv => IndicatedOnce
  <2> SUFFICES ASSUME GroupsInv, NEW n \in Nodes, NEW g \in GroupIds
               PROVE  /\ told[n][g][1] <= 1 /\ told[n][g][2] <= 1
                      /\ Quiet /\ ~fault /\ sess[n] = "connected" =>
                            told[n][g][1] - told[n][g][2] = IF g \in groups[n] THEN 1 ELSE 0
    BY DEF IndicatedOnce
  <2>1. Told(n, g)
    BY DEF GroupsInv, Telling
  <2>2. told[n][g][1] \in Nat /\ told[n][g][2] \in Nat
    BY DEF GroupsInv, Typed, Tabled
  <2>3. Quiet => ~Creating(n, g) /\ ~Destroying(n, g) /\ ~Erasing(n, g)
    <3>1. Idle.at # "destroying"
      BY DEF Idle
    <3>2. Quiet => threads = {} /\ \A m \in Nodes : reading[n][m] = Idle
      BY DEF Quiet
    <3> QED BY <3>1, <3>2 DEF Creating, Destroying, Erasing, HasThread, InIndication
  <2> QED BY <2>1, <2>2, <2>3 DEF Told
<1> QED BY <1>1, GroupsInvariant, PTL

\* Every counter `pending' is exactly what will still count it down: callbacks of queued
\* packets, acks and threads, and what was deleted with a Peer.  So no operation completes while
\* something still waits to count it down, and none is counted down twice for one connection.
THEOREM CountersAreRight == Spec => []Accounting
<1>1. GroupsInv => Accounting
  <2> SUFFICES ASSUME GroupsInv, NEW o \in OpIds
               PROVE  op[o].pending = Cardinality(Callbacks(o)) + Cardinality(Awaited(o))
                                        + Cardinality({th \in threads : th.o = o}) + op[o].lost
    BY DEF Accounting
  <2>1. Typed /\ Claims
    BY DEF GroupsInv
  <2>2. op[o].pending = Cardinality(Claimed(high, medium, acks, o)) + Cardinality(Of(threads, o)) + op[o].lost
    BY <2>1 DEF Claims, ClaimsOf
  <2>3. Cardinality(Callbacks(o)) + Cardinality(Awaited(o)) = Cardinality(Claimed(high, medium, acks, o))
    BY <2>1, CallbacksCounted
  <2>4. Of(threads, o) = {th \in threads : th.o = o}
    BY DEF Of
  <2> QED BY <2>2, <2>3, <2>4
<1> QED BY <1>1, GroupsInvariant, PTL

\* Awaited acks are on their way or over, on links that live.
AcksInv == Answers /\ Awaiting /\ Apart

\* It holds in every reachable state.
THEOREM AcksInvariant == Spec => []AcksInv
<1>1. Init => AcksInv
  BY AnswersInit DEF AcksInv
<1>2. GroupsInv /\ AcksInv /\ [Next]_vars => AcksInv'
  <2> SUFFICES ASSUME GroupsInv, AcksInv, [Next]_vars PROVE AcksInv'
    OBVIOUS
  <2>1. Typed /\ Asking /\ Answers /\ Awaiting /\ Apart /\ (Next \/ UNCHANGED vars) /\ Steps
    BY NextIsSteps DEF GroupsInv, AcksInv
  <2>2. Ends /\ Apart' /\ Awaiting'
    BY <2>1, EndsNext
  <2>3. Answers'
    BY <2>1, <2>2, AnswersNext
  <2> QED BY <2>2, <2>3 DEF AcksInv
<1> QED BY <1>1, <1>2, GroupsInvariant, PTL DEF Spec

\* When nothing is under way every operation has completed, unless a callback of it was deleted with a
\* Peer by peer_destroy(), or a handler refused its request without an answer: each request that
\* is written is acknowledged, or its ack is failed with the connection.
THEOREM QuietIsDone == Spec => []QuietMeansDone
<1>1. GroupsInv /\ AcksInv => QuietMeansDone
  <2> SUFFICES ASSUME GroupsInv, AcksInv, Quiet, ~fault, NEW o \in OpIds, Issued(o), ~(op[o].lost > 0),
                      \A d \in dropped : d[3] # o
               PROVE  Done(o)
    BY DEF QuietMeansDone
  <2>1. Typed /\ Claims /\ Awaiting /\ AnswersOf(wire, high, reading, acks, dropped, cut, link)
    BY DEF GroupsInv, AcksInv, Answers
  <2>2. ASSUME NEW n \in Nodes, NEW m \in Nodes PROVE o \notin acks[n][m]
    <3> SUFFICES ASSUME o \in acks[n][m] PROVE FALSE
      OBVIOUS
    <3>1. /\ Travels(wire[n][m], high[m][n], wire[m][n], reading[m][n], o) \/ Over(dropped, cut, link, n, m, o)
          /\ link[n][m] \in {"requesting", "connected", "failing"}
      BY <2>1 DEF AnswersOf, Awaiting, Live
    <3>2. /\ wire[n][m] = <<>> /\ high[m][n] = <<>> /\ wire[m][n] = <<>> /\ reading[m][n] = Idle
          /\ link[m][n] \notin {"failing", "closing"} /\ ({n, m} \in cut => link[n][m] = "none")
      BY DEF Quiet
    <3>3. ~Travels(<<>>, <<>>, <<>>, Idle, o)
      BY DEF Travels, Has, Idle
    <3>4. <<n, m, o>> \notin dropped
      OBVIOUS
    <3> QED BY <3>1, <3>2, <3>3, <3>4 DEF Over
  <2>3. Claimed(high, medium, acks, o) = {}
    <3>1. \A n, m \in Nodes : high[n][m] = <<>> /\ medium[n][m] = <<>>
      BY DEF Quiet
    <3>2. Waiting(<<>>) = {}
      BY DEF Waiting, Ops
    <3>3. \A n, m \in Nodes : o \notin Due(high[n][m], medium[n][m], acks[n][m])
      BY <2>2, <3>1, <3>2 DEF Due
    <3> QED BY <3>3, ClaimedIs DEF Claimed, Links
  <2>4. Of(threads, o) = {} /\ Cardinality({}) = 0
    BY FS_EmptySet DEF Quiet, Of
  <2>5. op[o].pending = Cardinality(Claimed(high, medium, acks, o)) + Cardinality(Of(threads, o)) + op[o].lost
    BY <2>1 DEF Claims, ClaimsOf
  <2>6. op[o].lost = 0
    BY <2>1 DEF Typed, Counted, OpRecs
  <2> QED BY <2>3, <2>4, <2>5, <2>6 DEF Done
<1> QED BY <1>1, GroupsInvariant, AcksInvariant, PTL
=============================================================================
