----------------------------- MODULE SendsProofs -----------------------------
(***************************************************************************)
(* What holds of sends for any number of peers, threads and messages.      *)
(* First what the methods of SendQueue preserve.  Then every action is     *)
(* shown to be one of five kinds of step, by what it does to the queues,   *)
(* the work items, the counters and the wire, and the invariant is proved  *)
(* once per kind.                                                          *)
(***************************************************************************)
EXTENDS Sends, SequenceTheorems, FiniteSetTheorems, WellFoundedInduction, TLAPS

(***************************************************************************)
(* What the methods of class SendQueue preserve, for queues of any length: *)
(* a queue holds each op once, its lists are in the order of the sends,    *)
(* and the op in `current' is older than those of its priority behind it.  *)
(***************************************************************************)

\* Ops of a set S that the lemmas are about: sends are numbered, and NULL is no op.
OpSet(S) == Null \notin S /\ \A op \in S : op.send \in Nat /\ op.pri \in Priority

\* q is a queue of ops from S.
IsQueue(q, S) ==
    /\ q = [x \in Priority \cup {"current"} |-> q[x]]
    /\ \A pri \in Priority : q[pri] \in Seq(S)
    /\ q.current \in S \cup {Null}

\* Every list has the ops of its priority, in the order of the sends; no send
\* has two ops in the queue, and none overtakes the op in `current'.
Ordered(q) ==
    /\ \A pri \in Priority : \A i \in DOMAIN q[pri] : q[pri][i].pri = pri
    /\ \A pri \in Priority : \A i, j \in DOMAIN q[pri] : i < j => q[pri][i].send < q[pri][j].send
    /\ \A x, y \in Priority : x # y =>
          \A i \in DOMAIN q[x], j \in DOMAIN q[y] : q[x][i].send # q[y][j].send
    /\ q.current # Null =>
          \A pri \in Priority : \A i \in DOMAIN q[pri] :
              /\ q[pri][i].send # q.current.send
              /\ pri = q.current.pri => q.current.send < q[pri][i].send

GoodQueue(q, S) == IsQueue(q, S) /\ Ordered(q)

\* The sends a queue has an op of.
Ids(q) == {op.send : op \in OpsIn(q)}

-------------------------------------------------------------------------------
\* A set of natural numbers has a least element, and it is Min's choice.
LEMMA MinOfNats ==
    ASSUME NEW T, T \subseteq Nat, T # {}
    PROVE  Min(T) \in T
<1>1. PICK x \in T : \A y \in T : ~(<<y, x>> \in OpToRel(<, Nat))
  BY NatLessThanWellFounded, WFMin
<1>2. \A y \in T : x <= y
  <2>1. ASSUME NEW y \in T, y < x PROVE FALSE
    <3>1. <<y, x>> \in OpToRel(<, Nat)
      BY <2>1 DEF OpToRel
    <3> QED
      BY <1>1, <3>1
  <2> QED
    BY <2>1
<1> QED
  BY <1>2 DEF Min

\* RemoveAt() by what it does to the positions.
LEMMA RemoveAtProperties ==
    ASSUME NEW S, NEW s \in Seq(S), NEW i \in DOMAIN s
    PROVE  /\ RemoveAt(s, i) \in Seq(S) /\ Len(RemoveAt(s, i)) = Len(s) - 1
           /\ \A j \in 1..Len(s) - 1 : RemoveAt(s, i)[j] = IF j < i THEN s[j] ELSE s[j + 1]
<1>1. Len(s) \in Nat /\ i \in 1..Len(s)
  BY LenProperties
<1>2. \A j \in 1..Len(s) : s[j] \in S
  BY ElementOfSeq
<1> DEFINE left == SubSeq(s, 1, i - 1)
           right == SubSeq(s, i + 1, Len(s))
<1>3. left \in Seq(S) /\ Len(left) = i - 1 /\ \A j \in 1..i - 1 : left[j] = s[j]
  BY <1>1, <1>2, SubSeqProperties
<1>4. right \in Seq(S) /\ Len(right) = Len(s) - i /\ \A j \in 1..Len(s) - i : right[j] = s[i + j]
  BY <1>1, <1>2, SubSeqProperties
<1> HIDE DEF left, right
<1>5. /\ left \o right \in Seq(S) /\ Len(left \o right) = Len(left) + Len(right)
      /\ \A j \in 1..Len(left) + Len(right) :
            (left \o right)[j] = IF j <= Len(left) THEN left[j] ELSE right[j - Len(left)]
  BY <1>3, <1>4, ConcatProperties
<1>6. RemoveAt(s, i) = left \o right
  BY DEF RemoveAt, left, right
<1>7. left \o right \in Seq(S) /\ Len(left \o right) = Len(s) - 1
  BY <1>1, <1>3, <1>4, <1>5
<1>8. ASSUME NEW j \in 1..Len(s) - 1 PROVE (left \o right)[j] = IF j < i THEN s[j] ELSE s[j + 1]
  <2>1. (left \o right)[j] = IF j <= i - 1 THEN left[j] ELSE right[j - (i - 1)]
    <3>1. j \in 1..Len(left) + Len(right) /\ Len(left) = i - 1
      BY <1>1, <1>3, <1>4
    <3>2. (left \o right)[j] = IF j <= Len(left) THEN left[j] ELSE right[j - Len(left)]
      BY <1>5, <3>1
    <3> QED
      BY <3>1, <3>2
  <2>2. CASE j < i
    BY <2>1, <2>2, <1>1, <1>3
  <2>3. CASE ~(j < i)
    <3>1. j - (i - 1) \in 1..Len(s) - i /\ i + (j - (i - 1)) = j + 1
      BY <2>3, <1>1
    <3> QED
      BY <2>1, <2>3, <3>1, <1>1, <1>4, SMTT(30)
  <2> QED
    BY <2>2, <2>3
<1> QED
  BY <1>6, <1>7, <1>8

\* Where the ops of a queue are.
LEMMA OpsInMembers ==
    ASSUME NEW q, NEW op
    PROVE  op \in OpsIn(q) <=> \/ \E pri \in Priority : \E i \in DOMAIN q[pri] : op = q[pri][i]
                               \/ q.current # Null /\ op = q.current
<1>1. op \in OpsIn(q) <=> \/ op \in UNION {ToSet(q[pri]) : pri \in Priority}
                          \/ op \in (IF q.current = Null THEN {} ELSE {q.current})
  BY DEF OpsIn
<1>2. op \in UNION {ToSet(q[pri]) : pri \in Priority} <=> \E pri \in Priority : op \in ToSet(q[pri])
  OBVIOUS
<1>3. \A pri \in Priority : op \in ToSet(q[pri]) <=> \E i \in DOMAIN q[pri] : op = q[pri][i]
  BY DEF ToSet
<1>4. op \in (IF q.current = Null THEN {} ELSE {q.current}) <=> q.current # Null /\ op = q.current
  OBVIOUS
<1> QED
  BY <1>1, <1>2, <1>3, <1>4

\* The ops of a queue are ops.
LEMMA OpsInQueue ==
    ASSUME NEW S, NEW q, IsQueue(q, S)
    PROVE  OpsIn(q) \subseteq S
<1>1. \A pri \in Priority : \A i \in DOMAIN q[pri] : q[pri][i] \in S
  BY LenProperties, ElementOfSeq DEF IsQueue
<1>2. ASSUME NEW op \in OpsIn(q) PROVE op \in S
  BY <1>1, <1>2, OpsInMembers DEF IsQueue
<1> QED
  BY <1>2

\* The positions of a list, and what a queue holds there.
LEMMA QueueShape ==
    ASSUME NEW S, OpSet(S), NEW q, IsQueue(q, S)
    PROVE  /\ \A pri \in Priority : /\ Len(q[pri]) \in Nat /\ DOMAIN q[pri] = 1..Len(q[pri])
                                    /\ q[pri] = <<>> <=> DOMAIN q[pri] = {}
           /\ \A pri \in Priority : \A i \in DOMAIN q[pri] :
                 /\ q[pri][i] \in S /\ q[pri][i] # Null
                 /\ q[pri][i].send \in Nat /\ q[pri][i].pri \in Priority
           /\ q.current # Null => q.current \in S /\ q.current.send \in Nat /\ q.current.pri \in Priority
<1>1. \A pri \in Priority : Len(q[pri]) \in Nat /\ DOMAIN q[pri] = 1..Len(q[pri])
  BY LenProperties DEF IsQueue
<1>2. \A pri \in Priority : \A i \in DOMAIN q[pri] : q[pri][i] \in S
  BY <1>1, ElementOfSeq DEF IsQueue
<1>3. \A pri \in Priority : q[pri] = <<>> <=> DOMAIN q[pri] = {}
  <2>1. \A pri \in Priority : q[pri] # <<>> => Len(q[pri]) \in Nat \ {0}
    BY EmptySeq DEF IsQueue
  <2>2. \A pri \in Priority : q[pri] = <<>> => Len(q[pri]) = 0
    BY EmptySeq
  <2>3. ASSUME NEW pri \in Priority, Len(q[pri]) # 0 PROVE 1 \in DOMAIN q[pri]
    BY <1>1, <2>3
  <2>4. ASSUME NEW pri \in Priority, Len(q[pri]) = 0 PROVE DOMAIN q[pri] = {}
    BY <1>1, <2>4
  <2> QED
    BY <2>1, <2>2, <2>3, <2>4
<1> QED
  BY <1>1, <1>2, <1>3 DEF OpSet, IsQueue

\* send() puts a newer op at the back of its list.
LEMMA PushProperties ==
    ASSUME NEW S, OpSet(S), NEW q, GoodQueue(q, S), NEW op \in S, \A id \in Ids(q) : id < op.send
    PROVE  /\ GoodQueue(Push(q, op), S) /\ Push(q, op).current = q.current
           /\ OpsIn(Push(q, op)) = OpsIn(q) \cup {op}
<1> DEFINE r == Push(q, op)
           x == op.pri
<1>1. /\ IsQueue(q, S) /\ Ordered(q) /\ q = [y \in Priority \cup {"current"} |-> q[y]]
      /\ x \in Priority /\ "current" \notin Priority /\ op # Null /\ op.send \in Nat
  BY DEF GoodQueue, IsQueue, OpSet, Priority
<1>2. /\ r = [y \in Priority \cup {"current"} |-> r[y]] /\ r.current = q.current
      /\ r[x] = Append(q[x], op) /\ \A y \in Priority \ {x} : r[y] = q[y]
  BY <1>1 DEF Push
<1>3. /\ Append(q[x], op) \in Seq(S) /\ Len(Append(q[x], op)) = Len(q[x]) + 1
      /\ (\A i \in 1..Len(q[x]) : Append(q[x], op)[i] = q[x][i]) /\ Append(q[x], op)[Len(q[x]) + 1] = op
  BY <1>1, AppendProperties DEF IsQueue
<1>4. IsQueue(r, S)
  BY <1>1, <1>2, <1>3 DEF IsQueue
<1> HIDE DEF r
<1>5. /\ \A y \in Priority : Len(q[y]) \in Nat /\ DOMAIN q[y] = 1..Len(q[y]) /\ DOMAIN r[y] = 1..Len(r[y])
      /\ \A y \in Priority : \A i \in DOMAIN q[y] : q[y][i].send \in Nat
  BY <1>1, <1>4, QueueShape
<1>x. /\ DOMAIN q[x] = 1..Len(q[x]) /\ Len(q[x]) \in Nat /\ DOMAIN r[x] = 1..Len(q[x]) + 1
      /\ (\A i \in 1..Len(q[x]) : r[x][i] = q[x][i]) /\ r[x][Len(q[x]) + 1] = op
  <2>1. r[x] = Append(q[x], op)
    BY <1>2
  <2>2. /\ Len(r[x]) = Len(q[x]) + 1
        /\ (\A i \in 1..Len(q[x]) : r[x][i] = q[x][i]) /\ r[x][Len(q[x]) + 1] = op
    BY <1>3, <2>1
  <2> HIDE DEF x
  <2>3. DOMAIN q[x] = 1..Len(q[x]) /\ Len(q[x]) \in Nat /\ DOMAIN r[x] = 1..Len(r[x])
    BY <1>1, <1>5
  <2> QED
    BY <2>2, <2>3
<1>6. \A y \in Priority : \A i \in DOMAIN r[y] :
          \/ i \in DOMAIN q[y] /\ r[y][i] = q[y][i]
          \/ y = x /\ i = Len(q[x]) + 1 /\ r[y][i] = op
  <2>1. ASSUME NEW i \in DOMAIN r[x]
        PROVE  \/ i \in DOMAIN q[x] /\ r[x][i] = q[x][i]
               \/ i = Len(q[x]) + 1 /\ r[x][i] = op
    BY <1>x
  <2> QED
    BY <1>2, <2>1
<1>7. \A y \in Priority : \A i \in DOMAIN q[y] : i \in DOMAIN r[y] /\ r[y][i] = q[y][i]
  <2>1. ASSUME NEW i \in DOMAIN q[x] PROVE i \in DOMAIN r[x] /\ r[x][i] = q[x][i]
    BY <1>x
  <2> QED
    BY <1>2, <2>1
<1>8. Len(q[x]) + 1 \in DOMAIN r[x] /\ r[x][Len(q[x]) + 1] = op
  BY <1>1, <1>2, <1>3, <1>5
<1>9. /\ \A y \in Priority : \A i \in DOMAIN q[y] : q[y][i].send < op.send
      /\ q.current # Null => q.current.send < op.send
  BY OpsInMembers DEF Ids
<1>10. OpsIn(r) = OpsIn(q) \cup {op}
  <2>1. ASSUME NEW o \in OpsIn(r) PROVE o \in OpsIn(q) \cup {op}
    BY <1>2, <1>6, <2>1, OpsInMembers
  <2>2. ASSUME NEW o \in OpsIn(q) PROVE o \in OpsIn(r)
    BY <1>2, <1>7, <2>2, OpsInMembers
  <2>3. op \in OpsIn(r)
    BY <1>1, <1>8, OpsInMembers
  <2> QED
    BY <2>1, <2>2, <2>3
<1>11. Ordered(r)
  <2>1. \A y \in Priority : \A i \in DOMAIN r[y] : r[y][i].pri = y
    BY <1>1, <1>6 DEF Ordered
  <2>2. ASSUME NEW y \in Priority, NEW i \in DOMAIN r[y], NEW j \in DOMAIN r[y], i < j
        PROVE  r[y][i].send < r[y][j].send
    <3>1. i \in DOMAIN q[y] /\ r[y][i] = q[y][i]
      BY <1>3, <1>2, <1>5, <1>6, <2>2
    <3> QED
      BY <1>1, <1>6, <1>9, <2>2, <3>1 DEF Ordered
  <2>3. ASSUME NEW y \in Priority, NEW z \in Priority, y # z, NEW i \in DOMAIN r[y], NEW j \in DOMAIN r[z]
        PROVE  r[y][i].send # r[z][j].send
    <3>1. CASE i \in DOMAIN q[y] /\ r[y][i] = q[y][i] /\ j \in DOMAIN q[z] /\ r[z][j] = q[z][j]
      BY <1>1, <2>3, <3>1 DEF Ordered
    <3>2. CASE y = x /\ r[y][i] = op /\ j \in DOMAIN q[z] /\ r[z][j] = q[z][j]
      BY <1>1, <1>5, <1>9, <3>2
    <3>3. CASE z = x /\ r[z][j] = op /\ i \in DOMAIN q[y] /\ r[y][i] = q[y][i]
      BY <1>1, <1>5, <1>9, <3>3
    <3> QED
      BY <1>6, <2>3, <3>1, <3>2, <3>3
  <2>4. ASSUME r.current # Null, NEW y \in Priority, NEW i \in DOMAIN r[y]
        PROVE  r[y][i].send # r.current.send /\ (y = r.current.pri => r.current.send < r[y][i].send)
    <3>1. q.current # Null /\ q.current.send \in Nat
      BY <1>1, <1>2, <2>4, QueueShape
    <3>2. CASE i \in DOMAIN q[y] /\ r[y][i] = q[y][i]
      BY <1>1, <1>2, <3>1, <3>2 DEF Ordered
    <3>3. CASE r[y][i] = op
      BY <1>1, <1>2, <1>9, <3>1, <3>3
    <3> QED
      BY <1>6, <3>2, <3>3
  <2> QED
    BY <2>1, <2>2, <2>3, <2>4 DEF Ordered
<1> QED
  BY <1>2, <1>4, <1>10, <1>11 DEF GoodQueue, r

\* Taking an op out of a list leaves the others in their order.
LEMMA RemovalProperties ==
    ASSUME NEW S, OpSet(S), NEW q, GoodQueue(q, S), NEW x \in Priority, NEW i \in DOMAIN q[x]
    PROVE  LET r == Removal(q, x, i) IN
           /\ GoodQueue(r.sq, S) /\ r.sq.current = q.current
           /\ r.op = q[x][i] /\ r.op \in OpsIn(q) /\ r.op \in S /\ r.op # Null /\ r.op # q.current
           /\ OpsIn(r.sq) = OpsIn(q) \ {r.op}
           /\ \A o \in OpsIn(r.sq) : o.send # r.op.send
           /\ i = 1 => \A j \in DOMAIN r.sq[x] : r.op.send < r.sq[x][j].send
<1> DEFINE r == Removal(q, x, i).sq
           op == q[x][i]
           Up(j) == IF j < i THEN j ELSE j + 1
<1>1. /\ IsQueue(q, S) /\ Ordered(q) /\ q = [y \in Priority \cup {"current"} |-> q[y]]
      /\ "current" \notin Priority
  BY DEF GoodQueue, IsQueue, Priority
<1>2. /\ r = [y \in Priority \cup {"current"} |-> r[y]] /\ r.current = q.current
      /\ r[x] = RemoveAt(q[x], i) /\ \A y \in Priority \ {x} : r[y] = q[y]
  BY <1>1 DEF Removal
<1>3. Removal(q, x, i).op = op
  BY DEF Removal
<1>4. q[x] \in Seq(S)
  BY <1>1 DEF IsQueue
<1>5. /\ RemoveAt(q[x], i) \in Seq(S) /\ Len(RemoveAt(q[x], i)) = Len(q[x]) - 1
      /\ \A j \in 1..Len(q[x]) - 1 : RemoveAt(q[x], i)[j] = IF j < i THEN q[x][j] ELSE q[x][j + 1]
  BY <1>4, RemoveAtProperties
<1>6. IsQueue(r, S)
  BY <1>1, <1>2, <1>5 DEF IsQueue
<1> HIDE DEF r
<1>7. /\ \A y \in Priority : Len(q[y]) \in Nat /\ DOMAIN q[y] = 1..Len(q[y]) /\ DOMAIN r[y] = 1..Len(r[y])
      /\ \A y \in Priority : \A j \in DOMAIN q[y] : q[y][j] \in S /\ q[y][j] # Null /\ q[y][j].send \in Nat
      /\ q.current # Null => q.current \in S /\ q.current.send \in Nat /\ q.current.pri \in Priority
  BY <1>1, <1>6, QueueShape
<1>8. DOMAIN q[x] = 1..Len(q[x]) /\ Len(q[x]) \in Nat /\ i \in 1..Len(q[x]) /\ DOMAIN r[x] = 1..Len(q[x]) - 1
  BY <1>2, <1>5, <1>7
<1>9. ASSUME NEW j \in DOMAIN r[x] PROVE Up(j) \in DOMAIN q[x] /\ Up(j) # i /\ r[x][j] = q[x][Up(j)]
  <2>1. r[x][j] = IF j < i THEN q[x][j] ELSE q[x][j + 1]
    BY <1>2, <1>5, <1>8
  <2> QED
    BY <1>8, <2>1
<1>10. ASSUME NEW j \in DOMAIN q[x], j # i
       PROVE  \E k \in DOMAIN r[x] : r[x][k] = q[x][j]
  <2>1. CASE j < i
    <3>1. j \in DOMAIN r[x] /\ Up(j) = j
      BY <1>8, <2>1
    <3> QED
      BY <1>9, <3>1
  <2>2. CASE j > i
    <3>1. j - 1 \in DOMAIN r[x] /\ Up(j - 1) = j
      BY <1>8, <2>2
    <3> QED
      BY <1>9, <3>1
  <2> QED
    BY <1>8, <1>10, <2>1, <2>2
<1>11. ASSUME NEW y \in Priority, NEW j \in DOMAIN q[y], y # x \/ j # i PROVE q[y][j].send # op.send
  <2>1. CASE y # x
    BY <1>1, <2>1 DEF Ordered
  <2>2. CASE y = x
    <3>1. j < i \/ i < j
      BY <1>8, <1>11, <2>2
    <3> QED
      BY <1>1, <1>7, <2>2, <3>1 DEF Ordered
  <2> QED
    BY <2>1, <2>2
<1>12. q.current # Null => q.current.send # op.send
  BY <1>1 DEF Ordered
<1>13. op \in OpsIn(q) /\ op \in S /\ op # Null /\ op # q.current
  BY <1>7, <1>12, OpsInMembers
<1>14. ASSUME NEW o \in OpsIn(r) PROVE o \in OpsIn(q) /\ o.send # op.send
  <2>1. CASE q.current # Null /\ o = q.current
    BY <1>12, <2>1, OpsInMembers
  <2>2. ASSUME NEW y \in Priority, NEW j \in DOMAIN r[y], o = r[y][j] PROVE o \in OpsIn(q) /\ o.send # op.send
    <3>1. CASE y = x
      <4>1. Up(j) \in DOMAIN q[x] /\ Up(j) # i /\ o = q[x][Up(j)]
        BY <1>9, <2>2, <3>1
      <4> HIDE DEF Up
      <4> QED
        BY <1>11, <4>1, OpsInMembers
    <3>2. CASE y # x
      BY <1>2, <1>11, <2>2, <3>2, OpsInMembers
    <3> QED
      BY <3>1, <3>2
  <2> QED
    BY <1>2, <1>14, <2>1, <2>2, OpsInMembers
<1>15. ASSUME NEW o \in OpsIn(q), o # op PROVE o \in OpsIn(r)
  <2>1. CASE q.current # Null /\ o = q.current
    BY <1>2, <2>1, OpsInMembers
  <2>2. ASSUME NEW y \in Priority, NEW j \in DOMAIN q[y], o = q[y][j] PROVE o \in OpsIn(r)
    <3>1. CASE y = x
      <4>1. j # i
        BY <1>15, <2>2, <3>1
      <4>2. PICK k \in DOMAIN r[x] : r[x][k] = q[x][j]
        BY <1>10, <2>2, <3>1, <4>1
      <4> QED
        BY <2>2, <3>1, <4>2, OpsInMembers
    <3>2. CASE y # x
      BY <1>2, <2>2, <3>2, OpsInMembers
    <3> QED
      BY <3>1, <3>2
  <2> QED
    BY <1>15, <2>1, <2>2, OpsInMembers
<1>16. OpsIn(r) = OpsIn(q) \ {op}
  BY <1>14, <1>15
<1>17. \A y \in Priority : \A j \in DOMAIN r[y] : \E k \in DOMAIN q[y] : r[y][j] = q[y][k]
  <2>1. \A j \in DOMAIN r[x] : \E k \in DOMAIN q[x] : r[x][j] = q[x][k]
    BY <1>9
  <2> QED
    BY <1>2, <2>1
<1>18. ASSUME NEW j \in DOMAIN r[x], NEW k \in DOMAIN r[x], j < k PROVE r[x][j].send < r[x][k].send
  <2>1. Up(j) < Up(k)
    BY <1>8, <1>18
  <2> HIDE DEF Up
  <2>2. /\ Up(j) \in DOMAIN q[x] /\ r[x][j] = q[x][Up(j)]
        /\ Up(k) \in DOMAIN q[x] /\ r[x][k] = q[x][Up(k)]
    BY <1>9
  <2> QED
    BY <1>1, <2>1, <2>2 DEF Ordered
<1>19. Ordered(r)
  <2>1. \A y \in Priority : \A j \in DOMAIN r[y] : r[y][j].pri = y
    BY <1>1, <1>17 DEF Ordered
  <2>2. ASSUME NEW y \in Priority, NEW j \in DOMAIN r[y], NEW k \in DOMAIN r[y], j < k
        PROVE  r[y][j].send < r[y][k].send
    <3>1. CASE y = x
      BY <1>18, <2>2, <3>1
    <3>2. CASE y # x
      BY <1>1, <1>2, <2>2, <3>2 DEF Ordered
    <3> QED
      BY <3>1, <3>2
  <2>3. ASSUME NEW y \in Priority, NEW z \in Priority, y # z, NEW j \in DOMAIN r[y], NEW k \in DOMAIN r[z]
        PROVE  r[y][j].send # r[z][k].send
    BY <1>1, <1>17, <2>3 DEF Ordered
  <2>4. ASSUME r.current # Null, NEW y \in Priority, NEW j \in DOMAIN r[y]
        PROVE  r[y][j].send # r.current.send /\ (y = r.current.pri => r.current.send < r[y][j].send)
    BY <1>1, <1>2, <1>17, <2>4 DEF Ordered
  <2> QED
    BY <2>1, <2>2, <2>3, <2>4 DEF Ordered
<1>20. ASSUME i = 1, NEW j \in DOMAIN r[x] PROVE op.send < r[x][j].send
  <2>1. Up(j) \in DOMAIN q[x] /\ r[x][j] = q[x][Up(j)] /\ i < Up(j)
    BY <1>8, <1>9, <1>20
  <2> HIDE DEF Up
  <2> QED
    BY <1>1, <2>1 DEF Ordered
<1> QED
  BY <1>2, <1>3, <1>6, <1>13, <1>14, <1>16, <1>19, <1>20 DEF GoodQueue, r

\* get_pending() takes the oldest op of a list.
LEMMA TailIsRemoval ==
    ASSUME NEW S, NEW s \in Seq(S), s # <<>>
    PROVE  1 \in DOMAIN s /\ Head(s) = s[1] /\ Tail(s) = RemoveAt(s, 1)
<1>1. Len(s) \in Nat \ {0} /\ DOMAIN s = 1..Len(s)
  BY EmptySeq, LenProperties
<1>2. 1 \in DOMAIN s
  BY <1>1
<1>3. Tail(s) \in Seq(S) /\ Len(Tail(s)) = Len(s) - 1 /\ \A i \in 1..Len(Tail(s)) : Tail(s)[i] = s[i + 1]
  BY HeadTailProperties
<1>4. /\ RemoveAt(s, 1) \in Seq(S) /\ Len(RemoveAt(s, 1)) = Len(s) - 1
      /\ \A j \in 1..Len(s) - 1 : RemoveAt(s, 1)[j] = IF j < 1 THEN s[j] ELSE s[j + 1]
  BY <1>2, RemoveAtProperties
<1>5. \A i \in 1..Len(Tail(s)) : Tail(s)[i] = RemoveAt(s, 1)[i]
  BY <1>1, <1>3, <1>4
<1>6. Tail(s) = RemoveAt(s, 1)
  BY <1>3, <1>4, <1>5, SeqEqual
<1> QED
  BY <1>1, <1>2, <1>6

\* get_pending() leaves an op in `current' alone and loses nothing.
LEMMA GetPendingProperties ==
    ASSUME NEW S, OpSet(S), NEW q, GoodQueue(q, S)
    PROVE  LET g == GetPending(q) IN
           /\ GoodQueue(g, S) /\ OpsIn(g) = OpsIn(q)
           /\ q.current # Null => g = q
           /\ g.current = Null => OpsIn(q) = {} /\ g = q
           /\ g.current # Null => g.current \in OpsIn(q) /\ g.current \in S
<1>1. /\ IsQueue(q, S) /\ Ordered(q) /\ q = [y \in Priority \cup {"current"} |-> q[y]]
      /\ "current" \notin Priority
  BY DEF GoodQueue, IsQueue, Priority
<1>2. CASE q.current # Null
  <2>1. GetPending(q) = q
    BY <1>2 DEF GetPending
  <2> QED
    BY <1>1, <1>2, <2>1, OpsInMembers, OpsInQueue
<1>3. CASE q.current = Null /\ ListsEmpty(q)
  <2>1. GetPending(q) = q
    BY <1>3 DEF GetPending
  <2>2. \A y \in Priority : DOMAIN q[y] = {}
    BY <1>1, <1>3, QueueShape DEF ListsEmpty
  <2>3. OpsIn(q) = {}
    BY <1>3, <2>2, OpsInMembers
  <2> QED
    BY <1>3, <2>1, <2>3
<1>4. CASE q.current = Null /\ ~ListsEmpty(q)
  <2> DEFINE x == NextPriority(q)
             r == Removal(q, x, 1)
             g == GetPending(q)
  <2>1. x \in Priority /\ q[x] # <<>>
    BY <1>4 DEF ListsEmpty, NextPriority, Priority
  <2> HIDE DEF x
  <2>2. q[x] \in Seq(S)
    BY <1>1, <2>1 DEF IsQueue
  <2>3. 1 \in DOMAIN q[x] /\ Head(q[x]) = q[x][1] /\ Tail(q[x]) = RemoveAt(q[x], 1)
    BY <2>1, <2>2, TailIsRemoval
  <2>4. /\ GoodQueue(r.sq, S) /\ r.sq.current = q.current
        /\ r.op = q[x][1] /\ r.op \in OpsIn(q) /\ r.op \in S /\ r.op # Null
        /\ OpsIn(r.sq) = OpsIn(q) \ {r.op}
        /\ \A o \in OpsIn(r.sq) : o.send # r.op.send
        /\ \A j \in DOMAIN r.sq[x] : r.op.send < r.sq[x][j].send
    BY <2>1, <2>3, RemovalProperties
  <2>5. g = [q EXCEPT !.current = q[x][1], ![x] = RemoveAt(@, 1)]
    BY <1>4, <2>3 DEF GetPending, x
  <2>6. r.sq = [q EXCEPT ![x] = RemoveAt(@, 1)]
    BY DEF Removal
  <2>7. /\ g = [y \in Priority \cup {"current"} |-> g[y]]
        /\ g.current = r.op /\ \A y \in Priority : g[y] = r.sq[y]
    BY <1>1, <2>1, <2>4, <2>5, <2>6
  <2> HIDE DEF g, r
  <2>8. IsQueue(g, S)
    BY <2>4, <2>7 DEF IsQueue, GoodQueue
  <2>9. /\ \A y \in Priority : \A j \in DOMAIN r.sq[y] : r.sq[y][j] \in OpsIn(r.sq) /\ r.sq[y][j].send # r.op.send
        /\ r.op.pri = x
    <3>1. r.op.pri = x
      BY <1>1, <2>1, <2>3, <2>4 DEF Ordered
    <3>2. \A y \in Priority : \A j \in DOMAIN r.sq[y] : r.sq[y][j] \in OpsIn(r.sq)
      BY OpsInMembers
    <3> QED
      BY <2>4, <3>1, <3>2
  <2>10. Ordered(g)
    <3>1. Ordered(r.sq)
      BY <2>4 DEF GoodQueue
    <3> QED
      BY <2>4, <2>7, <2>9, <3>1 DEF Ordered
  <2>11. OpsIn(g) = OpsIn(q)
    <3>1. \A o : o \in OpsIn(g) <=> o \in OpsIn(r.sq) \/ o = r.op
      BY <1>4, <2>4, <2>7, OpsInMembers
    <3> QED
      BY <2>4, <3>1
  <2> QED
    BY <1>4, <2>4, <2>7, <2>8, <2>10, <2>11 DEF GoodQueue, g
<1> QED
  BY <1>2, <1>3, <1>4

\* pop_pending() drops the op in `current', and it was the only one of its send.
LEMMA PopProperties ==
    ASSUME NEW S, OpSet(S), NEW q, GoodQueue(q, S), q.current # Null
    PROVE  /\ GoodQueue(PopPending(q), S) /\ PopPending(q).current = Null
           /\ OpsIn(PopPending(q)) = OpsIn(q) \ {q.current}
           /\ \A o \in OpsIn(PopPending(q)) :
                 /\ o.send # q.current.send
                 /\ o.pri = q.current.pri => q.current.send < o.send
<1> DEFINE r == PopPending(q)
<1>1. /\ IsQueue(q, S) /\ Ordered(q) /\ q = [y \in Priority \cup {"current"} |-> q[y]]
      /\ "current" \notin Priority
  BY DEF GoodQueue, IsQueue, Priority
<1>2. /\ r = [y \in Priority \cup {"current"} |-> r[y]]
      /\ r.current = Null /\ \A y \in Priority : r[y] = q[y]
  BY <1>1 DEF PopPending
<1> HIDE DEF r
<1>3. IsQueue(r, S) /\ Ordered(r)
  BY <1>1, <1>2 DEF IsQueue, Ordered
<1>4. \A o : o \in OpsIn(r) <=> \E y \in Priority : \E i \in DOMAIN q[y] : o = q[y][i]
  BY <1>2, OpsInMembers
<1>5. \A y \in Priority : \A i \in DOMAIN q[y] :
        /\ q[y][i].send # q.current.send
        /\ q[y][i].pri = q.current.pri => q.current.send < q[y][i].send
  BY <1>1 DEF Ordered
<1>6. \A o \in OpsIn(r) : o.send # q.current.send /\ (o.pri = q.current.pri => q.current.send < o.send)
  BY <1>4, <1>5
<1>7. OpsIn(r) = OpsIn(q) \ {q.current}
  BY <1>4, <1>6, OpsInMembers
<1> QED
  BY <1>2, <1>3, <1>6, <1>7 DEF GoodQueue, r

\* inc_sent_data() changes nothing that order or identity depend on.
LEMMA IncProperties ==
    ASSUME NEW S, OpSet(S), NEW q, GoodQueue(q, S), q.current # Null, NEW n,
           NEW op \in S, IncSentData(q, n).current = op, op.send = q.current.send, op.pri = q.current.pri
    PROVE  /\ GoodQueue(IncSentData(q, n), S)
           /\ OpsIn(IncSentData(q, n)) = (OpsIn(q) \ {q.current}) \cup {op}
<1> DEFINE r == IncSentData(q, n)
<1>1. /\ IsQueue(q, S) /\ Ordered(q) /\ q = [y \in Priority \cup {"current"} |-> q[y]]
      /\ "current" \notin Priority /\ op # Null
  BY DEF GoodQueue, IsQueue, Priority, OpSet
<1>2. /\ r = [y \in Priority \cup {"current"} |-> r[y]]
      /\ r.current = op /\ \A y \in Priority : r[y] = q[y]
  BY <1>1 DEF IncSentData
<1> HIDE DEF r
<1>3. IsQueue(r, S) /\ Ordered(r)
  BY <1>1, <1>2 DEF IsQueue, Ordered
<1>4. \A o : o \in OpsIn(r) <=> (\E y \in Priority : \E i \in DOMAIN q[y] : o = q[y][i]) \/ o = op
  BY <1>1, <1>2, OpsInMembers
<1>5. \A y \in Priority : \A i \in DOMAIN q[y] : q[y][i] # q.current
  BY <1>1 DEF Ordered
<1>6. OpsIn(r) = (OpsIn(q) \ {q.current}) \cup {op}
  BY <1>4, <1>5, OpsInMembers
<1> QED
  BY <1>3, <1>6 DEF GoodQueue, r

\* remove_queued_by_priority(), when it finds something.
LEMMA ByPriorityProperties ==
    ASSUME NEW S, OpSet(S), NEW q, GoodQueue(q, S), NEW pri \in Priority, Cancellable(q[pri]) # {}
    PROVE  \E i \in DOMAIN q[pri] : RemoveQueuedByPriority(q, pri) = Removal(q, pri, i)
<1>1. DOMAIN q[pri] = 1..Len(q[pri]) /\ Len(q[pri]) \in Nat
  BY QueueShape DEF GoodQueue
<1>2. Cancellable(q[pri]) \subseteq DOMAIN q[pri] /\ Cancellable(q[pri]) \subseteq Nat
  BY <1>1 DEF Cancellable
<1>3. Min(Cancellable(q[pri])) \in Cancellable(q[pri])
  BY <1>2, MinOfNats
<1> QED
  BY <1>2, <1>3 DEF RemoveQueuedByPriority

\* remove_queued(), when it finds something.
LEMMA RemoveQueuedProperties ==
    ASSUME NEW S, OpSet(S), NEW q, GoodQueue(q, S), RemoveQueuedPri(q) # Null
    PROVE  \E pri \in Priority : \E i \in DOMAIN q[pri] : RemoveQueued(q) = Removal(q, pri, i)
<1>1. RemoveQueuedPri(q) \in Priority /\ Cancellable(q[RemoveQueuedPri(q)]) # {}
  BY DEF RemoveQueuedPri, Priority
<1>2. RemoveQueued(q) = RemoveQueuedByPriority(q, RemoveQueuedPri(q))
  BY DEF RemoveQueued
<1> QED
  BY <1>1, <1>2, ByPriorityProperties

\* remove_queued_by_handle(), when it finds something.
LEMMA ByHandleProperties ==
    ASSUME NEW S, OpSet(S), NEW q, GoodQueue(q, S), NEW h, RemoveQueuedByHandle(q, h).op # Null
    PROVE  \E pri \in Priority : \E i \in DOMAIN q[pri] :
               /\ RemoveQueuedByHandle(q, h) = Removal(q, pri, i)
               /\ q[pri][i].async_handle = h /\ h # 0
<1> DEFINE pri == ByHandlePri(q, h)
<1>1. pri # Null
  BY DEF RemoveQueuedByHandle, NothingRemoved
<1>2. pri \in Priority /\ WithHandle(q[pri], h) # {}
  BY <1>1 DEF ByHandlePri, Priority
<1>3. RemoveQueuedByHandle(q, h) = Removal(q, pri, Min(WithHandle(q[pri], h)))
  BY <1>1 DEF RemoveQueuedByHandle
<1> HIDE DEF pri
<1>4. DOMAIN q[pri] = 1..Len(q[pri]) /\ Len(q[pri]) \in Nat
  BY <1>2, QueueShape DEF GoodQueue
<1>5. WithHandle(q[pri], h) \subseteq DOMAIN q[pri] /\ WithHandle(q[pri], h) \subseteq Nat
  BY <1>4 DEF WithHandle, Cancellable
<1>6. Min(WithHandle(q[pri], h)) \in WithHandle(q[pri], h)
  BY <1>2, <1>5, MinOfNats
<1>7. \A i \in WithHandle(q[pri], h) : q[pri][i].async_handle = h /\ h # 0
  BY DEF WithHandle, Cancellable
<1> QED
  BY <1>2, <1>3, <1>5, <1>6, <1>7

(***************************************************************************)
(* The invariant of the sends, and the kinds of step that keep it.         *)
(***************************************************************************)

\* The ops SendTo() makes: the handle of a send is its number or 0.
GoodOps == {op \in Ops : op.async_handle \in {0, op.send}}

\* Queue q has an op of send s and priority x.
Queued(q, s, x) == \E op \in OpsIn(q) : op.send = s /\ op.pri = x

\* The pc of the threads that know their peer.
PeerPC == {"trig", "send", "sendcb", "recv", "flush", "flushcb", "acks", "ackscb",
           "destroycb", "player", "playercb"}

\* The counters of a send.
SendRecs ==
    [kind : {"new", "async", "nocomplete", "sync"}, targets : SUBSET Peers, pending : Nat,
     result : {"ok", "cancelled", "lost"}, indicated : Nat, returned : BOOLEAN]

\* The types that the steps depend on.
Records ==
    /\ sq = [p \in Peers |-> sq[p]] /\ \A p \in Peers : GoodQueue(sq[p], GoodOps)
    /\ wire \in [Peers -> Seq(GoodOps)]
    /\ send \in [SendIds -> SendRecs]
    /\ work \in Seq(SendIds) /\ detached \subseteq SendIds

\* Where a thread can be, and what it then carries along.
Places ==
    {r \in [pc : PeerPC \cup {"idle", "worktrig", "workcb", "all", "allcb"}, peer : Peers \cup {Null},
            result : {"lost", Null}, send : SendIds \cup {Null}, flags : SUBSET Pris] :
        /\ r.pc \in PeerPC => r.peer \in Peers
        /\ r.pc \in {"flush", "flushcb"} => r.result = "lost"
        /\ r.pc = "workcb" => r.send \in SendIds}

Positions == lock \in Threads \cup {Null} /\ thread \in [Threads -> Places]

\* The send has been issued.
Issued(s) == send[s].kind # "new"

\* Sends are issued in order, and nothing exists of one that is not.
Issuing ==
    /\ \A s \in SendIds : Issued(s) => \A r \in 1..s : Issued(r)
    /\ \A p \in Peers, s \in SendIds, x \in Priority : Queued(sq[p], s, x) => Issued(s)
    /\ \A p \in Peers : \A i \in DOMAIN wire[p] : Issued(wire[p][i].send)
    /\ \A s \in SendIds : InWork(s) \/ s \in detached => Issued(s)

\* A loopback delivery is in one place, and a send without targets has none.
Local ==
    /\ \A i, j \in DOMAIN work : work[i] = work[j] => i = j
    /\ \A t, u \in Threads :
          thread[t].pc = "workcb" /\ thread[u].pc = "workcb" /\ thread[t].send = thread[u].send => t = u
    /\ \A t \in Threads : thread[t].pc = "workcb" => thread[t].send \notin ToSet(work)
    /\ \A s \in detached : ~InWork(s)

\* The peers that hold an op of send s, or held it when they were deleted.
HeldAt(s) == {p \in Peers : (\E op \in OpsIn(sq[p]) : op.send = s) \/ <<s, p>> \in orphans}

\* The callbacks that a send waits for, the ones that never come included.
Owed(s) == Cardinality(HeldAt(s)) + (IF InWork(s) THEN 1 ELSE 0) + (IF s \in detached THEN 1 ELSE 0)

Counting == \A s \in SendIds : send[s].pending = Owed(s)

\* A deleted peer has no queue, and only deleted peers took an op with them.
Graves ==
    /\ peer \in [Peers -> {"connected", "closing", "deleted"}] /\ orphans \subseteq SendIds \X Peers
    /\ \A p \in Peers : peer[p] = "deleted" => OpsIn(sq[p]) = {}
    /\ \A s \in SendIds, p \in Peers : <<s, p>> \in orphans => Issued(s) /\ peer[p] = "deleted"

\* Every target's op is queued, written, deleted with its peer, or the send has
\* failed.
Delivery ==
    /\ \A s \in SendIds : HeldAt(s) \cup WrittenTo(s) \subseteq send[s].targets
    /\ \A s \in SendIds : HeldAt(s) \cap WrittenTo(s) = {}
    /\ \A s \in SendIds : send[s].result = "ok" <=> send[s].targets \subseteq HeldAt(s) \cup WrittenTo(s)

\* What is queued was sent after what is on the wire.
Behind ==
    \A p \in Peers : \A i \in DOMAIN wire[p] : \A s \in SendIds :
        Queued(sq[p], s, wire[p][i].pri) => wire[p][i].send < s

\* Completion is indicated with the last callback, and a synchronous call
\* returns after it.
Told ==
    \A s \in SendIds :
        /\ send[s].kind = "async" => send[s].indicated = IF send[s].pending = 0 THEN 1 ELSE 0
        /\ send[s].kind # "async" => send[s].indicated = 0
        /\ send[s].returned => send[s].kind = "sync" /\ send[s].pending = 0

\* The inductive invariant.
SendsInv ==
    /\ Records /\ Positions /\ Issuing /\ Local
    /\ Counting /\ Delivery /\ WireOrder /\ Behind /\ Told /\ Graves

\* Thread t is in the application with the loopback delivery of send s.
InCallback(t, s) == thread[t].pc = "workcb" /\ thread[t].send = s

\* The types of the variables that the accounting does not depend on.
Sockets ==
    /\ flushed \subseteq Peers /\ late \subseteq SendIds \X Peers /\ acks \in [Peers -> 0..MaxAcks]
    /\ send_open \in [Peers -> BOOLEAN] /\ recv_busy \in [Peers -> BOOLEAN]
    /\ event \in [Peers -> BOOLEAN] /\ eof \in [Peers -> BOOLEAN]
    /\ wr \in [Peers -> {"ready", "full", "shut", "broken"}]
    /\ work_ready \in BOOLEAN

-------------------------------------------------------------------------------
(* Facts about the constants and the state functions.                        *)

\* The ops of SendTo() are ops in the sense of the queue lemmas.
LEMMA GoodOpsAreOps ==
    /\ OpSet(GoodOps) /\ GoodOps \subseteq Ops /\ SendIds \subseteq Nat \ {0}
    /\ \A op \in GoodOps : op.send \in SendIds /\ op.pri \in Priority
<1>1. SendIds \subseteq Nat \ {0} /\ GoodOps \subseteq Ops /\ Null \notin Ops
  BY SendsAssumption DEF GoodOps, SendIds
<1>2. \A op \in GoodOps : op.send \in SendIds /\ op.pri \in Priority
  BY DEF GoodOps, Ops
<1> QED
  BY <1>1, <1>2 DEF OpSet

\* The sends a queue has an op of, by their priorities.
LEMMA QueuedMembers ==
    ASSUME NEW q, GoodQueue(q, GoodOps), NEW s
    PROVE  (\E op \in OpsIn(q) : op.send = s) <=> \E x \in Priority : Queued(q, s, x)
<1>1. OpsIn(q) \subseteq GoodOps
  BY OpsInQueue DEF GoodQueue
<1> QED
  BY <1>1, GoodOpsAreOps DEF Queued

\* A set of peers is finite and no larger than all of them.
LEMMA SetsAreFinite ==
    ASSUME NEW T \in SUBSET Peers
    PROVE  IsFiniteSet(T) /\ Cardinality(T) \in 0..NumPeers
<1>1. IsFiniteSet(Peers) /\ Cardinality(Peers) = NumPeers
  BY FS_Interval, SendsAssumption DEF Peers
<1>2. IsFiniteSet(T) /\ Cardinality(T) <= NumPeers
  BY <1>1, FS_Subset
<1> QED
  BY <1>2, FS_CardinalityType, SendsAssumption

\* So are the peers that hold an op of a send.
LEMMA HeldAtFinite ==
    ASSUME NEW s
    PROVE  HeldAt(s) \subseteq Peers /\ IsFiniteSet(HeldAt(s)) /\ Cardinality(HeldAt(s)) \in 0..NumPeers
<1>1. HeldAt(s) \in SUBSET Peers
  BY DEF HeldAt
<1> QED
  BY <1>1, SetsAreFinite

\* The queue of a new connection.
LEMMA EmptyQueueIsGood ==
    GoodQueue(EmptyQueue, GoodOps) /\ OpsIn(EmptyQueue) = {}
<1>1. EmptyQueue = [x \in Priority \cup {"current"} |-> EmptyQueue[x]]
  BY DEF EmptyQueue, Priority
<1>2. EmptyQueue.current = Null /\ \A x \in Priority : EmptyQueue[x] = <<>>
  BY DEF EmptyQueue, Priority
<1>3. IsQueue(EmptyQueue, GoodOps)
  BY <1>1, <1>2, EmptySeq DEF IsQueue
<1>4. \A x \in Priority : DOMAIN EmptyQueue[x] = {}
  BY <1>3, QueueShape, GoodOpsAreOps, <1>2
<1>5. Ordered(EmptyQueue)
  BY <1>2, <1>4 DEF Ordered
<1>6. \A op : op \notin OpsIn(EmptyQueue)
  BY <1>2, <1>4, OpsInMembers
<1> QED
  BY <1>3, <1>5, <1>6 DEF GoodQueue

\* The invariant holds when the peers have just connected.
LEMMA InitInv == Init => SendsInv /\ Sockets
<1> SUFFICES ASSUME Init PROVE SendsInv /\ Sockets
  OBVIOUS
<1>1. /\ \A p \in Peers : GoodQueue(sq[p], GoodOps) /\ OpsIn(sq[p]) = {}
      /\ sq = [p \in Peers |-> sq[p]]
  BY EmptyQueueIsGood DEF Init
<1>2. NewSend \in SendRecs
  BY DEF NewSend, SendRecs
<1>3. <<>> \in Seq(GoodOps) /\ <<>> \in Seq(SendIds) /\ DOMAIN <<>> = {}
  BY EmptySeq
<1>4. Records
  BY <1>1, <1>2, <1>3 DEF Init, Records
<1>5. Idle \in Places
  BY DEF Idle, Places, PeerPC
<1>6. Positions
  BY <1>5 DEF Init, Positions
<1>7. \A s \in SendIds : ~Issued(s) /\ send[s] = NewSend
  BY DEF Init, Issued, NewSend
<1>8. \A p \in Peers : \A s, x : ~Queued(sq[p], s, x)
  BY <1>1 DEF Queued
<1>9. \A p \in Peers : wire[p] = <<>> /\ DOMAIN wire[p] = {}
  BY <1>3 DEF Init
<1>10. work = <<>> /\ ToSet(work) = {} /\ \A t \in Threads : thread[t].pc = "idle"
  BY <1>3 DEF Init, Idle, ToSet
<1>11. detached = {} /\ \A s : ~InWork(s)
  BY <1>10 DEF Init, InWork
<1>12. \A s \in SendIds : HeldAt(s) = {} /\ WrittenTo(s) = {}
  BY <1>1, <1>9 DEF HeldAt, WrittenTo, Init
<1>13. Issuing
  BY <1>7, <1>8, <1>9, <1>11 DEF Issuing
<1>14. Local
  BY <1>3, <1>10, <1>11 DEF Local
<1>15. Counting
  BY <1>7, <1>11, <1>12, FS_EmptySet DEF Counting, Owed, NewSend
<1>16. Delivery
  BY <1>7, <1>12 DEF Delivery, NewSend
<1>17. WireOrder /\ Behind
  BY <1>9 DEF WireOrder, Behind
<1>18. Told
  BY <1>7 DEF Told, NewSend
<1>19. Sockets
  BY SendsAssumption DEF Init, Sockets
<1>20. Graves
  BY DEF Init, Graves
<1> QED
  BY <1>20, <1>4, <1>6, <1>13, <1>14, <1>15, <1>16, <1>17, <1>18, <1>19 DEF SendsInv

-------------------------------------------------------------------------------
(* The kinds of step.                                                        *)

GoodQueues ==
    sq = [p \in Peers |-> sq[p]] /\ \A p \in Peers : GoodQueue(sq[p], GoodOps)

\* Threads move, but every loopback delivery is where it was, or at least in
\* the hands of one thread.
SameDeliveries ==
    /\ Positions' /\ Local' /\ work' \in Seq(SendIds) /\ detached' = detached
    /\ \A s \in SendIds : InWork(s)' <=> InWork(s)

\* No peer is deleted, and one that was stays without a queue.
Kept ==
    /\ orphans' = orphans /\ peer' \in [Peers -> {"connected", "closing", "deleted"}]
    /\ \A p \in Peers : peer'[p] = "deleted" <=> peer[p] = "deleted"
    /\ \A p \in Peers : peer[p] = "deleted" => OpsIn(sq'[p]) = {}

\* Peer p is deleted, with the ops that came after its last flush.
Buried(p) ==
    /\ SameDeliveries /\ UNCHANGED <<send, wire>>
    /\ sq' = [sq EXCEPT ![p] = EmptyQueue] /\ peer' = [peer EXCEPT ![p] = "deleted"]
    /\ orphans' = orphans \cup {<<op.send, p>> : op \in OpsIn(sq[p])}

\* Nothing is issued, completed, written or lost.
Silent ==
    /\ SameDeliveries /\ GoodQueues' /\ UNCHANGED <<send, wire>>
    /\ \A p \in Peers, s \in SendIds, x \in Priority : Queued(sq'[p], s, x) <=> Queued(sq[p], s, x)

\* The op of send s, of priority x, leaves the queue of peer p: written if
\* the result is "ok", else not.
Completed(p, s, x, result) ==
    /\ SameDeliveries /\ GoodQueues' /\ Queued(sq[p], s, x)
    /\ \A o \in Peers, r \in SendIds, y \in Priority :
          Queued(sq'[o], r, y) <=> Queued(sq[o], r, y) /\ ~(o = p /\ r = s)
    /\ send' = Settled(s, result)
    /\ \/ result \in {"lost", "cancelled"} /\ wire' = wire
       \/ /\ result = "ok"
          /\ \E op \in GoodOps : /\ op.send = s /\ op.pri = x
                                 /\ wire' = [wire EXCEPT ![p] = Append(@, op)]
          /\ \A r \in SendIds : Queued(sq'[p], r, x) => s < r

\* The loopback delivery of send s, or the thread that stands in for it, ends.
LocallyCompleted(s) ==
    /\ Positions' /\ Local' /\ UNCHANGED <<sq, wire>> /\ work' \in Seq(SendIds)
    /\ InWork(s) \/ s \in detached
    /\ detached' = detached \ {s} /\ \A r \in SendIds : InWork(r)' <=> InWork(r) /\ r # s
    /\ send' = Settled(s, "ok")

\* A synchronous SendTo() returns.
Returned(s) == UNCHANGED <<lock, sq, work, detached, thread, wire, orphans>> /\ SyncReturn(s)

\* SendTo() accepts send s: one op for each of the peers ps, a loopback
\* delivery or a thread that stands in for it.
Accepted(s, kind, ps, x, loop, alone) ==
    /\ Positions' /\ Local' /\ work' \in Seq(SendIds) /\ GoodQueues' /\ wire' = wire
    /\ ~Issued(s) /\ (\A r \in 1..s - 1 : Issued(r)) /\ ~(loop /\ alone)
    /\ kind # "sync" => ps # {} \/ loop \/ alone
    /\ detached' = (IF alone THEN detached \cup {s} ELSE detached)
    /\ \A r \in SendIds : InWork(r)' <=> InWork(r) \/ (loop /\ r = s)
    /\ \A o \in Peers, r \in SendIds, y \in Priority :
          Queued(sq'[o], r, y) <=> Queued(sq[o], r, y) \/ (o \in ps /\ r = s /\ y = x)
    /\ send' = [send EXCEPT ![s] = [NewSend EXCEPT !.kind = kind, !.targets = ps,
                   !.pending = Cardinality(ps) + (IF loop \/ alone THEN 1 ELSE 0)]]

\* The op in `current' of peer p is not replaced before it has been written,
\* unless the queue is being flushed or goes with its peer.
Intact(p) ==
    sq[p].current # Null /\ sq'[p].current # sq[p].current =>
        \/ sq'[p].current # Null /\ sq'[p].current.send = sq[p].current.send
        \/ Len(wire'[p]) = Len(wire[p]) + 1
        \/ peer'[p] = "deleted"
        \/ \E t \in Threads : lock = t /\ thread[t].pc = "flush" /\ thread[t].peer = p

Classified ==
    \/ Silent
    \/ \E s \in SendIds, kind \in Kinds, ps \in SUBSET Peers, x \in Priority, loop, alone \in BOOLEAN :
          Accepted(s, kind, ps, x, loop, alone)
    \/ \E p \in Peers, s \in SendIds, x \in Priority, result \in {"ok", "lost", "cancelled"} :
          Completed(p, s, x, result)
    \/ \E s \in SendIds : LocallyCompleted(s) \/ Returned(s)

GoodStep == Classified /\ \A p \in Peers : Intact(p)

\* A thread is about to delete its peer.
Deletes(t) == DestroyReturn(t) \/ (AcksDone(t) /\ peer[thread[t].peer] # "connected")

-------------------------------------------------------------------------------
(* Where threads go.                                                         *)

\* The places that the actions send their threads to.
LEMMA PlacesToBe ==
    /\ Idle \in Places /\ Idle.pc = "idle"
    /\ \A p \in Peers, pc \in PeerPC \ {"flush", "flushcb"} :
          At(pc, p) \in Places /\ At(pc, p).pc = pc
    /\ \A p \in Peers : [At("flush", p) EXCEPT !.result = "lost"] \in Places
    /\ \A p \in Peers, flags \in SUBSET Pris, pc \in {"player", "all"} :
          [At(pc, p) EXCEPT !.flags = flags] \in Places /\ [At(pc, p) EXCEPT !.flags = flags].pc = pc
    /\ \A r \in Places :
          /\ r.pc = "send" => [r EXCEPT !.pc = "sendcb"] \in Places
          /\ r.pc = "flush" => [r EXCEPT !.pc = "flushcb"] \in Places
          /\ r.pc = "flushcb" => [r EXCEPT !.pc = "flush"] \in Places
          /\ r.pc \in {"flush", "ackscb"} => [r EXCEPT !.pc = "acks"] \in Places
          /\ r.pc = "acks" => [r EXCEPT !.pc = "ackscb"] \in Places
          /\ r.pc = "player" => [r EXCEPT !.pc = "playercb"] \in Places
          /\ r.pc = "playercb" => [r EXCEPT !.pc = "player"] \in Places
          /\ r.pc = "all" => [r EXCEPT !.pc = "allcb"] \in Places
          /\ r.pc = "allcb" => [r EXCEPT !.pc = "all"] \in Places
          /\ r.pc = "idle" => [r EXCEPT !.pc = "worktrig"] \in Places
<1>1. Idle \in Places /\ Idle.pc = "idle"
  BY DEF Idle, Places, PeerPC
<1>2. ASSUME NEW p \in Peers, NEW pc \in PeerPC \ {"flush", "flushcb"}
      PROVE  At(pc, p) \in Places /\ At(pc, p).pc = pc
  BY DEF At, Idle, Places, PeerPC
<1>3. \A p \in Peers : [At("flush", p) EXCEPT !.result = "lost"] \in Places
  BY DEF At, Idle, Places, PeerPC
<1>4. ASSUME NEW p \in Peers, NEW flags \in SUBSET Pris, NEW pc \in {"player", "all"}
      PROVE  [At(pc, p) EXCEPT !.flags = flags] \in Places /\ [At(pc, p) EXCEPT !.flags = flags].pc = pc
  BY DEF At, Idle, Places, PeerPC
<1>5. ASSUME NEW r \in Places
      PROVE  /\ r.pc = "send" => [r EXCEPT !.pc = "sendcb"] \in Places
             /\ r.pc = "flush" => [r EXCEPT !.pc = "flushcb"] \in Places
             /\ r.pc = "flushcb" => [r EXCEPT !.pc = "flush"] \in Places
             /\ r.pc \in {"flush", "ackscb"} => [r EXCEPT !.pc = "acks"] \in Places
             /\ r.pc = "acks" => [r EXCEPT !.pc = "ackscb"] \in Places
             /\ r.pc = "player" => [r EXCEPT !.pc = "playercb"] \in Places
             /\ r.pc = "playercb" => [r EXCEPT !.pc = "player"] \in Places
             /\ r.pc = "all" => [r EXCEPT !.pc = "allcb"] \in Places
             /\ r.pc = "allcb" => [r EXCEPT !.pc = "all"] \in Places
             /\ r.pc = "idle" => [r EXCEPT !.pc = "worktrig"] \in Places
  BY DEF Places, PeerPC
<1> QED
  BY <1>1, <1>2, <1>3, <1>4, <1>5

\* What Local says, in terms of InCallback.
LEMMA LocalMeaning ==
    /\ \A s : InWork(s) <=> s \in ToSet(work) \/ \E t \in Threads : InCallback(t, s)
    /\ Local <=>
         /\ \A i, j \in DOMAIN work : work[i] = work[j] => i = j
         /\ \A t, u \in Threads : \A s : InCallback(t, s) /\ InCallback(u, s) => t = u
         /\ \A t \in Threads : \A s : InCallback(t, s) => s \notin ToSet(work)
         /\ \A s \in detached : ~InWork(s)
BY DEF Local, InWork, InCallback

\* A thread that is not in a loopback delivery moves to a place that is not one.
LEMMA Moving ==
    ASSUME SendsInv, NEW t \in Threads, thread[t].pc # "workcb", NEW r \in Places, r.pc # "workcb",
           thread' = [thread EXCEPT ![t] = r], lock' \in Threads \cup {Null}, UNCHANGED <<work, detached>>
    PROVE  SameDeliveries
<1>1. thread \in [Threads -> Places] /\ work \in Seq(SendIds) /\ Local
  BY DEF SendsInv, Records, Positions
<1>2. Positions'
  BY <1>1 DEF Positions
<1>3. \A u \in Threads : \A s : InCallback(u, s)' <=> InCallback(u, s)
  BY <1>1 DEF InCallback
<1>4. \A s : InWork(s)' <=> InWork(s)
  BY <1>3 DEF InWork, InCallback
<1>5. Local'
  <2>1. /\ \A u, v \in Threads : \A s : InCallback(u, s)' /\ InCallback(v, s)' => u = v
        /\ \A u \in Threads : \A s : InCallback(u, s)' => s \notin ToSet(work)
        /\ \A s \in detached : ~InWork(s)'
    BY <1>1, <1>3, <1>4, LocalMeaning
  <2>2. \A i, j \in DOMAIN work : work[i] = work[j] => i = j
    BY <1>1 DEF Local
  <2> QED
    BY <2>1, <2>2 DEF Local, InCallback
<1> QED
  BY <1>1, <1>2, <1>4, <1>5 DEF SameDeliveries

\* Nothing that local deliveries depend on changes.
LEMMA Staying ==
    ASSUME SendsInv, UNCHANGED <<lock, thread, work, detached>>
    PROVE  SameDeliveries
BY DEF SendsInv, Records, Positions, Local, InWork, SameDeliveries

\* A callback leaves the thread in its loop or in the application.
LEMMA Calling ==
    ASSUME SendsInv, NEW t \in Threads, NEW s, NEW result, NEW loop, NEW cb,
           <<loop, cb>> \in {<<"send", "sendcb">>, <<"flush", "flushcb">>, <<"player", "playercb">>,
                             <<"all", "allcb">>},
           thread[t].pc = loop, InvokeCallback(t, s, result, loop, cb), UNCHANGED <<work, detached>>
    PROVE  SameDeliveries /\ send' = Settled(s, result)
<1>1. thread \in [Threads -> Places] /\ thread[t] \in Places
  BY DEF SendsInv, Positions
<1>2. /\ [thread[t] EXCEPT !.pc = cb] \in Places /\ [thread[t] EXCEPT !.pc = cb].pc = cb
      /\ cb # "workcb" /\ loop # "workcb" /\ [thread[t] EXCEPT !.pc = loop] = thread[t]
  <2>1. [thread[t] EXCEPT !.pc = cb] \in Places
    BY <1>1, PlacesToBe
  <2> QED
    BY <1>1, <2>1 DEF Places
<1>3. CASE Unlocks(s)
  <2>1. lock' = Null /\ thread' = [thread EXCEPT ![t] = [thread[t] EXCEPT !.pc = cb]] /\ send' = Settled(s, result)
    BY <1>1, <1>3 DEF InvokeCallback
  <2> QED
    BY <1>2, <2>1, Moving
<1>4. CASE ~Unlocks(s)
  <2>1. lock' = t /\ thread' = [thread EXCEPT ![t] = thread[t]] /\ send' = Settled(s, result)
    BY <1>2, <1>4 DEF InvokeCallback, Continue
  <2> QED
    BY <1>1, <1>2, <2>1, Moving
<1> QED
  BY <1>3, <1>4

\* A change of one peer's queue.
LEMMA OneQueue ==
    ASSUME SendsInv, NEW p \in Peers, NEW q, GoodQueue(q, GoodOps), sq' = [sq EXCEPT ![p] = q]
    PROVE  GoodQueues' /\ sq'[p] = q /\ \A o \in Peers \ {p} : sq'[o] = sq[o]
BY DEF SendsInv, Records, GoodQueues

\* A thread that serves a peer knows it, and its queue is a queue.
LEMMA PeerOfThread ==
    ASSUME SendsInv, NEW t \in Threads, thread[t].pc \in PeerPC
    PROVE  thread[t].peer \in Peers /\ GoodQueue(sq[thread[t].peer], GoodOps)
BY DEF SendsInv, Positions, Places, Records

\* Steps that leave the queues alone, or only make an op current.
LEMMA QuietStep ==
    ASSUME SendsInv, SameDeliveries, UNCHANGED <<sq, send, wire>>
    PROVE  Silent /\ \A p \in Peers : Intact(p)
BY DEF SendsInv, Records, GoodQueues, Silent, Intact

\* get_pending() alone is a silent step.
LEMMA PendingStep ==
    ASSUME SendsInv, SameDeliveries, UNCHANGED <<send, wire>>, NEW p \in Peers,
           sq' = [sq EXCEPT ![p] = GetPending(sq[p])]
    PROVE  Silent /\ \A o \in Peers : Intact(o)
<1>1. OpSet(GoodOps) /\ GoodQueue(sq[p], GoodOps)
  BY GoodOpsAreOps DEF SendsInv, Records
<1>2. /\ GoodQueue(GetPending(sq[p]), GoodOps) /\ OpsIn(GetPending(sq[p])) = OpsIn(sq[p])
      /\ sq[p].current # Null => GetPending(sq[p]) = sq[p]
  BY <1>1, GetPendingProperties
<1>3. GoodQueues' /\ sq'[p] = GetPending(sq[p]) /\ \A o \in Peers \ {p} : sq'[o] = sq[o]
  BY <1>2, OneQueue
<1>4. \A o \in Peers : \A s, x : Queued(sq'[o], s, x) <=> Queued(sq[o], s, x)
  BY <1>2, <1>3 DEF Queued
<1> QED
  BY <1>2, <1>3, <1>4 DEF Silent, Intact

\* An op that is taken out of a queue with its callback completes.
LEMMA Leaving ==
    ASSUME SendsInv, SameDeliveries, NEW p \in Peers, NEW q, GoodQueue(q, GoodOps),
           sq' = [sq EXCEPT ![p] = q], NEW op \in OpsIn(sq[p]), OpsIn(q) = OpsIn(sq[p]) \ {op},
           \A o \in OpsIn(q) : o.send # op.send,
           NEW result, send' = Settled(op.send, result),
           \/ result \in {"lost", "cancelled"} /\ wire' = wire
           \/ /\ result = "ok" /\ wire' = [wire EXCEPT ![p] = Append(@, [op EXCEPT !.left = 0])]
              /\ \A o \in OpsIn(q) : o.pri = op.pri => op.send < o.send
    PROVE  Classified
<1>1. op \in GoodOps
  BY OpsInQueue DEF SendsInv, Records, GoodQueue
<1>2. op.send \in SendIds /\ op.pri \in Priority
  BY <1>1, GoodOpsAreOps
<1>3. /\ [op EXCEPT !.left = 0] \in GoodOps
      /\ [op EXCEPT !.left = 0].send = op.send /\ [op EXCEPT !.left = 0].pri = op.pri
  BY <1>1, SendsAssumption DEF GoodOps, Ops
<1>4. GoodQueues' /\ sq'[p] = q /\ \A o \in Peers \ {p} : sq'[o] = sq[o]
  BY OneQueue
<1>5. Queued(sq[p], op.send, op.pri)
  BY DEF Queued
<1>6. \A r, y : Queued(q, r, y) <=> Queued(sq[p], r, y) /\ r # op.send
  BY DEF Queued
<1>7. \A o \in Peers, r \in SendIds, y \in Priority :
          Queued(sq'[o], r, y) <=> Queued(sq[o], r, y) /\ ~(o = p /\ r = op.send)
  BY <1>4, <1>6
<1>8. result = "ok" => \A r \in SendIds : Queued(sq'[p], r, op.pri) => op.send < r
  BY <1>4 DEF Queued
<1>9. Completed(p, op.send, op.pri, result) /\ result \in {"ok", "lost", "cancelled"}
  BY <1>3, <1>4, <1>5, <1>7, <1>8 DEF Completed
<1> QED
  BY <1>2, <1>9 DEF GoodStep, Classified

-------------------------------------------------------------------------------
(* Every action is a step of one of the kinds.                               *)

\* Loopback deliveries, the detached thread and the return of a synchronous call.
LEMMA LocalSteps ==
    ASSUME SendsInv
    PROVE  /\ \A s \in SendIds : SyncReturn(s) \/ DetachedComplete(s) => GoodStep
           /\ \A t \in Threads : HandleWork(t) \/ WorkReturn(t) \/ WakeWork(t) => GoodStep
<1>0. /\ thread \in [Threads -> Places] /\ work \in Seq(SendIds) /\ detached \subseteq SendIds /\ Local /\ Positions
  BY DEF SendsInv, Records, Positions
<1>1. ASSUME NEW s \in SendIds, SyncReturn(s) PROVE GoodStep
  <2>1. Returned(s)
    BY <1>1 DEF Returned, SyncReturn, history
  <2> QED
    BY <1>1, <2>1 DEF GoodStep, Classified, Intact, SyncReturn
<1>2. ASSUME NEW s \in SendIds, DetachedComplete(s) PROVE GoodStep
  <2>1. /\ s \in detached /\ send' = Settled(s, "ok") /\ detached' = detached \ {s}
        /\ UNCHANGED <<lock, sq, work, thread, wire>>
    BY <1>2 DEF DetachedComplete
  <2>2. ~InWork(s)
    BY <1>0, <2>1 DEF Local
  <2>3. \A r \in SendIds : InWork(r)' <=> InWork(r) /\ r # s
    BY <2>1, <2>2 DEF InWork
  <2>4. Local' /\ Positions'
    BY <1>0, <2>1 DEF Local, Positions, InWork
  <2>5. LocallyCompleted(s)
    BY <1>0, <2>1, <2>3, <2>4 DEF LocallyCompleted
  <2> QED
    BY <2>1, <2>5 DEF GoodStep, Classified, Intact
<1>3. ASSUME NEW t \in Threads, WakeWork(t) PROVE GoodStep
  <2>1. /\ thread' = [thread EXCEPT ![t] = [Idle EXCEPT !.pc = "worktrig"]] /\ thread[t] = Idle
        /\ UNCHANGED <<lock, sq, work, detached, send, wire>>
    BY <1>0, <1>3 DEF WakeWork
  <2>2. [Idle EXCEPT !.pc = "worktrig"] \in Places /\ [Idle EXCEPT !.pc = "worktrig"].pc = "worktrig" /\ Idle.pc = "idle"
    BY PlacesToBe DEF Idle
  <2>3. lock' \in Threads \cup {Null}
    BY <2>1, <1>0 DEF Positions
  <2>4. SameDeliveries
    BY <2>1, <2>2, <2>3, Moving
  <2> QED
    BY <2>1, <2>4, QuietStep DEF GoodStep, Classified
<1>4. ASSUME NEW t \in Threads, HandleWork(t) PROVE GoodStep
  <2>1. UNCHANGED <<lock, sq, detached, send, wire>> /\ thread[t].pc = "worktrig"
    BY <1>4 DEF HandleWork, Resumes
  <2>2. lock' \in Threads \cup {Null}
    BY <2>1, <1>0 DEF Positions
  <2>3. CASE work = <<>>
    <3>1. thread' = [thread EXCEPT ![t] = Idle] /\ work' = work
      BY <1>4, <2>3 DEF HandleWork
    <3>2. SameDeliveries
      BY <2>1, <2>2, <3>1, PlacesToBe, Moving
    <3> QED
      BY <2>1, <3>2, QuietStep DEF GoodStep, Classified
  <2>4. CASE work # <<>>
    <3> DEFINE s == Head(work)
               r == [Idle EXCEPT !.pc = "workcb", !.send = s]
    <3>1. work' = Tail(work) /\ thread' = [thread EXCEPT ![t] = r]
      BY <1>4, <2>4 DEF HandleWork
    <3>2. /\ s \in SendIds /\ Tail(work) \in Seq(SendIds) /\ Len(work) \in Nat \ {0} /\ DOMAIN work = 1..Len(work)
          /\ DOMAIN Tail(work) = 1..Len(work) - 1
          /\ s = work[1] /\ \A i \in 1..Len(work) - 1 : Tail(work)[i] = work[i + 1]
      BY <1>0, <2>4, HeadTailProperties, LenProperties, EmptySeq
    <3>3. r \in Places /\ r.pc = "workcb" /\ r.send = s
      BY <3>2 DEF Idle, Places, PeerPC
    <3> HIDE DEF s, r
    <3>4. \A i, j \in 1..Len(work) : work[i] = work[j] => i = j
      BY <1>0, <3>2 DEF Local
    <3>5. ASSUME NEW k PROVE k \in ToSet(Tail(work)) <=> k \in ToSet(work) /\ k # s
      <4>1. ASSUME NEW i \in 1..Len(work) - 1 PROVE i + 1 \in 1..Len(work) /\ 1 \in 1..Len(work) /\ i + 1 # 1
        BY <3>2
      <4>2. \A i \in 1..Len(work) - 1 : Tail(work)[i] \in ToSet(work) /\ Tail(work)[i] # s
        BY <3>2, <3>4, <4>1 DEF ToSet
      <4>3. ASSUME NEW i \in 1..Len(work), work[i] # s PROVE \E j \in 1..Len(work) - 1 : Tail(work)[j] = work[i]
        <5>1. i - 1 \in 1..Len(work) - 1 /\ (i - 1) + 1 = i
          BY <3>2, <4>3
        <5> QED
          BY <3>2, <5>1
      <4>4. /\ k \in ToSet(Tail(work)) <=> \E j \in 1..Len(work) - 1 : k = Tail(work)[j]
            /\ k \in ToSet(work) <=> \E i \in 1..Len(work) : k = work[i]
        BY <3>2 DEF ToSet
      <4> QED
        BY <4>2, <4>3, <4>4
    <3>6. \A i, j \in DOMAIN Tail(work) : Tail(work)[i] = Tail(work)[j] => i = j
      BY <3>2, <3>4
    <3>7. s \in ToSet(work)
      BY <3>2 DEF ToSet
    <3>8. \A u \in Threads : \A k : InCallback(u, k)' <=> InCallback(u, k) \/ (u = t /\ k = s)
      BY <1>0, <2>1, <3>1, <3>3 DEF InCallback
    <3>9. \A u \in Threads : ~InCallback(u, s)
      BY <1>0, <3>7, LocalMeaning
    <3>10. \A k : InWork(k)' <=> InWork(k)
      <4>1. ASSUME NEW k PROVE InWork(k)' <=> k \in ToSet(Tail(work)) \/ \E u \in Threads : InCallback(u, k)'
        BY <3>1 DEF InWork, InCallback
      <4> QED
        BY <3>5, <3>7, <3>8, <4>1, LocalMeaning
    <3>11. /\ \A u, v \in Threads : \A k : InCallback(u, k)' /\ InCallback(v, k)' => u = v
           /\ \A u \in Threads : \A k : InCallback(u, k)' => k \notin ToSet(Tail(work))
           /\ \A k \in detached : ~InWork(k)'
      BY <1>0, <3>5, <3>8, <3>9, <3>10, LocalMeaning
    <3>12. Local'
      BY <2>1, <3>1, <3>6, <3>11 DEF Local, InCallback
    <3>13. Positions'
      BY <1>0, <2>2, <3>1, <3>3 DEF Positions
    <3>14. SameDeliveries
      BY <2>1, <3>1, <3>2, <3>10, <3>12, <3>13 DEF SameDeliveries
    <3> QED
      BY <2>1, <3>14, QuietStep DEF GoodStep, Classified
  <2> QED
    BY <2>3, <2>4
<1>5. ASSUME NEW t \in Threads, WorkReturn(t) PROVE GoodStep
  <2> DEFINE s == thread[t].send
  <2>1. /\ thread[t].pc = "workcb" /\ send' = Settled(s, "ok") /\ thread' = [thread EXCEPT ![t] = Idle]
        /\ UNCHANGED <<lock, sq, work, detached, wire>>
    BY <1>5 DEF WorkReturn, Resumes
  <2>2. s \in SendIds /\ InCallback(t, s)
    BY <1>0, <2>1 DEF Places, InCallback
  <2> HIDE DEF s
  <2>3. \A u \in Threads : \A k : InCallback(u, k)' <=> InCallback(u, k) /\ k # s
    <3>1. \A u \in Threads : \A k : InCallback(u, k)' <=> InCallback(u, k) /\ u # t
      BY <1>0, <2>1, PlacesToBe DEF InCallback
    <3>2. \A k : InCallback(t, k) <=> k = s
      BY <2>2 DEF InCallback
    <3>3. \A u \in Threads : InCallback(u, s) => u = t
      BY <1>0, <2>2, LocalMeaning
    <3> QED
      BY <3>1, <3>2, <3>3
  <2>4. s \notin ToSet(work) /\ InWork(s) /\ s \notin detached
    BY <1>0, <2>2, LocalMeaning
  <2>5. \A k : InWork(k)' <=> InWork(k) /\ k # s
    <3>1. ASSUME NEW k PROVE InWork(k)' <=> k \in ToSet(work) \/ \E u \in Threads : InCallback(u, k)'
      BY <2>1 DEF InWork, InCallback
    <3> QED
      BY <2>3, <2>4, <3>1, LocalMeaning
  <2>6. /\ \A u, v \in Threads : \A k : InCallback(u, k)' /\ InCallback(v, k)' => u = v
        /\ \A u \in Threads : \A k : InCallback(u, k)' => k \notin ToSet(work)
        /\ \A k \in detached : ~InWork(k)'
        /\ \A i, j \in DOMAIN work : work[i] = work[j] => i = j
    BY <1>0, <2>3, <2>5, LocalMeaning
  <2>7. Local'
    BY <2>1, <2>6 DEF Local, InCallback
  <2>8. Positions'
    BY <1>0, <2>1, PlacesToBe DEF Positions
  <2>9. LocallyCompleted(s)
    BY <1>0, <2>1, <2>4, <2>5, <2>7, <2>8 DEF LocallyCompleted
  <2> QED
    BY <2>1, <2>2, <2>9 DEF GoodStep, Classified, Intact
<1> QED
  BY <1>1, <1>2, <1>3, <1>4, <1>5

\* Actions that move a thread and change neither queues nor counters.
LEMMA ThreadSteps ==
    ASSUME SendsInv
    PROVE  /\ \A t \in Threads : \/ EnterSend(t) \/ SendDrained(t) \/ IoRecv(t) \/ FlushReturn(t) \/ FlushDone(t)
                                 \/ FlushAck(t) \/ FlushAckReturn(t) \/ (AcksDone(t) /\ ~Deletes(t))
                                 \/ CancelDone(t) \/ CancelReturn(t)
                                 \/ \E p \in Peers : Wake(t, p) \/ CallPeerDestroy(t, p)
                                 => GoodStep
           /\ \A t \in Threads, p \in Peers, flags \in SUBSET Pris :
                 CallCancel(t, "player", p, flags) \/ CallCancel(t, "all", p, flags) => GoodStep
           /\ \A p \in Peers : PeerShutdown(p) \/ Writable(p) \/ RemoteClose(p, TRUE) \/ RemoteClose(p, FALSE)
                                 => GoodStep
<1>0. thread \in [Threads -> Places] /\ lock \in Threads \cup {Null}
  BY DEF SendsInv, Positions
<1>1. ASSUME NEW t \in Threads, thread[t].pc # "workcb", UNCHANGED <<sq, send, wire, work, detached>>,
             NEW r \in Places, r.pc # "workcb", thread' = [thread EXCEPT ![t] = r], lock' \in Threads \cup {Null}
      PROVE  GoodStep
  <2>1. SameDeliveries
    BY <1>1, Moving
  <2> QED
    BY <1>1, <2>1, QuietStep DEF GoodStep, Classified
<1>2. ASSUME NEW t \in Threads, thread[t].pc # "workcb", UNCHANGED <<sq, send, wire, work, detached>>,
             \/ Finish(t) \/ \E p \in Peers, pc \in {"send", "recv"} : Continue(t, At(pc, p))
             \/ \E p \in Peers : Continue(t, [At("flush", p) EXCEPT !.result = "lost"])
      PROVE  GoodStep
  <2>1. ASSUME NEW p \in Peers PROVE [At("flush", p) EXCEPT !.result = "lost"].pc = "flush"
    BY DEF At, Idle
  <2>2. CASE Finish(t)
    BY <1>1, <1>2, <2>2, PlacesToBe DEF Finish
  <2>3. CASE \E p \in Peers, pc \in {"send", "recv"} : Continue(t, At(pc, p))
    <3>1. PICK p \in Peers, pc \in {"send", "recv"} : Continue(t, At(pc, p))
      BY <2>3
    <3>2. At(pc, p) \in Places /\ At(pc, p).pc # "workcb"
      BY PlacesToBe DEF PeerPC
    <3> QED
      BY <1>1, <1>2, <3>1, <3>2 DEF Continue
  <2>4. CASE \E p \in Peers : Continue(t, [At("flush", p) EXCEPT !.result = "lost"])
    <3>1. PICK p \in Peers : Continue(t, [At("flush", p) EXCEPT !.result = "lost"])
      BY <2>4
    <3> QED
      BY <1>1, <1>2, <2>1, <3>1, PlacesToBe DEF Continue
  <2> QED
    BY <1>2, <2>2, <2>3, <2>4
<1>3. ASSUME NEW t \in Threads, EnterSend(t) PROVE GoodStep
  <2>1. thread[t].pc \in {"trig", "sendcb"} /\ UNCHANGED <<sq, send, wire, work, detached>>
    BY <1>3 DEF EnterSend, Resumes
  <2>2. thread[t].peer \in Peers
    BY <2>1, PeerOfThread DEF PeerPC
  <2>3. Finish(t) \/ Continue(t, At("send", thread[t].peer))
    BY <1>3 DEF EnterSend
  <2> QED
    BY <1>2, <2>1, <2>2, <2>3
<1>4. ASSUME NEW t \in Threads, SendDrained(t) PROVE GoodStep
  <2>1. thread[t].pc = "send" /\ UNCHANGED <<sq, send, wire, work, detached>>
    BY <1>4 DEF SendDrained, Holds
  <2>2. thread[t].peer \in Peers
    BY <2>1, PeerOfThread DEF PeerPC
  <2>3. \/ Continue(t, At("recv", thread[t].peer))
        \/ Continue(t, [At("flush", thread[t].peer) EXCEPT !.result = "lost"])
    BY <1>4 DEF SendDrained
  <2> QED
    BY <1>2, <2>1, <2>2, <2>3
<1>5. ASSUME NEW t \in Threads, IoRecv(t) PROVE GoodStep
  <2>1. thread[t].pc = "recv" /\ UNCHANGED <<sq, send, wire, work, detached>>
    BY <1>5 DEF IoRecv, Holds
  <2>2. thread[t].peer \in Peers
    BY <2>1, PeerOfThread DEF PeerPC
  <2>3. Finish(t) \/ Continue(t, [At("flush", thread[t].peer) EXCEPT !.result = "lost"])
    BY <1>5 DEF IoRecv
  <2> QED
    BY <1>2, <2>1, <2>2, <2>3
<1>6. ASSUME NEW t \in Threads, FlushReturn(t) PROVE GoodStep
  <2>1. thread[t].pc = "flushcb" /\ UNCHANGED <<sq, send, wire, work, detached>>
    BY <1>6 DEF FlushReturn, Resumes
  <2>2. [thread[t] EXCEPT !.pc = "flush"] \in Places /\ [thread[t] EXCEPT !.pc = "flush"].pc # "workcb"
    <3>1. [thread[t] EXCEPT !.pc = "flush"] \in Places
      BY <1>0, <2>1, PlacesToBe
    <3> QED
      BY <1>0, <3>1 DEF Places
  <2>3. Finish(t) \/ Continue(t, [thread[t] EXCEPT !.pc = "flush"])
    BY <1>6 DEF FlushReturn
  <2>4. CASE Finish(t)
    BY <1>2, <2>1, <2>4
  <2>5. CASE Continue(t, [thread[t] EXCEPT !.pc = "flush"])
    BY <1>1, <2>1, <2>2, <2>5 DEF Continue
  <2> QED
    BY <2>3, <2>4, <2>5
<1>7. ASSUME NEW t \in Threads, NEW pc \in {"acks", "ackscb"}, thread[t].pc \in {"flush", "acks", "ackscb"},
             pc = "ackscb" => thread[t].pc = "acks"
      PROVE  [thread[t] EXCEPT !.pc = pc] \in Places /\ [thread[t] EXCEPT !.pc = pc].pc # "workcb"
  <2>0. thread[t] \in Places
    BY <1>0
  <2>1. [thread[t] EXCEPT !.pc = pc].pc = pc
    BY <2>0 DEF Places
  <2>2. thread[t].pc = "acks" /\ pc = "acks" => [thread[t] EXCEPT !.pc = pc] = thread[t]
    BY <2>0 DEF Places
  <2> QED
    BY <1>7, <2>0, <2>1, <2>2, PlacesToBe
<1>8. ASSUME NEW t \in Threads, FlushDone(t) PROVE GoodStep
  <2>1. /\ thread[t].pc = "flush" /\ UNCHANGED <<sq, send, wire, work, detached>>
        /\ Continue(t, [thread[t] EXCEPT !.pc = "acks"])
    BY <1>8 DEF FlushDone, Holds
  <2> QED
    BY <1>1, <1>7, <2>1 DEF Continue
<1>15. ASSUME NEW t \in Threads, FlushAck(t) PROVE GoodStep
  <2>1. /\ thread[t].pc = "acks" /\ UNCHANGED <<sq, send, wire, work, detached>>
        /\ \/ lock' = Null /\ thread' = [thread EXCEPT ![t] = [thread[t] EXCEPT !.pc = "ackscb"]]
           \/ UNCHANGED <<lock, thread>>
    BY <1>0, <1>15 DEF FlushAck, Holds
  <2>2. CASE UNCHANGED <<lock, thread>>
    <3>1. SameDeliveries
      BY <2>1, <2>2, Staying
    <3> QED
      BY <2>1, <3>1, QuietStep DEF GoodStep, Classified
  <2> QED
    BY <1>1, <1>7, <2>1, <2>2
<1>16. ASSUME NEW t \in Threads, FlushAckReturn(t) PROVE GoodStep
  <2>1. /\ thread[t].pc = "ackscb" /\ UNCHANGED <<sq, send, wire, work, detached>>
        /\ Finish(t) \/ Continue(t, [thread[t] EXCEPT !.pc = "acks"])
    BY <1>16 DEF FlushAckReturn, Resumes
  <2>2. CASE Finish(t)
    BY <1>2, <2>1, <2>2
  <2>3. CASE Continue(t, [thread[t] EXCEPT !.pc = "acks"])
    BY <1>1, <1>7, <2>1, <2>3 DEF Continue
  <2> QED
    BY <2>1, <2>2, <2>3
<1>17. ASSUME NEW t \in Threads, AcksDone(t), ~Deletes(t) PROVE GoodStep
  <2>1. /\ thread[t].pc = "acks" /\ UNCHANGED <<sq, send, wire, work, detached>>
        /\ lock' = Null /\ thread' = [thread EXCEPT ![t] = At("destroycb", thread[t].peer)]
    BY <1>17 DEF AcksDone, Deletes, Holds
  <2>2. thread[t].peer \in Peers
    BY <2>1, PeerOfThread DEF PeerPC
  <2>3. At("destroycb", thread[t].peer) \in Places /\ At("destroycb", thread[t].peer).pc # "workcb"
    BY <2>2, PlacesToBe DEF PeerPC
  <2> QED
    BY <1>1, <2>1, <2>3
<1>9. ASSUME NEW t \in Threads, CancelDone(t) PROVE GoodStep
  <2>1. thread[t].pc \in {"player", "all"} /\ UNCHANGED <<sq, send, wire, work, detached>> /\ Finish(t)
    BY <1>9 DEF CancelDone, Holds
  <2> QED
    BY <1>2, <2>1
<1>10. ASSUME NEW t \in Threads, CancelReturn(t) PROVE GoodStep
  <2> DEFINE r == [thread[t] EXCEPT !.pc = IF @ = "playercb" THEN "player" ELSE "all"]
  <2>1. thread[t].pc \in {"playercb", "allcb"} /\ UNCHANGED <<sq, send, wire, work, detached>> /\ Continue(t, r)
    BY <1>10 DEF CancelReturn, Resumes
  <2>2. r \in Places
    <3>1. CASE thread[t].pc = "playercb"
      BY <1>0, <3>1, PlacesToBe
    <3>2. CASE thread[t].pc = "allcb"
      BY <1>0, <3>2, PlacesToBe
    <3> QED
      BY <2>1, <3>1, <3>2
  <2>3. r.pc # "workcb"
    BY <1>0 DEF Places
  <2> QED
    BY <1>1, <2>1, <2>2, <2>3 DEF Continue
<1>11. ASSUME NEW t \in Threads, NEW p \in Peers, Wake(t, p) PROVE GoodStep
  <2>1. /\ thread[t].pc = "idle" /\ UNCHANGED <<lock, sq, send, wire, work, detached>>
        /\ thread' = [thread EXCEPT ![t] = At("trig", p)]
    BY <1>11 DEF Wake, Idle
  <2>2. At("trig", p) \in Places /\ At("trig", p).pc # "workcb"
    BY PlacesToBe DEF PeerPC
  <2> QED
    BY <1>0, <1>1, <2>1, <2>2
<1>12. ASSUME NEW t \in Threads, NEW p \in Peers, CallPeerDestroy(t, p) PROVE GoodStep
  <2>1. /\ thread[t].pc = "idle" /\ UNCHANGED <<sq, send, wire, work, detached>>
        /\ Continue(t, [At("flush", p) EXCEPT !.result = "lost"])
    BY <1>12 DEF CallPeerDestroy, Idle
  <2> QED
    BY <1>2, <2>1
<1>13. ASSUME NEW t \in Threads, NEW p \in Peers, NEW flags \in SUBSET Pris,
              NEW what \in {"player", "all"}, CallCancel(t, what, p, flags)
       PROVE  GoodStep
  <2>1. /\ thread[t].pc = "idle" /\ UNCHANGED <<sq, send, wire, work, detached>>
        /\ Continue(t, [At(what, p) EXCEPT !.flags = flags])
    BY <1>13 DEF CallCancel, Idle
  <2>2. [At(what, p) EXCEPT !.flags = flags] \in Places /\ [At(what, p) EXCEPT !.flags = flags].pc # "workcb"
    BY PlacesToBe
  <2> QED
    BY <1>1, <2>1, <2>2 DEF Continue
<1>14. ASSUME NEW p \in Peers,
              PeerShutdown(p) \/ Writable(p) \/ RemoteClose(p, TRUE) \/ RemoteClose(p, FALSE)
       PROVE  GoodStep
  <2>1. UNCHANGED <<lock, thread, sq, send, wire, work, detached>>
    BY <1>14 DEF PeerShutdown, Writable, RemoteClose
  <2>2. SameDeliveries
    BY <2>1, Staying
  <2> QED
    BY <2>1, <2>2, QuietStep DEF GoodStep, Classified
<1> QED
  BY <1>3, <1>4, <1>5, <1>6, <1>8, <1>9, <1>10, <1>11, <1>12, <1>13, <1>14, <1>15, <1>16, <1>17

\* Writing to the socket.
LEMMA WriteSteps ==
    ASSUME SendsInv, NEW t \in Threads
    PROVE  /\ SendWhole(t) \/ SendWouldBlock(t) \/ SendError(t) => GoodStep
           /\ \A n \in 1..MaxSize : SendPartial(t, n) => GoodStep
<1> DEFINE p == thread[t].peer
           q == GetPending(sq[p])
<1>0. thread \in [Threads -> Places] /\ lock \in Threads \cup {Null} /\ OpSet(GoodOps)
  BY GoodOpsAreOps DEF SendsInv, Positions
<1>1. ASSUME thread[t].pc = "send"
      PROVE  /\ p \in Peers /\ GoodQueue(sq[p], GoodOps)
             /\ GoodQueue(q, GoodOps) /\ OpsIn(q) = OpsIn(sq[p])
             /\ sq[p].current # Null => q = sq[p]
             /\ q.current # Null => q.current \in OpsIn(sq[p]) /\ q.current \in GoodOps
  <2>1. p \in Peers /\ GoodQueue(sq[p], GoodOps)
    BY <1>1, PeerOfThread DEF PeerPC
  <2> QED
    BY <1>0, <2>1, GetPendingProperties
<1>2. ASSUME SendWouldBlock(t) \/ SendError(t) PROVE GoodStep
  <2>1. /\ thread[t].pc = "send" /\ UNCHANGED <<send, wire, work, detached>> /\ sq' = [sq EXCEPT ![p] = q]
        /\ \/ Continue(t, At("recv", p)) \/ Continue(t, [At("flush", p) EXCEPT !.result = "lost"])
    BY <1>2 DEF SendWouldBlock, SendError, Holds
  <2>2. /\ At("recv", p) \in Places /\ At("recv", p).pc # "workcb"
        /\ [At("flush", p) EXCEPT !.result = "lost"] \in Places
        /\ [At("flush", p) EXCEPT !.result = "lost"].pc # "workcb"
    <3>1. [At("flush", p) EXCEPT !.result = "lost"].pc # "workcb"
      BY DEF At, Idle
    <3>2. p \in Peers
      BY <1>1, <2>1
    <3> QED
      BY <3>1, <3>2, PlacesToBe DEF PeerPC
  <2>3. SameDeliveries
    BY <2>1, <2>2, Moving DEF Continue
  <2> QED
    BY <1>1, <2>1, <2>3, PendingStep DEF GoodStep, Classified
<1>3. ASSUME NEW n \in 1..MaxSize, SendPartial(t, n) PROVE GoodStep
  <2>1. /\ thread[t].pc = "send" /\ UNCHANGED <<lock, thread, send, wire, work, detached>>
        /\ q.current # Null /\ n < q.current.left /\ sq' = [sq EXCEPT ![p] = IncSentData(q, n)]
    BY <1>3 DEF SendPartial, Holds
  <2> DEFINE op == [q.current EXCEPT !.left = @ - n]
             r == IncSentData(q, n)
  <2>2. q.current \in GoodOps
    BY <1>1, <2>1
  <2>3. op \in GoodOps /\ op.send = q.current.send /\ op.pri = q.current.pri
    <3>1. q.current.left - n \in 0..MaxSize
      BY <2>1, <2>2, SendsAssumption DEF GoodOps, Ops
    <3> QED
      BY <2>2, <3>1 DEF GoodOps, Ops
  <2>4. r.current = op
    <3>1. IsQueue(q, GoodOps)
      BY <1>1, <2>1 DEF GoodQueue
    <3> QED
      BY <3>1 DEF IncSentData, IsQueue
  <2> HIDE DEF op, r
  <2>5. GoodQueue(r, GoodOps) /\ OpsIn(r) = (OpsIn(q) \ {q.current}) \cup {op}
    BY <1>0, <1>1, <2>1, <2>3, <2>4, IncProperties DEF r
  <2>6. GoodQueues' /\ sq'[p] = r /\ \A o \in Peers \ {p} : sq'[o] = sq[o]
    BY <1>1, <2>1, <2>5, OneQueue DEF r
  <2>7. \A s, x : Queued(r, s, x) <=> Queued(sq[p], s, x)
    <3>1. q.current \in OpsIn(q) /\ OpsIn(q) = OpsIn(sq[p])
      BY <1>1, <2>1
    <3> QED
      BY <2>3, <2>5, <3>1 DEF Queued
  <2>8. SameDeliveries
    BY <2>1, Staying
  <2>9. Silent
    BY <2>1, <2>6, <2>7, <2>8 DEF Silent
  <2>10. op # Null
    BY <1>0, <2>3 DEF OpSet
  <2>11. \A o \in Peers : Intact(o)
    BY <1>1, <2>1, <2>3, <2>4, <2>6, <2>10 DEF Intact
  <2> QED
    BY <2>9, <2>11 DEF GoodStep, Classified
<1>4. ASSUME SendWhole(t) PROVE GoodStep
  <2> DEFINE op == q.current
             a == GetPending(PopPending(q))
  <2>1. /\ thread[t].pc = "send" /\ UNCHANGED <<work, detached>>
        /\ op # Null /\ sq' = [sq EXCEPT ![p] = a]
        /\ wire' = [wire EXCEPT ![p] = Append(@, [op EXCEPT !.left = 0])]
        /\ InvokeCallback(t, op.send, "ok", "send", "sendcb")
    BY <1>4 DEF SendWhole, Holds
  <2>2. SameDeliveries /\ send' = Settled(op.send, "ok")
    BY <2>1, Calling
  <2>3. /\ GoodQueue(PopPending(q), GoodOps) /\ OpsIn(PopPending(q)) = OpsIn(q) \ {op}
        /\ \A o \in OpsIn(PopPending(q)) : o.send # op.send /\ (o.pri = op.pri => op.send < o.send)
    BY <1>0, <1>1, <2>1, PopProperties
  <2>4. GoodQueue(a, GoodOps) /\ OpsIn(a) = OpsIn(PopPending(q))
    BY <1>0, <2>3, GetPendingProperties
  <2>5. /\ p \in Peers /\ op \in OpsIn(sq[p]) /\ OpsIn(a) = OpsIn(sq[p]) \ {op}
    BY <1>1, <2>1, <2>3, <2>4
  <2>6. wire[p] \in Seq(GoodOps) /\ [op EXCEPT !.left = 0] \in GoodOps /\ wire \in [Peers -> Seq(GoodOps)]
    <3>1. op \in GoodOps
      BY <1>1, <2>1
    <3>2. [op EXCEPT !.left = 0] \in GoodOps
      BY <3>1, SendsAssumption DEF GoodOps, Ops
    <3> QED
      BY <2>5, <3>2 DEF SendsInv, Records
  <2>7. Len(wire'[p]) = Len(wire[p]) + 1 /\ \A o \in Peers \ {p} : sq'[o] = sq[o]
    <3>1. wire'[p] = Append(wire[p], [op EXCEPT !.left = 0])
      BY <2>1, <2>5, <2>6
    <3>2. \A o \in Peers \ {p} : sq'[o] = sq[o]
      BY <2>1, <2>4, <2>5, OneQueue
    <3> QED
      BY <2>6, <3>1, <3>2, AppendProperties
  <2>8. \A o \in Peers : Intact(o)
    BY <2>7 DEF Intact
  <2> HIDE DEF op, a
  <2>9. Classified
    BY <2>1, <2>2, <2>3, <2>4, <2>5, Leaving
  <2> QED
    BY <2>8, <2>9 DEF GoodStep
<1> QED
  BY <1>2, <1>3, <1>4

\* The flush loop of peer_destroy().
LEMMA FlushStep ==
    ASSUME SendsInv, NEW t \in Threads, FlushOp(t)
    PROVE  GoodStep
<1> DEFINE p == thread[t].peer
           q == GetPending(sq[p])
           op == q.current
           a == PopPending(q)
<1>0. OpSet(GoodOps) /\ thread \in [Threads -> Places]
  BY GoodOpsAreOps DEF SendsInv, Positions
<1>1. /\ thread[t].pc = "flush" /\ lock = t /\ UNCHANGED <<work, detached, wire>>
      /\ op # Null /\ sq' = [sq EXCEPT ![p] = a]
      /\ InvokeCallback(t, op.send, thread[t].result, "flush", "flushcb")
  BY DEF FlushOp, Holds
<1>2. p \in Peers /\ GoodQueue(sq[p], GoodOps) /\ thread[t].result = "lost"
  BY <1>0, <1>1, PeerOfThread DEF PeerPC, Places
<1>3. GoodQueue(q, GoodOps) /\ OpsIn(q) = OpsIn(sq[p]) /\ op \in OpsIn(sq[p])
  BY <1>0, <1>1, <1>2, GetPendingProperties
<1>4. GoodQueue(a, GoodOps) /\ OpsIn(a) = OpsIn(q) \ {op} /\ \A o \in OpsIn(a) : o.send # op.send
  BY <1>0, <1>1, <1>3, PopProperties
<1>5. SameDeliveries /\ send' = Settled(op.send, "lost")
  BY <1>1, <1>2, Calling
<1>6. \A o \in Peers \ {p} : sq'[o] = sq[o]
  BY <1>1, <1>2, <1>4, OneQueue
<1>7. \A o \in Peers : Intact(o)
  BY <1>1, <1>6 DEF Intact
<1> HIDE DEF p, q, op, a
<1>8. Classified
  BY <1>1, <1>2, <1>3, <1>4, <1>5, Leaving
<1> QED
  BY <1>7, <1>8 DEF GoodStep

\* An op that a cancel takes out of one of the lists.
LEMMA Cancelling ==
    ASSUME SendsInv, SameDeliveries, NEW p \in Peers, NEW x \in Priority, NEW i \in DOMAIN sq[p][x],
           sq' = [sq EXCEPT ![p] = Removal(sq[p], x, i).sq], wire' = wire,
           send' = Settled(Removal(sq[p], x, i).op.send, "cancelled")
    PROVE  GoodStep
<1> DEFINE r == Removal(sq[p], x, i)
<1>1. OpSet(GoodOps) /\ GoodQueue(sq[p], GoodOps)
  BY GoodOpsAreOps DEF SendsInv, Records
<1>2. /\ GoodQueue(r.sq, GoodOps) /\ r.sq.current = sq[p].current /\ r.op \in OpsIn(sq[p])
      /\ OpsIn(r.sq) = OpsIn(sq[p]) \ {r.op} /\ \A o \in OpsIn(r.sq) : o.send # r.op.send
  BY <1>1, RemovalProperties
<1>3. sq'[p] = r.sq /\ \A o \in Peers \ {p} : sq'[o] = sq[o]
  BY <1>2, OneQueue
<1>4. \A o \in Peers : Intact(o)
  BY <1>2, <1>3 DEF Intact
<1>5. Classified
  BY <1>2, Leaving
<1> QED
  BY <1>4, <1>5 DEF GoodStep

\* The three forms of CancelAsyncOperation().  Cancelling by handle never finds
\* the op both queued and pending: a send has one op at a peer.
LEMMA CancelSteps ==
    ASSUME SendsInv
    PROVE  /\ \A t \in Threads, pri \in Priority : CancelPlayerTurn(t, pri) => GoodStep
           /\ \A t \in Threads, p \in Peers : CancelAllTurn(t, p) => GoodStep
           /\ \A h \in SendIds, p \in Peers : CancelHandle(h, p) => GoodStep
<1>0. OpSet(GoodOps) /\ \A p \in Peers : GoodQueue(sq[p], GoodOps)
  BY GoodOpsAreOps DEF SendsInv, Records
<1>1. ASSUME NEW t \in Threads, NEW pri \in Priority, CancelPlayerTurn(t, pri) PROVE GoodStep
  <2> DEFINE p == thread[t].peer
             r == RemoveQueuedByPriority(sq[p], pri)
  <2>1. /\ thread[t].pc = "player" /\ UNCHANGED <<work, detached, wire>> /\ Cancellable(sq[p][pri]) # {}
        /\ sq' = [sq EXCEPT ![p] = r.sq] /\ InvokeCallback(t, r.op.send, "cancelled", "player", "playercb")
    BY <1>1 DEF CancelPlayerTurn, Holds
  <2>2. p \in Peers
    BY <2>1, PeerOfThread DEF PeerPC
  <2>3. PICK i \in DOMAIN sq[p][pri] : r = Removal(sq[p], pri, i)
    BY <1>0, <2>1, <2>2, ByPriorityProperties
  <2>4. SameDeliveries /\ send' = Settled(r.op.send, "cancelled")
    BY <2>1, Calling
  <2> HIDE DEF p, r
  <2> QED
    BY <2>1, <2>2, <2>3, <2>4, Cancelling
<1>2. ASSUME NEW t \in Threads, NEW p \in Peers, CancelAllTurn(t, p) PROVE GoodStep
  <2> DEFINE r == RemoveQueued(sq[p])
  <2>1. /\ thread[t].pc = "all" /\ UNCHANGED <<work, detached, wire>> /\ RemoveQueuedPri(sq[p]) # Null
        /\ sq' = [sq EXCEPT ![p] = r.sq] /\ InvokeCallback(t, r.op.send, "cancelled", "all", "allcb")
    BY <1>2 DEF CancelAllTurn, Holds
  <2>2. PICK pri \in Priority : \E i \in DOMAIN sq[p][pri] : r = Removal(sq[p], pri, i)
    BY <1>0, <2>1, RemoveQueuedProperties
  <2>3. PICK i \in DOMAIN sq[p][pri] : r = Removal(sq[p], pri, i)
    BY <2>2
  <2>4. SameDeliveries /\ send' = Settled(r.op.send, "cancelled")
    BY <2>1, Calling
  <2> HIDE DEF r
  <2> QED
    BY <2>1, <2>3, <2>4, Cancelling
<1>3. ASSUME NEW h \in SendIds, NEW p \in Peers, CancelHandle(h, p) PROVE GoodStep
  <2> DEFINE r == RemoveQueuedByHandle(sq[p], h)
  <2>1. /\ UNCHANGED <<lock, thread, work, detached, wire>> /\ r.op # Null
        /\ sq' = [sq EXCEPT ![p] = r.sq]
        /\ send' = IF HandleIsPending(r.sq, h) THEN send ELSE Settled(h, "cancelled")
    BY <1>3 DEF CancelHandle
  <2>2. PICK pri \in Priority : \E i \in DOMAIN sq[p][pri] :
            r = Removal(sq[p], pri, i) /\ sq[p][pri][i].async_handle = h /\ h # 0
    BY <1>0, <2>1, ByHandleProperties
  <2>3. PICK i \in DOMAIN sq[p][pri] :
            r = Removal(sq[p], pri, i) /\ sq[p][pri][i].async_handle = h /\ h # 0
    BY <2>2
  <2>4. /\ r.op = sq[p][pri][i] /\ r.op \in GoodOps /\ r.op # sq[p].current
        /\ GoodQueue(r.sq, GoodOps) /\ r.sq.current = sq[p].current
        /\ \A o \in OpsIn(r.sq) : o.send # r.op.send
    BY <1>0, <2>3, RemovalProperties
  <2>5. r.op.send = h
    BY <2>3, <2>4 DEF GoodOps
  <2>6. ~HandleIsPending(r.sq, h)
    <3>1. SUFFICES ASSUME r.sq.current # Null, r.sq.current.async_handle = h PROVE FALSE
      BY DEF HandleIsPending
    <3>2. r.sq.current \in OpsIn(r.sq)
      BY <3>1, OpsInMembers
    <3>3. r.sq.current \in GoodOps
      BY <2>4, <3>2, OpsInQueue DEF GoodQueue
    <3>4. r.sq.current.send = h
      BY <2>3, <3>1, <3>3 DEF GoodOps
    <3> QED
      BY <2>4, <2>5, <3>2, <3>4
  <2>7. SameDeliveries
    BY <2>1, Staying
  <2>8. send' = Settled(r.op.send, "cancelled")
    BY <2>1, <2>5, <2>6
  <2> HIDE DEF r
  <2> QED
    BY <2>1, <2>3, <2>7, <2>8, Cancelling
<1> QED
  BY <1>1, <1>2, <1>3

\* SendTo() numbers its calls from 1: its s is the first that is not issued.
LEMMA NextSend ==
    ASSUME SendsInv, NEW s \in SendIds, s = 1 + Cardinality({i \in SendIds : send[i].kind # "new"})
    PROVE  ~Issued(s) /\ \A r \in 1..s - 1 : Issued(r)
<1> DEFINE I == {i \in SendIds : Issued(i)}
<1>1. s = 1 + Cardinality(I) /\ s \in Nat \ {0} /\ SendIds = 1..MaxSends /\ MaxSends \in Nat
  BY SendsAssumption DEF Issued, SendIds
<1>2. \A i \in I : \A r \in 1..i : Issued(r) /\ r \in SendIds
  BY <1>1 DEF SendsInv, Issuing
<1>3. IsFiniteSet(I) /\ Cardinality(I) \in Nat
  <2>1. IsFiniteSet(SendIds) /\ I \in SUBSET SendIds
    BY <1>1, FS_Interval
  <2> QED
    BY <2>1, FS_Subset, FS_CardinalityType
<1>4. ASSUME Issued(s) PROVE FALSE
  <2>1. 1..s \in SUBSET I
    BY <1>2, <1>4
  <2>2. Cardinality(1..s) = s
    BY <1>1, FS_Interval
  <2>3. Cardinality(1..s) <= Cardinality(I)
    BY <1>3, <2>1, FS_Subset
  <2> HIDE DEF I
  <2> QED
    BY <1>1, <1>3, <2>2, <2>3
<1>5. ASSUME NEW r \in 1..s - 1, ~Issued(r) PROVE FALSE
  <2>1. r \in Nat \ {0} /\ r <= s - 1
    BY <1>1
  <2>2. ASSUME NEW i \in I PROVE i \in 1..r - 1
    <3>1. i \in Nat \ {0}
      BY <1>1
    <3>2. ~(r \in 1..i)
      BY <1>2, <1>5
    <3> QED
      BY <2>1, <3>1, <3>2
  <2>3. IsFiniteSet(1..r - 1) /\ Cardinality(1..r - 1) = r - 1
    <3>1. 1 \in Int /\ r - 1 \in Int /\ (1 > r - 1 => r - 1 = 0) /\ (r - 1) - 1 + 1 = r - 1
      BY <2>1
    <3>2. IsFiniteSet(1..r - 1) /\ Cardinality(1..r - 1) = IF 1 > r - 1 THEN 0 ELSE (r - 1) - 1 + 1
      BY <3>1, FS_Interval
    <3> QED
      BY <3>1, <3>2
  <2>4. Cardinality(I) <= r - 1
    <3>1. I \in SUBSET (1..r - 1)
      BY <2>2
    <3> HIDE DEF I
    <3> QED
      BY <2>3, <3>1, FS_Subset
  <2> HIDE DEF I
  <2> QED
    BY <1>1, <1>3, <2>1, <2>4
<1> QED
  BY <1>4, <1>5

\* SendTo() queues newer ops behind older ones.
LEMMA SendToStep ==
    ASSUME SendsInv, NEW s \in SendIds, NEW kind \in Kinds, NEW target \in Targets, NEW p \in Peers,
           NEW noloop \in BOOLEAN, NEW pri \in Pris, NEW size \in 1..MaxSize,
           SendTo(s, kind, target, p, noloop, pri, size)
    PROVE  /\ GoodStep
           /\ \A o \in Peers : \A r, y :
                 Queued(sq'[o], r, y) <=> Queued(sq[o], r, y) \/ (o \in PeersOf(target, p) /\ r = s /\ y = pri)
<1> DEFINE ps == PeersOf(target, p)
           self == target = "self" \/ (target = "all" /\ ~noloop)
           loop == self /\ kind # "sync"
           alone == ps = {} /\ ~self /\ kind # "sync"
           h == IF kind = "sync" THEN 0 ELSE s
           op == SendOp(s, h, pri, size)
<1>0. /\ OpSet(GoodOps) /\ SendIds \subseteq Nat \ {0} /\ GoodQueues /\ Local /\ Issuing
      /\ (\A q \in Peers : GoodQueue(sq[q], GoodOps)) /\ Positions /\ Records
  BY GoodOpsAreOps DEF SendsInv, Records, GoodQueues
<1>1. /\ s = 1 + Cardinality({i \in SendIds : send[i].kind # "new"})
      /\ Enqueue(s, h, pri, size, ps) /\ UNCHANGED <<lock, thread, wire>>
      /\ work' = (IF loop THEN Append(work, s) ELSE work)
      /\ detached' = (IF alone THEN detached \cup {s} ELSE detached)
      /\ send' = [send EXCEPT ![s] = [NewSend EXCEPT !.kind = kind, !.targets = ps,
                     !.pending = Cardinality(ps) + (IF loop \/ alone THEN 1 ELSE 0)]]
  BY DEF SendTo
<1>2. ~Issued(s) /\ \A r \in 1..s - 1 : Issued(r)
  BY <1>1, NextSend
<1>3. ps \in SUBSET Peers /\ pri \in Priority
  BY SendsAssumption DEF PeersOf
<1>4. op \in GoodOps /\ op.send = s /\ op.pri = pri
  BY <1>3, SendsAssumption DEF SendOp, GoodOps, Ops
<1>5. ASSUME NEW q \in Peers, NEW id \in Ids(sq[q]) PROVE id < s
  <2>1. PICK o \in OpsIn(sq[q]) : id = o.send
    BY DEF Ids
  <2>2. o \in GoodOps
    BY <1>0, OpsInQueue DEF GoodQueue
  <2>3. id \in SendIds /\ o.pri \in Priority
    BY <2>1, <2>2, GoodOpsAreOps
  <2>4. Issued(id)
    BY <1>0, <2>1, <2>3 DEF Issuing, Queued
  <2>5. \A r \in 1..id : Issued(r)
    BY <1>0, <2>3, <2>4 DEF Issuing
  <2>6. id \in Nat /\ s \in Nat \ {0}
    BY <1>0, <2>3
  <2> QED
    BY <1>2, <2>5, <2>6
<1> HIDE DEF op
<1>6. ASSUME NEW q \in Peers
      PROVE  /\ GoodQueue(Push(sq[q], op), GoodOps) /\ Push(sq[q], op).current = sq[q].current
             /\ OpsIn(Push(sq[q], op)) = OpsIn(sq[q]) \cup {op}
  BY <1>0, <1>4, <1>5, PushProperties
<1>7. sq' = [q \in Peers |-> IF q \in ps THEN Push(sq[q], op) ELSE sq[q]]
  BY <1>1 DEF Enqueue, op
<1>8. GoodQueues'
  BY <1>0, <1>6, <1>7 DEF GoodQueues
<1>9. ASSUME NEW o \in Peers, NEW r, NEW y
      PROVE  Queued(sq'[o], r, y) <=> Queued(sq[o], r, y) \/ (o \in ps /\ r = s /\ y = pri)
  <2>1. CASE o \in ps
    <3>1. OpsIn(sq'[o]) = OpsIn(sq[o]) \cup {op}
      BY <1>6, <1>7, <2>1
    <3> QED
      BY <1>4, <2>1, <3>1 DEF Queued
  <2>2. CASE o \notin ps
    BY <1>7, <2>2
  <2> QED
    BY <2>1, <2>2
<1>10. \A o \in Peers : Intact(o)
  BY <1>6, <1>7 DEF Intact
<1>11. ~InWork(s) /\ s \notin detached
  BY <1>0, <1>2 DEF Issuing
<1>12. Positions'
  BY <1>0, <1>1 DEF Positions
<1>13. ASSUME ~loop
       PROVE  /\ Local' /\ work' \in Seq(SendIds)
              /\ \A r \in SendIds : InWork(r)' <=> InWork(r) \/ (loop /\ r = s)
  <2>1. work' = work /\ work \in Seq(SendIds)
    BY <1>0, <1>1, <1>13 DEF Records
  <2>2. \A r : InWork(r)' <=> InWork(r)
    BY <1>1, <2>1 DEF InWork
  <2>3. \A r \in detached' : ~InWork(r)
    BY <1>0, <1>1, <1>11 DEF Local
  <2>4. Local'
    BY <1>0, <1>1, <2>1, <2>2, <2>3 DEF Local
  <2> QED
    BY <1>13, <2>1, <2>2, <2>4
<1>14. ASSUME loop
       PROVE  /\ Local' /\ work' \in Seq(SendIds)
              /\ \A r \in SendIds : InWork(r)' <=> InWork(r) \/ (loop /\ r = s)
  <2>1. work' = Append(work, s) /\ work \in Seq(SendIds) /\ detached' = detached /\ thread' = thread
    BY <1>0, <1>1, <1>14 DEF Records
  <2>2. /\ work' \in Seq(SendIds) /\ Len(work) \in Nat /\ DOMAIN work = 1..Len(work)
        /\ Len(work') = Len(work) + 1 /\ DOMAIN work' = 1..Len(work) + 1
        /\ work'[Len(work) + 1] = s /\ \A i \in 1..Len(work) : work'[i] = work[i]
    BY <2>1, AppendProperties, LenProperties
  <2>3. \A r : r \in ToSet(work') <=> r \in ToSet(work) \/ r = s
    <3>1. ASSUME NEW r PROVE r \in ToSet(work') <=> \E i \in 1..Len(work) + 1 : r = work'[i]
      BY <2>2 DEF ToSet
    <3>2. ASSUME NEW r PROVE r \in ToSet(work) <=> \E i \in 1..Len(work) : r = work[i]
      BY <2>2 DEF ToSet
    <3>3. ASSUME NEW r PROVE (\E i \in 1..Len(work) + 1 : r = work'[i]) <=> (\E i \in 1..Len(work) : r = work[i]) \/ r = s
      <4>1. \A i \in 1..Len(work) : i \in 1..Len(work) + 1
        BY <2>2
      <4>2. \A i \in 1..Len(work) + 1 : i \in 1..Len(work) \/ i = Len(work) + 1
        BY <2>2
      <4>3. Len(work) + 1 \in 1..Len(work) + 1
        BY <2>2
      <4> QED
        BY <2>2, <4>1, <4>2, <4>3
    <3> QED
      BY <3>1, <3>2, <3>3
  <2>4. \A r : InWork(r)' <=> InWork(r) \/ r = s
    BY <2>1, <2>3 DEF InWork
  <2>5. \A i, j \in DOMAIN work' : work'[i] = work'[j] => i = j
    <3>1. \A i \in 1..Len(work) : work[i] \in ToSet(work) /\ work[i] # s
      BY <1>11, <2>2 DEF InWork, ToSet
    <3>2. \A i, j \in 1..Len(work) : work[i] = work[j] => i = j
      BY <1>0, <2>2 DEF Local
    <3>3. \A i \in 1..Len(work) + 1 : i \in 1..Len(work) \/ i = Len(work) + 1
      BY <2>2
    <3> QED
      BY <2>2, <3>1, <3>2, <3>3
  <2>6. \A t \in Threads : thread[t].pc = "workcb" => thread[t].send \notin ToSet(work')
    <3>1. \A t \in Threads : thread[t].pc = "workcb" => thread[t].send # s
      BY <1>11 DEF InWork
    <3> QED
      BY <1>0, <2>3, <3>1 DEF Local
  <2>7. \A r \in detached : ~InWork(r)'
    BY <1>0, <1>11, <2>4 DEF Local
  <2>8. Local'
    BY <1>0, <2>1, <2>5, <2>6, <2>7 DEF Local
  <2> QED
    BY <1>14, <2>2, <2>4, <2>8
<1>15. loop \in BOOLEAN /\ alone \in BOOLEAN /\ ~(loop /\ alone) /\ (kind # "sync" => ps # {} \/ loop \/ alone)
  OBVIOUS
<1>16. detached' = (IF alone THEN detached \cup {s} ELSE detached)
  BY <1>1
<1>17. send' = [send EXCEPT ![s] = [NewSend EXCEPT !.kind = kind, !.targets = ps,
                   !.pending = Cardinality(ps) + (IF loop \/ alone THEN 1 ELSE 0)]]
  BY <1>1
<1>18. wire' = wire
  BY <1>1
<1>21. \A o \in Peers : \A r, y :
         Queued(sq'[o], r, y) <=> Queued(sq[o], r, y) \/ (o \in PeersOf(target, p) /\ r = s /\ y = pri)
  BY <1>9
<1> HIDE DEF ps, loop, alone
<1>19. Accepted(s, kind, ps, pri, loop, alone)
  BY <1>2, <1>8, <1>9, <1>12, <1>13, <1>14, <1>15, <1>16, <1>17, <1>18 DEF Accepted
<1>20. Classified
  BY <1>3, <1>15, <1>19 DEF Classified
<1> QED
  BY <1>10, <1>20, <1>21 DEF GoodStep

\* Every step of the system is of one of the kinds, and no message on its way
\* to a socket is interrupted by another.
LEMMA StepsClassified ==
    ASSUME SendsInv, [Next]_vars, \A t \in Threads : ~Deletes(t)
    PROVE  GoodStep
<1>1. CASE UNCHANGED vars
  <2>1. UNCHANGED <<lock, thread, sq, send, wire, work, detached>>
    BY <1>1 DEF vars
  <2> QED
    BY <2>1, Staying, QuietStep DEF GoodStep, Classified
<1>2. ASSUME NEW t \in Threads, Run(t) PROVE GoodStep
  <2>1. CASE HandleWork(t) \/ WorkReturn(t)
    BY <2>1, LocalSteps
  <2>2. CASE \/ EnterSend(t) \/ SendDrained(t) \/ IoRecv(t) \/ FlushReturn(t) \/ FlushDone(t)
             \/ FlushAck(t) \/ FlushAckReturn(t) \/ (AcksDone(t) /\ ~Deletes(t))
             \/ CancelDone(t) \/ CancelReturn(t)
    BY <2>2, ThreadSteps
  <2>3. CASE SendWhole(t) \/ SendWouldBlock(t) \/ SendError(t) \/ \E n \in 1..MaxSize : SendPartial(t, n)
    BY <2>3, WriteSteps
  <2>4. CASE FlushOp(t)
    BY <2>4, FlushStep
  <2>5. CASE (\E pri \in Priority : CancelPlayerTurn(t, pri)) \/ (\E p \in Peers : CancelAllTurn(t, p))
    BY <2>5, CancelSteps
  <2> QED
    BY <1>2, <2>1, <2>2, <2>3, <2>4, <2>5 DEF Run, Deletes
<1>3. ASSUME NEW t \in Workers, Serve(t) PROVE GoodStep
  BY <1>3, LocalSteps, ThreadSteps DEF Serve, Threads
<1>4. ASSUME NEW s \in SendIds, SyncReturn(s) \/ DetachedComplete(s) PROVE GoodStep
  BY <1>4, LocalSteps
<1>5. ASSUME Call PROVE GoodStep
  <2>1. CASE \E s \in SendIds, kind \in Kinds, target \in Targets, p \in Peers,
               noloop \in BOOLEAN, pri \in Pris, size \in 1..MaxSize :
                  SendTo(s, kind, target, p, noloop, pri, size)
    BY <2>1, SendToStep
  <2>2. CASE \E t \in Callers, p \in Peers, flags \in SUBSET Pris :
                CallCancel(t, "player", p, flags) \/ CallCancel(t, "all", p, flags)
    BY <2>2, ThreadSteps DEF Threads
  <2>3. CASE \E h \in SendIds, p \in Peers : CancelHandle(h, p)
    BY <2>3, CancelSteps
  <2>4. CASE \E t \in Callers, p \in Peers : CallPeerDestroy(t, p)
    BY <2>4, ThreadSteps DEF Threads
  <2>5. CASE \E p \in Peers : PeerShutdown(p)
    BY <2>5, ThreadSteps
  <2> QED
    BY <1>5, <2>1, <2>2, <2>3, <2>4, <2>5 DEF Call
<1>6. ASSUME Network PROVE GoodStep
  BY <1>6, ThreadSteps DEF Network
<1>7. CASE Quiescent
  BY <1>1, <1>7 DEF Quiescent
<1> QED
  BY <1>1, <1>2, <1>3, <1>4, <1>5, <1>6, <1>7 DEF Next

-------------------------------------------------------------------------------
(* Deleted peers.                                                            *)

\* Only SendTo() adds to an empty queue.
LEMMA EmptyStaysEmpty ==
    ASSUME SendsInv, NEW t \in Threads, NEW p \in Peers, OpsIn(sq[p]) = {}, Run(t), ~Deletes(t)
    PROVE  sq'[p] = sq[p]
<1>0. OpSet(GoodOps) /\ sq = [q \in Peers |-> sq[q]] /\ \A q \in Peers : GoodQueue(sq[q], GoodOps)
  BY GoodOpsAreOps DEF SendsInv, Records
<1>1. ASSUME NEW q, GetPending(sq[p]).current # Null PROVE FALSE
  BY <1>0, <1>1, GetPendingProperties
<1>2. ASSUME NEW x \in Priority, Cancellable(sq[p][x]) # {} PROVE FALSE
  <2>1. PICK i \in DOMAIN sq[p][x] : TRUE
    BY <1>2 DEF Cancellable
  <2>2. sq[p][x][i] \in OpsIn(sq[p])
    BY OpsInMembers
  <2> QED
    BY <2>2
<1>3. ASSUME NEW q, thread[t].peer # p, sq' = [sq EXCEPT ![thread[t].peer] = q] PROVE sq'[p] = sq[p]
  BY <1>0, <1>3
<1>4. CASE UNCHANGED sq
  BY <1>4
<1>5. CASE SendWhole(t) \/ SendWouldBlock(t) \/ SendError(t) \/ FlushOp(t) \/ \E n \in 1..MaxSize : SendPartial(t, n)
  <2>1. /\ GetPending(sq[thread[t].peer]).current # Null
        /\ \E q : sq' = [sq EXCEPT ![thread[t].peer] = q]
    BY <1>5 DEF SendWhole, SendWouldBlock, SendError, FlushOp, SendPartial
  <2> QED
    BY <1>1, <1>3, <2>1
<1>6. CASE \E pri \in Priority : CancelPlayerTurn(t, pri)
  <2>1. PICK pri \in Priority : CancelPlayerTurn(t, pri)
    BY <1>6
  <2>2. /\ Cancellable(sq[thread[t].peer][pri]) # {}
        /\ sq' = [sq EXCEPT ![thread[t].peer] = RemoveQueuedByPriority(sq[thread[t].peer], pri).sq]
    BY <2>1 DEF CancelPlayerTurn
  <2> QED
    BY <1>2, <1>3, <2>2
<1>7. CASE \E q \in Peers : CancelAllTurn(t, q)
  <2>1. PICK q \in Peers : CancelAllTurn(t, q)
    BY <1>7
  <2>2. RemoveQueuedPri(sq[q]) # Null /\ sq' = [sq EXCEPT ![q] = RemoveQueued(sq[q]).sq]
    BY <2>1 DEF CancelAllTurn
  <2>3. RemoveQueuedPri(sq[q]) \in Priority /\ Cancellable(sq[q][RemoveQueuedPri(sq[q])]) # {}
    BY <2>2 DEF RemoveQueuedPri, Priority
  <2>4. q # p
    BY <1>2, <2>3
  <2> QED
    BY <1>0, <2>2, <2>4
<1> QED
  BY <1>4, <1>5, <1>6, <1>7 DEF Run, HandleWork, WorkReturn, EnterSend, SendDrained, IoRecv, FlushReturn,
     FlushDone, FlushAck, FlushAckReturn, AcksDone, Deletes, CancelDone, CancelReturn

\* A step that deletes no peer.
LEMMA StepsKeepGraves ==
    ASSUME SendsInv, [Next]_vars, \A t \in Threads : ~Deletes(t)
    PROVE  Kept
<1>0. /\ peer \in [Peers -> {"connected", "closing", "deleted"}] /\ sq = [q \in Peers |-> sq[q]]
      /\ \A p \in Peers : peer[p] = "deleted" => OpsIn(sq[p]) = {}
      /\ thread \in [Threads -> Places]
  BY DEF SendsInv, Graves, Records, Positions
<1>1. ASSUME UNCHANGED <<peer, orphans>>, \A p \in Peers : peer[p] = "deleted" => OpsIn(sq'[p]) = {}
      PROVE  Kept
  BY <1>0, <1>1 DEF Kept
<1>2. ASSUME UNCHANGED <<sq, peer, orphans>> PROVE Kept
  BY <1>0, <1>2 DEF Kept
<1>3. ASSUME NEW p \in Peers, UNCHANGED <<sq, orphans>>, peer[p] = "connected", peer' = [peer EXCEPT ![p] = "closing"]
      PROVE  Kept
  BY <1>0, <1>3 DEF Kept
<1>4. ASSUME NEW t \in Threads, Run(t) PROVE Kept
  <2>1. \A p \in Peers : peer[p] = "deleted" => OpsIn(sq'[p]) = {}
    BY <1>0, <1>4, EmptyStaysEmpty
  <2>2. CASE AcksDone(t)
    <3>1. thread[t].pc = "acks" /\ peer[thread[t].peer] = "connected"
      BY <2>2 DEF AcksDone, Deletes, Holds
    <3>2. UNCHANGED <<sq, orphans>> /\ peer' = [peer EXCEPT ![thread[t].peer] = "closing"]
      BY <2>2, <3>1 DEF AcksDone
    <3>3. thread[t].peer \in Peers
      BY <1>0, <3>1 DEF Places, PeerPC
    <3> QED
      BY <1>3, <3>1, <3>2, <3>3
  <2>3. CASE ~AcksDone(t)
    <3>1. UNCHANGED <<peer, orphans>>
      BY <1>4, <2>3 DEF Run, Deletes, HandleWork, WorkReturn, EnterSend, SendWhole, SendWouldBlock, SendError,
         SendDrained, IoRecv, SendPartial, FlushOp, FlushReturn, FlushDone, FlushAck, FlushAckReturn,
         CancelPlayerTurn, CancelAllTurn, CancelDone, CancelReturn, sockets, history
    <3> QED
      BY <1>1, <2>1, <3>1
  <2> QED
    BY <2>2, <2>3
<1>5. ASSUME NEW s \in SendIds, NEW kind \in Kinds, NEW target \in Targets, NEW p \in Peers,
             NEW noloop \in BOOLEAN, NEW pri \in Pris, NEW size \in 1..MaxSize,
             SendTo(s, kind, target, p, noloop, pri, size)
      PROVE  Kept
  <2> DEFINE ps == PeersOf(target, p)
  <2>1. /\ UNCHANGED <<peer, orphans>> /\ (target = "one" => Addressable(p))
        /\ \E op : sq' = [q \in Peers |-> IF q \in ps THEN Push(sq[q], op) ELSE sq[q]]
    BY <1>5 DEF SendTo, Enqueue, sockets
  <2>2. ASSUME NEW q \in ps PROVE q \in Peers /\ peer[q] # "deleted"
    <3>1. CASE target = "self"
      BY <3>1 DEF PeersOf
    <3>2. CASE target = "one"
      BY <2>1, <3>2 DEF PeersOf, Addressable
    <3>3. CASE target = "all"
      BY <3>3 DEF PeersOf
    <3> QED
      BY <3>1, <3>2, <3>3, SendsAssumption
  <2> HIDE DEF ps
  <2>3. \A q \in Peers : q \notin ps => sq'[q] = sq[q]
    BY <2>1
  <2> QED
    BY <1>0, <1>1, <2>1, <2>2, <2>3
<1>6. ASSUME NEW h \in SendIds, NEW p \in Peers, CancelHandle(h, p) PROVE Kept
  <2>1. /\ UNCHANGED <<peer, orphans>> /\ peer[p] # "deleted"
        /\ \E q : sq' = [sq EXCEPT ![p] = q]
    BY <1>6 DEF CancelHandle, Involved, sockets, history
  <2>2. \A q \in Peers : peer[q] = "deleted" => sq'[q] = sq[q]
    BY <1>0, <2>1
  <2> QED
    BY <1>0, <1>1, <2>1, <2>2
<1>7. ASSUME NEW p \in Peers, PeerShutdown(p) PROVE Kept
  <2>1. UNCHANGED <<sq, orphans>> /\ peer[p] = "connected" /\ peer' = [peer EXCEPT ![p] = "closing"]
    BY <1>7 DEF PeerShutdown, history
  <2> QED
    BY <1>3, <2>1
<1>8. ASSUME NEW t \in Callers, NEW p \in Peers, CallPeerDestroy(t, p) PROVE Kept
  BY <1>2, <1>8 DEF CallPeerDestroy, sockets, history
<1>9. ASSUME NEW t \in Callers, NEW p \in Peers, NEW flags, NEW what, CallCancel(t, what, p, flags) PROVE Kept
  BY <1>2, <1>9 DEF CallCancel, sockets, history
<1>10. ASSUME NEW t \in Workers, Serve(t) PROVE Kept
  BY <1>2, <1>10 DEF Serve, WakeWork, Wake, sockets, history
<1>11. ASSUME NEW s \in SendIds, SyncReturn(s) \/ DetachedComplete(s) PROVE Kept
  BY <1>2, <1>11 DEF SyncReturn, DetachedComplete, sockets, history
<1>12. ASSUME Network PROVE Kept
  BY <1>2, <1>12 DEF Network, Writable, RemoteClose, history
<1>13. CASE UNCHANGED vars \/ Quiescent
  BY <1>2, <1>13 DEF Quiescent, vars, sockets, history
<1>14. ASSUME Call PROVE Kept
  BY <1>5, <1>6, <1>7, <1>8, <1>9, <1>14 DEF Call
<1> QED
  BY <1>4, <1>10, <1>11, <1>12, <1>13, <1>14 DEF Next

\* A step that deletes one.
LEMMA DeletionBuries ==
    ASSUME SendsInv, NEW t \in Threads, Deletes(t)
    PROVE  /\ thread[t].pc \in {"acks", "destroycb"} /\ thread[t].peer \in Peers
           /\ Buried(thread[t].peer) /\ \A p \in Peers : Intact(p)
<1>0. thread \in [Threads -> Places] /\ Graves /\ sq = [q \in Peers |-> sq[q]]
  BY DEF SendsInv, Positions, Records
<1>1. /\ thread[t].pc \in {"acks", "destroycb"} /\ Delete(thread[t].peer) /\ Finish(t)
      /\ UNCHANGED <<work, detached, send, wire>>
  BY DEF Deletes, DestroyReturn, AcksDone, Holds, Resumes
<1>2. thread[t].peer \in Peers
  BY <1>1, PeerOfThread DEF PeerPC
<1>3. SameDeliveries
  BY <1>1, PlacesToBe, Moving DEF Finish
<1>4. /\ Buried(thread[t].peer) /\ sq' = [sq EXCEPT ![thread[t].peer] = EmptyQueue]
      /\ peer' = [peer EXCEPT ![thread[t].peer] = "deleted"]
  BY <1>1, <1>3 DEF Buried, Delete
<1>5. ASSUME NEW p \in Peers PROVE Intact(p)
  <2>1. CASE p = thread[t].peer
    BY <1>0, <1>4, <2>1 DEF Intact, Graves
  <2>2. CASE p # thread[t].peer
    BY <1>0, <1>4, <2>2 DEF Intact
  <2> QED
    BY <2>1, <2>2
<1> QED
  BY <1>1, <1>2, <1>4, <1>5

-------------------------------------------------------------------------------
(* The invariant, one kind of step at a time.                                *)

\* What a callback does to the counters of its send.
LEMMA SettledProperties ==
    ASSUME send \in [SendIds -> SendRecs], NEW s \in SendIds, NEW result \in {"ok", "cancelled", "lost"},
           send[s].pending > 0, send' = Settled(s, result)
    PROVE  /\ send' \in [SendIds -> SendRecs]
           /\ \A r \in SendIds \ {s} : send'[r] = send[r]
           /\ send'[s].kind = send[s].kind /\ send'[s].targets = send[s].targets
           /\ send'[s].returned = send[s].returned
           /\ send'[s].pending = send[s].pending - 1
           /\ send'[s].result = (IF send[s].result = "ok" THEN result ELSE send[s].result)
           /\ send'[s].indicated = (IF send[s].pending = 1 /\ send[s].kind = "async"
                                    THEN send[s].indicated + 1 ELSE send[s].indicated)
<1> DEFINE r == [send[s] EXCEPT !.pending = @ - 1, !.result = IF @ = "ok" THEN result ELSE @,
                     !.indicated = IF send[s].pending = 1 /\ send[s].kind = "async" THEN @ + 1 ELSE @]
<1>1. send' = [send EXCEPT ![s] = r]
  BY DEF Settled
<1>2. send[s] \in SendRecs
  OBVIOUS
<1>3. /\ r.kind = send[s].kind /\ r.targets = send[s].targets /\ r.returned = send[s].returned
      /\ r.pending = send[s].pending - 1
      /\ r.result = (IF send[s].result = "ok" THEN result ELSE send[s].result)
      /\ r.indicated = (IF send[s].pending = 1 /\ send[s].kind = "async"
                                    THEN send[s].indicated + 1 ELSE send[s].indicated)
  BY <1>2 DEF SendRecs
<1>4. r \in SendRecs
  <2>1. send[s].pending - 1 \in Nat /\ send[s].indicated \in Nat /\ send[s].indicated + 1 \in Nat
    BY <1>2 DEF SendRecs
  <2>2. ASSUME NEW a \in Nat, NEW b \in {"ok", "cancelled", "lost"}, NEW c \in Nat
        PROVE  [send[s] EXCEPT !.pending = a, !.result = b, !.indicated = c] \in SendRecs
    BY <1>2 DEF SendRecs
  <2>3. /\ (IF send[s].result = "ok" THEN result ELSE send[s].result) \in {"ok", "cancelled", "lost"}
        /\ (IF send[s].pending = 1 /\ send[s].kind = "async"
            THEN send[s].indicated + 1 ELSE send[s].indicated) \in Nat
    BY <1>2, <2>1 DEF SendRecs
  <2> QED
    BY <2>1, <2>2, <2>3
<1> HIDE DEF r
<1> QED
  BY <1>1, <1>3, <1>4

\* A step that changes which peers hold an op of which send.
LEMMA HeldAtStep ==
    ASSUME SendsInv, GoodQueues', orphans' = orphans
    PROVE  /\ \A s : HeldAt(s) = {p \in Peers : (\E x \in Priority : Queued(sq[p], s, x)) \/ <<s, p>> \in orphans}
           /\ \A s : HeldAt(s)' = {p \in Peers : (\E x \in Priority : Queued(sq'[p], s, x)) \/ <<s, p>> \in orphans}
<1>1. \A p \in Peers : GoodQueue(sq[p], GoodOps) /\ GoodQueue(sq'[p], GoodOps)
  BY DEF SendsInv, Records, GoodQueues
<1>2. \A p \in Peers : \A s :
         /\ (\E op \in OpsIn(sq[p]) : op.send = s) <=> \E x \in Priority : Queued(sq[p], s, x)
         /\ (\E op \in OpsIn(sq'[p]) : op.send = s) <=> \E x \in Priority : Queued(sq'[p], s, x)
  BY <1>1, QueuedMembers
<1> QED
  BY <1>2 DEF HeldAt

\* What becomes of the graves when no send is taken back.
LEMMA GravesKept ==
    ASSUME SendsInv, Kept, \A s \in SendIds : Issued(s) => Issued(s)'
    PROVE  Graves'
BY DEF SendsInv, Graves, Kept

\* Issuing survives when no send is new and nothing new is queued.
LEMMA IssuingKept ==
    ASSUME SendsInv, \A s \in SendIds : send'[s].kind = send[s].kind,
           \A p \in Peers, s \in SendIds, x \in Priority : Queued(sq'[p], s, x) => Queued(sq[p], s, x),
           \/ wire' = wire
           \/ \A p \in Peers : \A i \in DOMAIN wire'[p] : wire'[p][i].send \in SendIds /\ Issued(wire'[p][i].send),
           \A s \in SendIds : InWork(s)' \/ s \in detached' => InWork(s) \/ s \in detached
    PROVE  Issuing'
<1>0. Records /\ Issuing
  BY DEF SendsInv
<1>1. \A s \in SendIds : Issued(s)' <=> Issued(s)
  BY DEF Issued
<1>2. \A p \in Peers : \A i \in DOMAIN wire[p] : wire[p][i].send \in SendIds /\ Issued(wire[p][i].send)
  BY <1>0, LenProperties, ElementOfSeq, GoodOpsAreOps DEF Records, Issuing
<1>3. \A s \in SendIds : 1..s \subseteq SendIds
  BY SendsAssumption DEF SendIds
<1>4. \A s \in SendIds : Issued(s)' => \A r \in 1..s : Issued(r)'
  BY <1>0, <1>1, <1>3 DEF Issuing
<1>5. \A p \in Peers, s \in SendIds, x \in Priority : Queued(sq'[p], s, x) => Issued(s)'
  BY <1>0, <1>1 DEF Issuing
<1>6. \A p \in Peers : \A i \in DOMAIN wire'[p] : send'[wire'[p][i].send].kind # "new"
  <2>1. \A p \in Peers : \A i \in DOMAIN wire'[p] : wire'[p][i].send \in SendIds /\ Issued(wire'[p][i].send)
    BY <1>2
  <2> QED
    BY <2>1 DEF Issued
<1>7. \A s \in SendIds : InWork(s)' \/ s \in detached' => Issued(s)'
  BY <1>0, <1>1 DEF Issuing
<1> QED
  BY <1>4, <1>5, <1>6, <1>7 DEF Issuing, Issued

\* A silent step.
LEMMA SilentKeeps ==
    ASSUME SendsInv, Silent, Kept
    PROVE  SendsInv'
<1>1. /\ Records /\ Issuing /\ Counting /\ Delivery /\ WireOrder /\ Behind /\ Told
      /\ Positions' /\ Local' /\ GoodQueues' /\ UNCHANGED <<send, wire, detached>> /\ work' \in Seq(SendIds)
      /\ \A s \in SendIds : InWork(s)' <=> InWork(s)
      /\ \A p \in Peers, s \in SendIds, x \in Priority : Queued(sq'[p], s, x) <=> Queued(sq[p], s, x)
  BY DEF SendsInv, Silent, SameDeliveries
<1>2. Records'
  BY <1>1 DEF Records, GoodQueues
<1>3. \A s \in SendIds : HeldAt(s)' = HeldAt(s)
  BY <1>1, HeldAtStep DEF Kept
<1>4. \A s \in SendIds : WrittenTo(s)' = WrittenTo(s)
  BY <1>1 DEF WrittenTo
<1>5. Issuing'
  BY <1>1 DEF Issuing, Issued
<1>6. Counting'
  BY <1>1, <1>3 DEF Counting, Owed
<1>7. Delivery'
  BY <1>1, <1>3, <1>4 DEF Delivery
<1>8. WireOrder' /\ Told'
  BY <1>1 DEF WireOrder, Told
<1>9. Behind'
  <2>1. \A p \in Peers : \A i \in DOMAIN wire[p] : wire[p][i].pri \in Priority
    BY <1>1, LenProperties, ElementOfSeq, GoodOpsAreOps DEF Records
  <2> QED
    BY <1>1, <2>1 DEF Behind
<1>10. Graves'
  BY <1>1, GravesKept DEF Issued
<1> QED
  BY <1>10, <1>1, <1>2, <1>5, <1>6, <1>7, <1>8, <1>9 DEF SendsInv

\* The return of a synchronous SendTo().
LEMMA ReturnedKeeps ==
    ASSUME SendsInv, NEW s \in SendIds, Returned(s), Kept
    PROVE  SendsInv'
<1>1. /\ Records /\ Positions /\ Issuing /\ Local /\ Counting /\ Delivery /\ WireOrder /\ Behind /\ Told
      /\ UNCHANGED <<lock, sq, work, detached, thread, wire, orphans>>
      /\ send[s].kind = "sync" /\ send[s].pending = 0 /\ send' = [send EXCEPT ![s].returned = TRUE]
  BY DEF SendsInv, Returned, SyncReturn
<1>2. send \in [SendIds -> SendRecs] /\ send[s] \in SendRecs
  BY <1>1 DEF Records
<1>3. /\ send' \in [SendIds -> SendRecs] /\ \A r \in SendIds \ {s} : send'[r] = send[r]
      /\ \A r \in SendIds : /\ send'[r].kind = send[r].kind /\ send'[r].targets = send[r].targets
                            /\ send'[r].pending = send[r].pending /\ send'[r].result = send[r].result
                            /\ send'[r].indicated = send[r].indicated
  <2>1. send' = [send EXCEPT ![s] = [send[s] EXCEPT !.returned = TRUE]]
    BY <1>1
  <2>2. [send[s] EXCEPT !.returned = TRUE] \in SendRecs
    BY <1>2 DEF SendRecs
  <2>3. send' \in [SendIds -> SendRecs] /\ \A r \in SendIds \ {s} : send'[r] = send[r]
    BY <1>2, <2>1, <2>2
  <2>4. send'[s] = [send[s] EXCEPT !.returned = TRUE]
    BY <1>2, <2>1
  <2> QED
    BY <1>2, <2>3, <2>4 DEF SendRecs
<1>4. Records' /\ Positions' /\ Local' /\ WireOrder'
  BY <1>1, <1>3 DEF Records, Positions, Local, WireOrder, InWork
<1>5. \A r : HeldAt(r)' = HeldAt(r) /\ WrittenTo(r)' = WrittenTo(r) /\ (InWork(r)' <=> InWork(r))
  BY <1>1 DEF HeldAt, WrittenTo, InWork
<1>7. Issuing'
  BY <1>1, <1>3, <1>5, IssuingKept
<1>8. Counting'
  BY <1>1, <1>3, <1>5 DEF Counting, Owed
<1>9. Delivery'
  BY <1>1, <1>3, <1>5 DEF Delivery
<1>10. Behind'
  BY <1>1 DEF Behind
<1>11. Told'
  <2>1. ASSUME NEW r \in SendIds PROVE send'[r].returned => send'[r].kind = "sync" /\ send'[r].pending = 0
    BY <1>1, <1>3 DEF Told
  <2> QED
    BY <1>1, <1>3, <2>1 DEF Told
<1>12. Graves'
  BY <1>3, GravesKept DEF Issued
<1> QED
  BY <1>12, <1>4, <1>7, <1>8, <1>9, <1>10, <1>11 DEF SendsInv

\* A message written to peer p, by its position on the wire.
LEMMA WireAppended ==
    ASSUME SendsInv, NEW p \in Peers, NEW op \in GoodOps, wire' = [wire EXCEPT ![p] = Append(@, op)]
    PROVE  /\ wire' \in [Peers -> Seq(GoodOps)]
           /\ \A o \in Peers \ {p} : wire'[o] = wire[o]
           /\ \A i \in DOMAIN wire[p] : i \in DOMAIN wire'[p] /\ wire'[p][i] = wire[p][i]
           /\ \E n \in DOMAIN wire'[p] :
                 /\ wire'[p][n] = op
                 /\ \A i \in DOMAIN wire'[p] : i = n \/ (i \in DOMAIN wire[p] /\ i < n)
<1>1. wire \in [Peers -> Seq(GoodOps)] /\ wire[p] \in Seq(GoodOps)
  BY DEF SendsInv, Records
<1>2. wire'[p] = Append(wire[p], op) /\ \A o \in Peers \ {p} : wire'[o] = wire[o]
  BY <1>1
<1>3. /\ wire'[p] \in Seq(GoodOps) /\ Len(wire[p]) \in Nat /\ DOMAIN wire[p] = 1..Len(wire[p])
      /\ Len(wire'[p]) = Len(wire[p]) + 1 /\ DOMAIN wire'[p] = 1..Len(wire[p]) + 1
      /\ wire'[p][Len(wire[p]) + 1] = op /\ \A i \in 1..Len(wire[p]) : wire'[p][i] = wire[p][i]
  <2>1. Append(wire[p], op) \in Seq(GoodOps) /\ Len(Append(wire[p], op)) = Len(wire[p]) + 1
    BY <1>1, AppendProperties
  <2> QED
    BY <1>1, <1>2, <2>1, AppendProperties, LenProperties
<1>4. wire' \in [Peers -> Seq(GoodOps)]
  BY <1>1, <1>2, <1>3
<1>5. \A i \in DOMAIN wire[p] : i \in DOMAIN wire'[p] /\ wire'[p][i] = wire[p][i]
  BY <1>3
<1>6. /\ Len(wire[p]) + 1 \in DOMAIN wire'[p]
      /\ \A i \in DOMAIN wire'[p] : i = Len(wire[p]) + 1 \/ (i \in DOMAIN wire[p] /\ i < Len(wire[p]) + 1)
  BY <1>3
<1> QED
  BY <1>2, <1>3, <1>4, <1>5, <1>6

\* The targets that a send has been written to.
LEMMA WrittenAppended ==
    ASSUME SendsInv, NEW p \in Peers, NEW op \in GoodOps, wire' = [wire EXCEPT ![p] = Append(@, op)], NEW r
    PROVE  /\ r = op.send => WrittenTo(r)' = WrittenTo(r) \cup {p}
           /\ r # op.send => WrittenTo(r)' = WrittenTo(r)
<1>1. \A o \in Peers \ {p} : wire'[o] = wire[o]
  BY WireAppended
<1>2. \A i \in DOMAIN wire[p] : i \in DOMAIN wire'[p] /\ wire'[p][i] = wire[p][i]
  BY WireAppended
<1>3. \E n \in DOMAIN wire'[p] :
         /\ wire'[p][n] = op
         /\ \A i \in DOMAIN wire'[p] : i = n \/ (i \in DOMAIN wire[p] /\ i < n)
  BY WireAppended
<1>4. \A o \in Peers \ {p} : o \in WrittenTo(r)' <=> o \in WrittenTo(r)
  BY <1>1 DEF WrittenTo
<1>5. p \in WrittenTo(r)' <=> p \in WrittenTo(r) \/ r = op.send
  <2>1. p \in WrittenTo(r)' <=> \E i \in DOMAIN wire'[p] : wire'[p][i].send = r
    BY DEF WrittenTo
  <2>2. p \in WrittenTo(r) <=> \E i \in DOMAIN wire[p] : wire[p][i].send = r
    BY DEF WrittenTo
  <2> QED
    BY <1>2, <1>3, <2>1, <2>2
<1>6. WrittenTo(r) \subseteq Peers /\ WrittenTo(r)' \subseteq Peers
  BY DEF WrittenTo
<1> QED
  BY <1>4, <1>5, <1>6, SMTT(30)

\* An op that is written, cancelled or flushed.
LEMMA CompletedKeeps ==
    ASSUME SendsInv, NEW p \in Peers, NEW s \in SendIds, NEW x \in Priority,
           NEW result \in {"ok", "lost", "cancelled"}, Completed(p, s, x, result), Kept
    PROVE  SendsInv'
<1>1. /\ Records /\ Issuing /\ Counting /\ Delivery /\ WireOrder /\ Behind /\ Told
      /\ Positions' /\ Local' /\ GoodQueues' /\ detached' = detached /\ work' \in Seq(SendIds)
      /\ \A r \in SendIds : InWork(r)' <=> InWork(r)
  BY DEF SendsInv, Completed, SameDeliveries
<1>2. /\ Queued(sq[p], s, x) /\ send' = Settled(s, result)
      /\ \A o \in Peers, r \in SendIds, y \in Priority :
            Queued(sq'[o], r, y) <=> Queued(sq[o], r, y) /\ ~(o = p /\ r = s)
  BY DEF Completed
<1>3. /\ p \in HeldAt(s) /\ HeldAt(s)' = HeldAt(s) \ {p}
      /\ \A r \in SendIds \ {s} : HeldAt(r)' = HeldAt(r)
  <2>1. /\ \A r : HeldAt(r) = {o \in Peers : (\E y \in Priority : Queued(sq[o], r, y)) \/ <<r, o>> \in orphans}
        /\ \A r : HeldAt(r)' = {o \in Peers : (\E y \in Priority : Queued(sq'[o], r, y)) \/ <<r, o>> \in orphans}
    BY <1>1, HeldAtStep DEF Kept
  <2>0. <<s, p>> \notin orphans
    BY <1>2 DEF SendsInv, Graves, Queued
  <2>2. ASSUME NEW o \in Peers PROVE o \in HeldAt(s)' <=> o \in HeldAt(s) /\ o # p
    BY <1>2, <2>0, <2>1
  <2>3. ASSUME NEW r \in SendIds \ {s}, NEW o \in Peers PROVE o \in HeldAt(r)' <=> o \in HeldAt(r)
    BY <1>2, <2>1
  <2>4. \A r : HeldAt(r) \subseteq Peers /\ HeldAt(r)' \subseteq Peers
    BY <2>1
  <2>5. p \in HeldAt(s)
    BY <1>2, <2>1
  <2> QED
    BY <2>2, <2>3, <2>4, <2>5
<1>4. /\ Cardinality(HeldAt(s)) \in Nat \ {0} /\ Cardinality(HeldAt(s)') = Cardinality(HeldAt(s)) - 1
  <2>1. IsFiniteSet(HeldAt(s)) /\ Cardinality(HeldAt(s)) \in Nat
    BY HeldAtFinite, SendsAssumption
  <2>2. Cardinality(HeldAt(s)) # 0
    BY <1>3, <2>1, FS_EmptySet
  <2> QED
    BY <1>3, <2>1, <2>2, FS_RemoveElement
<1>5. send[s].pending = Owed(s) /\ send[s].pending > 0
  BY <1>1, <1>4 DEF Counting, Owed
<1>6. /\ send' \in [SendIds -> SendRecs]
      /\ \A r \in SendIds \ {s} : send'[r] = send[r]
      /\ send'[s].kind = send[s].kind /\ send'[s].targets = send[s].targets
      /\ send'[s].returned = send[s].returned
      /\ send'[s].pending = send[s].pending - 1
      /\ send'[s].result = (IF send[s].result = "ok" THEN result ELSE send[s].result)
      /\ send'[s].indicated = (IF send[s].pending = 1 /\ send[s].kind = "async"
                               THEN send[s].indicated + 1 ELSE send[s].indicated)
  BY <1>1, <1>2, <1>5, SettledProperties DEF Records
<1>7. Counting'
  <2>1. Owed(s)' = Owed(s) - 1
    BY <1>1, <1>4 DEF Owed
  <2>2. \A r \in SendIds \ {s} : Owed(r)' = Owed(r)
    BY <1>1, <1>3 DEF Owed
  <2> QED
    BY <1>1, <1>5, <1>6, <2>1, <2>2 DEF Counting
<1>8. Told'
  <2>1. send[s].pending \in Nat /\ ~send[s].returned /\ send[s].indicated = 0
    BY <1>1, <1>5 DEF Told, Records, SendRecs
  <2>2. /\ send'[s].kind = "async" => send'[s].indicated = IF send'[s].pending = 0 THEN 1 ELSE 0
        /\ send'[s].kind # "async" => send'[s].indicated = 0
        /\ ~send'[s].returned
    BY <1>5, <1>6, <2>1
  <2> QED
    BY <1>1, <1>6, <2>2, ZenonT(60) DEF Told
<1>9. p \in send[s].targets /\ p \notin WrittenTo(s)
  BY <1>1, <1>3 DEF Delivery
<1>10. \A o \in Peers : \A i \in DOMAIN wire[o] : /\ wire[o][i] \in GoodOps /\ wire[o][i].send \in SendIds
                                                 /\ wire[o][i].pri \in Priority /\ Issued(wire[o][i].send)
  BY <1>1, LenProperties, ElementOfSeq, GoodOpsAreOps DEF Records, Issuing
<1>13. Graves'
  BY <1>6, GravesKept DEF Issued
<1>11. CASE wire' = wire /\ result # "ok"
  <2>1. Records'
    BY <1>1, <1>6, <1>11 DEF Records, GoodQueues
  <2>2. Issuing'
    BY <1>1, <1>2, <1>6, <1>11, IssuingKept
  <2>3. WireOrder'
    BY <1>1, <1>11 DEF WireOrder
  <2>4. Behind'
    BY <1>1, <1>2, <1>10, <1>11 DEF Behind
  <2>5. \A r : WrittenTo(r)' = WrittenTo(r)
    BY <1>11 DEF WrittenTo
  <2>6. send'[s].result # "ok"
    BY <1>6, <1>11
  <2>7. Delivery'
    <3>1. ASSUME NEW r \in SendIds \ {s}
          PROVE  /\ HeldAt(r)' \cup WrittenTo(r)' \subseteq send'[r].targets /\ HeldAt(r)' \cap WrittenTo(r)' = {}
                 /\ send'[r].result = "ok" <=> send'[r].targets \subseteq HeldAt(r)' \cup WrittenTo(r)'
      BY <1>1, <1>3, <1>6, <2>5 DEF Delivery
    <3>2. /\ HeldAt(s)' \cup WrittenTo(s)' \subseteq send'[s].targets /\ HeldAt(s)' \cap WrittenTo(s)' = {}
          /\ ~(send'[s].targets \subseteq HeldAt(s)' \cup WrittenTo(s)')
      BY <1>1, <1>3, <1>6, <1>9, <2>5 DEF Delivery
    <3> QED
      BY <2>6, <3>1, <3>2 DEF Delivery
  <2> QED
    BY <1>1, <1>7, <1>8, <1>13, <2>1, <2>2, <2>3, <2>4, <2>7 DEF SendsInv
<1>12. CASE /\ result = "ok"
            /\ \E op \in GoodOps : op.send = s /\ op.pri = x /\ wire' = [wire EXCEPT ![p] = Append(@, op)]
            /\ \A r \in SendIds : Queued(sq'[p], r, x) => s < r
  <2>1. PICK op \in GoodOps : op.send = s /\ op.pri = x /\ wire' = [wire EXCEPT ![p] = Append(@, op)]
    BY <1>12
  <2>2. /\ wire' \in [Peers -> Seq(GoodOps)]
        /\ \A o \in Peers \ {p} : wire'[o] = wire[o]
        /\ \A i \in DOMAIN wire[p] : i \in DOMAIN wire'[p] /\ wire'[p][i] = wire[p][i]
        /\ WrittenTo(s)' = WrittenTo(s) \cup {p} /\ \A r : r # s => WrittenTo(r)' = WrittenTo(r)
    <3> wire' = [wire EXCEPT ![p] = Append(@, op)]
      BY <2>1
    <3>1. ASSUME NEW r PROVE /\ r = op.send => WrittenTo(r)' = WrittenTo(r) \cup {p}
                             /\ r # op.send => WrittenTo(r)' = WrittenTo(r)
      BY WrittenAppended, Zenon
    <3>2. /\ wire' \in [Peers -> Seq(GoodOps)]
          /\ \A o \in Peers \ {p} : wire'[o] = wire[o]
          /\ \A i \in DOMAIN wire[p] : i \in DOMAIN wire'[p] /\ wire'[p][i] = wire[p][i]
      BY WireAppended
    <3> QED
      BY <2>1, <3>1, <3>2
  <2>3. PICK n \in DOMAIN wire'[p] : /\ wire'[p][n] = op
                                     /\ \A i \in DOMAIN wire'[p] : i = n \/ (i \in DOMAIN wire[p] /\ i < n)
    BY <2>1, WireAppended
  <2>4. Records'
    BY <1>1, <1>6, <2>2 DEF Records, GoodQueues
  <2>5. Issued(s)
    BY <1>1, <1>2 DEF Issuing
  <2>6. \A i \in DOMAIN wire'[p] : i = n \/ (i \in DOMAIN wire[p] /\ wire'[p][i] = wire[p][i])
    BY <2>2, <2>3
  <2>7. Issuing'
    <3>1. \A o \in Peers : \A i \in DOMAIN wire'[o] : wire'[o][i].send \in SendIds /\ Issued(wire'[o][i].send)
      BY <1>10, <2>1, <2>2, <2>3, <2>5, <2>6
    <3>2. /\ \A r \in SendIds : send'[r].kind = send[r].kind
          /\ \A o \in Peers, r \in SendIds, y \in Priority : Queued(sq'[o], r, y) => Queued(sq[o], r, y)
          /\ \A r \in SendIds : InWork(r)' \/ r \in detached' => InWork(r) \/ r \in detached
      BY <1>1, <1>2, <1>6
    <3> QED
      BY <3>1, <3>2, IssuingKept
  <2>8. \A i \in DOMAIN wire[p] : wire[p][i].pri = x => wire[p][i].send < s
    BY <1>1, <1>2 DEF Behind
  <2>9. WireOrder'
    <3>1. ASSUME NEW i \in DOMAIN wire'[p], NEW j \in DOMAIN wire'[p], i < j, wire'[p][i].pri = wire'[p][j].pri
          PROVE  wire'[p][i].send < wire'[p][j].send
      <4>1. n \in Nat /\ i \in Nat /\ j \in Nat
        <5>1. wire'[p] \in Seq(GoodOps)
          BY <2>2
        <5>2. DOMAIN wire'[p] = 1..Len(wire'[p]) /\ Len(wire'[p]) \in Nat
          BY <5>1, LenProperties
        <5> QED
          BY <5>2
      <4>2. i # n /\ i \in DOMAIN wire[p]
        BY <2>3, <3>1, <4>1
      <4>3. CASE j = n
        BY <2>1, <2>2, <2>3, <2>8, <3>1, <4>2, <4>3
      <4>4. CASE j # n
        <5>1. j \in DOMAIN wire[p]
          BY <2>3, <4>4
        <5> QED
          BY <1>1, <2>2, <3>1, <4>2, <5>1 DEF WireOrder
      <4> QED
        BY <4>3, <4>4
    <3>2. ASSUME NEW o \in Peers \ {p}, NEW i \in DOMAIN wire'[o], NEW j \in DOMAIN wire'[o], i < j,
                 wire'[o][i].pri = wire'[o][j].pri
          PROVE  wire'[o][i].send < wire'[o][j].send
      BY <1>1, <2>2, <3>2 DEF WireOrder
    <3> QED
      BY <3>1, <3>2 DEF WireOrder
  <2>10. Behind'
    <3>1. ASSUME NEW i \in DOMAIN wire'[p], NEW r \in SendIds, Queued(sq'[p], r, wire'[p][i].pri)
          PROVE  wire'[p][i].send < r
      <4>1. CASE i = n
        BY <1>12, <2>1, <2>3, <3>1, <4>1
      <4>2. CASE i # n
        <5>1. i \in DOMAIN wire[p] /\ wire'[p][i] = wire[p][i]
          BY <2>6, <4>2
        <5>2. Queued(sq[p], r, wire[p][i].pri)
          BY <1>2, <1>10, <3>1, <5>1
        <5> QED
          BY <1>1, <5>1, <5>2 DEF Behind
      <4> QED
        BY <4>1, <4>2
    <3>2. ASSUME NEW o \in Peers \ {p}, NEW i \in DOMAIN wire'[o], NEW r \in SendIds,
                 Queued(sq'[o], r, wire'[o][i].pri)
          PROVE  wire'[o][i].send < r
      <4>1. i \in DOMAIN wire[o] /\ wire'[o][i] = wire[o][i]
        BY <2>2
      <4>2. Queued(sq[o], r, wire[o][i].pri)
        BY <1>2, <1>10, <3>2, <4>1
      <4> QED
        BY <1>1, <4>1, <4>2 DEF Behind
    <3> QED
      BY <3>1, <3>2 DEF Behind
  <2>11. Delivery'
    <3>1. ASSUME NEW r \in SendIds \ {s}
          PROVE  /\ HeldAt(r)' \cup WrittenTo(r)' \subseteq send'[r].targets /\ HeldAt(r)' \cap WrittenTo(r)' = {}
                 /\ send'[r].result = "ok" <=> send'[r].targets \subseteq HeldAt(r)' \cup WrittenTo(r)'
      BY <1>1, <1>3, <1>6, <2>2 DEF Delivery
    <3>2. HeldAt(s)' \cup WrittenTo(s)' = HeldAt(s) \cup WrittenTo(s)
      BY <1>3, <2>2
    <3>3. send'[s].result = send[s].result
      BY <1>6, <1>12
    <3>4. /\ HeldAt(s)' \cup WrittenTo(s)' \subseteq send'[s].targets /\ HeldAt(s)' \cap WrittenTo(s)' = {}
          /\ send'[s].result = "ok" <=> send'[s].targets \subseteq HeldAt(s)' \cup WrittenTo(s)'
      <4>1. HeldAt(s)' \cap WrittenTo(s)' = {}
        BY <1>1, <1>3, <2>2 DEF Delivery
      <4> QED
        BY <1>1, <1>6, <3>2, <3>3, <4>1 DEF Delivery
    <3> QED
      BY <3>1, <3>4 DEF Delivery
  <2> QED
    BY <1>1, <1>7, <1>8, <1>13, <2>4, <2>7, <2>9, <2>10, <2>11 DEF SendsInv
<1> QED
  BY <1>11, <1>12 DEF Completed

\* A loopback delivery.
LEMMA LocallyCompletedKeeps ==
    ASSUME SendsInv, NEW s \in SendIds, LocallyCompleted(s), Kept
    PROVE  SendsInv'
<1>1. /\ Records /\ Issuing /\ Local /\ Counting /\ Delivery /\ WireOrder /\ Behind /\ Told
      /\ Positions' /\ Local' /\ UNCHANGED <<sq, wire>> /\ detached' = detached \ {s} /\ work' \in Seq(SendIds)
      /\ \A r \in SendIds : InWork(r)' <=> InWork(r) /\ r # s
      /\ InWork(s) \/ s \in detached
      /\ send' = Settled(s, "ok")
  BY DEF SendsInv, LocallyCompleted
<1>2. \A r : HeldAt(r)' = HeldAt(r) /\ WrittenTo(r)' = WrittenTo(r)
  BY <1>1 DEF HeldAt, WrittenTo, Kept
<1>3. ~(InWork(s) /\ s \in detached)
  BY <1>1 DEF Local
<1>4. Cardinality(HeldAt(s)) \in Nat
  BY HeldAtFinite, SendsAssumption
<1>5. Owed(s) \in Nat \ {0} /\ Owed(s)' = Owed(s) - 1
  BY <1>1, <1>2, <1>3, <1>4 DEF Owed
<1>6. \A r \in SendIds \ {s} : Owed(r)' = Owed(r)
  BY <1>1, <1>2 DEF Owed
<1>7. send[s].pending = Owed(s) /\ send[s].pending > 0
  BY <1>1, <1>5 DEF Counting
<1>8. /\ send' \in [SendIds -> SendRecs]
      /\ \A r \in SendIds \ {s} : send'[r] = send[r]
      /\ send'[s].kind = send[s].kind /\ send'[s].targets = send[s].targets
      /\ send'[s].returned = send[s].returned
      /\ send'[s].pending = send[s].pending - 1
      /\ send'[s].result = send[s].result
      /\ send'[s].indicated = (IF send[s].pending = 1 /\ send[s].kind = "async"
                               THEN send[s].indicated + 1 ELSE send[s].indicated)
  BY <1>1, <1>7, SettledProperties DEF Records
<1>9. Counting'
  BY <1>1, <1>5, <1>6, <1>7, <1>8 DEF Counting
<1>10. Told'
  <2>1. send[s].pending \in Nat /\ ~send[s].returned /\ send[s].indicated = 0
    BY <1>1, <1>7 DEF Told, Records, SendRecs
  <2>2. /\ send'[s].kind = "async" => send'[s].indicated = IF send'[s].pending = 0 THEN 1 ELSE 0
        /\ send'[s].kind # "async" => send'[s].indicated = 0
        /\ ~send'[s].returned
    BY <1>7, <1>8, <2>1
  <2> QED
    BY <1>1, <1>8, <2>2 DEF Told
<1>11. Records'
  BY <1>1, <1>8 DEF Records
<1>12. Issuing'
  BY <1>1, <1>8, IssuingKept
<1>13. WireOrder' /\ Behind'
  BY <1>1 DEF WireOrder, Behind
<1>14. Delivery'
  BY <1>1, <1>2, <1>8 DEF Delivery
<1>15. Graves'
  BY <1>8, GravesKept DEF Issued
<1> QED
  BY <1>15, <1>1, <1>9, <1>10, <1>11, <1>12, <1>13, <1>14 DEF SendsInv

\* A SendTo() call.
LEMMA AcceptedKeeps ==
    ASSUME SendsInv, NEW s \in SendIds, NEW kind \in Kinds, NEW ps \in SUBSET Peers, NEW x \in Priority,
           NEW loop \in BOOLEAN, NEW alone \in BOOLEAN, Accepted(s, kind, ps, x, loop, alone), Kept
    PROVE  SendsInv'
<1> DEFINE new == [NewSend EXCEPT !.kind = kind, !.targets = ps,
                      !.pending = Cardinality(ps) + (IF loop \/ alone THEN 1 ELSE 0)]
<1>1. /\ Records /\ Issuing /\ Counting /\ Delivery /\ WireOrder /\ Behind /\ Told
      /\ Positions' /\ Local' /\ work' \in Seq(SendIds) /\ GoodQueues' /\ wire' = wire
      /\ ~Issued(s) /\ (\A r \in 1..s - 1 : Issued(r)) /\ ~(loop /\ alone)
      /\ detached' = (IF alone THEN detached \cup {s} ELSE detached)
      /\ \A r \in SendIds : InWork(r)' <=> InWork(r) \/ (loop /\ r = s)
      /\ \A o \in Peers, r \in SendIds, y \in Priority :
            Queued(sq'[o], r, y) <=> Queued(sq[o], r, y) \/ (o \in ps /\ r = s /\ y = x)
      /\ send' = [send EXCEPT ![s] = new]
  BY DEF SendsInv, Accepted
<1>2. Cardinality(ps) \in Nat /\ kind \in {"async", "nocomplete", "sync"}
  BY SetsAreFinite, SendsAssumption
<1>3. /\ new \in SendRecs /\ new.kind = kind /\ new.targets = ps /\ new.result = "ok" /\ new.indicated = 0
      /\ new.returned = FALSE /\ new.pending = Cardinality(ps) + (IF loop \/ alone THEN 1 ELSE 0)
  <2>1. Cardinality(ps) + (IF loop \/ alone THEN 1 ELSE 0) \in Nat
    BY <1>2
  <2>2. ASSUME NEW c \in Nat
        PROVE  [NewSend EXCEPT !.kind = kind, !.targets = ps, !.pending = c] \in SendRecs
    BY <1>2 DEF NewSend, SendRecs
  <2> QED
    BY <2>1, <2>2 DEF NewSend
<1> HIDE DEF new
<1>4. /\ send' \in [SendIds -> SendRecs] /\ send'[s] = new /\ \A r \in SendIds \ {s} : send'[r] = send[r]
  BY <1>1, <1>3 DEF Records
<1>5. Records'
  <2>1. detached' \subseteq SendIds
    BY <1>1 DEF Records
  <2> QED
    BY <1>1, <1>4, <2>1 DEF Records, GoodQueues
<1>6. /\ \A y \in Priority, o \in Peers : ~Queued(sq[o], s, y)
      /\ ~InWork(s) /\ s \notin detached
  BY <1>1 DEF Issuing
<1>7. \A o \in Peers : \A i \in DOMAIN wire[o] : /\ wire[o][i].send \in SendIds /\ wire[o][i].pri \in Priority
                                                /\ Issued(wire[o][i].send) /\ wire[o][i].send < s
  <2>1. \A o \in Peers : \A i \in DOMAIN wire[o] : /\ wire[o][i].send \in SendIds /\ wire[o][i].pri \in Priority
                                                  /\ Issued(wire[o][i].send)
    BY <1>1, LenProperties, ElementOfSeq, GoodOpsAreOps DEF Records, Issuing
  <2>2. ASSUME NEW r \in SendIds, Issued(r) PROVE r < s
    <3>1. r \in Nat \ {0} /\ s \in Nat \ {0}
      BY GoodOpsAreOps
    <3>2. ~(s \in 1..r)
      BY <1>1, <2>2 DEF Issuing
    <3> QED
      BY <3>1, <3>2
  <2> QED
    BY <2>1, <2>2
<1>8. WrittenTo(s) = {} /\ \A r : WrittenTo(r)' = WrittenTo(r)
  <2>1. \A o \in Peers : \A i \in DOMAIN wire[o] : wire[o][i].send # s
    BY <1>1, <1>7
  <2> QED
    BY <1>1, <2>1 DEF WrittenTo
<1>9. HeldAt(s)' = ps /\ \A r \in SendIds \ {s} : HeldAt(r)' = HeldAt(r)
  <2>1. /\ \A r : HeldAt(r) = {o \in Peers : (\E y \in Priority : Queued(sq[o], r, y)) \/ <<r, o>> \in orphans}
        /\ \A r : HeldAt(r)' = {o \in Peers : (\E y \in Priority : Queued(sq'[o], r, y)) \/ <<r, o>> \in orphans}
    BY <1>1, HeldAtStep DEF Kept
  <2>0. \A o \in Peers : <<s, o>> \notin orphans
    BY <1>1 DEF SendsInv, Graves
  <2>2. ASSUME NEW o \in Peers PROVE o \in HeldAt(s)' <=> o \in ps
    BY <1>1, <1>6, <2>0, <2>1
  <2>3. ASSUME NEW r \in SendIds \ {s}, NEW o \in Peers PROVE o \in HeldAt(r)' <=> o \in HeldAt(r)
    BY <1>1, <2>1
  <2>4. \A r : HeldAt(r) \subseteq Peers /\ HeldAt(r)' \subseteq Peers
    BY <2>1
  <2> QED
    BY <2>2, <2>3, <2>4
<1>10. \A r \in SendIds : Issued(r)' <=> Issued(r) \/ r = s
  BY <1>2, <1>3, <1>4 DEF Issued
<1>11. Issuing'
  <2>1. ASSUME NEW r \in SendIds, Issued(r)', NEW k \in 1..r PROVE Issued(k)'
    <3>1. k \in SendIds /\ r \in Nat /\ k \in Nat /\ s \in Nat \ {0}
      BY SendsAssumption DEF SendIds
    <3>2. CASE Issued(r)
      BY <1>1, <1>10, <3>1, <3>2 DEF Issuing
    <3>3. CASE r = s
      <4>1. k = s \/ k \in 1..s - 1
        BY <3>1, <3>3
      <4> QED
        BY <1>1, <1>10, <3>1, <4>1
    <3> QED
      BY <1>10, <2>1, <3>2, <3>3
  <2>2. \A o \in Peers, r \in SendIds, y \in Priority : Queued(sq'[o], r, y) => Issued(r)'
    BY <1>1, <1>10 DEF Issuing
  <2>3. \A o \in Peers : \A i \in DOMAIN wire[o] : send'[wire[o][i].send].kind # "new"
    BY <1>7, <1>10 DEF Issued
  <2>4. \A r \in SendIds : InWork(r)' \/ r \in detached' => Issued(r)'
    BY <1>1, <1>10 DEF Issuing
  <2> QED
    BY <1>1, <2>1, <2>2, <2>3, <2>4 DEF Issuing, Issued
<1>12. Counting'
  <2>1. \A r \in SendIds \ {s} : Owed(r)' = Owed(r)
    BY <1>1, <1>9 DEF Owed
  <2>2. Owed(s)' = Cardinality(ps) + (IF loop \/ alone THEN 1 ELSE 0)
    <3>1. (InWork(s)' <=> loop) /\ (s \in detached' <=> alone)
      BY <1>1, <1>6
    <3> QED
      BY <1>1, <1>2, <1>9, <3>1 DEF Owed
  <2> QED
    BY <1>1, <1>3, <1>4, <2>1, <2>2 DEF Counting
<1>13. WireOrder'
  BY <1>1 DEF WireOrder
<1>14. Behind'
  BY <1>1, <1>7 DEF Behind
<1>15. Delivery'
  <2>1. ASSUME NEW r \in SendIds \ {s}
        PROVE  /\ HeldAt(r)' \cup WrittenTo(r)' \subseteq send'[r].targets /\ HeldAt(r)' \cap WrittenTo(r)' = {}
               /\ send'[r].result = "ok" <=> send'[r].targets \subseteq HeldAt(r)' \cup WrittenTo(r)'
    BY <1>1, <1>4, <1>8, <1>9 DEF Delivery
  <2>2. /\ HeldAt(s)' \cup WrittenTo(s)' \subseteq send'[s].targets /\ HeldAt(s)' \cap WrittenTo(s)' = {}
        /\ send'[s].result = "ok" /\ send'[s].targets \subseteq HeldAt(s)' \cup WrittenTo(s)'
    BY <1>3, <1>4, <1>8, <1>9
  <2> QED
    BY <2>1, <2>2 DEF Delivery
<1>16. Told'
  <2>1. ASSUME kind = "async" PROVE new.pending # 0
    <3>1. ps # {} => Cardinality(ps) # 0
      BY SetsAreFinite, FS_EmptySet
    <3>2. ps # {} \/ loop \/ alone
      BY <2>1 DEF Accepted
    <3> QED
      BY <1>2, <1>3, <3>1, <3>2
  <2> QED
    BY <1>1, <1>3, <1>4, <2>1 DEF Told
<1>17. Graves'
  BY <1>10, GravesKept
<1> QED
  BY <1>17, <1>1, <1>5, <1>11, <1>12, <1>13, <1>14, <1>15, <1>16 DEF SendsInv

\* The deletion of a peer: what it takes along was held and stays counted.
LEMMA BuriedKeeps ==
    ASSUME SendsInv, NEW p \in Peers, Buried(p)
    PROVE  SendsInv'
<1>1. /\ Records /\ Issuing /\ Counting /\ Delivery /\ WireOrder /\ Behind /\ Told /\ Graves
      /\ Positions' /\ Local' /\ UNCHANGED <<send, wire, detached>> /\ work' \in Seq(SendIds)
      /\ \A s \in SendIds : InWork(s)' <=> InWork(s)
      /\ sq' = [sq EXCEPT ![p] = EmptyQueue] /\ peer' = [peer EXCEPT ![p] = "deleted"]
      /\ orphans' = orphans \cup {<<op.send, p>> : op \in OpsIn(sq[p])}
  BY DEF SendsInv, Buried, SameDeliveries
<1>2. /\ GoodQueues' /\ sq'[p] = EmptyQueue /\ \A o \in Peers \ {p} : sq'[o] = sq[o]
  BY <1>1, EmptyQueueIsGood, OneQueue
<1>3. OpsIn(sq'[p]) = {}
  BY <1>2, EmptyQueueIsGood
<1>4. \A o \in Peers : \A s, x : Queued(sq'[o], s, x) => Queued(sq[o], s, x)
  BY <1>2, <1>3 DEF Queued
<1>5. \A op \in OpsIn(sq[p]) : op.send \in SendIds /\ Issued(op.send)
  <2>1. ASSUME NEW op \in OpsIn(sq[p]) PROVE op.send \in SendIds /\ op.pri \in Priority
    BY <1>1, OpsInQueue, GoodOpsAreOps DEF Records, GoodQueue
  <2> QED
    BY <1>1, <2>1 DEF Issuing, Queued
<1>6. \A s : HeldAt(s)' = HeldAt(s)
  <2>1. ASSUME NEW s, NEW o \in Peers
        PROVE  ((\E op \in OpsIn(sq'[o]) : op.send = s) \/ <<s, o>> \in orphans') <=>
               ((\E op \in OpsIn(sq[o]) : op.send = s) \/ <<s, o>> \in orphans)
    BY <1>1, <1>2, <1>3
  <2> QED
    BY <2>1 DEF HeldAt
<1>7. \A s \in SendIds : WrittenTo(s)' = WrittenTo(s)
  BY <1>1 DEF WrittenTo
<1>8. Records'
  BY <1>1, <1>2 DEF Records, GoodQueues
<1>9. Issuing'
  BY <1>1, <1>4 DEF Issuing, Issued
<1>10. Counting' /\ Delivery' /\ WireOrder' /\ Told'
  BY <1>1, <1>6, <1>7 DEF Counting, Owed, Delivery, WireOrder, Told
<1>11. Behind'
  BY <1>1, <1>4 DEF Behind
<1>12. Graves'
  <2>1. peer' \in [Peers -> {"connected", "closing", "deleted"}] /\ orphans' \subseteq SendIds \X Peers
    BY <1>1, <1>5 DEF Graves
  <2>2. \A o \in Peers : peer'[o] = "deleted" => OpsIn(sq'[o]) = {}
    BY <1>1, <1>2, <1>3 DEF Graves
  <2>3. ASSUME NEW s \in SendIds, NEW o \in Peers, <<s, o>> \in orphans' PROVE Issued(s)' /\ peer'[o] = "deleted"
    BY <1>1, <1>5, <2>3 DEF Graves, Issued
  <2> QED
    BY <2>1, <2>2, <2>3 DEF Graves
<1> QED
  BY <1>1, <1>8, <1>9, <1>10, <1>11, <1>12 DEF SendsInv

-------------------------------------------------------------------------------
(* The theorems.                                                             *)

\* The invariant is inductive.
LEMMA InvariantKept ==
    ASSUME SendsInv, [Next]_vars
    PROVE  SendsInv'
<1>1. CASE \E t \in Threads : Deletes(t)
  BY <1>1, DeletionBuries, BuriedKeeps
<1>2. CASE \A t \in Threads : ~Deletes(t)
  <2>1. Classified /\ Kept
    BY <1>2, StepsClassified, StepsKeepGraves DEF GoodStep
  <2> QED
    BY <2>1, SilentKeeps, AcceptedKeeps, CompletedKeeps, LocallyCompletedKeeps, ReturnedKeeps DEF Classified
<1> QED
  BY <1>1, <1>2

\* The inductive invariant of SendTo(), io_peer_send(), CancelAsyncOperation()
\* and peer_destroy(): what is queued, written, being delivered locally and
\* counted fits together in every state, for any number of peers, threads,
\* messages and priorities.
THEOREM SendsInvariant == Spec => []SendsInv
<1>1. Init => SendsInv
  BY InitInv
<1>2. SendsInv /\ [Next]_vars => SendsInv'
  BY InvariantKept
<1> QED
  BY <1>1, <1>2, PTL DEF Spec

\* Messages of one priority reach a socket in the order of the SendTo() calls.
THEOREM WireOrderHolds == Spec => []WireOrder
<1>1. SendsInv => WireOrder
  BY DEF SendsInv
<1> QED
  BY <1>1, SendsInvariant, PTL

\* A send completes with S_OK exactly when it was written to all its targets.
THEOREM ResultsAreTruthful == Spec => []ResultIsTruthful
<1>1. SendsInv => ResultIsTruthful
  <2> SUFFICES ASSUME SendsInv, NEW s \in SendIds, send[s].pending = 0
               PROVE  send[s].result = "ok" <=> WrittenTo(s) = send[s].targets
    BY DEF ResultIsTruthful
  <2>1. IsFiniteSet(HeldAt(s)) /\ Cardinality(HeldAt(s)) \in Nat
    BY HeldAtFinite, SendsAssumption
  <2>2. Cardinality(HeldAt(s)) = 0
    BY <2>1 DEF SendsInv, Counting, Owed
  <2>3. HeldAt(s) = {}
    BY <2>1, <2>2, FS_EmptySet
  <2> QED
    BY <2>3 DEF SendsInv, Delivery
<1> QED
  BY <1>1, SendsInvariant, PTL

\* Only the op in `current' is ever partly written: it stays current until it
\* has been written whole, peer_destroy() flushes it or it goes with its peer.
THEOREM StreamsAreWhole == Spec => StreamIntegrity
<1>1. SendsInv /\ [Next]_vars =>
        [\A p \in Peers :
          sq[p].current # Null /\ sq'[p].current # sq[p].current =>
              \/ sq'[p].current # Null /\ sq'[p].current.send = sq[p].current.send
              \/ Len(wire'[p]) = Len(wire[p]) + 1
              \/ peer'[p] = "deleted"
              \/ \E t \in Threads : lock = t /\ thread[t].pc = "flush" /\ thread[t].peer = p]_vars
  <2>1. SendsInv /\ [Next]_vars => \A p \in Peers : Intact(p)
    BY StepsClassified, DeletionBuries DEF GoodStep
  <2> QED
    BY <2>1 DEF Intact
<1> QED
  BY <1>1, SendsInvariant, PTL DEF Spec, StreamIntegrity

\* The variables beside the accounting keep their types.
LEMMA SocketsKept ==
    ASSUME SendsInv, Sockets, [Next]_vars
    PROVE  Sockets'
<1> USE DEF Sockets
<1>0. \A t \in Threads : thread[t].pc \in PeerPC => thread[t].peer \in Peers
  BY DEF SendsInv, Positions, Places
<1>1. CASE UNCHANGED vars
  BY <1>1 DEF vars, sockets, history
<1>2. ASSUME NEW t \in Threads, Run(t) PROVE Sockets'
  <2>1. CASE HandleWork(t)
    BY <2>1 DEF HandleWork, sockets, history
  <2>2. CASE WorkReturn(t) \/ EnterSend(t) \/ SendWouldBlock(t) \/ SendError(t) \/ FlushOp(t) \/ FlushReturn(t)
    BY <2>2 DEF WorkReturn, EnterSend, SendWouldBlock, SendError, FlushOp, FlushReturn, sockets, history
  <2>3. CASE CancelDone(t) \/ CancelReturn(t) \/ (\E pri \in Priority : CancelPlayerTurn(t, pri))
             \/ (\E p \in Peers : CancelAllTurn(t, p))
    BY <2>3 DEF CancelDone, CancelReturn, CancelPlayerTurn, CancelAllTurn, sockets, history
  <2>4. CASE SendWhole(t)
    <3> DEFINE p == thread[t].peer
               a == GetPending(PopPending(GetPending(sq[p]))).current # Null
    <3>1. /\ \E w \in {"ready", "full"} : wr' = [wr EXCEPT ![p] = w]
          /\ event' = [event EXCEPT ![p] = @ \/ a]
          /\ UNCHANGED <<peer, send_open, recv_busy, eof, work_ready, acks, flushed, late>>
      BY <2>4 DEF SendWhole, history
    <3>2. a \in BOOLEAN
      OBVIOUS
    <3> HIDE DEF p, a
    <3>3. event' \in [Peers -> BOOLEAN]
      BY <3>1, <3>2
    <3>4. wr' \in [Peers -> {"ready", "full", "shut", "broken"}]
      BY <3>1
    <3> QED
      BY <3>1, <3>3, <3>4
  <2>5. CASE SendDrained(t)
    BY <2>5 DEF SendDrained, history
  <2>6. CASE IoRecv(t)
    BY <2>6 DEF IoRecv, history
  <2>7. CASE \E n \in 1..MaxSize : SendPartial(t, n)
    BY <2>7 DEF SendPartial, history
  <2>8. CASE FlushDone(t)
    <3>1. thread[t].peer \in Peers
      BY <1>0, <2>8 DEF FlushDone, Holds, PeerPC
    <3> QED
      BY <2>8, <3>1 DEF FlushDone, sockets
  <2>9. CASE DestroyReturn(t) \/ FlushAckReturn(t)
    BY <2>9 DEF DestroyReturn, FlushAckReturn, sockets, history
  <2>10. CASE FlushAck(t)
    <3>1. /\ thread[t].peer \in Peers /\ acks[thread[t].peer] \in 0..MaxAcks /\ acks[thread[t].peer] > 0
          /\ acks' = [acks EXCEPT ![thread[t].peer] = acks[thread[t].peer] - 1]
      BY <1>0, <2>10 DEF FlushAck, Holds, PeerPC
    <3>2. acks[thread[t].peer] - 1 \in 0..MaxAcks
      BY <3>1, SendsAssumption
    <3>3. acks' \in [Peers -> 0..MaxAcks]
      BY <3>1, <3>2
    <3> QED
      BY <2>10, <3>3 DEF FlushAck, sockets, history
  <2>11. CASE AcksDone(t)
    BY <2>11 DEF AcksDone
  <2> QED
    BY <1>2, <2>1, <2>2, <2>3, <2>4, <2>5, <2>6, <2>7, <2>8, <2>9, <2>10, <2>11 DEF Run
<1>3. ASSUME NEW t \in Workers, Serve(t) PROVE Sockets'
  BY <1>3 DEF Serve, WakeWork, Wake, sockets, history
<1>4. ASSUME NEW s \in SendIds, SyncReturn(s) \/ DetachedComplete(s) PROVE Sockets'
  BY <1>4 DEF SyncReturn, DetachedComplete, sockets, history
<1>5. ASSUME Call PROVE Sockets'
  <2>1. ASSUME NEW s \in SendIds, NEW kind \in Kinds, NEW target \in Targets, NEW p \in Peers,
               NEW noloop \in BOOLEAN, NEW pri \in Pris, NEW size \in 1..MaxSize,
               SendTo(s, kind, target, p, noloop, pri, size)
        PROVE  Sockets'
    <3> DEFINE ps == PeersOf(target, p)
               loop == (target = "self" \/ (target = "all" /\ ~noloop)) /\ kind # "sync"
    <3>1. /\ event' = [q \in Peers |-> event[q] \/ q \in ps] /\ work_ready' = (work_ready \/ loop)
          /\ UNCHANGED <<peer, send_open, recv_busy, wr, eof, acks, flushed>>
          /\ late' = late \cup {<<s, q>> : q \in ps \cap flushed}
      BY <2>1 DEF SendTo, Enqueue, sockets
    <3>2. loop \in BOOLEAN
      OBVIOUS
    <3> HIDE DEF ps, loop
    <3>3. event' \in [Peers -> BOOLEAN]
      BY <3>1
    <3>4. work_ready' \in BOOLEAN
      BY <3>1, <3>2
    <3>5. late' \subseteq SendIds \X Peers
      BY <3>1
    <3> QED
      BY <3>1, <3>3, <3>4, <3>5
  <2>2. ASSUME NEW t \in Callers, NEW p \in Peers,
               CallPeerDestroy(t, p) \/ \E what, flags : CallCancel(t, what, p, flags)
        PROVE  Sockets'
    BY <2>2 DEF CallPeerDestroy, CallCancel, sockets, history
  <2>3. ASSUME NEW h \in SendIds, NEW p \in Peers, CancelHandle(h, p) PROVE Sockets'
    BY <2>3 DEF CancelHandle, sockets, history
  <2>4. ASSUME NEW p \in Peers, PeerShutdown(p) PROVE Sockets'
    BY <2>4 DEF PeerShutdown, history
  <2> QED
    BY <1>5, <2>1, <2>2, <2>3, <2>4 DEF Call
<1>6. ASSUME NEW p \in Peers, Writable(p) PROVE Sockets'
  BY <1>6 DEF Writable, history
<1>7. ASSUME NEW p \in Peers, NEW broken \in BOOLEAN, RemoteClose(p, broken) PROVE Sockets'
  BY <1>7 DEF RemoteClose, history
<1>8. CASE Quiescent
  BY <1>1, <1>8 DEF Quiescent
<1> HIDE DEF Sockets
<1>9. CASE Network
  BY <1>6, <1>7, <1>9 DEF Network
<1> QED
  BY <1>1, <1>2, <1>3, <1>4, <1>5, <1>8, <1>9 DEF Next

\* The invariant contains the types.
LEMMA InvariantTypes ==
    ASSUME SendsInv, Sockets
    PROVE  TypeOK
<1>1. \A p \in Peers : /\ \A pri \in Priority : sq[p][pri] \in Seq(Ops)
                       /\ sq[p].current \in Ops \cup {Null}
  <2>1. ASSUME NEW p \in Peers, NEW pri \in Priority PROVE sq[p][pri] \in Seq(Ops)
    <3>1. sq[p][pri] \in Seq(GoodOps)
      BY DEF SendsInv, Records, GoodQueue, IsQueue
    <3> QED
      BY <3>1, GoodOpsAreOps, ElementOfSeq, LenProperties, IsASeq
  <2>2. ASSUME NEW p \in Peers PROVE sq[p].current \in Ops \cup {Null}
    BY GoodOpsAreOps DEF SendsInv, Records, GoodQueue, IsQueue
  <2> QED
    BY <2>1, <2>2
<1>2. wire \in [Peers -> Seq(Ops)]
  <2>1. wire \in [Peers -> Seq(GoodOps)]
    BY DEF SendsInv, Records
  <2>2. ASSUME NEW p \in Peers PROVE wire[p] \in Seq(Ops)
    BY <2>1, GoodOpsAreOps, ElementOfSeq, LenProperties, IsASeq
  <2> QED
    BY <2>1, <2>2
<1>3. ASSUME NEW s \in SendIds PROVE send[s].pending \in 0..NumPeers + 1 /\ send[s].indicated \in 0..1
  <2>1. send[s].pending = Owed(s) /\ ~(InWork(s) /\ s \in detached)
    BY DEF SendsInv, Counting, Local
  <2>2. Cardinality(HeldAt(s)) \in 0..NumPeers /\ NumPeers \in Nat
    BY HeldAtFinite, SendsAssumption
  <2>3. send[s].indicated \in {0, 1}
    BY DEF SendsInv, Told
  <2> QED
    BY <2>1, <2>2, <2>3 DEF Owed
<1>4. send \in [SendIds -> [kind : {"new", "async", "nocomplete", "sync"}, targets : SUBSET Peers,
                             pending : 0..NumPeers + 1, result : {"ok", "cancelled", "lost"},
                             indicated : 0..1, returned : BOOLEAN]]
  <2>1. send \in [SendIds -> SendRecs]
    BY DEF SendsInv, Records
  <2>2. ASSUME NEW s \in SendIds
        PROVE  send[s] \in [kind : {"new", "async", "nocomplete", "sync"}, targets : SUBSET Peers,
                             pending : 0..NumPeers + 1, result : {"ok", "cancelled", "lost"},
                             indicated : 0..1, returned : BOOLEAN]
    BY <1>3, <2>1 DEF SendRecs
  <2> QED
    BY <2>1, <2>2
<1>5. /\ thread \in [Threads -> [pc : {"idle", "worktrig", "workcb", "trig", "send", "sendcb", "recv",
                                     "flush", "flushcb", "acks", "ackscb", "destroycb",
                                     "player", "playercb", "all", "allcb"},
                               peer : Peers \cup {Null}, result : {"lost", Null},
                               send : SendIds \cup {Null}, flags : SUBSET Pris]]
      /\ lock \in Threads \cup {Null}
  BY DEF SendsInv, Positions, Places, PeerPC
<1>6. work \in Seq(SendIds) /\ detached \subseteq SendIds
  BY DEF SendsInv, Records
<1>7. peer \in [Peers -> {"connected", "closing", "deleted"}] /\ orphans \subseteq SendIds \X Peers
  BY DEF SendsInv, Graves
<1> QED
  BY <1>1, <1>2, <1>4, <1>5, <1>6, <1>7 DEF TypeOK, Sockets

\* Every queue holds SendOps, every thread is at a known place, and no counter
\* exceeds the number of targets of its send.
THEOREM SendsTypeOK == Spec => []TypeOK
<1>1. Init => SendsInv /\ Sockets
  BY InitInv
<1>2. SendsInv /\ Sockets /\ [Next]_vars => (SendsInv /\ Sockets)'
  BY InvariantKept, SocketsKept
<1>3. SendsInv /\ Sockets => TypeOK
  BY InvariantTypes
<1> QED
  BY <1>1, <1>2, <1>3, PTL DEF Spec

-------------------------------------------------------------------------------
(* The refinement of SendCompletion.                                         *)

\* A send whose callbacks have not all run has not been reported.
LEMMA StatusMeaning ==
    ASSUME SendsInv, NEW s \in SendIds
    PROVE  /\ StatusOf(s) = "new" <=> ~Issued(s)
           /\ Issued(s) /\ send[s].pending > 0 => StatusOf(s) = "outstanding"
           /\ StatusOf(s) \in {"new", "outstanding", "ok", "cancelled", "lost"}
<1>1. /\ send[s].kind \in {"new", "async", "nocomplete", "sync"} /\ send[s].pending \in Nat
      /\ send[s].result \in {"ok", "cancelled", "lost"}
  BY DEF SendsInv, Records, SendRecs
<1>2. Told
  BY DEF SendsInv
<1> QED
  BY <1>1, <1>2 DEF StatusOf, Told, Issued

\* What a step of the system is to the application.
LEMMA StatusStep ==
    ASSUME SendsInv, [Next]_vars
    PROVE  \/ \A s \in SendIds : StatusOf(s)' = StatusOf(s)
           \/ \E s \in SendIds : /\ \A r \in SendIds \ {s} : StatusOf(r)' = StatusOf(r)
                                 /\ \/ StatusOf(s) = "new" /\ StatusOf(s)' = "outstanding"
                                    \/ StatusOf(s) = "outstanding" /\ StatusOf(s)' \in {"ok", "cancelled", "lost"}
<1>0. /\ send \in [SendIds -> SendRecs]
      /\ \/ \E t \in Threads : Deletes(t)
         \/ Classified /\ Kept
  BY StepsClassified, StepsKeepGraves DEF GoodStep, SendsInv, Records
<1>1. ASSUME Silent PROVE \A s \in SendIds : StatusOf(s)' = StatusOf(s)
  BY <1>1 DEF Silent, StatusOf
<1>2. ASSUME NEW s \in SendIds, Returned(s)
      PROVE  /\ \A r \in SendIds \ {s} : StatusOf(r)' = StatusOf(r)
             /\ StatusOf(s) = "outstanding" /\ StatusOf(s)' \in {"ok", "cancelled", "lost"}
  <2>1. /\ send[s].kind = "sync" /\ ~send[s].returned /\ send' = [send EXCEPT ![s].returned = TRUE]
    BY <1>2 DEF Returned, SyncReturn
  <2>2. /\ \A r \in SendIds \ {s} : send'[r] = send[r]
        /\ send'[s] = [send[s] EXCEPT !.returned = TRUE] /\ send[s] \in SendRecs
    BY <1>0, <2>1
  <2> QED
    BY <2>1, <2>2 DEF StatusOf, SendRecs
<1>3. ASSUME NEW s \in SendIds, NEW kind \in Kinds, NEW ps \in SUBSET Peers, NEW x \in Priority,
             NEW loop \in BOOLEAN, NEW alone \in BOOLEAN, Accepted(s, kind, ps, x, loop, alone)
      PROVE  /\ \A r \in SendIds \ {s} : StatusOf(r)' = StatusOf(r)
             /\ StatusOf(s) = "new" /\ StatusOf(s)' = "outstanding"
  <2> DEFINE n == Cardinality(ps) + (IF loop \/ alone THEN 1 ELSE 0)
  <2>1. /\ send' = [send EXCEPT ![s] = [NewSend EXCEPT !.kind = kind, !.targets = ps, !.pending = n]]
        /\ ~Issued(s) /\ (kind # "sync" => ps # {} \/ loop \/ alone)
    BY <1>3 DEF Accepted
  <2>2. Cardinality(ps) \in Nat /\ (ps # {} => Cardinality(ps) # 0)
    BY SetsAreFinite, FS_EmptySet, SendsAssumption
  <2>3. kind # "sync" => n > 0
    BY <2>1, <2>2
  <2> HIDE DEF n
  <2>4. /\ \A r \in SendIds \ {s} : send'[r] = send[r]
        /\ send'[s].kind = kind /\ send'[s].pending = n /\ send'[s].indicated = 0 /\ send'[s].returned = FALSE
    BY <1>0, <2>1 DEF NewSend
  <2>5. kind \in {"async", "nocomplete", "sync"}
    BY SendsAssumption
  <2> QED
    BY <2>1, <2>3, <2>4, <2>5 DEF StatusOf, Issued
<1>4. ASSUME NEW s \in SendIds, NEW result \in {"ok", "cancelled", "lost"}, send' = Settled(s, result),
             Issued(s), send[s].pending > 0
      PROVE  /\ \A r \in SendIds \ {s} : StatusOf(r)' = StatusOf(r)
             /\ StatusOf(s) = "outstanding"
             /\ StatusOf(s)' = "outstanding" \/ StatusOf(s)' \in {"ok", "cancelled", "lost"}
  <2>1. /\ send' \in [SendIds -> SendRecs]
        /\ \A r \in SendIds \ {s} : send'[r] = send[r]
        /\ send'[s].kind = send[s].kind
    BY <1>0, <1>4, SettledProperties
  <2>2. StatusOf(s) = "outstanding"
    BY <1>4, StatusMeaning
  <2>3. send'[s].result \in {"ok", "cancelled", "lost"} /\ send'[s].kind # "new"
    BY <1>4, <2>1 DEF SendRecs, Issued
  <2> QED
    BY <2>1, <2>2, <2>3 DEF StatusOf
<1>5. ASSUME NEW p \in Peers, NEW s \in SendIds, NEW x \in Priority, NEW result \in {"ok", "lost", "cancelled"},
             Completed(p, s, x, result), Kept
      PROVE  send' = Settled(s, result) /\ Issued(s) /\ send[s].pending > 0
  <2>1. Queued(sq[p], s, x) /\ send' = Settled(s, result) /\ GoodQueues'
    BY <1>5 DEF Completed
  <2>2. p \in HeldAt(s)
    BY <1>5, <2>1, HeldAtStep DEF Kept
  <2>3. IsFiniteSet(HeldAt(s)) /\ Cardinality(HeldAt(s)) \in Nat
    BY HeldAtFinite, SendsAssumption
  <2>4. Cardinality(HeldAt(s)) # 0
    BY <2>2, <2>3, FS_EmptySet
  <2>5. send[s].pending = Owed(s)
    BY DEF SendsInv, Counting
  <2>6. send[s].pending > 0
    BY <2>3, <2>4, <2>5 DEF Owed
  <2> QED
    BY <2>1, <2>6 DEF SendsInv, Issuing
<1>6. ASSUME NEW s \in SendIds, LocallyCompleted(s)
      PROVE  send' = Settled(s, "ok") /\ Issued(s) /\ send[s].pending > 0
  <2>1. (InWork(s) \/ s \in detached) /\ send' = Settled(s, "ok")
    BY <1>6 DEF LocallyCompleted
  <2>2. Cardinality(HeldAt(s)) \in Nat
    BY HeldAtFinite, SendsAssumption
  <2>3. send[s].pending = Owed(s) /\ Issued(s)
    BY <2>1 DEF SendsInv, Counting, Issuing
  <2> QED
    BY <2>1, <2>2, <2>3 DEF Owed
<1>7. ASSUME NEW s \in SendIds, NEW result \in {"ok", "cancelled", "lost"}, send' = Settled(s, result),
             Issued(s), send[s].pending > 0
      PROVE  \/ \A r \in SendIds : StatusOf(r)' = StatusOf(r)
             \/ /\ \A r \in SendIds \ {s} : StatusOf(r)' = StatusOf(r)
                /\ StatusOf(s) = "outstanding" /\ StatusOf(s)' \in {"ok", "cancelled", "lost"}
  BY <1>4, <1>7
<1>12. CASE \E t \in Threads : Deletes(t)
  <2>1. UNCHANGED send
    BY <1>12, DeletionBuries DEF Buried
  <2> QED
    BY <2>1 DEF StatusOf
<1>8. CASE Silent
  BY <1>1, <1>8
<1>9. CASE \E s \in SendIds, kind \in Kinds, ps \in SUBSET Peers, x \in Priority, loop, alone \in BOOLEAN :
              Accepted(s, kind, ps, x, loop, alone)
  BY <1>3, <1>9
<1>10. CASE \E p \in Peers, s \in SendIds, x \in Priority, result \in {"ok", "lost", "cancelled"} :
              Completed(p, s, x, result) /\ Kept
  BY <1>5, <1>7, <1>10
<1>11. CASE \E s \in SendIds : LocallyCompleted(s) \/ Returned(s)
  BY <1>2, <1>6, <1>7, <1>11
<1> QED
  BY <1>0, <1>8, <1>9, <1>10, <1>11, <1>12 DEF Classified

\* Sends implements SendCompletion: SendTo() accepts a send once, completes it
\* at most once, and never changes the result it has reported.
THEOREM PromiseIsKept == Spec => PromiseKept
<1>1. Init => Promise!Init
  <2> SUFFICES ASSUME Init PROVE Promise!Init
    OBVIOUS
  <2>1. \A s \in SendIds : StatusOf(s) = "new"
    BY DEF Init, StatusOf, NewSend
  <2> QED
    BY <2>1 DEF Promise!Init
<1>2. SendsInv /\ [Next]_vars => [Promise!Next]_([s \in SendIds |-> StatusOf(s)])
  <2> SUFFICES ASSUME SendsInv, [Next]_vars
               PROVE  [Promise!Next]_([s \in SendIds |-> StatusOf(s)])
    OBVIOUS
  <2> DEFINE st == [s \in SendIds |-> StatusOf(s)]
  <2>1. \A s \in SendIds : st[s] = StatusOf(s) /\ st'[s] = StatusOf(s)'
    OBVIOUS
  <2>2. CASE \A s \in SendIds : StatusOf(s)' = StatusOf(s)
    BY <2>2
  <2>3. ASSUME NEW s \in SendIds, \A r \in SendIds \ {s} : StatusOf(r)' = StatusOf(r)
        PROVE  st' = [st EXCEPT ![s] = StatusOf(s)']
    BY <2>3
  <2>4. ASSUME NEW s \in SendIds, \A r \in SendIds \ {s} : StatusOf(r)' = StatusOf(r),
               StatusOf(s) = "new", StatusOf(s)' = "outstanding"
        PROVE  Promise!Next
    <3>1. Promise!Accept(s)
      BY <2>1, <2>3, <2>4 DEF Promise!Accept
    <3> QED
      BY <3>1 DEF Promise!Next
  <2>5. ASSUME NEW s \in SendIds, \A r \in SendIds \ {s} : StatusOf(r)' = StatusOf(r),
               StatusOf(s) = "outstanding", StatusOf(s)' \in {"ok", "cancelled", "lost"}
        PROVE  Promise!Next
    <3>1. Promise!Complete(s)
      BY <2>1, <2>3, <2>5 DEF Promise!Complete, Promise!Outcome
    <3> QED
      BY <3>1 DEF Promise!Next
  <2> QED
    BY <2>2, <2>4, <2>5, StatusStep
<1> QED
  BY <1>1, <1>2, SendsInvariant, PTL DEF Spec, PromiseKept, Promise!Spec

-------------------------------------------------------------------------------
(* What peer_destroy() leaves behind.                                        *)

\* Where a thread has flushed its peer and not yet left peer_destroy().
Past == {"acks", "ackscb", "destroycb"}

\* A thread that is past the flush of a peer has flushed it; what is in the
\* queue of a flushed peer, or went with a deleted one, came later.
Flushed ==
    /\ flushed \subseteq Peers
    /\ \A t \in Threads : thread[t].pc \in Past => thread[t].peer \in flushed
    /\ \A p \in flushed, s \in SendIds, x \in Priority : Queued(sq[p], s, x) => <<s, p>> \in late
    /\ orphans \subseteq late

\* Only SendTo() gives a queue an op that it had not.
LEMMA QueuedBefore ==
    ASSUME SendsInv, [Next]_vars, \A t \in Threads : ~Deletes(t),
           \A s \in SendIds : send'[s].kind = send[s].kind
    PROVE  \A p \in Peers, s \in SendIds, x \in Priority : Queued(sq'[p], s, x) => Queued(sq[p], s, x)
<1>1. Classified
  BY StepsClassified DEF GoodStep
<1>2. ASSUME NEW s \in SendIds, NEW kind \in Kinds, NEW ps \in SUBSET Peers, NEW x \in Priority,
             NEW loop \in BOOLEAN, NEW alone \in BOOLEAN, Accepted(s, kind, ps, x, loop, alone)
      PROVE  FALSE
  <2>1. /\ send \in [SendIds -> SendRecs] /\ send[s].kind = "new" /\ kind # "new"
        /\ send' = [send EXCEPT ![s] = [NewSend EXCEPT !.kind = kind, !.targets = ps,
                       !.pending = Cardinality(ps) + (IF loop \/ alone THEN 1 ELSE 0)]]
    BY <1>2, SendsAssumption DEF Accepted, Issued, SendsInv, Records
  <2>2. send'[s].kind = kind
    BY <2>1 DEF NewSend
  <2> QED
    BY <2>1, <2>2
<1>3. CASE Silent
  BY <1>3 DEF Silent
<1>4. CASE \E p \in Peers, s \in SendIds, x \in Priority, result \in {"ok", "lost", "cancelled"} :
              Completed(p, s, x, result)
  BY <1>4 DEF Completed
<1>5. CASE \E s \in SendIds : LocallyCompleted(s) \/ Returned(s)
  BY <1>5 DEF LocallyCompleted, Returned
<1> QED
  BY <1>1, <1>2, <1>3, <1>4, <1>5 DEF Classified

\* A callback changes the kind of no send.
LEMMA KindsStay ==
    ASSUME SendsInv,
           send' = send \/ (\E s, r : send' = Settled(s, r)) \/ (\E s \in SendIds : SyncReturn(s))
    PROVE  \A s \in SendIds : send'[s].kind = send[s].kind
<1>1. send \in [SendIds -> SendRecs] /\ \A s \in SendIds : send[s] \in SendRecs
  BY DEF SendsInv, Records
<1>2. ASSUME NEW s, NEW r, send' = Settled(s, r) PROVE \A o \in SendIds : send'[o].kind = send[o].kind
  BY <1>1, <1>2 DEF Settled, SendRecs
<1>3. ASSUME NEW s \in SendIds, SyncReturn(s) PROVE \A o \in SendIds : send'[o].kind = send[o].kind
  BY <1>1, <1>3 DEF SyncReturn, SendRecs
<1> QED
  BY <1>2, <1>3

\* What one thread does to all this, when it does not delete its peer.
LEMMA FlushedByThread ==
    ASSUME SendsInv, Flushed, NEW t \in Threads, Run(t), ~Deletes(t)
    PROVE  /\ late' = late /\ (send' = send \/ \E s, r : send' = Settled(s, r))
           /\ \A u \in Threads \ {t} : thread'[u] = thread[u]
           /\ \/ FlushDone(t)
              \/ /\ flushed' = flushed
                 /\ thread'[t].pc \in Past => thread[t].pc \in Past /\ thread'[t].peer = thread[t].peer
<1>0. thread \in [Threads -> Places] /\ thread[t] \in Places
  BY DEF SendsInv, Positions
<1> DEFINE Good == /\ late' = late /\ (send' = send \/ \E s, r : send' = Settled(s, r))
                   /\ \A u \in Threads \ {t} : thread'[u] = thread[u]
                   /\ flushed' = flushed
                   /\ thread'[t].pc \in Past => thread[t].pc \in Past /\ thread'[t].peer = thread[t].peer
<1>1. ASSUME NEW r, thread' = [thread EXCEPT ![t] = r] PROVE thread'[t] = r /\ \A u \in Threads \ {t} : thread'[u] = thread[u]
  BY <1>0, <1>1
<1>2. /\ Idle.pc \notin Past
      /\ \A pc, p : At(pc, p).pc = pc /\ At(pc, p).peer = p /\ [At(pc, p) EXCEPT !.result = "lost"].pc = pc
  BY DEF Idle, At, Past
<1>3. \A pc : [thread[t] EXCEPT !.pc = pc].pc = pc /\ [thread[t] EXCEPT !.pc = pc].peer = thread[t].peer
  BY <1>0 DEF Places, PeerPC
<1>4. CASE HandleWork(t) \/ WorkReturn(t)
  <2>1. UNCHANGED <<flushed, late>> /\ (send' = send \/ \E s, r : send' = Settled(s, r))
    BY <1>4 DEF HandleWork, WorkReturn, history
  <2>2. PICK r : thread' = [thread EXCEPT ![t] = r] /\ r.pc \notin Past
    <3>1. \/ thread' = [thread EXCEPT ![t] = Idle]
          \/ thread' = [thread EXCEPT ![t] = [Idle EXCEPT !.pc = "workcb", !.send = Head(work)]]
      BY <1>4 DEF HandleWork, WorkReturn
    <3>2. [Idle EXCEPT !.pc = "workcb", !.send = Head(work)].pc \notin Past
      BY DEF Idle, Past
    <3> QED
      BY <1>2, <3>1, <3>2
  <2> QED
    BY <1>1, <2>1, <2>2 DEF Past
<1>5. CASE EnterSend(t) \/ SendDrained(t) \/ IoRecv(t) \/ SendWouldBlock(t) \/ SendError(t) \/ CancelDone(t)
  <2>1. UNCHANGED <<send, flushed, late>>
    BY <1>5 DEF EnterSend, SendDrained, IoRecv, SendWouldBlock, SendError, CancelDone, history
  <2>2. \/ thread' = [thread EXCEPT ![t] = Idle]
        \/ \E pc \in {"send", "recv"} : thread' = [thread EXCEPT ![t] = At(pc, thread[t].peer)]
        \/ thread' = [thread EXCEPT ![t] = [At("flush", thread[t].peer) EXCEPT !.result = "lost"]]
    BY <1>5 DEF EnterSend, SendDrained, IoRecv, SendWouldBlock, SendError, CancelDone, Finish, Continue
  <2>3. \E r : thread' = [thread EXCEPT ![t] = r] /\ r.pc \notin Past
    <3>1. "send" \notin Past /\ "recv" \notin Past /\ "flush" \notin Past
      BY DEF Past
    <3>2. CASE thread' = [thread EXCEPT ![t] = Idle]
      BY <1>2, <3>2
    <3>3. ASSUME NEW pc \in {"send", "recv"}, thread' = [thread EXCEPT ![t] = At(pc, thread[t].peer)]
          PROVE  \E r : thread' = [thread EXCEPT ![t] = r] /\ r.pc \notin Past
      <4>1. At(pc, thread[t].peer).pc \notin Past
        BY <1>2, <3>1
      <4> QED
        BY <3>3, <4>1
    <3>4. CASE thread' = [thread EXCEPT ![t] = [At("flush", thread[t].peer) EXCEPT !.result = "lost"]]
      <4>1. [At("flush", thread[t].peer) EXCEPT !.result = "lost"].pc \notin Past
        BY <1>2, <3>1
      <4> QED
        BY <3>4, <4>1
    <3> QED
      BY <2>2, <3>2, <3>3, <3>4
  <2> QED
    BY <1>1, <2>1, <2>3
<1>6. CASE SendWhole(t) \/ FlushOp(t) \/ (\E pri \in Priority : CancelPlayerTurn(t, pri)) \/ (\E p \in Peers : CancelAllTurn(t, p))
  <2>1. /\ UNCHANGED <<flushed, late>>
        /\ \E s, r, loop, cb : /\ InvokeCallback(t, s, r, loop, cb)
                               /\ loop \in {"send", "flush", "player", "all"}
                               /\ cb \in {"sendcb", "flushcb", "playercb", "allcb"}
    BY <1>6 DEF SendWhole, FlushOp, CancelPlayerTurn, CancelAllTurn, history
  <2>2. PICK s, r, loop, cb : /\ InvokeCallback(t, s, r, loop, cb)
                              /\ loop \in {"send", "flush", "player", "all"}
                              /\ cb \in {"sendcb", "flushcb", "playercb", "allcb"}
    BY <2>1
  <2>3. /\ send' = Settled(s, r)
        /\ \E pc \in {loop, cb} : thread' = [thread EXCEPT ![t] = [thread[t] EXCEPT !.pc = pc]]
    BY <1>0, <2>2 DEF InvokeCallback, Continue
  <2> QED
    BY <1>1, <1>3, <2>1, <2>2, <2>3 DEF Past
<1>7. CASE \E n \in 1..MaxSize : SendPartial(t, n)
  BY <1>7 DEF SendPartial, history
<1>8. CASE FlushReturn(t) \/ CancelReturn(t)
  <2>1. UNCHANGED <<send, flushed, late>>
    BY <1>8 DEF FlushReturn, CancelReturn, history
  <2>2. \/ thread' = [thread EXCEPT ![t] = Idle]
        \/ \E pc \in {"flush", "player", "all"} : thread' = [thread EXCEPT ![t] = [thread[t] EXCEPT !.pc = pc]]
    BY <1>8 DEF FlushReturn, CancelReturn, Finish, Continue
  <2>3. \E r : thread' = [thread EXCEPT ![t] = r] /\ r.pc \notin Past
    <3>1. "flush" \notin Past /\ "player" \notin Past /\ "all" \notin Past
      BY DEF Past
    <3>2. CASE thread' = [thread EXCEPT ![t] = Idle]
      BY <1>2, <3>2
    <3>3. ASSUME NEW pc \in {"flush", "player", "all"}, thread' = [thread EXCEPT ![t] = [thread[t] EXCEPT !.pc = pc]]
          PROVE  \E r : thread' = [thread EXCEPT ![t] = r] /\ r.pc \notin Past
      <4>1. [thread[t] EXCEPT !.pc = pc].pc \notin Past
        BY <1>3, <3>1, <3>3
      <4> QED
        BY <3>3, <4>1
    <3> QED
      BY <2>2, <3>2, <3>3
  <2> QED
    BY <1>1, <2>1, <2>3
<1>9. CASE FlushAck(t) \/ FlushAckReturn(t)
  <2>1. UNCHANGED <<send, flushed, late>> /\ thread[t].pc \in Past
    BY <1>9 DEF FlushAck, FlushAckReturn, Holds, Resumes, Past, history
  <2>2. \/ thread' = [thread EXCEPT ![t] = Idle] \/ thread' = thread
        \/ \E pc \in Past : thread' = [thread EXCEPT ![t] = [thread[t] EXCEPT !.pc = pc]]
    BY <1>9 DEF FlushAck, FlushAckReturn, Finish, Continue, Past
  <2>3. CASE thread' = thread
    BY <2>1, <2>3
  <2>4. CASE thread' = [thread EXCEPT ![t] = Idle]
    BY <1>1, <1>2, <2>1, <2>4
  <2>5. ASSUME NEW pc \in Past, thread' = [thread EXCEPT ![t] = [thread[t] EXCEPT !.pc = pc]]
        PROVE  thread'[t].peer = thread[t].peer /\ \A u \in Threads \ {t} : thread'[u] = thread[u]
    BY <1>0, <2>5 DEF Places, PeerPC
  <2> QED
    BY <2>1, <2>2, <2>3, <2>4, <2>5
<1>10. CASE AcksDone(t)
  <2>1. UNCHANGED <<send, flushed, late>> /\ thread[t].pc \in Past
    BY <1>10 DEF AcksDone, Holds, Past
  <2>2. thread' = [thread EXCEPT ![t] = At("destroycb", thread[t].peer)]
    BY <1>10 DEF AcksDone, Deletes
  <2> QED
    BY <1>1, <1>2, <2>1, <2>2
<1>11. CASE FlushDone(t)
  <2>1. late' = late /\ send' = send /\ thread' = [thread EXCEPT ![t] = [thread[t] EXCEPT !.pc = "acks"]]
    BY <1>11 DEF FlushDone, Continue
  <2> QED
    BY <1>1, <1>11, <2>1
<1> HIDE DEF Good
<1>12. CASE Good
  BY <1>12 DEF Good
<1> QED
  BY <1>4, <1>5, <1>6, <1>7, <1>8, <1>9, <1>10, <1>11 DEF Run, Deletes

\* SendTo() remembers what it queues for a flushed peer.
LEMMA FlushedBySendTo ==
    ASSUME SendsInv, Flushed, NEW s \in SendIds, NEW kind \in Kinds, NEW target \in Targets, NEW p \in Peers,
           NEW noloop \in BOOLEAN, NEW pri \in Pris, NEW size \in 1..MaxSize,
           SendTo(s, kind, target, p, noloop, pri, size)
    PROVE  Flushed'
<1> DEFINE ps == PeersOf(target, p)
<1>1. /\ late' = late \cup {<<s, q>> : q \in ps \cap flushed}
      /\ UNCHANGED <<thread, flushed, orphans>>
  BY DEF SendTo
<1>2. \A o \in Peers : \A r, y : Queued(sq'[o], r, y) <=> Queued(sq[o], r, y) \/ (o \in ps /\ r = s /\ y = pri)
  BY SendToStep
<1> HIDE DEF ps
<1>3. \A o \in flushed, r \in SendIds, y \in Priority : Queued(sq'[o], r, y) => <<r, o>> \in late'
  BY <1>1, <1>2 DEF Flushed
<1> QED
  BY <1>1, <1>3 DEF Flushed

\* A deletion: what goes with a flushed peer is late.
LEMMA FlushedByDeletion ==
    ASSUME SendsInv, Flushed, NEW t \in Threads, Deletes(t)
    PROVE  Flushed'
<1>1. /\ Buried(thread[t].peer) /\ thread[t].peer \in flushed
      /\ UNCHANGED <<flushed, late>> /\ thread' = [thread EXCEPT ![t] = Idle]
      /\ thread \in [Threads -> Places]
  BY DeletionBuries DEF Flushed, Past, Deletes, DestroyReturn, AcksDone, Finish, SendsInv, Positions
<1>2. PICK p \in flushed : p = thread[t].peer
  BY <1>1
<1>3. /\ p \in Peers /\ sq' = [sq EXCEPT ![p] = EmptyQueue] /\ sq = [q \in Peers |-> sq[q]]
      /\ orphans' = orphans \cup {<<op.send, p>> : op \in OpsIn(sq[p])}
  BY <1>1, <1>2 DEF Buried, Flushed, SendsInv, Records
<1>4. \A u \in Threads : thread'[u].pc \in Past => thread[u].pc \in Past /\ thread'[u] = thread[u]
  BY <1>1 DEF Idle, Past
<1>5. ASSUME NEW q \in flushed, NEW s \in SendIds, NEW x \in Priority, Queued(sq'[q], s, x)
      PROVE  <<s, q>> \in late
  <2>1. q \in Peers
    BY DEF Flushed
  <2>2. CASE q = p
    BY <1>3, <1>5, <2>2, EmptyQueueIsGood DEF Queued
  <2>3. CASE q # p
    BY <1>3, <1>5, <2>1, <2>3 DEF Flushed
  <2> QED
    BY <2>2, <2>3
<1>6. ASSUME NEW op \in OpsIn(sq[p]) PROVE <<op.send, p>> \in late
  <2>1. op.send \in SendIds /\ op.pri \in Priority
    BY <1>3, OpsInQueue, GoodOpsAreOps DEF SendsInv, Records, GoodQueue
  <2>2. Queued(sq[p], op.send, op.pri)
    BY DEF Queued
  <2> QED
    BY <2>1, <2>2 DEF Flushed
<1>7. orphans' \subseteq late
  BY <1>3, <1>6 DEF Flushed
<1> QED
  BY <1>1, <1>4, <1>5, <1>7 DEF Flushed

\* The invariant of the flushed peers.
LEMMA FlushedKept ==
    ASSUME SendsInv, Flushed, [Next]_vars
    PROVE  Flushed'
<1>1. CASE \E t \in Threads : Deletes(t)
  BY <1>1, FlushedByDeletion
<1>2. CASE \E s \in SendIds, kind \in Kinds, target \in Targets, p \in Peers, noloop \in BOOLEAN,
              pri \in Pris, size \in 1..MaxSize : SendTo(s, kind, target, p, noloop, pri, size)
  BY <1>2, FlushedBySendTo
<1> DEFINE Before == \A p \in Peers, s \in SendIds, x \in Priority : Queued(sq'[p], s, x) => Queued(sq[p], s, x)
           SameKinds == \A s \in SendIds : send'[s].kind = send[s].kind
           Sends == send' = send \/ (\E s, r : send' = Settled(s, r)) \/ (\E s \in SendIds : SyncReturn(s))
           Moves == \A u \in Threads : thread'[u].pc \in Past => thread[u].pc \in Past /\ thread'[u].peer = thread[u].peer
<1>3. ASSUME \A t \in Threads : ~Deletes(t), Sends PROVE Before /\ orphans' = orphans
  <2>1. SameKinds
    BY <1>3, KindsStay
  <2> HIDE DEF SameKinds
  <2>2. orphans' = orphans
    BY <1>3, StepsKeepGraves DEF Kept
  <2> QED
    BY <1>3, <2>1, <2>2, QueuedBefore DEF SameKinds
<1>4. ASSUME \A t \in Threads : ~Deletes(t), Sends, UNCHANGED <<flushed, late>>, Moves PROVE Flushed'
  <2>1. Before /\ orphans' = orphans
    BY <1>3, <1>4
  <2>2. \A p \in flushed, s \in SendIds, x \in Priority : Queued(sq'[p], s, x) => <<s, p>> \in late
    BY <2>1 DEF Flushed
  <2> QED
    BY <1>4, <2>1, <2>2 DEF Flushed
<1>5. ASSUME NEW t \in Threads, Run(t), \A u \in Threads : ~Deletes(u) PROVE Flushed'
  <2>1. CASE FlushDone(t)
    <3>1. PICK p : p = thread[t].peer
      OBVIOUS
    <3>2. /\ thread[t].pc = "flush" /\ GetPending(sq[p]).current = Null
          /\ flushed' = flushed \cup {p} /\ UNCHANGED <<sq, send, late, orphans>>
          /\ thread' = [thread EXCEPT ![t] = [thread[t] EXCEPT !.pc = "acks"]]
          /\ thread \in [Threads -> Places]
      BY <2>1, <3>1 DEF FlushDone, Holds, Continue, SendsInv, Positions
    <3>3. p \in Peers /\ OpSet(GoodOps) /\ GoodQueue(sq[p], GoodOps)
      BY <3>1, <3>2, PeerOfThread, GoodOpsAreOps DEF PeerPC
    <3>4. OpsIn(sq[p]) = {}
      BY <3>2, <3>3, GetPendingProperties
    <3>5. \A s, x : ~Queued(sq[p], s, x)
      BY <3>4 DEF Queued
    <3>6. thread'[t].peer = p /\ \A u \in Threads \ {t} : thread'[u] = thread[u]
      BY <3>1, <3>2 DEF Places
    <3>7. \A u \in Threads : thread'[u].pc \in Past => thread'[u].peer \in flushed'
      BY <3>2, <3>6 DEF Flushed
    <3>8. \A q \in flushed', s \in SendIds, x \in Priority : Queued(sq[q], s, x) => <<s, q>> \in late
      BY <3>2, <3>5 DEF Flushed
    <3> QED
      BY <3>2, <3>3, <3>7, <3>8 DEF Flushed
  <2>2. CASE ~FlushDone(t)
    BY <1>4, <1>5, <2>2, FlushedByThread
  <2> QED
    BY <2>1, <2>2
<1>6. ASSUME NEW t \in Threads, NEW r, thread' = [thread EXCEPT ![t] = r], r.pc \notin Past PROVE Moves
  BY <1>6 DEF SendsInv, Positions
<1>7. ASSUME NEW t \in Workers, Serve(t), \A u \in Threads : ~Deletes(u) PROVE Flushed'
  <2>1. Sends /\ UNCHANGED <<flushed, late>>
    BY <1>7 DEF Serve, WakeWork, Wake, history
  <2>2. \E r : thread' = [thread EXCEPT ![t] = r] /\ r.pc \in {"worktrig", "trig"}
    <3>1. CASE WakeWork(t)
      <4>1. thread' = [thread EXCEPT ![t] = [thread[t] EXCEPT !.pc = "worktrig"]] /\ thread[t] = Idle
        BY <3>1 DEF WakeWork
      <4>2. [Idle EXCEPT !.pc = "worktrig"].pc = "worktrig"
        BY DEF Idle
      <4> QED
        BY <4>1, <4>2
    <3>2. CASE \E p \in Peers : Wake(t, p)
      <4>1. \E p \in Peers : thread' = [thread EXCEPT ![t] = At("trig", p)]
        BY <3>2 DEF Wake
      <4>2. \A p : At("trig", p).pc = "trig"
        BY DEF At, Idle
      <4> QED
        BY <4>1, <4>2
    <3> QED
      BY <1>7, <3>1, <3>2 DEF Serve
  <2>3. Moves
    BY <1>6, <2>2 DEF Past, Threads
  <2> HIDE DEF Sends, Moves
  <2> QED
    BY <1>4, <1>7, <2>1, <2>3
<1>8. ASSUME NEW t \in Callers, NEW p \in Peers, \A u \in Threads : ~Deletes(u),
             CallPeerDestroy(t, p) \/ \E flags : CallCancel(t, "player", p, flags) \/ CallCancel(t, "all", p, flags)
      PROVE  Flushed'
  <2>1. Sends /\ UNCHANGED <<flushed, late>>
    BY <1>8 DEF CallPeerDestroy, CallCancel, history
  <2>2. \E r : thread' = [thread EXCEPT ![t] = r] /\ r.pc \in {"flush", "player", "all"}
    <3>1. CASE CallPeerDestroy(t, p)
      <4>1. thread' = [thread EXCEPT ![t] = [At("flush", p) EXCEPT !.result = "lost"]]
        BY <3>1 DEF CallPeerDestroy, Continue
      <4>2. [At("flush", p) EXCEPT !.result = "lost"].pc = "flush"
        BY DEF At, Idle
      <4> QED
        BY <4>1, <4>2
    <3>2. CASE \E flags : CallCancel(t, "player", p, flags) \/ CallCancel(t, "all", p, flags)
      <4>1. \E flags : \E pc \in {"player", "all"} : thread' = [thread EXCEPT ![t] = [At(pc, p) EXCEPT !.flags = flags]]
        BY <3>2 DEF CallCancel, Continue
      <4>2. \A pc, flags : [At(pc, p) EXCEPT !.flags = flags].pc = pc
        BY DEF At, Idle
      <4>3. PICK flags : \E pc \in {"player", "all"} : thread' = [thread EXCEPT ![t] = [At(pc, p) EXCEPT !.flags = flags]]
        BY <4>1
      <4>4. PICK pc \in {"player", "all"} : thread' = [thread EXCEPT ![t] = [At(pc, p) EXCEPT !.flags = flags]]
        BY <4>3
      <4>5. [At(pc, p) EXCEPT !.flags = flags].pc = pc
        BY <4>2
      <4> QED
        BY <4>4, <4>5
    <3> QED
      BY <1>8, <3>1, <3>2
  <2>3. Moves
    BY <1>6, <2>2 DEF Past, Threads
  <2> HIDE DEF Sends, Moves
  <2> QED
    BY <1>4, <1>8, <2>1, <2>3
<1>9. ASSUME UNCHANGED <<thread, flushed, late>>, Sends, \A u \in Threads : ~Deletes(u) PROVE Flushed'
  <2>1. Moves
    BY <1>9
  <2> HIDE DEF Sends, Moves
  <2> QED
    BY <1>4, <1>9, <2>1
<1>10. ASSUME NEW s \in SendIds, SyncReturn(s) \/ DetachedComplete(s), \A u \in Threads : ~Deletes(u) PROVE Flushed'
  <2>1. UNCHANGED <<thread, flushed, late>>
    BY <1>10 DEF SyncReturn, DetachedComplete, history
  <2>2. Sends
    BY <1>10 DEF DetachedComplete
  <2> HIDE DEF Sends
  <2> QED
    BY <1>9, <1>10, <2>1, <2>2
<1>11. ASSUME NEW h \in SendIds, NEW p \in Peers, CancelHandle(h, p), \A u \in Threads : ~Deletes(u) PROVE Flushed'
  <2>1. UNCHANGED <<thread, flushed, late>> /\ Sends
    BY <1>11 DEF CancelHandle, history
  <2> HIDE DEF Sends
  <2> QED
    BY <1>9, <1>11, <2>1
<1>12. ASSUME Network \/ (\E p \in Peers : PeerShutdown(p)) \/ UNCHANGED vars, \A u \in Threads : ~Deletes(u) PROVE Flushed'
  <2>1. UNCHANGED <<thread, flushed, late>> /\ Sends
    BY <1>12 DEF Network, Writable, RemoteClose, PeerShutdown, vars, history
  <2> HIDE DEF Sends
  <2> QED
    BY <1>9, <1>12, <2>1
<1> HIDE DEF Sends, Moves, Before, SameKinds
<1>13. ASSUME Call, \A u \in Threads : ~Deletes(u) PROVE Flushed'
  BY <1>2, <1>8, <1>11, <1>12, <1>13 DEF Call
<1> QED
  BY <1>1, <1>5, <1>7, <1>10, <1>12, <1>13 DEF Next, Quiescent

\* Both invariants together.
LEMMA FlushedInvariant == Spec => [](SendsInv /\ Flushed)
<1>1. Init => SendsInv /\ Flushed
  <2>1. Init => Flushed
    BY DEF Init, Flushed, Idle, Past
  <2> QED
    BY <2>1, InitInv
<1>2. SendsInv /\ Flushed /\ [Next]_vars => SendsInv' /\ Flushed'
  BY InvariantKept, FlushedKept
<1> QED
  BY <1>1, <1>2, PTL DEF Spec

\* peer_destroy() gives every op that it finds in the queue its callback: an op
\* that is deleted without one, with its Peer, was queued by a SendTo() that
\* found the Peer still in `peers' after the flush, while the callback of an ack
\* or DESTROY_PLAYER was being handled.
THEOREM NothingIsOrphaned == Spec => []NothingOrphaned
<1>1. Flushed => NothingOrphaned
  BY DEF Flushed, NothingOrphaned
<1> QED
  BY <1>1, FlushedInvariant, PTL

\* The counter that the callbacks of one SendTo() share is the number of those
\* still to come and of those that never will, of ops that came too late for
\* the flush of a peer that is deleted: no op is lost in any other way, nor
\* completed twice, whatever writers, cancels and losses interleave.
THEOREM AccountingHolds == Spec => []Accounting
<1>1. ASSUME SendsInv, Flushed PROVE Accounting
  <2>1. ASSUME NEW s \in SendIds PROVE Cardinality(HeldAt(s)) = Cardinality(QueuedAt(s)) + Cardinality(OrphanedAt(s))
    <3>1. HeldAt(s) = QueuedAt(s) \cup OrphanedAt(s)
      BY <1>1 DEF HeldAt, QueuedAt, OrphanedAt, Flushed
    <3>2. QueuedAt(s) \cap OrphanedAt(s) = {}
      BY <1>1 DEF QueuedAt, OrphanedAt, SendsInv, Graves
    <3>3. QueuedAt(s) \in SUBSET Peers /\ OrphanedAt(s) \in SUBSET Peers
      BY DEF QueuedAt, OrphanedAt
    <3>4. PICK A, B : A = QueuedAt(s) /\ B = OrphanedAt(s)
      OBVIOUS
    <3>5. /\ IsFiniteSet(A) /\ IsFiniteSet(B) /\ A \cap B = {}
          /\ Cardinality(A) \in 0..NumPeers /\ Cardinality(B) \in 0..NumPeers
      BY <3>2, <3>3, <3>4, SetsAreFinite
    <3>6. Cardinality(A \cup B) = Cardinality(A) + Cardinality(B) - Cardinality({})
      BY <3>5, FS_Union
    <3> QED
      BY <3>1, <3>4, <3>5, <3>6, FS_EmptySet
  <2>2. \A s \in SendIds : Cardinality(QueuedAt(s)) \in Nat /\ Cardinality(OrphanedAt(s)) \in Nat
    <3>1. \A s : QueuedAt(s) \in SUBSET Peers /\ OrphanedAt(s) \in SUBSET Peers
      BY DEF QueuedAt, OrphanedAt
    <3> QED
      BY <3>1, SetsAreFinite, SendsAssumption
  <2> QED
    BY <1>1, <2>1, <2>2 DEF Accounting, Outstanding, SendsInv, Counting, Owed
<1> QED
  BY <1>1, FlushedInvariant, PTL
=============================================================================
