-------------------------- MODULE AsyncHandlesProofs --------------------------
(***************************************************************************)
(* AsyncHandles for any width of the serial number and any set of kinds:   *)
(* each handle issued lies in the interval of its kind.                    *)
(***************************************************************************)
EXTENDS AsyncHandles, SequenceTheorems, TLAPS

\* The handles of kind k that can be issued.
HandlesOf(k) == (k * IdSpan + 1)..(k * IdSpan + IdSpan - 1)

\* The inductive invariant: the counters are in range, and so were all handles.
HandlesInv == TypeOK /\ \A k \in Kinds : recent[k] \in Seq(HandlesOf(k))

\* A counter that can be issued is followed by one that can.
LEMMA AdvanceInRange ==
    ASSUME NEW n \in 1..(IdSpan - 1)
    PROVE  Advance(n) \in 1..(IdSpan - 1)
<1> USE HandlesAssumption
<1>1. CASE n + 1 = IdSpan
  <2>1. (n + 1) % IdSpan = 0
    BY <1>1
  <2> QED BY <2>1 DEF Advance
<1>2. CASE n + 1 < IdSpan
  <2>1. (n + 1) % IdSpan = n + 1
    BY <1>2
  <2> QED BY <2>1 DEF Advance
<1> QED BY <1>1, <1>2

\* new_XXX() returns a handle of its kind; nothing is lost in 32 bits.
LEMMA HandleInRange ==
    ASSUME NEW k \in 0..7, NEW n \in 1..(IdSpan - 1)
    PROVE  Handle(n, k) \in HandlesOf(k) /\ Handle(n, k) = k * IdSpan + n
<1> USE HandlesAssumption
<1>1. /\ k * IdSpan \in Nat
      /\ k * IdSpan + n \in (k * IdSpan + 1)..(k * IdSpan + IdSpan - 1)
      /\ k * IdSpan + IdSpan <= 8 * IdSpan
  BY SMT
<1>2. (k * IdSpan + n) % (8 * IdSpan) = k * IdSpan + n
  BY <1>1
<1> QED BY <1>1, <1>2 DEF Handle, HandlesOf

\* The type bits of a handle are those of its kind.
LEMMA KindOfRange ==
    ASSUME NEW k \in 0..7, NEW h \in HandlesOf(k)
    PROVE  h # 0 /\ KindOf(h) = k
<1> USE HandlesAssumption
<1>1. PICK n \in 1..(IdSpan - 1) : h = k * IdSpan + n
  <2>1. k * IdSpan \in Nat
    BY SMT
  <2>2. h - k * IdSpan \in 1..(IdSpan - 1) /\ h = k * IdSpan + (h - k * IdSpan)
    BY <2>1 DEF HandlesOf
  <2> QED BY <2>2
<1>2. (k * IdSpan + n) \div IdSpan = k
  BY SMT
<1>3. k * IdSpan + n # 0
  BY SMT
<1> QED BY <1>1, <1>2, <1>3 DEF KindOf

\* new_XXX() keeps the invariant.
LEMMA NewStep ==
    ASSUME HandlesInv, NEW k \in Kinds, New(k)
    PROVE  HandlesInv'
<1> DEFINE h == Handle(next[k], k)
           r == Append(recent[k], h)
<1>1. k \in 0..7 /\ next[k] \in 1..(IdSpan - 1)
  BY HandlesAssumption DEF HandlesInv, TypeOK
<1>2. h \in HandlesOf(k) /\ h \in Nat
  <2>1. h \in HandlesOf(k)
    BY <1>1, HandleInRange
  <2>2. HandlesOf(k) \subseteq Nat
    BY <1>1, HandlesAssumption, SMT DEF HandlesOf
  <2> QED BY <2>1, <2>2
<1>3. next' \in [Kinds -> 1..(IdSpan - 1)]
  BY <1>1, AdvanceInRange DEF New, HandlesInv, TypeOK
<1> HIDE DEF h
<1>4. /\ r \in Seq(HandlesOf(k)) /\ r \in Seq(Nat) /\ r # <<>>
  BY <1>2 DEF HandlesInv, TypeOK
<1>5. Tail(r) \in Seq(HandlesOf(k)) /\ Tail(r) \in Seq(Nat)
  BY <1>4
<1>6. PICK s \in {r, Tail(r)} : recent' = [recent EXCEPT ![k] = s]
  BY DEF New, h
<1> HIDE DEF r
<1>7. recent' \in [Kinds -> Seq(Nat)]
  BY <1>4, <1>5, <1>6 DEF HandlesInv, TypeOK
<1>8. ASSUME NEW j \in Kinds PROVE recent'[j] \in Seq(HandlesOf(j))
  <2>1. CASE j = k BY <1>4, <1>5, <1>6, <2>1 DEF HandlesInv, TypeOK
  <2>2. CASE j # k BY <1>6, <2>2 DEF HandlesInv, TypeOK
  <2> QED BY <2>1, <2>2
<1>9. \A j \in Kinds : HandlesOf(j)' = HandlesOf(j)
  BY DEF HandlesOf
<1> QED
  BY <1>3, <1>7, <1>8, <1>9 DEF HandlesInv, TypeOK

\* The allocator's counters and handles always stay in their ranges.
THEOREM HandlesInvariant == Spec => []HandlesInv
<1>1. Init => HandlesInv
  BY HandlesAssumption DEF Init, HandlesInv, TypeOK
<1>2. HandlesInv /\ [Next]_vars => HandlesInv'
  <2> SUFFICES ASSUME HandlesInv, [Next]_vars PROVE HandlesInv'
    OBVIOUS
  <2>1. CASE Next
    BY <2>1, NewStep DEF Next
  <2>2. CASE UNCHANGED vars
    BY <2>2 DEF vars, HandlesInv, TypeOK, HandlesOf
  <2> QED BY <2>1, <2>2
<1> QED
  BY <1>1, <1>2, PTL DEF Spec

\* The handles in `recent' of kind k are in the range of k.
LEMMA IssuedInRange ==
    ASSUME HandlesInv, NEW k \in Kinds
    PROVE  k \in 0..7 /\ Issued(k) \subseteq HandlesOf(k)
  BY HandlesAssumption DEF HandlesInv, Issued

\* new_XXX() never returns 0, for any width of the counters.
THEOREM NoZeroHandle == Spec => []NeverZero
<1>1. HandlesInv => NeverZero
  BY IssuedInRange, KindOfRange DEF NeverZero
<1> QED
  BY <1>1, HandlesInvariant, PTL

\* CancelAsyncOperation() finds the kind of every handle that was issued.
THEOREM KindsAreRight == Spec => []RightKind
<1>1. HandlesInv => RightKind
  BY IssuedInRange, KindOfRange DEF RightKind
<1> QED
  BY <1>1, HandlesInvariant, PTL

-------------------------------------------------------------------------------
(* Handles come round no earlier than they must.                             *)

\* The serial number that was issued d calls before the counter was n.
Serial(n, d) == IF n > d THEN n - d ELSE n - d + (IdSpan - 1)

\* The last handles of a kind are the serial numbers before the counter, in
\* the order in which it went through them.
SpacedOf(k) ==
    /\ Len(recent[k]) <= Window
    /\ \A i \in 1..Len(recent[k]) :
          recent[k][i] = k * IdSpan + Serial(next[k], Len(recent[k]) + 1 - i)

Spaced == \A k \in Kinds : SpacedOf(k)

\* Going one number on makes every handle one call older.
LEMMA SerialAdvances ==
    ASSUME NEW n \in 1..(IdSpan - 1)
    PROVE  /\ Serial(Advance(n), 1) = n
           /\ \A d \in 1..(IdSpan - 2) : Serial(Advance(n), d + 1) = Serial(n, d)
<1> USE HandlesAssumption
<1>1. Advance(n) = IF n + 1 = IdSpan THEN 1 ELSE n + 1
  <2>1. CASE n + 1 = IdSpan
    <3>1. (n + 1) % IdSpan = 0
      BY <2>1
    <3> QED BY <2>1, <3>1 DEF Advance
  <2>2. CASE n + 1 < IdSpan
    <3>1. (n + 1) % IdSpan = n + 1
      BY <2>2
    <3> QED BY <2>2, <3>1 DEF Advance
  <2> QED BY <2>1, <2>2
<1>2. Serial(Advance(n), 1) = n
  BY <1>1 DEF Serial
<1>3. ASSUME NEW d \in 1..(IdSpan - 2) PROVE Serial(Advance(n), d + 1) = Serial(n, d)
  BY <1>1 DEF Serial
<1> QED BY <1>2, <1>3

\* Within one round no serial number comes twice.
LEMMA SerialsDiffer ==
    ASSUME NEW n \in 1..(IdSpan - 1), NEW d \in 1..(IdSpan - 1), NEW c \in 1..(IdSpan - 1),
           Serial(n, d) = Serial(n, c)
    PROVE  c = d
  BY HandlesAssumption DEF Serial

\* ... so two places among the last L handles of a kind hold different ones.
LEMMA PlacesDiffer ==
    ASSUME NEW n \in 1..(IdSpan - 1), NEW b \in Nat, NEW L \in Nat, L <= IdSpan - 1,
           NEW i \in 1..L, NEW j \in 1..L,
           b + Serial(n, L + 1 - i) = b + Serial(n, L + 1 - j)
    PROVE  i = j
<1>1. L + 1 - i \in 1..(IdSpan - 1) /\ L + 1 - j \in 1..(IdSpan - 1)
  BY HandlesAssumption
<1>2. Serial(n, L + 1 - i) \in Int /\ Serial(n, L + 1 - j) \in Int
  BY HandlesAssumption, <1>1 DEF Serial
<1>3. Serial(n, L + 1 - i) = Serial(n, L + 1 - j)
  <2>1. \A x, y \in Int : b + x = b + y => x = y
    OBVIOUS
  <2> QED BY <1>2, <2>1, Zenon
<1>4. L + 1 - i = L + 1 - j
  BY <1>1, <1>3, SerialsDiffer
<1> QED
  BY <1>4

\* new_XXX() keeps the last handles in step with the counter.
LEMMA SpacedStep ==
    ASSUME HandlesInv, Spaced, NEW k \in Kinds, New(k)
    PROVE  Spaced'
<1> DEFINE h == Handle(next[k], k)
           r == Append(recent[k], h)
           L == Len(recent[k])
           b == k * IdSpan
<1>0. IdSpan \in Nat /\ IdSpan > 2 /\ k \in 0..7 /\ Window = IdSpan - 1
  BY HandlesAssumption DEF Window
<1>1. /\ next \in [Kinds -> 1..(IdSpan - 1)] /\ next[k] \in 1..(IdSpan - 1)
      /\ recent \in [Kinds -> Seq(Nat)] /\ recent[k] \in Seq(Nat) /\ L \in Nat /\ L <= IdSpan - 1
  BY <1>0, LenProperties DEF HandlesInv, TypeOK, Spaced, SpacedOf
<1>2. b \in Nat
  BY <1>0
<1>3. h = b + next[k]
  BY <1>0, <1>1, HandleInRange
<1> HIDE DEF h
<1>4. h \in Nat
  BY <1>1, <1>2, <1>3
<1>5. \A i \in 1..L : recent[k][i] = b + Serial(next[k], L + 1 - i)
  BY DEF Spaced, SpacedOf
<1>6. /\ r \in Seq(Nat) /\ Len(r) = L + 1 /\ r[L + 1] = h /\ \A i \in 1..L : r[i] = recent[k][i]
  BY <1>1, <1>4, AppendProperties
<1>7. /\ recent' = [recent EXCEPT ![k] = IF Len(r) > Window THEN Tail(r) ELSE r]
      /\ next' = [next EXCEPT ![k] = Advance(next[k])]
  BY DEF New, h
<1> HIDE DEF r, b
<1>8. ASSUME NEW i \in 1..L + 1, L + 2 - i <= IdSpan - 1
      PROVE  r[i] = b + Serial(Advance(next[k]), L + 2 - i)
  <2>1. CASE i = L + 1
    <3>1. L + 2 - i = 1
      BY <1>1, <2>1
    <3> QED
      BY <1>1, <1>3, <1>6, <2>1, <3>1, SerialAdvances
  <2>2. CASE i \in 1..L
    <3>1. L + 1 - i \in 1..(IdSpan - 2) /\ L + 2 - i = (L + 1 - i) + 1
      BY <1>0, <1>1, <1>8, <2>2
    <3>2. Serial(Advance(next[k]), L + 2 - i) = Serial(next[k], L + 1 - i)
      BY <1>1, <3>1, SerialAdvances
    <3> QED
      BY <1>5, <1>6, <2>2, <3>2
  <2> QED
    BY <1>1, <2>1, <2>2
<1>9. SpacedOf(k)'
  <2>1. next'[k] = Advance(next[k])
    BY <1>1, <1>7
  <2>2. CASE L + 1 <= Window
    <3>1. recent'[k] = r
      BY <1>0, <1>1, <1>6, <1>7, <2>2
    <3>2. ASSUME NEW i \in 1..L + 1 PROVE r[i] = b + Serial(Advance(next[k]), (L + 1) + 1 - i)
      <4>1. L + 2 - i <= IdSpan - 1 /\ (L + 1) + 1 - i = L + 2 - i
        BY <1>0, <1>1, <2>2
      <4> QED
        BY <1>8, <4>1
    <3> QED
      BY <1>6, <2>1, <2>2, <3>1, <3>2 DEF SpacedOf, b, Window
  <2>3. CASE L + 1 > Window
    <3>1. L = IdSpan - 1
      BY <1>0, <1>1, <2>3, SMTT(30)
    <3>2. recent'[k] = Tail(r)
      BY <1>0, <1>1, <1>6, <1>7, <2>3
    <3>3. Len(Tail(r)) = L /\ \A i \in 1..L : Tail(r)[i] = r[i + 1]
      <4>1. r # <<>>
        BY <1>1, <1>6, EmptySeq
      <4>2. Len(Tail(r)) = Len(r) - 1 /\ \A i \in 1..Len(Tail(r)) : Tail(r)[i] = r[i + 1]
        BY <1>6, <4>1, HeadTailProperties
      <4> QED
        BY <1>1, <1>6, <4>2
    <3>4. ASSUME NEW i \in 1..L PROVE Tail(r)[i] = b + Serial(Advance(next[k]), L + 1 - i)
      <4>1. i + 1 \in 1..L + 1 /\ L + 2 - (i + 1) = L + 1 - i /\ L + 1 - i <= IdSpan - 1
        BY <1>1, <3>1
      <4>2. r[i + 1] = b + Serial(Advance(next[k]), L + 2 - (i + 1))
        BY <1>8, <4>1
      <4> QED
        BY <3>3, <4>1, <4>2
    <3>5. Len(recent'[k]) = L /\ L <= Window' /\ \A i \in 1..L : recent'[k][i] = b + Serial(next'[k], L + 1 - i)
      <4>1. L <= Window'
        BY <1>0, <1>1, <3>1 DEF Window
      <4> QED
        BY <2>1, <3>2, <3>3, <3>4, <4>1
    <3> HIDE DEF L
    <3> QED
      BY <3>5 DEF SpacedOf, b
  <2> QED
    BY <1>0, <1>1, <2>2, <2>3
<1>10. ASSUME NEW j \in Kinds \ {k} PROVE SpacedOf(j)'
  <2>1. recent'[j] = recent[j] /\ next'[j] = next[j]
    BY <1>1, <1>7
  <2> QED
    BY <2>1 DEF Spaced, SpacedOf
<1> QED
  BY <1>9, <1>10 DEF Spaced

\* An operation may stay outstanding while IdSpan - 2 others of its kind are
\* started: no two of the last IdSpan - 1 handles of a kind are equal, for any
\* width of the serial number and however often the counter has gone round.
THEOREM HandlesDiffer == Spec => []NoConflict
<1>1. Init => HandlesInv /\ Spaced
  <2>1. Init => HandlesInv
    BY HandlesAssumption DEF Init, HandlesInv, TypeOK
  <2>2. Init => Spaced
    BY HandlesAssumption DEF Init, Spaced, SpacedOf, Window
  <2> QED BY <2>1, <2>2
<1>2. HandlesInv /\ Spaced /\ [Next]_vars => (HandlesInv /\ Spaced)'
  <2> SUFFICES ASSUME HandlesInv, Spaced, [Next]_vars PROVE (HandlesInv /\ Spaced)'
    OBVIOUS
  <2>1. CASE Next
    BY <2>1, NewStep, SpacedStep DEF Next
  <2>2. CASE UNCHANGED vars
    BY <2>2 DEF vars, HandlesInv, TypeOK, HandlesOf, Spaced, SpacedOf
  <2> QED BY <2>1, <2>2
<1>3. HandlesInv /\ Spaced => NoConflict
  <2> SUFFICES ASSUME HandlesInv, Spaced, NEW k \in Kinds, NEW i \in DOMAIN recent[k], NEW j \in DOMAIN recent[k],
                      recent[k][i] = recent[k][j]
               PROVE  i = j
    BY DEF NoConflict
  <2> DEFINE L == Len(recent[k])
             b == k * IdSpan
  <2>1. /\ L \in Nat /\ DOMAIN recent[k] = 1..L /\ L <= IdSpan - 1 /\ next[k] \in 1..(IdSpan - 1) /\ b \in Nat
        /\ IdSpan \in Nat
    <3>1. recent[k] \in Seq(Nat) /\ next[k] \in 1..(IdSpan - 1) /\ L <= IdSpan - 1
      BY DEF HandlesInv, TypeOK, Spaced, SpacedOf, Window
    <3>2. L \in Nat /\ DOMAIN recent[k] = 1..L
      BY <3>1, LenProperties
    <3>3. b \in Nat
      BY HandlesAssumption
    <3> QED BY <3>1, <3>2, <3>3, HandlesAssumption
  <2>2. recent[k][i] = b + Serial(next[k], L + 1 - i) /\ recent[k][j] = b + Serial(next[k], L + 1 - j)
    BY <2>1 DEF Spaced, SpacedOf
  <2>3. i \in 1..L /\ j \in 1..L
    BY <2>1
  <2> HIDE DEF L, b
  <2> QED
    BY <2>1, <2>2, <2>3, PlacesDiffer
<1> QED
  BY <1>1, <1>2, <1>3, PTL DEF Spec
===============================================================================
