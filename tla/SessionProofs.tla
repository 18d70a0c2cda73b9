---------------------------- MODULE SessionProofs ----------------------------
(***************************************************************************)
(* A member of a session, for any number of threads, connections, players  *)
(* and calls: the types, that a peer which has begun to close never        *)
(* becomes a player again, and that a Connect() is completed once.         *)
(***************************************************************************)
EXTENDS Session, SequenceTheorems, FiniteSetTheorems, WellFoundedInduction, TLAPS

\* Where a thread can be: at places that know their peer, at those a called
\* function returns to, and at the beginning of the handler of a message.
PeerPC == {"destroy", "flushcb", "destroyflushed", "destroycb", "hostlostcb", "hostlostselfcb", "erase",
           "shutdown", "shutdowncb", "readdone", "host_connect_request", "indicatecb", "message",
           "host_connect_ok", "okselfcb", "okhostcb", "connect_refused", "connect_peer", "connect_peer_ok",
           "peerokcb", "destroy_message", "connectfailed"}
BelowPC == {"erase", "destroyall", "shutdownall", "failself", "readdone", "close", "closewaits", "tsdestroy",
            "connectfailed"}
HandlerPC == {"host_connect_request", "message", "host_connect_ok", "connect_refused", "connect_peer",
              "connect_peer_ok", "destroy_message"}
ClosePC == {"close", "closeselfcb", "closepeers", "closewaits", "closeself"}
TerminatePC == {"tsendcb", "tsplayercb", "tsdestroy"}
ListPC == {"host_connect_ok", "okselfcb", "okhostcb"}
PlayerPC == {"connect_peer"}
NullPC == {"fail", "failself", "failselfcb", "failcomplete", "failcb", "destroyall", "shutdownall", "check", "checkcb",
           "createcb", "endcb", "endselfcb", "connectwait", "closewait", "closepool"}
PCs == PeerPC \cup ClosePC \cup TerminatePC \cup NullPC

CloseArgs == [was : SessionStates, now : BOOLEAN]
TerminateArgs == [players : SUBSET (Players \cup {Null}), peers : SUBSET PeerIds]
Args == {Null, "notified"} \cup SessionStates \cup BOOLEAN \cup {0} \cup Players \cup PlayerLists
            \cup CloseArgs \cup TerminateArgs \cup [peer : PeerStates, session : SessionStates]

\* The functions a thread can be in, with the arguments they go on with.
FrameSet ==
    {f \in [pc : PCs, peer : PeerIds \cup {Null}, arg : Args] :
        /\ f.pc \in PeerPC => f.peer \in PeerIds
        /\ f.pc \in PlayerPC => f.arg \in Players
        /\ f.pc \in ListPC => f.arg \in PlayerLists
        /\ f.pc \in ClosePC => f.arg \in CloseArgs
        /\ f.pc \in TerminatePC => f.arg \in TerminateArgs}

\* The innermost function of a thread, all its places, those of the callers, their
\* frames, and where the innermost function returns to.
TopIn(s) == IF s = <<>> THEN Frame("idle", Null) ELSE Head(s)
PCsOf(s) == {s[i].pc : i \in 1..Len(s)}
DeepOf(s) == {s[i].pc : i \in 2..Len(s)}
FramesOf(s) == {s[i] : i \in 1..Len(s)}
DeepFrames(s) == {s[i] : i \in 2..Len(s)}
CallerIn(s) == IF Len(s) >= 2 THEN s[2].pc ELSE "idle"

Stacks == stack \in [Threads -> Seq(FrameSet)] /\ \A t \in Threads : DeepOf(stack[t]) \subseteq BelowPC

\* Whoever holds the lock is in some function.
LockOK == lock \in Threads \cup {Null} /\ (lock # Null => stack[lock] # <<>>)

\* The other variables have their types.
Values ==
    /\ state \in SessionStates /\ listening \in BOOLEAN
    /\ peers \in [PeerIds -> {Null} \cup PeerRecs]
    /\ player_to_peer_id \in [Players -> PeerIds \cup {Null}]
    /\ next_peer_id \in Nat /\ next_player_id \in Nat
    /\ host_player_id \in 0..MaxPlayers /\ local_player_id \in 0..MaxPlayers
    /\ starts \in 0..MaxStarts /\ completes \in Nat
    /\ told \in [Players -> {"unknown", "present", "gone", "twice", "unheard"}]

\* Ids of peers are not used again.
Fresh == \A p \in Present : p < next_peer_id

\* While the application decides about a connection (INDICATE_CONNECT), its peer
\* stays in PS_INDICATING or goes away, and nobody else asks about it.
Indicating ==
    \A t \in Threads : TopIn(stack[t]).pc = "indicatecb" =>
       /\ TopIn(stack[t]).peer < next_peer_id
       /\ peers[TopIn(stack[t]).peer] = Null \/ peers[TopIn(stack[t]).peer].st = "indicating"
       /\ \A u \in Threads : TopIn(stack[u]).pc = "indicatecb" /\ TopIn(stack[u]).peer = TopIn(stack[t]).peer => u = t

\* A handler begins with the lock held and its peer in the table.
Handling ==
    \A t \in Threads : TopIn(stack[t]).pc \in HandlerPC => lock = t /\ peers[TopIn(stack[t]).peer] # Null

\* Close() is what waits on peer_destroyed.
Waiting == \A t \in Threads : TopIn(stack[t]).pc = "closewait" => CallerIn(stack[t]) = "closewaits"

\* The inductive invariant.
SessionInv == LockOK /\ Values /\ Stacks /\ Fresh /\ Indicating /\ Handling /\ Waiting

-------------------------------------------------------------------------------
(* Stacks                                                                    *)

\* A function goes on at another place.
LEMMA Replaced ==
    ASSUME NEW S, NEW s \in Seq(S), s # <<>>, NEW f \in S
    PROVE  LET r == <<f>> \o Tail(s)
           IN  /\ r \in Seq(S) /\ r # <<>> /\ TopIn(r) = f
               /\ DeepOf(r) = DeepOf(s) /\ PCsOf(r) = {f.pc} \cup DeepOf(s) /\ CallerIn(r) = CallerIn(s)
               /\ DeepFrames(r) = DeepFrames(s)
<1> DEFINE r == <<f>> \o Tail(s)
<1>1. Len(s) \in Nat \ {0} /\ Tail(s) \in Seq(S) /\ Len(Tail(s)) = Len(s) - 1
      /\ \A i \in 1..Len(s) - 1 : Tail(s)[i] = s[i + 1]
  BY HeadTailProperties, EmptySeq, LenProperties
<1>2. <<f>> \in Seq(S) /\ Len(<<f>>) = 1 /\ <<f>>[1] = f
  OBVIOUS
<1>3. r \in Seq(S) /\ Len(r) = Len(s) /\ r[1] = f /\ \A i \in 2..Len(s) : r[i] = s[i]
  <2>1. /\ r \in Seq(S) /\ Len(r) = 1 + (Len(s) - 1)
        /\ \A i \in 1..1 + (Len(s) - 1) : r[i] = IF i <= 1 THEN <<f>>[i] ELSE Tail(s)[i - 1]
    BY <1>1, <1>2, ConcatProperties
  <2>2. r[1] = f
    BY <2>1, <1>1, <1>2
  <2>3. ASSUME NEW i \in 2..Len(s) PROVE r[i] = s[i]
    <3>1. i \in 1..1 + (Len(s) - 1) /\ ~(i <= 1) /\ i - 1 \in 1..Len(s) - 1 /\ (i - 1) + 1 = i
      BY <1>1
    <3> QED BY <2>1, <3>1, <1>1
  <2> QED BY <2>1, <2>2, <2>3, <1>1
<1> HIDE DEF r
<1>4. r # <<>> /\ TopIn(r) = f
  <2>1. r # <<>>
    BY <1>1, <1>3
  <2> QED BY <2>1, <1>3, HeadTailProperties DEF TopIn
<1>5. DeepOf(r) = DeepOf(s) /\ DeepFrames(r) = DeepFrames(s)
  BY <1>3 DEF DeepOf, DeepFrames
<1>6. PCsOf(r) = {f.pc} \cup DeepOf(s)
  <2>1. 1..Len(r) = {1} \cup 2..Len(s)
    BY <1>1, <1>3
  <2> QED BY <2>1, <1>3 DEF PCsOf, DeepOf
<1>7. CallerIn(r) = CallerIn(s)
  <2>1. Len(s) >= 2 => 2 \in 2..Len(s)
    BY <1>1
  <2> QED BY <2>1, <1>3 DEF CallerIn
<1> QED BY <1>3, <1>4, <1>5, <1>6, <1>7 DEF r

\* A function is entered.
LEMMA Pushed ==
    ASSUME NEW S, NEW s \in Seq(S), NEW f \in S
    PROVE  LET r == <<f>> \o s
           IN  /\ r \in Seq(S) /\ r # <<>> /\ TopIn(r) = f
               /\ DeepOf(r) = PCsOf(s) /\ PCsOf(r) = {f.pc} \cup PCsOf(s)
               /\ s # <<>> => CallerIn(r) = TopIn(s).pc
               /\ DeepFrames(r) = FramesOf(s) /\ FramesOf(r) = {f} \cup FramesOf(s)
<1> DEFINE r == <<f>> \o s
<1>1. <<f>> \in Seq(S) /\ Len(<<f>>) = 1 /\ <<f>>[1] = f /\ Len(s) \in Nat
  OBVIOUS
<1>2. r \in Seq(S) /\ Len(r) = 1 + Len(s) /\ r[1] = f /\ \A i \in 1..Len(s) : r[i + 1] = s[i]
  <2>1. /\ r \in Seq(S) /\ Len(r) = 1 + Len(s)
        /\ \A i \in 1..1 + Len(s) : r[i] = IF i <= 1 THEN <<f>>[i] ELSE s[i - 1]
    BY <1>1, ConcatProperties
  <2>2. r[1] = f
    BY <2>1, <1>1
  <2>3. ASSUME NEW i \in 1..Len(s) PROVE r[i + 1] = s[i]
    <3>1. i + 1 \in 1..1 + Len(s) /\ ~(i + 1 <= 1) /\ (i + 1) - 1 = i
      BY <1>1
    <3> QED BY <2>1, <3>1
  <2> QED BY <2>1, <2>2, <2>3
<1> HIDE DEF r
<1>3. r # <<>> /\ TopIn(r) = f
  <2>1. r # <<>>
    BY <1>1, <1>2
  <2> QED BY <2>1, <1>2, HeadTailProperties DEF TopIn
<1>4. DeepOf(r) = PCsOf(s)
  <2>1. ASSUME NEW i \in 2..Len(r) PROVE i - 1 \in 1..Len(s) /\ r[i] = s[i - 1]
    <3>1. i - 1 \in 1..Len(s) /\ (i - 1) + 1 = i
      BY <1>1, <1>2
    <3> QED BY <3>1, <1>2
  <2>2. ASSUME NEW i \in 1..Len(s) PROVE i + 1 \in 2..Len(r) /\ r[i + 1] = s[i]
    BY <1>1, <1>2
  <2>3. DeepOf(r) \subseteq PCsOf(s)
    BY <2>1 DEF DeepOf, PCsOf
  <2>4. PCsOf(s) \subseteq DeepOf(r)
    BY <2>2 DEF DeepOf, PCsOf
  <2> QED BY <2>3, <2>4
<1>5. PCsOf(r) = {f.pc} \cup DeepOf(r)
  <2>1. 1..Len(r) = {1} \cup 2..Len(r)
    BY <1>1, <1>2
  <2> QED BY <2>1, <1>2 DEF PCsOf, DeepOf
<1>6. s # <<>> => CallerIn(r) = TopIn(s).pc
  <2> HAVE s # <<>>
  <2>1. Len(s) \in Nat \ {0} /\ TopIn(s) = s[1]
    BY HeadTailProperties, EmptySeq, LenProperties DEF TopIn
  <2>2. Len(r) >= 2 /\ 1 \in 1..Len(s) /\ 1 + 1 = 2
    BY <2>1, <1>2
  <2>3. r[2] = s[1]
    BY <2>2, <1>2
  <2> QED BY <2>1, <2>2, <2>3 DEF CallerIn
<1>7. DeepFrames(r) = FramesOf(s)
  <2>1. ASSUME NEW i \in 2..Len(r) PROVE i - 1 \in 1..Len(s) /\ r[i] = s[i - 1]
    <3>1. i - 1 \in 1..Len(s) /\ (i - 1) + 1 = i
      BY <1>1, <1>2
    <3> QED BY <3>1, <1>2
  <2>2. ASSUME NEW i \in 1..Len(s) PROVE i + 1 \in 2..Len(r) /\ r[i + 1] = s[i]
    BY <1>1, <1>2
  <2>3. DeepFrames(r) \subseteq FramesOf(s)
    BY <2>1 DEF DeepFrames, FramesOf
  <2>4. FramesOf(s) \subseteq DeepFrames(r)
    BY <2>2 DEF DeepFrames, FramesOf
  <2> QED BY <2>3, <2>4
<1>8. FramesOf(r) = {f} \cup DeepFrames(r)
  <2>1. 1..Len(r) = {1} \cup 2..Len(r)
    BY <1>1, <1>2
  <2> QED BY <2>1, <1>2 DEF FramesOf, DeepFrames
<1> QED BY <1>2, <1>3, <1>4, <1>5, <1>6, <1>7, <1>8 DEF r

\* Two functions are entered one after the other.
LEMMA TwoFrames ==
    ASSUME NEW S, NEW s \in Seq(S), NEW f \in S, NEW b \in S
    PROVE  <<f, b>> \o s = <<f>> \o (<<b>> \o s)
<1>1. <<f, b>> = <<f>> \o <<b>>
  <2> DEFINE left == <<f, b>>
             one == <<f>>
             two == <<b>>
  <2>1. left \in Seq(S) /\ Len(left) = 2 /\ left[1] = f /\ left[2] = b
    OBVIOUS
  <2>2. one \in Seq(S) /\ Len(one) = 1 /\ one[1] = f /\ two \in Seq(S) /\ Len(two) = 1 /\ two[1] = b
    OBVIOUS
  <2> HIDE DEF left, one, two
  <2>3. one \o two \in Seq(S) /\ Len(one \o two) = 2 /\ (one \o two)[1] = f /\ (one \o two)[2] = b
    <3>1. /\ one \o two \in Seq(S) /\ Len(one \o two) = Len(one) + Len(two)
          /\ \A i \in 1..Len(one) + Len(two) :
                (one \o two)[i] = IF i <= Len(one) THEN one[i] ELSE two[i - Len(one)]
      BY <2>2, ConcatProperties
    <3>2. 1 \in 1..Len(one) + Len(two) /\ 2 \in 1..Len(one) + Len(two) /\ 1 <= Len(one) /\ ~(2 <= Len(one)) /\ 2 - Len(one) = 1
      BY <2>2
    <3> QED BY <3>1, <3>2, <2>2
  <2>4. \A i \in 1..2 : i = 1 \/ i = 2
    OBVIOUS
  <2>5. left = one \o two
    BY <2>1, <2>3, <2>4, SeqEqual
  <2> QED BY <2>5 DEF left, one, two
<1>2. <<f>> \in Seq(S) /\ <<b>> \in Seq(S)
  OBVIOUS
<1> QED BY <1>1, <1>2, ConcatAssociative

\* Two functions are entered, or one calls another.
LEMMA PushedTwo ==
    ASSUME NEW S, NEW s \in Seq(S), NEW f \in S, NEW b \in S
    PROVE  LET r == <<f, b>> \o s
           IN  /\ r \in Seq(S) /\ r # <<>> /\ TopIn(r) = f
               /\ DeepOf(r) = {b.pc} \cup PCsOf(s) /\ PCsOf(r) = {f.pc, b.pc} \cup PCsOf(s)
               /\ DeepFrames(r) = {b} \cup FramesOf(s)
<1> DEFINE q == <<b>> \o s
           r == <<f, b>> \o s
<1>1. q \in Seq(S) /\ PCsOf(q) = {b.pc} \cup PCsOf(s) /\ FramesOf(q) = {b} \cup FramesOf(s)
  BY Pushed
<1>2. <<f>> \o q \in Seq(S) /\ <<f>> \o q # <<>> /\ TopIn(<<f>> \o q) = f
      /\ DeepOf(<<f>> \o q) = PCsOf(q) /\ PCsOf(<<f>> \o q) = {f.pc} \cup PCsOf(q)
      /\ DeepFrames(<<f>> \o q) = FramesOf(q)
  <2> HIDE DEF q
  <2> QED BY <1>1, Pushed
<1>3. r = <<f>> \o q
  BY TwoFrames
<1> QED BY <1>1, <1>2, <1>3

\* A function returns.
LEMMA Popped ==
    ASSUME NEW S, NEW s \in Seq(S), s # <<>>
    PROVE  LET r == Tail(s)
           IN  /\ r \in Seq(S) /\ PCsOf(r) = DeepOf(s) /\ DeepOf(r) \subseteq DeepOf(s)
               /\ r # <<>> => TopIn(r).pc \in DeepOf(s)
               /\ r = <<>> => TopIn(r) = Frame("idle", Null) /\ CallerIn(s) = "idle"
               /\ r # <<>> => TopIn(r).pc = CallerIn(s) /\ TopIn(r) \in DeepFrames(s)
               /\ DeepFrames(r) \subseteq DeepFrames(s) /\ FramesOf(r) = DeepFrames(s)
<1> DEFINE r == Tail(s)
<1>1. Len(s) \in Nat \ {0} /\ r \in Seq(S) /\ Len(r) = Len(s) - 1
      /\ \A i \in 1..Len(s) - 1 : r[i] = s[i + 1]
  BY HeadTailProperties, EmptySeq, LenProperties
<1> HIDE DEF r
<1>2. PCsOf(r) = DeepOf(s)
  <2>1. ASSUME NEW i \in 2..Len(s) PROVE i - 1 \in 1..Len(r) /\ r[i - 1] = s[i]
    <3>1. i - 1 \in 1..Len(s) - 1 /\ (i - 1) + 1 = i
      BY <1>1
    <3> QED BY <3>1, <1>1
  <2>2. ASSUME NEW i \in 1..Len(r) PROVE i + 1 \in 2..Len(s) /\ r[i] = s[i + 1]
    BY <1>1
  <2>3. DeepOf(s) \subseteq PCsOf(r)
    BY <2>1 DEF DeepOf, PCsOf
  <2>4. PCsOf(r) \subseteq DeepOf(s)
    BY <2>2 DEF DeepOf, PCsOf
  <2> QED BY <2>3, <2>4
<1>3. DeepOf(r) \subseteq PCsOf(r)
  BY <1>1 DEF DeepOf, PCsOf
<1>4. r # <<>> => TopIn(r).pc \in PCsOf(r)
  <2>1. r # <<>> => Len(r) \in Nat \ {0} /\ Head(r) = r[1]
    BY <1>1, EmptySeq, LenProperties, HeadTailProperties
  <2> QED BY <2>1 DEF TopIn, PCsOf
<1>5. r # <<>> => TopIn(r).pc = CallerIn(s)
  <2> HAVE r # <<>>
  <2>1. Len(r) \in Nat \ {0} /\ TopIn(r) = r[1]
    BY <1>1, HeadTailProperties, EmptySeq, LenProperties DEF TopIn
  <2>2. Len(s) >= 2 /\ 1 \in 1..Len(s) - 1 /\ 1 + 1 = 2
    BY <1>1, <2>1
  <2>3. r[1] = s[2]
    BY <1>1, <2>2
  <2> QED BY <2>1, <2>2, <2>3 DEF CallerIn
<1>6. r = <<>> => CallerIn(s) = "idle"
  <2>1. Len(s) \in Nat /\ Len(r) = Len(s) - 1
    BY <1>1
  <2>2. ASSUME NEW m \in Nat, NEW n \in Nat, n = m - 1, n = 0 PROVE ~(m >= 2)
    BY <2>2
  <2>3. r = <<>> => Len(r) = 0
    OBVIOUS
  <2> QED BY <2>1, <2>2, <2>3 DEF CallerIn
<1>7. FramesOf(r) = DeepFrames(s)
  <2>1. ASSUME NEW i \in 2..Len(s) PROVE i - 1 \in 1..Len(r) /\ r[i - 1] = s[i]
    <3>1. i - 1 \in 1..Len(s) - 1 /\ (i - 1) + 1 = i
      BY <1>1
    <3> QED BY <3>1, <1>1
  <2>2. ASSUME NEW i \in 1..Len(r) PROVE i + 1 \in 2..Len(s) /\ r[i] = s[i + 1]
    BY <1>1
  <2>3. DeepFrames(s) \subseteq FramesOf(r)
    BY <2>1 DEF DeepFrames, FramesOf
  <2>4. FramesOf(r) \subseteq DeepFrames(s)
    BY <2>2 DEF DeepFrames, FramesOf
  <2> QED BY <2>3, <2>4
<1>8. DeepFrames(r) \subseteq FramesOf(r) /\ (r # <<>> => TopIn(r) \in FramesOf(r))
  <2>1. r # <<>> => Len(r) \in Nat \ {0} /\ Head(r) = r[1]
    BY <1>1, EmptySeq, LenProperties, HeadTailProperties
  <2>2. Len(r) \in Nat
    BY <1>1
  <2> QED BY <2>1, <2>2 DEF TopIn, FramesOf, DeepFrames
<1> QED BY <1>1, <1>2, <1>3, <1>4, <1>5, <1>6, <1>7, <1>8 DEF TopIn, r

\* Where a thread is in Close(), which is the outermost function of its thread: nobody
\* calls it but the application.
Family == ClosePC \cup {"closewait", "closepool"}
Outermost == Family \ {"closewait"}
Based(s) == \A i \in 1..Len(s) - 1 : s[i].pc \notin Outermost

\* The innermost frame and the others.
LEMMA FramesSplit ==
    ASSUME NEW S, NEW s \in Seq(S), s # <<>>
    PROVE  /\ FramesOf(s) = {TopIn(s)} \cup DeepFrames(s) /\ PCsOf(s) = {TopIn(s).pc} \cup DeepOf(s)
           /\ TopIn(s) \in FramesOf(s) /\ TopIn(s).pc \in PCsOf(s) /\ TopIn(s) \in S
<1>1. Len(s) \in Nat \ {0} /\ TopIn(s) = s[1] /\ TopIn(s) \in S
  BY HeadTailProperties, EmptySeq, LenProperties DEF TopIn
<1>2. 1..Len(s) = {1} \cup 2..Len(s)
  BY <1>1
<1> QED BY <1>1, <1>2 DEF FramesOf, DeepFrames, PCsOf, DeepOf

\* A stack is one of more frames.
LEMMA SeqGrows ==
    ASSUME NEW S, NEW T, S \subseteq T, NEW s \in Seq(S)
    PROVE  s \in Seq(T)
<1>1. Len(s) \in Nat /\ s \in [1..Len(s) -> S]
  OBVIOUS
<1>2. s \in [1..Len(s) -> T]
  BY <1>1
<1> QED BY <1>1, <1>2, SeqDef

\* A function calls another.
LEMMA ConsBased ==
    ASSUME NEW S, NEW r \in Seq(S), NEW f \in S
    PROVE  Based(<<f>> \o r) <=> Based(r) /\ (r # <<>> => f.pc \notin Outermost)
<1> DEFINE s == <<f>> \o r
<1>1. Len(r) \in Nat /\ Len(s) = Len(r) + 1 /\ (r = <<>> <=> Len(r) = 0)
  BY EmptySeq, LenProperties
<1>2. s[1] = f /\ \A i \in 1..Len(r) : s[i + 1] = r[i]
  OBVIOUS
<1> HIDE DEF s
<1>3. ASSUME Based(s) PROVE Based(r) /\ (r # <<>> => f.pc \notin Outermost)
  <2>1. \A i \in 1..Len(r) - 1 : i \in 1..Len(r) /\ i + 1 \in 1..Len(s) - 1
    BY <1>1
  <2>2. r # <<>> => 1 \in 1..Len(s) - 1
    BY <1>1
  <2> QED BY <1>2, <1>3, <2>1, <2>2 DEF Based
<1>4. ASSUME Based(r), r # <<>> => f.pc \notin Outermost PROVE Based(s)
  <2> SUFFICES ASSUME NEW i \in 1..Len(s) - 1 PROVE s[i].pc \notin Outermost
    BY DEF Based
  <2>1. CASE i = 1
    <3>1. r # <<>>
      BY <1>1, <2>1
    <3> QED BY <1>2, <1>4, <2>1, <3>1
  <2>2. CASE i # 1
    <3>1. i - 1 \in 1..Len(r) - 1 /\ i - 1 \in 1..Len(r) /\ i = (i - 1) + 1
      BY <1>1, <2>2
    <3>2. s[i] = r[i - 1]
      BY <1>2, <3>1
    <3> QED BY <1>4, <3>1, <3>2 DEF Based
  <2> QED BY <2>1, <2>2
<1> QED BY <1>3, <1>4 DEF s

\* Close() is the outermost function.
LEMMA BasedFacts ==
    ASSUME NEW S, NEW s \in Seq(S), s # <<>>, Based(s)
    PROVE  /\ Based(Tail(s)) /\ (TopIn(s).pc \in Outermost => Tail(s) = <<>>)
<1>1. s = <<Head(s)>> \o Tail(s) /\ Head(s) \in S /\ Tail(s) \in Seq(S) /\ TopIn(s) = Head(s)
  BY HeadTailProperties, EmptySeq, LenProperties DEF TopIn
<1> QED BY <1>1, ConsBased

\* The other threads stay where they are; one that waits may be notified.
Elsewhere(t) ==
    \A u \in Threads \ {t} :
       /\ TopIn(stack'[u]).pc = TopIn(stack[u]).pc /\ TopIn(stack'[u]).peer = TopIn(stack[u]).peer
       /\ TopIn(stack[u]).pc \notin {"closewait", "connectwait"} => TopIn(stack'[u]) = TopIn(stack[u])
       /\ PCsOf(stack'[u]) = PCsOf(stack[u]) /\ DeepOf(stack'[u]) = DeepOf(stack[u])
       /\ CallerIn(stack'[u]) = CallerIn(stack[u])
       /\ stack'[u] = <<>> <=> stack[u] = <<>>

\* Thread t is at new places: at the top at one of `new', below at one of `deep'.
Shaped(t, new, deep) ==
    /\ Stacks' /\ Elsewhere(t)
    /\ DeepOf(stack'[t]) \subseteq DeepOf(stack[t]) \cup deep
    /\ PCsOf(stack'[t]) \subseteq DeepOf(stack[t]) \cup deep \cup new

\* A thread's new stack, the others unchanged.
LEMMA StackReplaced ==
    ASSUME Stacks, NEW t \in Threads, NEW s \in Seq(FrameSet), Stack(t, s), DeepOf(s) \subseteq BelowPC
    PROVE  Stacks' /\ Elsewhere(t) /\ stack'[t] = s
<1>1. stack'[t] = s /\ \A u \in Threads \ {t} : stack'[u] = stack[u]
  BY DEF Stacks, Stack
<1>2. stack' \in [Threads -> Seq(FrameSet)]
  BY DEF Stacks, Stack
<1>3. Elsewhere(t)
  BY <1>1 DEF Elsewhere
<1>4. \A u \in Threads : DeepOf(stack'[u]) \subseteq BelowPC
  BY <1>1 DEF Stacks
<1> QED BY <1>1, <1>2, <1>3, <1>4 DEF Stacks

\* Goto(t, f) and Unlock(t, f).
LEMMA GotoShape ==
    ASSUME Stacks, NEW t \in Threads, stack[t] # <<>>, NEW f \in FrameSet, Stack(t, <<f>> \o Below(t))
    PROVE  Shaped(t, {f.pc}, {}) /\ TopIn(stack'[t]) = f /\ stack'[t] # <<>>
<1> DEFINE s == <<f>> \o Tail(stack[t])
<1>0. stack[t] \in Seq(FrameSet) /\ DeepOf(stack[t]) \subseteq BelowPC
  BY DEF Stacks
<1>1. /\ s \in Seq(FrameSet) /\ s # <<>> /\ TopIn(s) = f
      /\ DeepOf(s) = DeepOf(stack[t]) /\ PCsOf(s) = {f.pc} \cup DeepOf(stack[t])
  BY <1>0, Replaced
<1>2. Stack(t, s)
  BY DEF Below
<1> HIDE DEF s
<1>3. Stacks' /\ Elsewhere(t) /\ stack'[t] = s
  BY <1>0, <1>1, <1>2, StackReplaced
<1> QED BY <1>1, <1>3 DEF Shaped

\* Call(t, f, b).
LEMMA CallShape ==
    ASSUME Stacks, NEW t \in Threads, stack[t] # <<>>, NEW f \in FrameSet, NEW b \in FrameSet, b.pc \in BelowPC,
           Stack(t, <<f, b>> \o Below(t))
    PROVE  Shaped(t, {f.pc}, {b.pc}) /\ TopIn(stack'[t]) = f /\ stack'[t] # <<>>
<1> DEFINE q == Tail(stack[t])
           s == <<f, b>> \o q
<1>0. stack[t] \in Seq(FrameSet) /\ DeepOf(stack[t]) \subseteq BelowPC
  BY DEF Stacks
<1>1. q \in Seq(FrameSet) /\ PCsOf(q) = DeepOf(stack[t])
  BY <1>0, Popped
<1>2. Stack(t, s)
  BY DEF Below
<1> HIDE DEF q
<1>3. /\ s \in Seq(FrameSet) /\ s # <<>> /\ TopIn(s) = f
      /\ DeepOf(s) = {b.pc} \cup PCsOf(q) /\ PCsOf(s) = {f.pc, b.pc} \cup PCsOf(q)
  BY <1>1, PushedTwo
<1> HIDE DEF s
<1>4. Stacks' /\ Elsewhere(t) /\ stack'[t] = s
  BY <1>0, <1>1, <1>2, <1>3, StackReplaced
<1> QED BY <1>1, <1>3, <1>4 DEF Shaped

\* Where a thread is after it has returned from a function.
Resumed(t) ==
    /\ stack'[t] # <<>> => TopIn(stack'[t]).pc \in DeepOf(stack[t])
    /\ stack'[t] = <<>> => TopIn(stack'[t]) = Frame("idle", Null)

\* Return(t).
LEMMA ReturnShape ==
    ASSUME Stacks, NEW t \in Threads, stack[t] # <<>>, Stack(t, Below(t))
    PROVE  Shaped(t, {}, {}) /\ Resumed(t) /\ stack'[t] = Below(t)
<1> DEFINE s == Tail(stack[t])
<1>0. stack[t] \in Seq(FrameSet) /\ DeepOf(stack[t]) \subseteq BelowPC
  BY DEF Stacks
<1>1. /\ s \in Seq(FrameSet) /\ PCsOf(s) = DeepOf(stack[t]) /\ DeepOf(s) \subseteq DeepOf(stack[t])
      /\ s # <<>> => TopIn(s).pc \in DeepOf(stack[t])
      /\ s = <<>> => TopIn(s) = Frame("idle", Null)
  BY <1>0, Popped
<1>2. Stack(t, s) /\ s = Below(t)
  BY DEF Below
<1> HIDE DEF s
<1>3. Stacks' /\ Elsewhere(t) /\ stack'[t] = s
  BY <1>0, <1>1, <1>2, StackReplaced
<1> QED BY <1>1, <1>2, <1>3 DEF Shaped, Resumed

\* A thread that was idle runs one function.
LEMMA BeginShape ==
    ASSUME Stacks, NEW t \in Threads, stack[t] = <<>>, NEW f \in FrameSet, Stack(t, <<f>>)
    PROVE  Shaped(t, {f.pc}, {}) /\ TopIn(stack'[t]) = f /\ stack'[t] # <<>>
<1> DEFINE e == stack[t]
           s == <<f>> \o e
<1>1. e \in Seq(FrameSet) /\ PCsOf(e) = {}
  BY DEF PCsOf
<1>2. s = <<f>>
  OBVIOUS
<1> HIDE DEF e
<1>3. /\ s \in Seq(FrameSet) /\ s # <<>> /\ TopIn(s) = f
      /\ DeepOf(s) = {} /\ PCsOf(s) = {f.pc}
  BY <1>1, Pushed
<1>4. Stack(t, s)
  BY <1>2
<1> HIDE DEF s
<1>5. Stacks' /\ Elsewhere(t) /\ stack'[t] = s
  BY <1>3, <1>4, StackReplaced
<1> QED BY <1>3, <1>5 DEF Shaped

\* A thread that was idle runs a function that another has called.
LEMMA BeginTwoShape ==
    ASSUME Stacks, NEW t \in Threads, stack[t] = <<>>, NEW f \in FrameSet, NEW b \in FrameSet, b.pc \in BelowPC,
           Stack(t, <<f, b>>)
    PROVE  Shaped(t, {f.pc}, {b.pc}) /\ TopIn(stack'[t]) = f /\ stack'[t] # <<>>
<1> DEFINE e == stack[t]
           s == <<f, b>> \o e
<1>1. e \in Seq(FrameSet) /\ PCsOf(e) = {}
  BY DEF PCsOf
<1>2. s = <<f, b>>
  OBVIOUS
<1> HIDE DEF e
<1>3. /\ s \in Seq(FrameSet) /\ s # <<>> /\ TopIn(s) = f
      /\ DeepOf(s) = {b.pc} /\ PCsOf(s) = {f.pc, b.pc}
  BY <1>1, PushedTwo
<1>4. Stack(t, s)
  BY <1>2
<1> HIDE DEF s
<1>5. Stacks' /\ Elsewhere(t) /\ stack'[t] = s
  BY <1>3, <1>4, StackReplaced
<1> QED BY <1>3, <1>5 DEF Shaped

\* Frames without an argument.
LEMMA FrameFacts ==
    ASSUME NEW pc \in PCs, NEW p \in PeerIds \cup {Null}, pc \in PeerPC => p \in PeerIds,
           pc \notin PlayerPC \cup ListPC \cup ClosePC \cup TerminatePC
    PROVE  Frame(pc, p) \in FrameSet /\ Frame(pc, p).pc = pc /\ Frame(pc, p).peer = p
<1>1. Null \in Args
  BY DEF Args
<1> QED BY <1>1 DEF Frame, FrameSet

\* Frames with an argument.
LEMMA WithFacts ==
    ASSUME NEW pc \in PCs, NEW p \in PeerIds \cup {Null}, NEW a \in Args, pc \in PeerPC => p \in PeerIds,
           pc \in PlayerPC => a \in Players, pc \in ListPC => a \in PlayerLists,
           pc \in ClosePC => a \in CloseArgs, pc \in TerminatePC => a \in TerminateArgs
    PROVE  LET f == With(Frame(pc, p), a)
           IN  f \in FrameSet /\ f.pc = pc /\ f.peer = p /\ f.arg = a
<1> DEFINE f == With(Frame(pc, p), a)
<1>1. f = [pc |-> pc, peer |-> p, arg |-> a]
  BY DEF With, Frame
<1> HIDE DEF f
<1>2. f.pc = pc /\ f.peer = p /\ f.arg = a /\ f \in [pc : PCs, peer : PeerIds \cup {Null}, arg : Args]
  BY <1>1
<1>3. f \in FrameSet
  BY <1>2 DEF FrameSet
<1> QED BY <1>2, <1>3 DEF f

\* A frame that goes on at another place with the same peer and argument.
LEMMA SameArgFacts ==
    ASSUME NEW f \in FrameSet, NEW pc \in PCs, NEW g, g = [f EXCEPT !.pc = pc], pc \in PeerPC => f.peer \in PeerIds,
           pc \in PlayerPC => f.arg \in Players, pc \in ListPC => f.arg \in PlayerLists,
           pc \in ClosePC => f.arg \in CloseArgs, pc \in TerminatePC => f.arg \in TerminateArgs
    PROVE  g \in FrameSet /\ g.pc = pc /\ g.peer = f.peer /\ g.arg = f.arg
<1>1. f \in [pc : PCs, peer : PeerIds \cup {Null}, arg : Args]
  BY DEF FrameSet
<1>2. g.pc = pc /\ g.peer = f.peer /\ g.arg = f.arg /\ g \in [pc : PCs, peer : PeerIds \cup {Null}, arg : Args]
  BY <1>1
<1>3. g \in FrameSet
  BY <1>2 DEF FrameSet
<1> QED BY <1>2, <1>3

\* A frame that waits may be notified.
LEMMA NotifiedFacts ==
    ASSUME NEW f \in FrameSet, f.pc \in {"closewait", "connectwait"}
    PROVE  With(f, "notified") \in FrameSet /\ With(f, "notified").pc = f.pc /\ With(f, "notified").peer = f.peer
<1> DEFINE g == [f EXCEPT !.arg = "notified"]
<1>1. f \in [pc : PCs, peer : PeerIds \cup {Null}, arg : Args] /\ "notified" \in Args
  BY DEF FrameSet, Args
<1>2. g.pc = f.pc /\ g.peer = f.peer /\ g \in [pc : PCs, peer : PeerIds \cup {Null}, arg : Args]
  BY <1>1
<1> HIDE DEF g
<1>3. g \in FrameSet
  BY <1>2 DEF FrameSet, PeerPC, PlayerPC, ListPC, ClosePC, TerminatePC
<1> QED BY <1>2, <1>3 DEF g, With

\* ReturnAndNotify(t, place).
LEMMA NotifyShape ==
    ASSUME Stacks, NEW t \in Threads, stack[t] # <<>>, NEW place \in {"closewait", "connectwait"},
           ReturnAndNotify(t, place)
    PROVE  Shaped(t, {}, {}) /\ Resumed(t) /\ stack'[t] = Below(t)
<1>0. \A u \in Threads : stack[u] \in Seq(FrameSet) /\ DeepOf(stack[u]) \subseteq BelowPC
  BY DEF Stacks
<1>1. /\ stack'[t] \in Seq(FrameSet) /\ stack'[t] = Below(t)
      /\ PCsOf(stack'[t]) = DeepOf(stack[t]) /\ DeepOf(stack'[t]) \subseteq DeepOf(stack[t])
      /\ stack'[t] # <<>> => TopIn(stack'[t]).pc \in DeepOf(stack[t])
      /\ stack'[t] = <<>> => TopIn(stack'[t]) = Frame("idle", Null)
  <2>1. stack'[t] = Below(t)
    BY DEF ReturnAndNotify
  <2> QED BY <2>1, <1>0, Popped DEF Below
<1>2. ASSUME NEW u \in Threads \ {t}
      PROVE  /\ stack'[u] \in Seq(FrameSet)
             /\ TopIn(stack'[u]).pc = TopIn(stack[u]).pc /\ TopIn(stack'[u]).peer = TopIn(stack[u]).peer
             /\ TopIn(stack[u]).pc \notin {"closewait", "connectwait"} => TopIn(stack'[u]) = TopIn(stack[u])
             /\ PCsOf(stack'[u]) = PCsOf(stack[u]) /\ DeepOf(stack'[u]) = DeepOf(stack[u])
             /\ CallerIn(stack'[u]) = CallerIn(stack[u])
             /\ stack'[u] = <<>> <=> stack[u] = <<>>
  <2>1. CASE stack[u] # <<>> /\ Top(u).pc = place
    <3> DEFINE f == Top(u)
               g == With(f, "notified")
               s == <<g>> \o Tail(stack[u])
    <3>1. stack'[u] = s
      BY <2>1 DEF ReturnAndNotify, Below
    <3>2. f \in FrameSet /\ f = TopIn(stack[u]) /\ f.pc = place
      BY <1>0, <2>1, HeadTailProperties DEF Top, TopIn
    <3>3. <<f>> \o Tail(stack[u]) = stack[u]
      BY <1>0, <2>1, HeadTailProperties DEF Top
    <3>4. PCsOf(stack[u]) = {f.pc} \cup DeepOf(stack[u])
      <4> DEFINE e == stack[u]
      <4>1. e \in Seq(FrameSet) /\ e # <<>> /\ f \in FrameSet /\ <<f>> \o Tail(e) = e
        BY <1>0, <2>1, <3>2, <3>3
      <4> HIDE DEF f, e
      <4>2. PCsOf(<<f>> \o Tail(e)) = {f.pc} \cup DeepOf(e)
        BY <4>1, Replaced
      <4> QED BY <4>1, <4>2 DEF e
    <3>5. g \in FrameSet /\ g.pc = f.pc /\ g.peer = f.peer
      <4> HIDE DEF f
      <4> QED BY <3>2, NotifiedFacts
    <3> HIDE DEF f, g
    <3>6. /\ s \in Seq(FrameSet) /\ s # <<>> /\ TopIn(s) = g
          /\ DeepOf(s) = DeepOf(stack[u]) /\ PCsOf(s) = {g.pc} \cup DeepOf(stack[u])
          /\ CallerIn(s) = CallerIn(stack[u])
      BY <1>0, <2>1, <3>5, Replaced
    <3> QED BY <3>1, <3>2, <3>4, <3>5, <3>6, <2>1
  <2>2. CASE ~(stack[u] # <<>> /\ Top(u).pc = place)
    <3>1. stack'[u] = stack[u]
      BY <2>2 DEF ReturnAndNotify
    <3> QED BY <3>1, <1>0
  <2> QED BY <2>1, <2>2
<1>3. Elsewhere(t)
  BY <1>2 DEF Elsewhere
<1>4. Stacks'
  <2>1. stack' = [u \in Threads |-> stack'[u]]
    BY DEF ReturnAndNotify
  <2>2. \A u \in Threads : stack'[u] \in Seq(FrameSet) /\ DeepOf(stack'[u]) \subseteq BelowPC
    BY <1>0, <1>1, <1>2
  <2> QED BY <2>1, <2>2 DEF Stacks
<1> QED BY <1>1, <1>3, <1>4 DEF Shaped, Resumed

-------------------------------------------------------------------------------
(* The two things a step does: it moves a thread, and it changes peers.      *)

\* Thread t has or takes the lock, and keeps it or releases it.
Locks(t) == lock \in {t, Null} /\ lock' \in {t, Null} /\ (lock' = t => stack'[t] # <<>>)

\* If t is now at the beginning of a handler it has the lock and a peer; if it has
\* asked about a connection, the peer has just got into PS_INDICATING; if it waits for
\* peers to go, it is in Close().
Arrives(t) ==
    LET g == TopIn(stack'[t])
    IN  /\ g.pc \in HandlerPC => lock' = t /\ peers'[g.peer] # Null
        /\ g.pc = "indicatecb" => /\ g.peer \in Present /\ peers[g.peer].st # "indicating"
                                  /\ peers'[g.peer] # Null /\ peers'[g.peer].st = "indicating"
        /\ g.pc = "closewait" => CallerIn(stack'[t]) = "closewaits"

\* Peers come with new ids and go; one in PS_CLOSING keeps its state, and one in
\* PS_INDICATING too, unless t has asked about it.
PeerMoves(t, p) ==
    \/ peers'[p] = peers[p]
    \/ peers'[p] = Null
    \/ /\ peers[p] # Null /\ peers'[p] # Null
       /\ \/ peers'[p].st = peers[p].st
          \/ peers'[p].st = "closing" /\ peers[p].st # "indicating"
          \/ peers[p].st \notin {"indicating", "closing"}
          \/ TopIn(stack[t]).pc = "indicatecb" /\ TopIn(stack[t]).peer = p
    \/ /\ peers[p] = Null /\ peers'[p] # Null
       /\ next_peer_id <= p /\ p < next_peer_id'

\* What a step may not do to a peer in PS_CLOSING.
StaysClosing == \A p \in Present : peers[p].st = "closing" => peers'[p] = Null \/ peers'[p].st = "closing"

\* Ids are numbers.
LEMMA IdFacts == PeerIds \subseteq Nat /\ Null \notin Nat /\ Null \notin Threads /\ Null \notin PeerIds /\ 1 \in Players /\ 2 \in Players
<1>1. PeerIds \subseteq Nat
  <2>1. FirstPeerIds \subseteq Nat /\ MaxPeers \in Nat
    BY SessionAssumption
  <2>2. \A f \in FirstPeerIds : \A i \in 0..(MaxPeers - 1) : f + i \in Nat
    BY <2>1
  <2> QED BY <2>2 DEF PeerIds
<1>2. 1 \in Players /\ 2 \in Players
  BY SessionAssumption DEF Players
<1> QED BY <1>1, <1>2, SessionAssumption DEF Threads

\* The frame on top of a stack.
LEMMA TopFacts ==
    ASSUME Stacks, NEW t \in Threads
    PROVE  /\ stack[t] # <<>> => Top(t) = TopIn(stack[t]) /\ Top(t) \in FrameSet
           /\ stack[t] = <<>> => TopIn(stack[t]).pc = "idle"
<1>1. stack[t] \in Seq(FrameSet)
  BY DEF Stacks
<1>2. stack[t] # <<>> => Head(stack[t]) \in FrameSet
  BY <1>1, HeadTailProperties
<1> QED BY <1>2 DEF Top, TopIn, Frame

\* Every such step keeps the invariant.
LEMMA MoveKeeps ==
    ASSUME SessionInv, NEW t \in Threads, Locks(t), Stacks', Elsewhere(t), Arrives(t), Values',
           next_peer_id <= next_peer_id', \A p \in PeerIds : PeerMoves(t, p)
    PROVE  SessionInv' /\ StaysClosing
<1>0. LockOK /\ Values /\ Stacks /\ Fresh /\ Indicating /\ Handling /\ Waiting
  BY DEF SessionInv
<1>1. LockOK'
  BY IdFacts DEF Locks, LockOK
<1>2. Fresh'
  <2> SUFFICES ASSUME NEW p \in PeerIds, peers'[p] # Null PROVE p < next_peer_id'
    BY DEF Fresh, Present
  <2>1. p \in Nat /\ next_peer_id \in Nat /\ next_peer_id' \in Nat
    BY <1>0, IdFacts DEF Values
  <2>2. peers[p] # Null => p < next_peer_id
    BY <1>0 DEF Fresh, Present
  <2>3. PeerMoves(t, p)
    OBVIOUS
  <2> QED BY <2>1, <2>2, <2>3 DEF PeerMoves
<1>3. \A u \in Threads \ {t} : TopIn(stack[u]).pc \notin HandlerPC
  BY <1>0, IdFacts DEF Handling, Locks
<1>4. Handling'
  <2> SUFFICES ASSUME NEW u \in Threads, TopIn(stack'[u]).pc \in HandlerPC
               PROVE  lock' = u /\ peers'[TopIn(stack'[u]).peer] # Null
    BY DEF Handling
  <2>1. u = t
    BY <1>3 DEF Elsewhere
  <2> QED BY <2>1 DEF Arrives
<1>5. ASSUME NEW u \in Threads, TopIn(stack[u]).pc = "indicatecb"
      PROVE  TopIn(stack[u]).peer \in PeerIds
  <2>1. stack[u] # <<>> /\ TopIn(stack[u]) \in FrameSet
    BY <1>0, <1>5, TopFacts
  <2> QED BY <2>1, <1>5 DEF FrameSet, PeerPC
<1>6. ASSUME NEW u \in Threads \ {t}, TopIn(stack'[u]).pc = "indicatecb"
      PROVE  LET p == TopIn(stack'[u]).peer
             IN  /\ p = TopIn(stack[u]).peer /\ TopIn(stack[u]).pc = "indicatecb"
                 /\ p < next_peer_id' /\ (peers'[p] = Null \/ peers'[p].st = "indicating")
                 /\ peers[p] = Null \/ peers[p].st = "indicating"
  <2> DEFINE p == TopIn(stack'[u]).peer
  <2>1. p = TopIn(stack[u]).peer /\ TopIn(stack[u]).pc = "indicatecb"
    BY <1>6 DEF Elsewhere
  <2>2. p \in PeerIds /\ p \in Nat
    BY <2>1, <1>5, IdFacts
  <2> HIDE DEF p
  <2>3. p < next_peer_id /\ (peers[p] = Null \/ peers[p].st = "indicating")
    BY <1>0, <2>1 DEF Indicating
  <2>4. ~(TopIn(stack[t]).pc = "indicatecb" /\ TopIn(stack[t]).peer = p)
    BY <1>0, <2>1 DEF Indicating
  <2>5. PeerMoves(t, p)
    BY <2>2
  <2>6. next_peer_id \in Nat /\ next_peer_id' \in Nat
    BY <1>0 DEF Values
  <2>7. p < next_peer_id'
    BY <2>2, <2>3, <2>6
  <2>8. peers'[p] = Null \/ peers'[p].st = "indicating"
    <3>1. ~(next_peer_id <= p)
      BY <2>2, <2>3, <2>6
    <3> QED BY <2>3, <2>4, <2>5, <3>1 DEF PeerMoves
  <2> QED BY <2>1, <2>3, <2>7, <2>8 DEF p
<1>7. TopIn(stack'[t]).pc = "indicatecb" =>
        LET p == TopIn(stack'[t]).peer
        IN  /\ p < next_peer_id' /\ (peers'[p] = Null \/ peers'[p].st = "indicating")
            /\ peers[p] # Null /\ peers[p].st # "indicating"
  <2> HAVE TopIn(stack'[t]).pc = "indicatecb"
  <2> DEFINE p == TopIn(stack'[t]).peer
  <2>1. p \in PeerIds /\ peers[p] # Null /\ peers[p].st # "indicating" /\ peers'[p].st = "indicating"
    BY DEF Arrives, Present
  <2> HIDE DEF p
  <2>2. p < next_peer_id /\ p \in Nat /\ next_peer_id \in Nat /\ next_peer_id' \in Nat
    BY <2>1, <1>0, IdFacts DEF Fresh, Present, Values
  <2>3. p < next_peer_id'
    BY <2>2
  <2> QED BY <2>1, <2>3 DEF p
<1>8. Indicating'
  <2> SUFFICES ASSUME NEW u \in Threads, TopIn(stack'[u]).pc = "indicatecb"
               PROVE  /\ TopIn(stack'[u]).peer < next_peer_id'
                      /\ peers'[TopIn(stack'[u]).peer] = Null \/ peers'[TopIn(stack'[u]).peer].st = "indicating"
                      /\ \A v \in Threads : TopIn(stack'[v]).pc = "indicatecb" /\ TopIn(stack'[v]).peer = TopIn(stack'[u]).peer => v = u
    BY DEF Indicating
  <2>1. CASE u = t
    BY <2>1, <1>6, <1>7
  <2>2. CASE u # t
    <3>1. \A v \in Threads \ {t} : TopIn(stack'[v]).pc = "indicatecb" /\ TopIn(stack'[v]).peer = TopIn(stack'[u]).peer => v = u
      BY <2>2, <1>6, <1>0 DEF Indicating
    <3> QED BY <2>2, <3>1, <1>6, <1>7
  <2> QED BY <2>1, <2>2
<1>9. StaysClosing
  <2> SUFFICES ASSUME NEW p \in PeerIds, peers[p] # Null, peers[p].st = "closing"
               PROVE  peers'[p] = Null \/ peers'[p].st = "closing"
    BY DEF StaysClosing, Present
  <2>1. PeerMoves(t, p)
    OBVIOUS
  <2>2. ~(TopIn(stack[t]).pc = "indicatecb" /\ TopIn(stack[t]).peer = p)
    BY <1>0 DEF Indicating
  <2> QED BY <2>1, <2>2 DEF PeerMoves
<1>10. Waiting'
  <2> SUFFICES ASSUME NEW u \in Threads, TopIn(stack'[u]).pc = "closewait" PROVE CallerIn(stack'[u]) = "closewaits"
    BY DEF Waiting
  <2>1. CASE u = t
    BY <2>1 DEF Arrives
  <2>2. CASE u # t
    BY <2>2, <1>0 DEF Elsewhere, Waiting
  <2> QED BY <2>1, <2>2
<1> QED BY <1>0, <1>1, <1>2, <1>4, <1>8, <1>9, <1>10 DEF SessionInv

\* What a step does to threads.
Moves(t) == Locks(t) /\ Stacks' /\ Elsewhere(t) /\ Arrives(t)

\* Places that neither begin a handler nor wait for INDICATE_CONNECT or for peers to go.
Plain(pc) == pc \notin HandlerPC /\ pc \notin {"indicatecb", "closewait"}

\* The places to return to are plain.
LEMMA BelowPlain == (\A pc \in BelowPC : Plain(pc)) /\ Plain("idle")
BY DEF BelowPC, Plain, HandlerPC

\* A step of a thread that is in some function.
LEMMA RunMoves ==
    ASSUME SessionInv, NEW t \in Threads, lock \in {t, Null}, stack[t] # <<>>,
           \/ \E f \in FrameSet : Plain(f.pc) /\ (Goto(t, f) \/ Unlock(t, f))
           \/ \E f \in FrameSet : \E b \in FrameSet : Plain(f.pc) /\ b.pc \in BelowPC /\ Call(t, f, b)
           \/ Return(t) \/ ReturnAndNotify(t, "closewait") \/ ReturnAndNotify(t, "connectwait")
    PROVE  Moves(t)
<1>0. Stacks
  BY DEF SessionInv
<1>1. ASSUME NEW f \in FrameSet, Plain(f.pc), Goto(t, f) \/ Unlock(t, f) PROVE Moves(t)
  <2>1. Shaped(t, {f.pc}, {}) /\ TopIn(stack'[t]) = f /\ stack'[t] # <<>>
    BY <1>0, <1>1, GotoShape DEF Goto, Unlock
  <2>2. lock' \in {t, Null}
    BY <1>1 DEF Goto, Unlock
  <2> QED BY <2>1, <2>2, <1>1 DEF Moves, Locks, Shaped, Arrives, Plain
<1>2. ASSUME NEW f \in FrameSet, NEW b \in FrameSet, Plain(f.pc), b.pc \in BelowPC, Call(t, f, b) PROVE Moves(t)
  <2>1. Shaped(t, {f.pc}, {b.pc}) /\ TopIn(stack'[t]) = f /\ stack'[t] # <<>>
    BY <1>0, <1>2, CallShape DEF Call
  <2>2. lock' = t
    BY <1>2 DEF Call
  <2> QED BY <2>1, <2>2, <1>2 DEF Moves, Locks, Shaped, Arrives, Plain
<1>3. CASE Return(t) \/ ReturnAndNotify(t, "closewait") \/ ReturnAndNotify(t, "connectwait")
  <2>1. Shaped(t, {}, {}) /\ Resumed(t) /\ stack'[t] = Below(t)
    BY <1>0, <1>3, ReturnShape, NotifyShape DEF Return
  <2>2. lock' \in {t, Null} /\ (lock' = t => Below(t) # <<>>)
    BY <1>3, IdFacts DEF Return, ReturnAndNotify
  <2>3. DeepOf(stack[t]) \subseteq BelowPC
    BY <1>0 DEF Stacks
  <2>4. Plain(TopIn(stack'[t]).pc)
    BY <2>1, <2>3, BelowPlain DEF Resumed, Frame
  <2> QED BY <2>1, <2>2, <2>4 DEF Moves, Locks, Shaped, Arrives, Plain
<1> QED BY <1>1, <1>2, <1>3

\* A step of a thread that was idle.
LEMMA BeginMoves ==
    ASSUME SessionInv, NEW t \in Threads, lock = Null, stack[t] = <<>>, lock' \in {t, Null},
           \/ stack' = stack /\ lock' = Null
           \/ \E f \in FrameSet : Plain(f.pc) /\ Stack(t, <<f>>)
           \/ \E f \in FrameSet : \E b \in FrameSet : Plain(f.pc) /\ b.pc \in BelowPC /\ Stack(t, <<f, b>>)
    PROVE  Moves(t)
<1>0. Stacks
  BY DEF SessionInv
<1>1. CASE stack' = stack /\ lock' = Null
  <2>1. Stacks' /\ Elsewhere(t) /\ TopIn(stack'[t]).pc = "idle" /\ Null # t
    BY <1>0, <1>1, TopFacts, IdFacts DEF Stacks, Elsewhere
  <2> QED BY <1>1, <2>1 DEF Moves, Locks, Arrives, HandlerPC
<1>2. ASSUME NEW f \in FrameSet, Plain(f.pc), Stack(t, <<f>>) PROVE Moves(t)
  <2>1. Shaped(t, {f.pc}, {}) /\ TopIn(stack'[t]) = f /\ stack'[t] # <<>>
    BY <1>0, <1>2, BeginShape
  <2> QED BY <2>1, <1>2 DEF Moves, Locks, Shaped, Arrives, Plain
<1>3. ASSUME NEW f \in FrameSet, NEW b \in FrameSet, Plain(f.pc), b.pc \in BelowPC, Stack(t, <<f, b>>) PROVE Moves(t)
  <2>1. Shaped(t, {f.pc}, {b.pc}) /\ TopIn(stack'[t]) = f /\ stack'[t] # <<>>
    BY <1>0, <1>3, BeginTwoShape
  <2> QED BY <2>1, <1>3 DEF Moves, Locks, Shaped, Arrives, Plain
<1> QED BY <1>1, <1>2, <1>3

\* A step that changes no peer.
LEMMA CalmKeeps ==
    ASSUME SessionInv, NEW t \in Threads, Moves(t), UNCHANGED <<peers, next_peer_id>>, Values'
    PROVE  SessionInv' /\ StaysClosing
<1>1. \A p \in PeerIds : PeerMoves(t, p)
  BY DEF PeerMoves
<1>2. next_peer_id \in Nat /\ next_peer_id' = next_peer_id
  BY DEF SessionInv, Values
<1>3. next_peer_id <= next_peer_id'
  BY <1>2
<1> QED BY <1>1, <1>3, MoveKeeps DEF Moves

\* A step that changes nothing but where a thread is.
LEMMA ControlKeeps ==
    ASSUME SessionInv, NEW t \in Threads, Moves(t), UNCHANGED <<state, listening, table, ids, starts, hist>>
    PROVE  SessionInv' /\ StaysClosing
<1>1. Values' /\ UNCHANGED <<peers, next_peer_id>>
  BY DEF SessionInv, Values, table, ids, hist
<1> QED BY <1>1, CalmKeeps

\* A failing assert() leaves everything as it is.
LEMMA AbortKeeps ==
    ASSUME SessionInv, UNCHANGED <<run, state, listening, table, ids, starts, hist>>
    PROVE  SessionInv' /\ StaysClosing
<1>1. UNCHANGED <<lock, stack, state, listening, peers, player_to_peer_id, next_peer_id, next_player_id,
                  host_player_id, local_player_id, starts, told, completes, host_ok>>
  BY DEF run, table, ids, hist
<1>2. LockOK' /\ Values' /\ Stacks'
  BY <1>1 DEF SessionInv, LockOK, Values, Stacks
<1>3. Fresh' /\ Indicating' /\ Handling' /\ Waiting' /\ StaysClosing
  BY <1>1 DEF SessionInv, Fresh, Indicating, Handling, Waiting, StaysClosing, Present
<1> QED BY <1>2, <1>3 DEF SessionInv

\* What the application is told has its type.
LEMMA ToldFacts ==
    ASSUME Values, NEW x
    PROVE  /\ Create(x) \in [Players -> {"unknown", "present", "gone", "twice", "unheard"}]
           /\ Destroy(x) \in [Players -> {"unknown", "present", "gone", "twice", "unheard"}]
BY DEF Values, Create, Destroy

\* peer_destroy_all() and others take the first of some numbers.
LEMMA MinFacts ==
    ASSUME NEW S \in SUBSET Nat, S # {}
    PROVE  Min(S) \in S
<1> DEFINE R == OpToRel(<, Nat)
<1>1. IsWellFoundedOn(R, Nat)
  BY NatLessThanWellFounded
<1>2. PICK x \in S : \A y \in S : ~(<<y, x>> \in R)
  BY <1>1, WFMin
<1>3. ASSUME NEW y \in S PROVE x <= y
  <2>1. x \in Nat /\ y \in Nat /\ ~(<<y, x>> \in R)
    BY <1>2
  <2>2. R = {ss \in Nat \X Nat : ss[1] < ss[2]}
    BY Zenon DEF OpToRel
  <2>3. y < x => <<y, x>> \in {ss \in Nat \X Nat : ss[1] < ss[2]}
    BY <2>1
  <2> HIDE DEF R
  <2> QED BY <2>1, <2>2, <2>3
<1> QED BY <1>2, <1>3 DEF Min

-------------------------------------------------------------------------------
(* The steps, one by one.                                                    *)

\* What every step has to do.
Kept == SessionInv' /\ StaysClosing

\* Frames of functions that work on a peer.
LEMMA PeerFrames ==
    ASSUME NEW p \in PeerIds,
           NEW pc \in {"destroy", "flushcb", "destroyflushed", "hostlostcb", "hostlostselfcb", "erase",
                       "shutdown", "shutdowncb", "readdone", "createcb", "peerokcb", "connectfailed"}
    PROVE  Frame(pc, p) \in FrameSet /\ Frame(pc, p).pc = pc /\ Plain(pc)
<1>1. pc \in PCs /\ pc \notin PlayerPC \cup ListPC \cup ClosePC \cup TerminatePC
  BY DEF PCs, PeerPC, NullPC, PlayerPC, ListPC, ClosePC, TerminatePC
<1>2. Plain(pc)
  BY DEF Plain, HandlerPC
<1> QED BY <1>1, <1>2, FrameFacts

\* Frames of functions that do not.
LEMMA NullFrames ==
    ASSUME NEW pc \in NullPC
    PROVE  Frame(pc, Null) \in FrameSet /\ Frame(pc, Null).pc = pc /\ (pc # "closewait" => Plain(pc))
<1>1. pc \in PCs /\ pc \notin PlayerPC \cup ListPC \cup ClosePC \cup TerminatePC
  BY DEF PCs, NullPC, PlayerPC, ListPC, ClosePC, TerminatePC
<1>2. pc \notin PeerPC /\ (pc # "closewait" => Plain(pc))
  BY DEF Plain, HandlerPC, PeerPC, NullPC
<1> QED BY <1>1, <1>2, FrameFacts

\* The frame of a thread that runs, or resumes, at a place that knows its peer.
LEMMA AtPeer ==
    ASSUME SessionInv, NEW t \in Threads, NEW pc, Runs(t, pc) \/ Resumes(t, pc)
    PROVE  /\ lock \in {t, Null} /\ stack[t] # <<>> /\ Top(t) \in FrameSet /\ Top(t) = TopIn(stack[t])
           /\ Top(t).pc = pc /\ Top(t).arg \in Args
           /\ pc \in PeerPC => Top(t).peer \in PeerIds
<1>1. lock \in {t, Null} /\ stack[t] # <<>> /\ Top(t).pc = pc
  BY DEF Runs, Resumes
<1>2. Top(t) \in FrameSet /\ Top(t) = TopIn(stack[t])
  BY <1>1, TopFacts DEF SessionInv
<1>3. Top(t).arg \in Args /\ (pc \in PeerPC => Top(t).peer \in PeerIds)
  BY <1>1, <1>2 DEF FrameSet
<1> QED BY <1>1, <1>2, <1>3

\* A step that changes the application's knowledge and where a thread is.
LEMMA ToldKeeps ==
    ASSUME SessionInv, NEW t \in Threads, Moves(t), UNCHANGED <<state, listening, table, ids, starts, completes>>,
           \/ told' = told
           \/ \E x : told' = Destroy(x)
           \/ \E x : told' = Create(x)
    PROVE  Kept
<1>1. Values
  BY DEF SessionInv
<1>2. told' \in [Players -> {"unknown", "present", "gone", "twice", "unheard"}]
  BY <1>1, ToldFacts DEF Values
<1>3. Values' /\ UNCHANGED <<peers, next_peer_id>>
  BY <1>1, <1>2 DEF Values, table, ids
<1> QED BY <1>3, CalmKeeps DEF Kept

\* A step that changes peers and not their number.
LEMMA PeersKeep ==
    ASSUME SessionInv, NEW t \in Threads, Moves(t), UNCHANGED <<next_peer_id>>, Values',
           \A p \in PeerIds : PeerMoves(t, p)
    PROVE  Kept
<1>1. next_peer_id \in Nat /\ next_peer_id' = next_peer_id
  BY DEF SessionInv, Values
<1>2. next_peer_id <= next_peer_id'
  BY <1>1
<1> QED BY <1>2, MoveKeeps DEF Moves, Kept

\* peer_destroy() before DESTROY_PLAYER.
LEMMA FlushKeeps ==
    ASSUME SessionInv, NEW t \in Threads, DestroyFlush(t) \/ DestroyFlushed(t)
    PROVE  Kept
<1>1. CASE DestroyFlush(t)
  <2>1. lock \in {t, Null} /\ stack[t] # <<>> /\ Top(t).peer \in PeerIds
    BY <1>1, AtPeer DEF DestroyFlush, PeerPC
  <2> DEFINE f == Frame("flushcb", Top(t).peer)
  <2>2. f \in FrameSet /\ Plain(f.pc)
    BY <2>1, PeerFrames
  <2>3. Unlock(t, f)
    BY <1>1 DEF DestroyFlush
  <2> HIDE DEF f
  <2>4. Moves(t)
    BY <2>1, <2>2, <2>3, RunMoves
  <2>5. UNCHANGED <<state, listening, table, ids, starts, hist>>
    BY <1>1 DEF DestroyFlush
  <2> QED BY <2>4, <2>5, ControlKeeps DEF Kept
<1>2. CASE DestroyFlushed(t)
  <2>1. lock \in {t, Null} /\ stack[t] # <<>> /\ Top(t).peer \in PeerIds
    BY <1>2, AtPeer DEF DestroyFlushed, PeerPC
  <2> DEFINE f == Frame("destroyflushed", Top(t).peer)
  <2>2. f \in FrameSet /\ Plain(f.pc)
    BY <2>1, PeerFrames
  <2>3. Return(t) \/ Goto(t, f)
    BY <1>2 DEF DestroyFlushed
  <2> HIDE DEF f
  <2>4. Moves(t)
    BY <2>1, <2>2, <2>3, RunMoves
  <2>5. UNCHANGED <<state, listening, table, ids, starts, hist>>
    BY <1>2 DEF DestroyFlushed
  <2> QED BY <2>4, <2>5, ControlKeeps DEF Kept
<1> QED BY <1>1, <1>2

\* A step that only moves thread t, which is in some function; one that also tells
\* the application something.
Shape(t) ==
    \/ \E f \in FrameSet : Plain(f.pc) /\ (Goto(t, f) \/ Unlock(t, f))
    \/ \E f \in FrameSet : \E b \in FrameSet : Plain(f.pc) /\ b.pc \in BelowPC /\ Call(t, f, b)
    \/ Return(t) \/ ReturnAndNotify(t, "closewait") \/ ReturnAndNotify(t, "connectwait")

\* The same as RunMoves, and what follows when no peer changes.
LEMMA ShapeKeeps ==
    ASSUME SessionInv, NEW t \in Threads, lock \in {t, Null}, stack[t] # <<>>, Shape(t)
    PROVE  /\ Moves(t)
           /\ UNCHANGED <<state, listening, table, ids, starts, hist>> => Kept
           /\ /\ UNCHANGED <<state, listening, table, ids, starts, completes>>
              /\ told' = told \/ (\E x : told' = Destroy(x)) \/ (\E x : told' = Create(x))
              => Kept
           /\ UNCHANGED <<peers, next_peer_id>> /\ Values' => Kept
<1>1. Moves(t)
  BY RunMoves DEF Shape
<1> QED BY <1>1, ControlKeeps, ToldKeeps, CalmKeeps DEF Kept

\* A record of a peer with another state, player or recv_busy.
LEMMA PeerRecFacts ==
    ASSUME NEW r \in PeerRecs, NEW st \in PeerStates, NEW x \in Players \cup {Null}, NEW b \in BOOLEAN
    PROVE  /\ [r EXCEPT !.st = st] \in PeerRecs /\ [r EXCEPT !.st = st].st = st
           /\ [r EXCEPT !.recv_busy = b] \in PeerRecs /\ [r EXCEPT !.recv_busy = b].st = r.st
           /\ [r EXCEPT !.st = st, !.player = x] \in PeerRecs /\ [r EXCEPT !.st = st, !.player = x].st = st
           /\ r # Null
BY SessionAssumption DEF PeerRecs

\* A record of a peer in another state.
LEMMA NewStateFacts ==
    ASSUME NEW r \in PeerRecs, NEW st \in PeerStates
    PROVE  LET n == [r EXCEPT !.st = st] IN n \in PeerRecs /\ n.st = st /\ n # Null
<1>1. [r EXCEPT !.st = st] \in PeerRecs /\ [r EXCEPT !.st = st].st = st
  BY DEF PeerRecs
<1> QED BY <1>1, SessionAssumption

\* The other variables of a step that changes a peer.
Rest1 ==
    /\ UNCHANGED <<listening, next_peer_id, starts, completes>>
    /\ state' \in SessionStates /\ next_player_id' \in Nat
    /\ host_player_id' \in 0..MaxPlayers /\ local_player_id' \in 0..MaxPlayers
    /\ player_to_peer_id' \in [Players -> PeerIds \cup {Null}]
    /\ told' = told \/ (\E x : told' = Destroy(x)) \/ (\E x : told' = Create(x))

\* A step that changes or removes one peer.
LEMMA PeerSetKeeps ==
    ASSUME SessionInv, NEW t \in Threads, Moves(t), Rest1, NEW p \in PeerIds, NEW r \in {Null} \cup PeerRecs,
           peers' = [peers EXCEPT ![p] = r],
           \/ r = Null \/ r = peers[p]
           \/ /\ peers[p] # Null
              /\ \/ r.st = peers[p].st
                 \/ r.st = "closing" /\ peers[p].st # "indicating"
                 \/ peers[p].st \notin {"indicating", "closing"}
                 \/ TopIn(stack[t]).pc = "indicatecb" /\ TopIn(stack[t]).peer = p
    PROVE  Kept
<1>1. Values
  BY DEF SessionInv
<1>2. peers'[p] = r /\ \A q \in PeerIds \ {p} : peers'[q] = peers[q]
  BY <1>1 DEF Values
<1>3. peers' \in [PeerIds -> {Null} \cup PeerRecs]
  BY <1>1 DEF Values
<1>4. told' \in [Players -> {"unknown", "present", "gone", "twice", "unheard"}]
  BY <1>1, ToldFacts DEF Rest1, Values
<1>5. Values'
  BY <1>1, <1>3, <1>4 DEF Rest1, Values
<1>6. ASSUME NEW q \in PeerIds PROVE PeerMoves(t, q)
  <2>1. CASE q = p
    BY <2>1, <1>2 DEF PeerMoves
  <2>2. CASE q # p
    BY <2>2, <1>2 DEF PeerMoves
  <2> QED BY <2>1, <2>2
<1>7. UNCHANGED next_peer_id
  BY DEF Rest1
<1> QED BY <1>5, <1>6, <1>7, PeersKeep

\* The state of a session whose other variables do not change.
LEMMA Rest1Holds ==
    ASSUME SessionInv, UNCHANGED <<state, listening, ids, starts, completes>>,
           player_to_peer_id' \in [Players -> PeerIds \cup {Null}],
           told' = told \/ (\E x : told' = Destroy(x)) \/ (\E x : told' = Create(x))
    PROVE  Rest1
BY DEF SessionInv, Values, Rest1, ids

\* peer_destroy() indicates DESTROY_PLAYER, fails a Connect(), or goes on.
LEMMA DestroyPeerStateKeeps ==
    ASSUME SessionInv, NEW t \in Threads, DestroyPeerState(t)
    PROVE  Kept
<1> DEFINE p == Top(t).peer
<1>1. lock \in {t, Null} /\ stack[t] # <<>> /\ p \in PeerIds
  BY AtPeer DEF DestroyPeerState, PeerPC
<1> HIDE DEF p
<1>2. CASE Abort("assert(peer != NULL) in peer_destroy")
  BY <1>2, AbortKeeps DEF Abort, Kept
<1>3. CASE /\ peers[p] # Null /\ peers[p].st = "connected"
           /\ peers' = [peers EXCEPT ![p].st = "closing"]
           /\ told' = Destroy(peers[p].player)
           /\ Unlock(t, With(Frame("destroycb", p), peers[p].player))
           /\ UNCHANGED <<state, listening, player_to_peer_id, ids, starts, completes, host_ok, fault>>
  <2> DEFINE f == With(Frame("destroycb", p), peers[p].player)
             r == [peers[p] EXCEPT !.st = "closing"]
  <2>1. peers[p] \in PeerRecs
    BY <1>1, <1>3 DEF SessionInv, Values
  <2>2. peers[p].player \in Players \cup {Null}
    BY <2>1 DEF PeerRecs
  <2>3. f \in FrameSet /\ Plain(f.pc)
    <3>1. peers[p].player \in Args
      BY <2>2 DEF Args
    <3>2. "destroycb" \in PCs /\ "destroycb" \notin PlayerPC \cup ListPC \cup ClosePC \cup TerminatePC /\ Plain("destroycb")
      BY DEF PCs, PeerPC, PlayerPC, ListPC, ClosePC, TerminatePC, Plain, HandlerPC
    <3> QED BY <3>1, <3>2, <1>1, WithFacts
  <2>4. r \in PeerRecs /\ r.st = "closing"
    BY <2>1, PeerRecFacts DEF PeerStates
  <2>5. peers' = [peers EXCEPT ![p] = r]
    BY <1>3
  <2>6. Unlock(t, f)
    BY <1>3
  <2> HIDE DEF f, r
  <2>7. Moves(t)
    BY <1>1, <2>3, <2>6, ShapeKeeps DEF Shape
  <2>8. Rest1
    <3>1. player_to_peer_id' \in [Players -> PeerIds \cup {Null}]
      BY <1>3 DEF SessionInv, Values
    <3> QED BY <3>1, <1>3, Rest1Holds
  <2> QED BY <1>1, <1>3, <2>4, <2>5, <2>7, <2>8, PeerSetKeeps
<1>4. CASE /\ Call(t, Frame("fail", Null), Frame("erase", p)) \/ Goto(t, Frame("erase", p))
           /\ UNCHANGED <<state, listening, table, ids, starts, hist, fault>>
  <2> DEFINE f == Frame("fail", Null)
             b == Frame("erase", p)
  <2>1. f \in FrameSet /\ Plain(f.pc) /\ b \in FrameSet /\ Plain(b.pc) /\ b.pc \in BelowPC
    <3>1. f \in FrameSet /\ Plain(f.pc)
      BY NullFrames DEF NullPC
    <3>2. b \in FrameSet /\ b.pc = "erase" /\ Plain(b.pc)
      BY <1>1, PeerFrames
    <3> QED BY <3>1, <3>2 DEF BelowPC
  <2>2. Call(t, f, b) \/ Goto(t, b)
    BY <1>4
  <2> HIDE DEF f, b
  <2>3. Shape(t)
    BY <2>1, <2>2 DEF Shape
  <2> QED BY <1>1, <1>4, <2>3, ShapeKeeps
<1> QED BY <1>2, <1>3, <1>4 DEF DestroyPeerState, p

\* peer_destroy() after DESTROY_PLAYER.
LEMMA DestroyIndicatedKeeps ==
    ASSUME SessionInv, NEW t \in Threads, DestroyIndicated(t)
    PROVE  Kept
<1> DEFINE f == Frame("hostlostcb", Top(t).peer)
           b == Frame("erase", Top(t).peer)
<1>1. lock \in {t, Null} /\ stack[t] # <<>> /\ Top(t).peer \in PeerIds
  BY AtPeer DEF DestroyIndicated, PeerPC
<1>2. f \in FrameSet /\ Plain(f.pc) /\ b \in FrameSet /\ Plain(b.pc)
  BY <1>1, PeerFrames
<1>3. Unlock(t, f) \/ Goto(t, b)
  BY DEF DestroyIndicated
<1> HIDE DEF f, b
<1>4. Shape(t)
  BY <1>2, <1>3 DEF Shape
<1>5. Values' /\ UNCHANGED <<peers, next_peer_id>>
  BY DEF SessionInv, Values, DestroyIndicated, ids, hist, SessionStates
<1> QED BY <1>1, <1>4, <1>5, ShapeKeeps

\* The host's connection is lost: the session is terminated.
LEMMA HostLostKeeps ==
    ASSUME SessionInv, NEW t \in Threads, HostLost(t) \/ HostLostDone(t)
    PROVE  Kept
<1>1. CASE HostLost(t)
  <2> DEFINE f == Frame("hostlostselfcb", Top(t).peer)
  <2>1. lock \in {t, Null} /\ stack[t] # <<>> /\ Top(t).peer \in PeerIds
    BY <1>1, AtPeer DEF HostLost, PeerPC
  <2>2. f \in FrameSet /\ Plain(f.pc)
    BY <2>1, PeerFrames
  <2>3. Unlock(t, f)
    BY <1>1 DEF HostLost
  <2> HIDE DEF f
  <2>4. Shape(t)
    BY <2>2, <2>3 DEF Shape
  <2>5. UNCHANGED <<state, listening, table, ids, starts, completes>> /\ (\E x : told' = Destroy(x))
    BY <1>1 DEF HostLost
  <2> QED BY <2>1, <2>4, <2>5, ShapeKeeps
<1>2. CASE HostLostDone(t)
  <2> DEFINE f == Frame("destroyall", Null)
             b == Frame("erase", Top(t).peer)
  <2>1. lock \in {t, Null} /\ stack[t] # <<>> /\ Top(t).peer \in PeerIds
    BY <1>2, AtPeer DEF HostLostDone, PeerPC
  <2>2. f \in FrameSet /\ Plain(f.pc)
    BY NullFrames DEF NullPC
  <2>3. b \in FrameSet /\ b.pc = "erase"
    BY <2>1, PeerFrames
  <2>4. b.pc \in BelowPC
    BY <2>3 DEF BelowPC
  <2>5. Call(t, f, b)
    BY <1>2 DEF HostLostDone
  <2> HIDE DEF f, b
  <2>6. Shape(t)
    BY <2>2, <2>3, <2>4, <2>5 DEF Shape
  <2>7. UNCHANGED <<state, listening, table, ids, starts, hist>>
    BY <1>2 DEF HostLostDone
  <2> QED BY <2>1, <2>6, <2>7, ShapeKeeps
<1> QED BY <1>1, <1>2

\* peer_destroy() takes the peer out of the map.
LEMMA EraseKeeps ==
    ASSUME SessionInv, NEW t \in Threads, Erase(t)
    PROVE  Kept
<1> DEFINE p == Top(t).peer
<1>1. lock \in {t, Null} /\ stack[t] # <<>> /\ p \in PeerIds
  BY AtPeer DEF Erase, PeerPC
<1>2. Shape(t)
  BY DEF Shape, Erase
<1>3. Moves(t)
  BY <1>1, <1>2, ShapeKeeps
<1>4. peers' = [peers EXCEPT ![p] = Null]
  BY DEF Erase
<1>5. Rest1
  <2>1. player_to_peer_id' \in [Players -> PeerIds \cup {Null}]
    BY DEF SessionInv, Values, Erase
  <2>2. UNCHANGED <<state, listening, ids, starts, completes, told>>
    BY DEF Erase, hist
  <2> QED BY <2>1, <2>2, Rest1Holds
<1> HIDE DEF p
<1> QED BY <1>1, <1>3, <1>4, <1>5, PeerSetKeeps

\* The first of the peers is a peer.
LEMMA FirstPeer == \A S \in SUBSET PeerIds : S # {} => Min(S) \in PeerIds
BY MinFacts, IdFacts

\* peer_destroy_all() and peer_shutdown_all().
LEMMA AllKeeps ==
    ASSUME SessionInv, NEW t \in Threads, DestroyAll(t) \/ ShutdownAll(t)
    PROVE  Kept
<1>1. lock \in {t, Null} /\ stack[t] # <<>>
  BY AtPeer DEF DestroyAll, ShutdownAll
<1>2. CASE DestroyAll(t)
  <2> DEFINE f == Frame("destroy", Min(Present))
             b == Frame("destroyall", Null)
  <2>1. b \in FrameSet /\ b.pc \in BelowPC
    BY NullFrames DEF NullPC, BelowPC
  <2>2. Present # {} => f \in FrameSet /\ Plain(f.pc)
    <3>1. Present # {} => Min(Present) \in PeerIds
      BY FirstPeer DEF Present
    <3> QED BY <3>1, PeerFrames
  <2>3. Return(t) \/ (Present # {} /\ Call(t, f, b))
    BY <1>2 DEF DestroyAll
  <2> HIDE DEF f, b
  <2>4. Shape(t)
    BY <2>1, <2>2, <2>3 DEF Shape
  <2>5. UNCHANGED <<state, listening, table, ids, starts, hist>>
    BY <1>2 DEF DestroyAll
  <2> QED BY <1>1, <2>4, <2>5, ShapeKeeps
<1>3. CASE ShutdownAll(t)
  <2> DEFINE open == {p \in Present : peers[p].st # "closing"}
             f == Frame("shutdown", Min(open))
             b == Frame("shutdownall", Null)
  <2>1. b \in FrameSet /\ b.pc \in BelowPC
    BY NullFrames DEF NullPC, BelowPC
  <2>2. open # {} => f \in FrameSet /\ Plain(f.pc)
    <3>1. open \in SUBSET PeerIds
      BY DEF Present
    <3> HIDE DEF open
    <3>2. open # {} => Min(open) \in PeerIds
      BY <3>1, FirstPeer
    <3> QED BY <3>2, PeerFrames
  <2>3. Return(t) \/ (open # {} /\ Call(t, f, b))
    BY <1>3 DEF ShutdownAll
  <2> HIDE DEF f, b, open
  <2>4. Shape(t)
    BY <2>1, <2>2, <2>3 DEF Shape
  <2>5. UNCHANGED <<state, listening, table, ids, starts, hist>>
    BY <1>3 DEF ShutdownAll
  <2> QED BY <1>1, <2>4, <2>5, ShapeKeeps
<1> QED BY <1>2, <1>3

\* peer_shutdown().
LEMMA PeerShutdownKeeps ==
    ASSUME SessionInv, NEW t \in Threads, PeerShutdown(t)
    PROVE  Kept
<1> DEFINE p == Top(t).peer
<1>1. lock \in {t, Null} /\ stack[t] # <<>> /\ p \in PeerIds
  BY AtPeer DEF PeerShutdown, PeerPC
<1> HIDE DEF p
<1>2. CASE Abort("assert(peer != NULL) in peer_shutdown")
  BY <1>2, AbortKeeps DEF Abort, Kept
<1>3. CASE /\ peers[p] # Null /\ peers[p].st = "connected"
           /\ peers' = [peers EXCEPT ![p].st = "closing"]
           /\ told' = Destroy(peers[p].player)
           /\ Unlock(t, Frame("shutdowncb", p))
           /\ UNCHANGED <<state, listening, player_to_peer_id, ids, starts, completes, host_ok, fault>>
  <2> DEFINE f == Frame("shutdowncb", p)
             r == [peers[p] EXCEPT !.st = "closing"]
  <2>1. peers[p] \in PeerRecs
    BY <1>1, <1>3 DEF SessionInv, Values
  <2>2. f \in FrameSet /\ Plain(f.pc)
    BY <1>1, PeerFrames
  <2>3. r \in PeerRecs /\ r.st = "closing"
    BY <2>1, PeerRecFacts DEF PeerStates
  <2>4. peers' = [peers EXCEPT ![p] = r] /\ Unlock(t, f)
    BY <1>3
  <2> HIDE DEF f, r
  <2>5. Moves(t)
    BY <1>1, <2>2, <2>4, ShapeKeeps DEF Shape
  <2>6. Rest1
    <3>1. player_to_peer_id' \in [Players -> PeerIds \cup {Null}]
      BY <1>3 DEF SessionInv, Values
    <3> QED BY <3>1, <1>3, Rest1Holds
  <2> QED BY <1>1, <1>3, <2>3, <2>4, <2>5, <2>6, PeerSetKeeps
<1>4. CASE /\ Return(t) \/ Goto(t, Frame("destroy", p))
           /\ UNCHANGED <<state, listening, table, ids, starts, hist, fault>>
  <2> DEFINE f == Frame("destroy", p)
  <2>1. f \in FrameSet /\ Plain(f.pc)
    BY <1>1, PeerFrames
  <2>2. Return(t) \/ Goto(t, f)
    BY <1>4
  <2> HIDE DEF f
  <2>3. Shape(t)
    BY <2>1, <2>2 DEF Shape
  <2> QED BY <1>1, <1>4, <2>3, ShapeKeeps
<1> QED BY <1>2, <1>3, <1>4 DEF PeerShutdown, p

\* peer_shutdown() after DESTROY_PLAYER.
LEMMA ShutdownIndicatedKeeps ==
    ASSUME SessionInv, NEW t \in Threads, ShutdownIndicated(t)
    PROVE  Kept
<1>1. lock \in {t, Null} /\ stack[t] # <<>>
  BY AtPeer DEF ShutdownIndicated
<1>2. Shape(t)
  BY DEF Shape, ShutdownIndicated
<1>3. player_to_peer_id' \in [Players -> PeerIds \cup {Null}]
  BY DEF SessionInv, Values, ShutdownIndicated
<1>4. Values' /\ UNCHANGED <<peers, next_peer_id>>
  BY <1>3 DEF SessionInv, Values, ShutdownIndicated, ids, hist
<1> QED BY <1>1, <1>2, <1>4, ShapeKeeps

\* connect_check().
LEMMA CheckKeeps ==
    ASSUME SessionInv, NEW t \in Threads, ConnectCheck(t) \/ ConnectChecked(t)
    PROVE  Kept
<1>1. lock \in {t, Null} /\ stack[t] # <<>>
  BY AtPeer DEF ConnectCheck, ConnectChecked
<1>2. CASE Abort("assert(state) in connect_check")
  BY <1>2, AbortKeeps DEF Abort, Kept
<1>3. CASE Return(t) /\ UNCHANGED <<state, listening, table, ids, starts, hist, fault>>
  BY <1>1, <1>3, ShapeKeeps DEF Shape
<1>4. CASE /\ state' = "connected" /\ completes' = completes + 1
           /\ Unlock(t, Frame("checkcb", Null))
           /\ UNCHANGED <<listening, table, ids, starts, told, host_ok, fault>>
  <2> DEFINE f == Frame("checkcb", Null)
  <2>1. f \in FrameSet /\ Plain(f.pc)
    BY NullFrames DEF NullPC
  <2>2. Unlock(t, f)
    BY <1>4
  <2> HIDE DEF f
  <2>3. Shape(t)
    BY <2>1, <2>2 DEF Shape
  <2>4. Values' /\ UNCHANGED <<peers, next_peer_id>>
    BY <1>4 DEF SessionInv, Values, ids, table, SessionStates
  <2> QED BY <1>1, <2>3, <2>4, ShapeKeeps
<1>5. CASE ConnectChecked(t)
  BY <1>1, <1>5, ShapeKeeps DEF Shape, ConnectChecked
<1> QED BY <1>2, <1>3, <1>4, <1>5 DEF ConnectCheck

\* connect_fail() sets the state and destroys all peers.
LEMMA FailKeeps ==
    ASSUME SessionInv, NEW t \in Threads, ConnectFail(t)
    PROVE  Kept
<1>1. lock \in {t, Null} /\ stack[t] # <<>>
  BY AtPeer DEF ConnectFail
<1>2. CASE Abort("assert(state) in connect_fail")
  BY <1>2, AbortKeeps DEF Abort, Kept
<1>3. CASE /\ state' = "connect_failed" /\ listening' = FALSE
           /\ Call(t, Frame("destroyall", Null), With(Frame("failself", Null), state))
           /\ UNCHANGED <<table, ids, starts, hist, fault>>
  <2> DEFINE f == Frame("destroyall", Null)
             b == With(Frame("failself", Null), state)
  <2>1. f \in FrameSet /\ Plain(f.pc)
    BY NullFrames DEF NullPC
  <2>2. b \in FrameSet /\ b.pc = "failself"
    <3>1. "failself" \in PCs /\ "failself" \notin PeerPC \cup PlayerPC \cup ListPC \cup ClosePC \cup TerminatePC
      BY DEF PCs, NullPC, PeerPC, PlayerPC, ListPC, ClosePC, TerminatePC
    <3>2. state \in Args
      BY DEF SessionInv, Values, Args
    <3> QED BY <3>1, <3>2, WithFacts
  <2>3. b.pc \in BelowPC
    BY <2>2 DEF BelowPC
  <2>4. Call(t, f, b)
    BY <1>3
  <2> HIDE DEF f, b
  <2>5. Shape(t)
    BY <2>1, <2>2, <2>3, <2>4 DEF Shape
  <2>6. Values' /\ UNCHANGED <<peers, next_peer_id>>
    BY <1>3 DEF SessionInv, Values, ids, table, hist, SessionStates
  <2> QED BY <1>1, <2>5, <2>6, ShapeKeeps
<1> QED BY <1>2, <1>3 DEF ConnectFail

\* connect_fail() indicates and returns.
LEMMA FailedKeeps ==
    ASSUME SessionInv, NEW t \in Threads, ConnectFailSelf(t) \/ ConnectFailComplete(t) \/ ConnectFailed(t)
    PROVE  Kept
<1>1. lock \in {t, Null} /\ stack[t] # <<>>
  BY AtPeer DEF ConnectFailSelf, ConnectFailComplete, ConnectFailed
<1>2. CASE ConnectFailSelf(t)
  <2> DEFINE f == Frame("failselfcb", Null)
             g == Frame("failcomplete", Null)
  <2>1. f \in FrameSet /\ Plain(f.pc) /\ g \in FrameSet /\ Plain(g.pc)
    BY NullFrames DEF NullPC
  <2>2. Unlock(t, f) \/ Goto(t, g)
    BY <1>2 DEF ConnectFailSelf
  <2> HIDE DEF f, g
  <2>3. Shape(t)
    BY <2>1, <2>2 DEF Shape
  <2>4. UNCHANGED <<state, listening, table, ids, starts, completes>> /\ (told' = told \/ \E x : told' = Destroy(x))
    BY <1>2 DEF ConnectFailSelf
  <2> QED BY <1>1, <2>3, <2>4, ShapeKeeps
<1>3. CASE ConnectFailComplete(t)
  <2> DEFINE f == Frame("failcb", Null)
  <2>1. f \in FrameSet /\ Plain(f.pc)
    BY NullFrames DEF NullPC
  <2>2. Unlock(t, f)
    BY <1>3 DEF ConnectFailComplete
  <2> HIDE DEF f
  <2>3. Shape(t)
    BY <2>1, <2>2 DEF Shape
  <2>4. Values' /\ UNCHANGED <<peers, next_peer_id>>
    BY <1>3 DEF SessionInv, Values, ids, table, ConnectFailComplete
  <2> QED BY <1>1, <2>3, <2>4, ShapeKeeps
<1>4. CASE ConnectFailed(t)
  <2>1. Shape(t)
    BY <1>4 DEF Shape, ConnectFailed
  <2>2. Values' /\ UNCHANGED <<peers, next_peer_id>>
    BY <1>4 DEF SessionInv, Values, ids, table, hist, ConnectFailed, SessionStates
  <2> QED BY <1>1, <2>1, <2>2, ShapeKeeps
<1> QED BY <1>2, <1>3, <1>4

\* A thread that was idle begins.
Starting(t) ==
    \/ stack' = stack /\ lock' = Null
    \/ \E f \in FrameSet : Plain(f.pc) /\ Stack(t, <<f>>)
    \/ \E f \in FrameSet : \E b \in FrameSet : Plain(f.pc) /\ b.pc \in BelowPC /\ Stack(t, <<f, b>>)

\* The same as BeginMoves.
LEMMA StartingMoves ==
    ASSUME SessionInv, NEW t \in Threads, lock = Null, stack[t] = <<>>, lock' \in {t, Null}, Starting(t)
    PROVE  /\ Moves(t)
           /\ UNCHANGED <<state, listening, table, ids, starts, hist>> => Kept
           /\ UNCHANGED <<peers, next_peer_id>> /\ Values' => Kept
<1>1. Moves(t)
  BY BeginMoves DEF Starting
<1> QED BY <1>1, ControlKeeps, CalmKeeps DEF Kept

\* A connection is made or accepted, with a new id.
LEMMA NewPeerKeeps ==
    ASSUME SessionInv, NEW t \in Threads, Moves(t), next_peer_id \in PeerIds,
           NEW st \in PeerStates, peers' = [peers EXCEPT ![next_peer_id] = NewPeer(st, Null)],
           next_peer_id' = next_peer_id + 1,
           state' \in SessionStates, listening' \in BOOLEAN, starts' \in 0..MaxStarts, completes' \in Nat,
           UNCHANGED <<player_to_peer_id, next_player_id, host_player_id, local_player_id, told>>
    PROVE  Kept
<1>1. Values /\ Fresh
  BY DEF SessionInv
<1>2. NewPeer(st, Null) \in PeerRecs
  BY DEF NewPeer, PeerRecs
<1>3. peers' \in [PeerIds -> {Null} \cup PeerRecs]
  BY <1>1, <1>2 DEF Values
<1>4. Values'
  BY <1>1, <1>3 DEF Values
<1>5. peers[next_peer_id] = Null
  <2>1. next_peer_id \in Nat /\ ~(next_peer_id < next_peer_id)
    BY <1>1 DEF Values
  <2> QED BY <1>1, <2>1 DEF Fresh, Present
<1>6. ASSUME NEW q \in PeerIds PROVE PeerMoves(t, q)
  <2>1. CASE q = next_peer_id
    <3>1. next_peer_id \in Nat /\ next_peer_id <= q /\ q < next_peer_id'
      BY <2>1, <1>1 DEF Values
    <3> QED BY <2>1, <1>5, <3>1 DEF PeerMoves
  <2>2. CASE q # next_peer_id
    BY <2>2, <1>1 DEF PeerMoves, Values
  <2> QED BY <2>1, <2>2
<1>7. next_peer_id <= next_peer_id'
  BY <1>1 DEF Values
<1> QED BY <1>4, <1>6, <1>7, MoveKeeps DEF Moves, Kept

\* peer_accept().
LEMMA AcceptKeeps ==
    ASSUME SessionInv, NEW t \in Threads, Accept(t)
    PROVE  Kept
<1>1. lock = Null /\ stack[t] = <<>> /\ lock' = Null /\ stack' = stack
  BY DEF Accept, run
<1>2. Moves(t)
  BY <1>1, StartingMoves DEF Starting
<1>3. /\ state' \in SessionStates /\ listening' \in BOOLEAN /\ starts' \in 0..MaxStarts /\ completes' \in Nat
      /\ UNCHANGED <<player_to_peer_id, next_player_id, host_player_id, local_player_id, told>>
  BY DEF Accept, hist, SessionInv, Values
<1>4. next_peer_id \in PeerIds /\ peers' = [peers EXCEPT ![next_peer_id] = NewPeer("accepted", Null)]
      /\ next_peer_id' = next_peer_id + 1
  BY DEF Accept
<1>5. "accepted" \in PeerStates
  BY DEF PeerStates
<1> QED BY <1>2, <1>3, <1>4, <1>5, NewPeerKeeps

\* io_peer_connected().
LEMMA EstablishedKeeps ==
    ASSUME SessionInv, NEW t \in Threads, NEW p \in PeerIds, Established(t, p) \/ NotEstablished(t, p)
    PROVE  Kept
<1>1. CASE Abort("assert(state) in io_peer_triggered")
  BY <1>1, AbortKeeps DEF Abort, Kept
<1>2. CASE /\ lock = Null /\ stack[t] = <<>> /\ p \in Present /\ peers[p].st \in {"connecting_host", "connecting_peer"}
           /\ \E st \in {"requesting_host", "requesting_peer"} : peers' = [peers EXCEPT ![p].st = st]
           /\ UNCHANGED <<run, state, listening, player_to_peer_id, ids, starts, hist, fault>>
  <2>1. PICK st \in {"requesting_host", "requesting_peer"} : peers' = [peers EXCEPT ![p].st = st]
    BY <1>2
  <2> DEFINE r == [peers[p] EXCEPT !.st = st]
  <2>2. peers[p] \in PeerRecs /\ peers[p] # Null
    BY <1>2 DEF SessionInv, Values, Present
  <2>3. r \in PeerRecs /\ peers' = [peers EXCEPT ![p] = r]
    BY <2>1, <2>2, PeerRecFacts DEF PeerStates
  <2>4. Moves(t)
    BY <1>2, StartingMoves DEF Starting, run
  <2>5. Rest1
    <3>1. player_to_peer_id' \in [Players -> PeerIds \cup {Null}] /\ UNCHANGED <<completes, told>>
      BY <1>2 DEF SessionInv, Values, hist
    <3> QED BY <3>1, <1>2, Rest1Holds
  <2> HIDE DEF r
  <2> QED BY <1>2, <2>2, <2>3, <2>4, <2>5, PeerSetKeeps
<1>3. CASE /\ Begin(t, <<Frame("fail", Null)>>)
           /\ UNCHANGED <<state, listening, table, ids, starts, hist, fault>>
  <2> DEFINE f == Frame("fail", Null)
  <2>1. f \in FrameSet /\ Plain(f.pc)
    BY NullFrames DEF NullPC
  <2>2. lock = Null /\ stack[t] = <<>> /\ lock' = t /\ Stack(t, <<f>>)
    BY <1>3 DEF Begin
  <2> HIDE DEF f
  <2> QED BY <1>3, <2>1, <2>2, StartingMoves DEF Starting
<1>4. CASE Established(t, p)
  BY <1>1, <1>2, <1>4 DEF Established
<1>5. CASE NotEstablished(t, p)
  BY <1>1, <1>3, <1>5 DEF NotEstablished
<1> QED BY <1>4, <1>5

\* connect_fail() is called, and the function goes on after it.
LEMMA UnknownKeeps ==
    ASSUME SessionInv, NEW t \in Threads, NEW p \in PeerIds, ConnectionUnknown(t, p)
    PROVE  Kept
<1> DEFINE f == Frame("fail", Null)
           b == Frame("connectfailed", p)
<1>1. f \in FrameSet /\ Plain(f.pc)
  BY NullFrames DEF NullPC
<1>2. b \in FrameSet /\ b.pc \in BelowPC
  BY PeerFrames DEF BelowPC
<1>3. lock = Null /\ stack[t] = <<>> /\ lock' = t /\ Stack(t, <<f, b>>)
  BY DEF ConnectionUnknown, Begin
<1>4. UNCHANGED <<state, listening, table, ids, starts, hist>>
  BY DEF ConnectionUnknown
<1> HIDE DEF f, b
<1>5. Starting(t)
  BY <1>1, <1>2, <1>3 DEF Starting
<1> QED BY <1>3, <1>4, <1>5, StartingMoves

\* A thread that reads marks the peer as being read.
LEMMA ReadsKeeps ==
    ASSUME SessionInv, NEW t \in Threads, NEW p \in PeerIds, NEW s, Reads(t, p, s), Moves(t)
    PROVE  Kept
<1> DEFINE r == [peers[p] EXCEPT !.recv_busy = TRUE]
<1>1. peers[p] \in PeerRecs /\ peers[p] # Null
  BY DEF Reads, SessionInv, Values, Present
<1>2. r \in PeerRecs /\ r.st = peers[p].st /\ peers' = [peers EXCEPT ![p] = r]
  BY <1>1, PeerRecFacts DEF Reads, PeerStates
<1>3. Rest1
  <2>1. player_to_peer_id' \in [Players -> PeerIds \cup {Null}]
        /\ UNCHANGED <<state, listening, ids, starts, completes, told>>
    BY DEF Reads, SessionInv, Values, hist
  <2> QED BY <2>1, Rest1Holds
<1> HIDE DEF r
<1> QED BY <1>1, <1>2, <1>3, PeerSetKeeps

\* The end of a connection, noticed when sending or when reading.
LEMMA EndKeeps ==
    ASSUME SessionInv, NEW t \in Threads, NEW p \in PeerIds, SendFails(t, p) \/ ReadsEnd(t, p)
    PROVE  Kept
<1> DEFINE f == Frame("destroy", p)
<1>1. f \in FrameSet /\ Plain(f.pc)
  BY PeerFrames
<1>2. lock = Null /\ stack[t] = <<>> /\ lock' = t /\ Stack(t, <<f>>)
  BY DEF SendFails, ReadsEnd, Reads, Begin
<1>3. CASE SendFails(t, p)
  <2> HIDE DEF f
  <2>1. UNCHANGED <<state, listening, table, ids, starts, hist>>
    BY <1>3 DEF SendFails
  <2> QED BY <1>1, <1>2, <2>1, StartingMoves DEF Starting
<1>4. CASE ReadsEnd(t, p)
  <2>1. Reads(t, p, <<f>>)
    BY <1>4 DEF ReadsEnd
  <2> HIDE DEF f
  <2>2. Moves(t)
    BY <1>1, <1>2, StartingMoves DEF Starting
  <2> QED BY <2>1, <2>2, ReadsKeeps
<1> QED BY <1>3, <1>4

\* What a message may bring to its handler.
LEMMA MessageReads ==
    ASSUME SessionInv, NEW t \in Threads, NEW p \in Present, Message(t, p)
    PROVE  \E h \in HandlerPC : \E x \in Args :
              /\ ReadsMessage(t, p, h, x)
              /\ h \in PlayerPC => x \in Players
              /\ h \in ListPC => x \in PlayerLists
<1>0. peers[p].player \in Players \cup {Null}
  BY DEF SessionInv, Values, Present, PeerRecs
<1> DEFINE Fits(h, x) == x \in Args /\ (h \in PlayerPC => x \in Players) /\ (h \in ListPC => x \in PlayerLists)
<1>1. \A x \in BOOLEAN : Fits("host_connect_request", x)
  BY DEF Args, PlayerPC, ListPC
<1>2. \A x \in Players : Fits("connect_peer", x)
  BY DEF Args, PlayerPC, ListPC
<1>3. \A x \in PlayerLists : Fits("host_connect_ok", x)
  BY DEF Args, PlayerPC, ListPC
<1>4. Fits("connect_refused", [peer |-> "requesting_host", session |-> "connecting_to_host"])
      /\ Fits("connect_refused", [peer |-> "requesting_peer", session |-> "connecting_to_peers"])
  BY DEF Args, PlayerPC, ListPC, PeerStates, SessionStates
<1>5. Fits("connect_peer_ok", Null) /\ Fits("message", Null)
  BY DEF Args, PlayerPC, ListPC
<1>6. \A x \in Players \cup {0, Null} : Fits("destroy_message", x)
  BY DEF Args, PlayerPC, ListPC
<1> HIDE DEF Fits
<1>7. \E h \in HandlerPC : \E x : ReadsMessage(t, p, h, x) /\ Fits(h, x)
  <2>1. CASE \E x \in BOOLEAN : ReadsMessage(t, p, "host_connect_request", x)
    BY <2>1, <1>1 DEF HandlerPC
  <2>2. CASE \E x \in Players \ {1, 2} : ReadsMessage(t, p, "connect_peer", x)
    BY <2>2, <1>2 DEF HandlerPC
  <2>3. CASE \E x \in PlayerLists : ReadsMessage(t, p, "host_connect_ok", x)
    BY <2>3, <1>3 DEF HandlerPC
  <2>4. CASE \/ ReadsMessage(t, p, "connect_refused", [peer |-> "requesting_host", session |-> "connecting_to_host"])
             \/ ReadsMessage(t, p, "connect_refused", [peer |-> "requesting_peer", session |-> "connecting_to_peers"])
    BY <2>4, <1>4 DEF HandlerPC
  <2>5. CASE ReadsMessage(t, p, "connect_peer_ok", Null) \/ ReadsMessage(t, p, "message", Null)
    BY <2>5, <1>5 DEF HandlerPC
  <2>6. CASE \E x \in Players \cup {0, Null} : ReadsMessage(t, p, "destroy_message", x)
    BY <2>6, <1>6 DEF HandlerPC
  <2> QED BY <1>0, <2>1, <2>2, <2>3, <2>4, <2>5, <2>6 DEF Message
<1> QED BY <1>7 DEF Fits

\* A message is read.
LEMMA MessageKeeps ==
    ASSUME SessionInv, NEW t \in Threads, NEW p \in Present, Message(t, p)
    PROVE  Kept
<1>1. PICK h \in HandlerPC, x \in Args :
         ReadsMessage(t, p, h, x) /\ (h \in PlayerPC => x \in Players) /\ (h \in ListPC => x \in PlayerLists)
  BY MessageReads
<1> DEFINE f == With(Frame(h, p), x)
           b == Frame("readdone", p)
<1>2. p \in PeerIds /\ peers[p] # Null /\ peers[p] \in PeerRecs
  BY DEF Present, SessionInv, Values
<1>3. f \in FrameSet /\ f.pc = h /\ f.peer = p
  <2>1. h \in PCs /\ h \notin ClosePC \cup TerminatePC
    BY DEF HandlerPC, PCs, PeerPC, ClosePC, TerminatePC
  <2> QED BY <1>1, <1>2, <2>1, WithFacts
<1>4. b \in FrameSet /\ b.pc = "readdone"
  BY <1>2, PeerFrames
<1>5. Reads(t, p, <<f, b>>)
  BY <1>1 DEF ReadsMessage
<1> HIDE DEF f, b
<1>6. lock = Null /\ stack[t] = <<>> /\ lock' = t /\ Stack(t, <<f, b>>)
  BY <1>5 DEF Reads, Begin
<1>7. Shaped(t, {f.pc}, {b.pc}) /\ TopIn(stack'[t]) = f /\ stack'[t] # <<>>
  <2>1. b.pc \in BelowPC /\ Stacks
    BY <1>4 DEF BelowPC, SessionInv
  <2> QED BY <1>3, <1>4, <1>6, <2>1, BeginTwoShape
<1>8. peers'[p] # Null
  <2>1. [peers[p] EXCEPT !.recv_busy = TRUE] # Null
    BY <1>2, PeerRecFacts DEF PeerStates
  <2> QED BY <1>2, <1>5, <2>1 DEF Reads, SessionInv, Values
<1>9. f.pc # "indicatecb" /\ f.pc # "closewait"
  BY <1>3 DEF HandlerPC
<1>10. Moves(t)
  BY <1>3, <1>6, <1>7, <1>8, <1>9 DEF Moves, Locks, Shaped, Arrives
<1> QED BY <1>2, <1>5, <1>10, ReadsKeeps

\* The handler has returned.
LEMMA ReadDoneKeeps ==
    ASSUME SessionInv, NEW t \in Threads, ReadDone(t)
    PROVE  Kept
<1> DEFINE p == Top(t).peer
           r == IF peers[p] = Null THEN Null ELSE [peers[p] EXCEPT !.recv_busy = FALSE]
<1>1. lock \in {t, Null} /\ stack[t] # <<>> /\ p \in PeerIds
  BY AtPeer DEF ReadDone, PeerPC
<1>2. Shape(t)
  BY DEF Shape, ReadDone
<1>3. Moves(t)
  BY <1>1, <1>2, ShapeKeeps
<1>4. peers[p] # Null => peers[p] \in PeerRecs
  BY <1>1 DEF SessionInv, Values
<1>5. r \in {Null} \cup PeerRecs /\ (peers[p] # Null => r.st = peers[p].st)
  BY <1>4, PeerRecFacts DEF PeerStates
<1>6. peers' = [peers EXCEPT ![p] = r]
  <2>1. CASE peers[p] = Null
    BY <2>1, <1>1 DEF ReadDone, SessionInv, Values
  <2>2. CASE peers[p] # Null
    BY <2>2, <1>1 DEF ReadDone, SessionInv, Values
  <2> QED BY <2>1, <2>2
<1>7. Rest1
  <2>1. player_to_peer_id' \in [Players -> PeerIds \cup {Null}]
        /\ UNCHANGED <<state, listening, ids, starts, completes, told>>
    BY DEF ReadDone, SessionInv, Values, hist
  <2> QED BY <2>1, Rest1Holds
<1>8. peers[p] = Null => r = Null
  OBVIOUS
<1> HIDE DEF r, p
<1> QED BY <1>1, <1>3, <1>5, <1>6, <1>7, <1>8, PeerSetKeeps

\* A handler begins with its peer.
LEMMA AtHandler ==
    ASSUME SessionInv, NEW t \in Threads, NEW pc \in HandlerPC, Runs(t, pc)
    PROVE  /\ lock \in {t, Null} /\ stack[t] # <<>> /\ Top(t).peer \in PeerIds
           /\ peers[Top(t).peer] # Null /\ peers[Top(t).peer] \in PeerRecs
<1>1. lock \in {t, Null} /\ stack[t] # <<>> /\ Top(t) = TopIn(stack[t]) /\ Top(t).pc = pc
  BY AtPeer
<1>2. pc \in PeerPC
  BY DEF HandlerPC, PeerPC
<1>3. Top(t).peer \in PeerIds
  BY <1>2, AtPeer
<1>4. peers[Top(t).peer] # Null
  BY <1>1 DEF SessionInv, Handling
<1> QED BY <1>1, <1>3, <1>4 DEF SessionInv, Values

\* send_fail().
LEMMA RefuseKeeps ==
    ASSUME SessionInv, NEW t \in Threads, lock \in {t, Null}, stack[t] # <<>>, NEW p \in PeerIds,
           peers[p] # Null, Refuse(t, p),
           UNCHANGED <<state, listening, player_to_peer_id, ids, starts, completes, told>>,
           \/ peers[p].st # "indicating"
           \/ TopIn(stack[t]).pc = "indicatecb" /\ TopIn(stack[t]).peer = p
    PROVE  Kept
<1> DEFINE r == [peers[p] EXCEPT !.st = "closing"]
<1>1. peers[p] \in PeerRecs
  BY DEF SessionInv, Values
<1>2. r \in PeerRecs /\ r.st = "closing"
  BY <1>1, PeerRecFacts DEF PeerStates
<1>3. peers' = [peers EXCEPT ![p] = r]
  BY DEF Refuse
<1>4. Moves(t)
  BY ShapeKeeps DEF Shape, Refuse
<1>5. Rest1
  <2>1. player_to_peer_id' \in [Players -> PeerIds \cup {Null}]
    BY DEF SessionInv, Values
  <2> QED BY <2>1, Rest1Holds
<1> HIDE DEF r
<1> QED BY <1>2, <1>3, <1>4, <1>5, PeerSetKeeps

\* handle_host_connect_request().
LEMMA HostConnectRequestKeeps ==
    ASSUME SessionInv, NEW t \in Threads, HostConnectRequest(t)
    PROVE  Kept
<1> DEFINE p == Top(t).peer
<1>1. lock \in {t, Null} /\ stack[t] # <<>> /\ p \in PeerIds /\ peers[p] # Null /\ peers[p] \in PeerRecs
  <2>1. Runs(t, "host_connect_request") /\ "host_connect_request" \in HandlerPC
    BY DEF HostConnectRequest, HandlerPC
  <2> QED BY <2>1, AtHandler
<1>2. UNCHANGED <<state, listening, player_to_peer_id, ids, starts, completes, told>>
      /\ UNCHANGED <<state, listening, player_to_peer_id, ids, starts, hist>>
  BY DEF HostConnectRequest, hist
<1> HIDE DEF p
<1>3. CASE Return(t) /\ UNCHANGED peers
  BY <1>1, <1>2, <1>3, ShapeKeeps DEF Shape, table
<1>4. CASE peers[p].st = "accepted" /\ Refuse(t, p)
  BY <1>1, <1>2, <1>4, RefuseKeeps
<1>5. CASE /\ peers[p].st = "accepted"
           /\ peers' = [peers EXCEPT ![p].st = "indicating"]
           /\ Unlock(t, Frame("indicatecb", p))
  <2> DEFINE r == [peers[p] EXCEPT !.st = "indicating"]
             f == Frame("indicatecb", p)
  <2>1. r \in PeerRecs /\ r.st = "indicating" /\ r # Null /\ peers' = [peers EXCEPT ![p] = r]
    <3>1. peers' = [peers EXCEPT ![p] = r]
      BY <1>5
    <3>2. "indicating" \in PeerStates
      BY DEF PeerStates
    <3>3. \A q \in PeerRecs : LET n == [q EXCEPT !.st = "indicating"] IN n \in PeerRecs /\ n.st = "indicating" /\ n # Null
      BY <3>2, NewStateFacts
    <3> QED BY <1>1, <3>1, <3>3
  <2>2. f \in FrameSet /\ f.pc = "indicatecb" /\ f.peer = p
    <3>1. "indicatecb" \in PCs /\ "indicatecb" \notin PlayerPC \cup ListPC \cup ClosePC \cup TerminatePC
      BY DEF PCs, PeerPC, PlayerPC, ListPC, ClosePC, TerminatePC
    <3> QED BY <3>1, <1>1, FrameFacts
  <2>3. lock' = Null /\ Stack(t, <<f>> \o Below(t))
    BY <1>5 DEF Unlock
  <2> HIDE DEF f, r
  <2>4. Shaped(t, {f.pc}, {}) /\ TopIn(stack'[t]) = f /\ stack'[t] # <<>>
    BY <1>1, <2>2, <2>3, GotoShape DEF SessionInv
  <2>5. peers'[p] = r
    BY <1>1, <2>1 DEF SessionInv, Values
  <2>6. "indicatecb" \notin HandlerPC /\ p \in Present
    BY <1>1 DEF HandlerPC, Present
  <2>7. Moves(t)
    BY <1>1, <1>5, <2>1, <2>2, <2>3, <2>4, <2>5, <2>6 DEF Moves, Locks, Shaped, Arrives
  <2>8. Rest1
    <3>1. player_to_peer_id' \in [Players -> PeerIds \cup {Null}]
      BY <1>2 DEF SessionInv, Values
    <3> QED BY <3>1, <1>2, Rest1Holds
  <2> QED BY <1>1, <1>5, <2>1, <2>7, <2>8, PeerSetKeeps
<1> QED BY <1>3, <1>4, <1>5 DEF HostConnectRequest, p

\* INDICATE_CONNECT returns.
LEMMA IndicatedKeeps ==
    ASSUME SessionInv, NEW t \in Threads, IndicateAccepted(t) \/ IndicateRejected(t)
    PROVE  Kept
<1> DEFINE p == Top(t).peer
           x == next_player_id
<1>1. lock \in {t, Null} /\ stack[t] # <<>> /\ p \in PeerIds
  BY AtPeer DEF IndicateAccepted, IndicateRejected, PeerPC
<1>2. TopIn(stack[t]).pc = "indicatecb" /\ TopIn(stack[t]).peer = p
  <2>1. Resumes(t, "indicatecb")
    BY DEF IndicateAccepted, IndicateRejected
  <2> QED BY <2>1, AtPeer
<1>3. CASE IndicateAccepted(t)
  <2> DEFINE r == [peers[p] EXCEPT !.st = "connected", !.player = x]
             f == Frame("createcb", p)
  <2>1. peers[p] # Null /\ peers[p] \in PeerRecs /\ x \in Players /\ x \in Nat
    BY <1>1, <1>3 DEF IndicateAccepted, SessionInv, Values
  <2>2. r \in PeerRecs
    BY <2>1, PeerRecFacts DEF PeerStates
  <2>3. peers' = [peers EXCEPT ![p] = r]
    BY <1>1, <1>3 DEF IndicateAccepted, SessionInv, Values
  <2>4. f \in FrameSet /\ Plain(f.pc) /\ Unlock(t, f)
    BY <1>1, <1>3, PeerFrames DEF IndicateAccepted
  <2>5. Rest1
    <3>1. player_to_peer_id' \in [Players -> PeerIds \cup {Null}]
      BY <1>1, <1>3 DEF IndicateAccepted, SessionInv, Values
    <3>2. next_player_id' \in Nat
      BY <1>3, <2>1 DEF IndicateAccepted
    <3>3. /\ UNCHANGED <<listening, next_peer_id, starts, completes>>
          /\ state' \in SessionStates /\ host_player_id' \in 0..MaxPlayers /\ local_player_id' \in 0..MaxPlayers
          /\ \E y : told' = Create(y)
      BY <1>3 DEF IndicateAccepted, SessionInv, Values
    <3> QED BY <3>1, <3>2, <3>3 DEF Rest1
  <2> HIDE DEF p, r, f, x
  <2>6. Moves(t)
    BY <1>1, <2>4, ShapeKeeps DEF Shape
  <2> QED BY <1>1, <1>2, <2>1, <2>2, <2>3, <2>5, <2>6, PeerSetKeeps
<1>4. CASE IndicateRejected(t)
  <2>1. UNCHANGED <<state, listening, player_to_peer_id, ids, starts, completes, told>>
        /\ UNCHANGED <<state, listening, player_to_peer_id, ids, starts, hist>>
    BY <1>4 DEF IndicateRejected, hist
  <2>2. CASE peers[p] = Null
    <3>1. Return(t) /\ UNCHANGED peers
      BY <1>4, <2>2 DEF IndicateRejected
    <3> QED BY <1>1, <2>1, <3>1, ShapeKeeps DEF Shape, table
  <2>3. CASE peers[p] # Null
    <3>1. Refuse(t, p)
      BY <1>4, <2>3 DEF IndicateRejected
    <3> HIDE DEF p
    <3> QED BY <1>1, <1>2, <2>1, <2>3, <3>1, RefuseKeeps
  <2> QED BY <2>2, <2>3
<1> QED BY <1>3, <1>4

\* Indications with nothing after them.
LEMMA MessageHandledKeeps ==
    ASSUME SessionInv, NEW t \in Threads, Indicated(t) \/ HandleMessage(t)
    PROVE  Kept
<1>1. CASE Indicated(t)
  BY <1>1, AtPeer, ShapeKeeps DEF Shape, Indicated
<1>2. CASE HandleMessage(t)
  <2> DEFINE f == Frame("createcb", Top(t).peer)
  <2>1. lock \in {t, Null} /\ stack[t] # <<>> /\ Top(t).peer \in PeerIds
    BY <1>2, AtPeer DEF HandleMessage, PeerPC
  <2>2. f \in FrameSet /\ Plain(f.pc) /\ Unlock(t, f)
    BY <1>2, <2>1, PeerFrames DEF HandleMessage
  <2>3. UNCHANGED <<state, listening, table, ids, starts, hist>>
    BY <1>2 DEF HandleMessage
  <2> HIDE DEF f
  <2> QED BY <2>1, <2>2, <2>3, ShapeKeeps DEF Shape
<1> QED BY <1>1, <1>2

\* A list of players is a sequence of players.
LEMMA ListFacts ==
    ASSUME NEW list \in PlayerLists
    PROVE  list \in Seq(Players) /\ Len(list) \in Nat /\ \A i \in 1..Len(list) : list[i] \in Players
<1>1. PICK n \in 0..MaxPlayers : list \in [1..n -> Players \ {1, 2}]
  BY DEF PlayerLists
<1>2. n \in Nat
  BY SessionAssumption
<1>3. list \in [1..n -> Players]
  BY <1>1
<1>4. list \in Seq(Players)
  BY <1>2, <1>3
<1> QED BY <1>4

\* peer_connect() to the first of the players in a list.
LEMMA ConnectToMoves ==
    ASSUME SessionInv, NEW t, NEW list \in PlayerLists, NEW n \in 0..Len(list), ConnectTo(list, n)
    PROVE  /\ peers' \in [PeerIds -> {Null} \cup PeerRecs] /\ next_peer_id' \in Nat
           /\ next_peer_id <= next_peer_id' /\ \A p \in PeerIds : PeerMoves(t, p)
<1>1. list \in Seq(Players) /\ Len(list) \in Nat /\ \A i \in 1..Len(list) : list[i] \in Players
  BY ListFacts
<1>2. n \in Nat /\ n <= Len(list)
  BY <1>1
<1>3. next_peer_id \in Nat /\ peers \in [PeerIds -> {Null} \cup PeerRecs] /\ Fresh
  BY DEF SessionInv, Values
<1>4. next_peer_id' \in Nat /\ next_peer_id <= next_peer_id' /\ next_peer_id' = next_peer_id + n
  BY <1>2, <1>3 DEF ConnectTo
<1>5. ASSUME NEW p \in PeerIds PROVE peers'[p] \in {Null} \cup PeerRecs /\ PeerMoves(t, p)
  <2>1. p \in Nat
    BY IdFacts
  <2>2. CASE p \in next_peer_id..(next_peer_id + n - 1)
    <3> DEFINE i == p - next_peer_id + 1
    <3>1. i \in 1..Len(list) /\ next_peer_id <= p /\ p < next_peer_id' /\ ~(p < next_peer_id)
      BY <1>1, <1>2, <1>3, <1>4, <2>1, <2>2
    <3>2. list[i] \in Players
      BY <1>1, <3>1
    <3>3. peers'[p] = NewPeer("connecting_peer", list[i])
      BY <2>2 DEF ConnectTo
    <3> HIDE DEF i
    <3>4. peers'[p] \in PeerRecs
      BY <3>2, <3>3 DEF NewPeer, PeerRecs, PeerStates
    <3>5. peers[p] = Null
      BY <1>3, <3>1 DEF Fresh, Present
    <3> QED BY <3>1, <3>4, <3>5 DEF PeerMoves
  <2>3. CASE p \notin next_peer_id..(next_peer_id + n - 1)
    BY <1>3, <2>3 DEF ConnectTo, PeerMoves
  <2> QED BY <2>2, <2>3
<1>6. peers' = [p \in PeerIds |-> peers'[p]]
  BY DEF ConnectTo
<1>7. peers' \in [PeerIds -> {Null} \cup PeerRecs]
  BY <1>5, <1>6
<1> QED BY <1>4, <1>5, <1>7

\* handle_host_connect_ok() up to CREATE_PLAYER for ourselves.
LEMMA HostConnectOkKeeps ==
    ASSUME SessionInv, NEW t \in Threads, HostConnectOk(t)
    PROVE  Kept
<1> DEFINE p == Top(t).peer
<1>1. Runs(t, "host_connect_ok") /\ "host_connect_ok" \in HandlerPC
  BY DEF HostConnectOk, HandlerPC
<1>2. lock \in {t, Null} /\ stack[t] # <<>> /\ p \in PeerIds /\ peers[p] # Null /\ peers[p] \in PeerRecs
  BY <1>1, AtHandler
<1>3. Top(t) \in FrameSet /\ Top(t).pc = "host_connect_ok"
  BY <1>1, AtPeer
<1>4. CASE Return(t) /\ UNCHANGED <<state, listening, table, ids, starts, hist, fault>>
  BY <1>2, <1>4, ShapeKeeps DEF Shape
<1>5. CASE Abort("assert(state) in handle_host_connect_ok")
  BY <1>5, AbortKeeps DEF Abort, Kept
<1>6. CASE /\ peers[p].st = "requesting_host"
           /\ host_player_id' = 1 /\ local_player_id' = 2
           /\ peers' = [peers EXCEPT ![p].st = "connected", ![p].player = 1]
           /\ player_to_peer_id' = [player_to_peer_id EXCEPT ![1] = p]
           /\ state' = "connecting_to_peers"
           /\ told' = Create(2)
           /\ Unlock(t, [Top(t) EXCEPT !.pc = "okselfcb"])
           /\ UNCHANGED <<listening, next_peer_id, next_player_id, starts, completes, host_ok, fault>>
  <2> DEFINE f == [Top(t) EXCEPT !.pc = "okselfcb"]
             r == [peers[p] EXCEPT !.st = "connected", !.player = 1]
  <2>1. f \in FrameSet /\ Plain(f.pc)
    <3>1. "okselfcb" \in PCs /\ "okselfcb" \in ListPC /\ "okselfcb" \notin ClosePC \cup TerminatePC \cup PlayerPC /\ Plain("okselfcb")
      BY DEF PCs, PeerPC, ListPC, ClosePC, TerminatePC, PlayerPC, Plain, HandlerPC
    <3>2. Top(t).arg \in PlayerLists
      BY <1>3 DEF FrameSet, ListPC
    <3> QED BY <1>2, <1>3, <3>1, <3>2, SameArgFacts
  <2>2. r \in PeerRecs
    BY <1>2, PeerRecFacts, IdFacts DEF PeerStates
  <2>3. peers' = [peers EXCEPT ![p] = r]
    BY <1>2, <1>6 DEF SessionInv, Values
  <2>4. Unlock(t, f)
    BY <1>6
  <2>5. Rest1
    <3>1. player_to_peer_id' \in [Players -> PeerIds \cup {Null}] /\ next_player_id' \in Nat
      BY <1>2, <1>6 DEF SessionInv, Values
    <3>2. state' \in SessionStates /\ host_player_id' \in 0..MaxPlayers /\ local_player_id' \in 0..MaxPlayers
      BY <1>6, SessionAssumption DEF SessionStates
    <3> QED BY <1>6, <3>1, <3>2 DEF Rest1
  <2> HIDE DEF p, r, f
  <2>6. Moves(t)
    BY <1>2, <2>1, <2>4, ShapeKeeps DEF Shape
  <2> QED BY <1>2, <1>6, <2>2, <2>3, <2>5, <2>6, PeerSetKeeps
<1> QED BY <1>4, <1>5, <1>6 DEF HostConnectOk

\* handle_host_connect_ok() after CREATE_PLAYER for ourselves.
LEMMA HostConnectOkSelfKeeps ==
    ASSUME SessionInv, NEW t \in Threads, HostConnectOkSelf(t)
    PROVE  Kept
<1>1. lock \in {t, Null} /\ stack[t] # <<>> /\ Top(t) \in FrameSet /\ Top(t).pc = "okselfcb" /\ Top(t).peer \in PeerIds
  BY AtPeer DEF HostConnectOkSelf, PeerPC
<1>2. CASE Abort("use of a deleted Peer in handle_host_connect_ok")
  BY <1>2, AbortKeeps DEF Abort, Kept
<1>3. CASE /\ \E x : told' = Create(x)
           /\ Unlock(t, [Top(t) EXCEPT !.pc = "okhostcb"])
           /\ UNCHANGED <<state, listening, table, ids, starts, completes, host_ok, fault>>
  <2> DEFINE f == [Top(t) EXCEPT !.pc = "okhostcb"]
  <2>1. f \in FrameSet /\ Plain(f.pc)
    <3>1. "okhostcb" \in PCs /\ "okhostcb" \in ListPC /\ "okhostcb" \notin ClosePC \cup TerminatePC \cup PlayerPC /\ Plain("okhostcb")
      BY DEF PCs, PeerPC, ListPC, ClosePC, TerminatePC, PlayerPC, Plain, HandlerPC
    <3>2. Top(t).arg \in PlayerLists
      BY <1>1 DEF FrameSet, ListPC
    <3> QED BY <1>1, <3>1, <3>2, SameArgFacts
  <2>2. Unlock(t, f)
    BY <1>3
  <2> HIDE DEF f
  <2>3. Shape(t)
    BY <2>1, <2>2 DEF Shape
  <2> QED BY <1>1, <1>3, <2>3, ShapeKeeps
<1> QED BY <1>2, <1>3 DEF HostConnectOkSelf

\* handle_host_connect_ok() after CREATE_PLAYER for the host.
LEMMA HostConnectOkHostKeeps ==
    ASSUME SessionInv, NEW t \in Threads, HostConnectOkHost(t)
    PROVE  Kept
<1> DEFINE list == Top(t).arg
           f == Frame("check", Null)
           g == Frame("fail", Null)
<1>1. lock \in {t, Null} /\ stack[t] # <<>> /\ list \in PlayerLists
  <2>1. lock \in {t, Null} /\ stack[t] # <<>> /\ Top(t) \in FrameSet /\ Top(t).pc = "okhostcb"
    BY AtPeer DEF HostConnectOkHost
  <2> QED BY <2>1 DEF FrameSet, ListPC
<1>2. Len(list) \in Nat
  BY <1>1, ListFacts
<1>3. f \in FrameSet /\ Plain(f.pc) /\ g \in FrameSet /\ Plain(g.pc)
  BY NullFrames DEF NullPC
<1>4. /\ state' \in SessionStates /\ listening' \in BOOLEAN /\ starts' \in 0..MaxStarts /\ completes' \in Nat
      /\ player_to_peer_id' \in [Players -> PeerIds \cup {Null}] /\ next_player_id' \in Nat
      /\ host_player_id' \in 0..MaxPlayers /\ local_player_id' \in 0..MaxPlayers
      /\ told' \in [Players -> {"unknown", "present", "gone", "twice", "unheard"}]
      /\ UNCHANGED <<state, listening, player_to_peer_id, next_player_id, host_player_id, local_player_id, starts, hist>>
  BY DEF HostConnectOkHost, SessionInv, Values, hist
<1>5. CASE Return(t) /\ UNCHANGED <<peers, next_peer_id>>
  <2>1. Values'
    BY <1>4, <1>5 DEF Values, SessionInv
  <2> QED BY <1>1, <1>5, <2>1, ShapeKeeps DEF Shape
<1>6. CASE \E n \in 0..Len(list) : ConnectTo(list, n) /\ (Goto(t, f) \/ Goto(t, g))
  <2>1. PICK n \in 0..Len(list) : ConnectTo(list, n) /\ (Goto(t, f) \/ Goto(t, g))
    BY <1>6
  <2> HIDE DEF f, g, list
  <2>2. Moves(t)
    BY <1>1, <1>3, <2>1, ShapeKeeps DEF Shape
  <2>3. /\ peers' \in [PeerIds -> {Null} \cup PeerRecs] /\ next_peer_id' \in Nat
        /\ next_peer_id <= next_peer_id' /\ \A p \in PeerIds : PeerMoves(t, p)
    BY <1>1, <2>1, ConnectToMoves
  <2>4. Values'
    BY <1>4, <2>3 DEF Values
  <2> QED BY <2>2, <2>3, <2>4, MoveKeeps DEF Moves, Kept
<1>7. \/ Return(t) /\ UNCHANGED <<peers, next_peer_id>>
      \/ ConnectTo(list, Len(list)) /\ Goto(t, f)
      \/ \E n \in 0..(Len(list) - 1) : ConnectTo(list, n) /\ Goto(t, g)
  BY DEF HostConnectOkHost
<1>8. Len(list) \in 0..Len(list) /\ \A n \in 0..(Len(list) - 1) : n \in 0..Len(list)
  BY <1>2
<1> HIDE DEF f, g, list
<1> QED BY <1>5, <1>6, <1>7, <1>8

\* handle_host_connect_fail() and handle_connect_peer_fail().
LEMMA ConnectRefusedKeeps ==
    ASSUME SessionInv, NEW t \in Threads, ConnectRefused(t)
    PROVE  Kept
<1> DEFINE f == Frame("fail", Null)
<1>1. lock \in {t, Null} /\ stack[t] # <<>>
  BY AtPeer DEF ConnectRefused
<1>2. f \in FrameSet /\ Plain(f.pc)
  BY NullFrames DEF NullPC
<1>3. CASE Abort("assert(state) in handle_connect_fail")
  BY <1>3, AbortKeeps DEF Abort, Kept
<1>4. CASE (Return(t) \/ Goto(t, f)) /\ UNCHANGED <<state, listening, table, ids, starts, hist, fault>>
  <2> HIDE DEF f
  <2> QED BY <1>1, <1>2, <1>4, ShapeKeeps DEF Shape
<1> QED BY <1>3, <1>4 DEF ConnectRefused

\* handle_connect_peer().
LEMMA ConnectPeerKeeps ==
    ASSUME SessionInv, NEW t \in Threads, ConnectPeer(t)
    PROVE  Kept
<1> DEFINE p == Top(t).peer
           x == Top(t).arg
<1>1. Runs(t, "connect_peer") /\ "connect_peer" \in HandlerPC
  BY DEF ConnectPeer, HandlerPC
<1>2. lock \in {t, Null} /\ stack[t] # <<>> /\ p \in PeerIds /\ peers[p] # Null /\ peers[p] \in PeerRecs
  BY <1>1, AtHandler
<1>3. x \in Players
  BY <1>1, AtPeer DEF FrameSet, PlayerPC
<1>4. UNCHANGED <<state, listening, ids, starts, completes, host_ok>>
  BY DEF ConnectPeer
<1> HIDE DEF p, x
<1>5. CASE Return(t) /\ UNCHANGED <<table, told>>
  BY <1>2, <1>4, <1>5, ShapeKeeps DEF Shape
<1>6. CASE peers[p].st = "accepted" /\ Refuse(t, p) /\ UNCHANGED <<player_to_peer_id, told>>
  BY <1>2, <1>4, <1>6, RefuseKeeps
<1>8. CASE /\ peers[p].st = "accepted"
           /\ peers' = [peers EXCEPT ![p].st = "closing", ![p].player = x]
           /\ Return(t) /\ UNCHANGED <<player_to_peer_id, told>>
  <2> DEFINE r == [peers[p] EXCEPT !.st = "closing", !.player = x]
  <2>0. r \in PeerRecs
    BY <1>2, <1>3, PeerRecFacts DEF PeerStates
  <2>1. r \in PeerRecs /\ r.st = "closing"
    <3>1. PICK q \in PeerRecs : q = peers[p]
      BY <1>2
    <3>2. [q EXCEPT !.st = "closing", !.player = x].st = "closing"
      BY DEF PeerRecs
    <3> QED BY <2>0, <3>1, <3>2
  <2>2. peers' = [peers EXCEPT ![p] = r]
    BY <1>2, <1>8 DEF SessionInv, Values
  <2>3. Rest1
    <3>1. player_to_peer_id' \in [Players -> PeerIds \cup {Null}]
      BY <1>8 DEF SessionInv, Values
    <3> QED BY <3>1, <1>4, <1>8, Rest1Holds
  <2> HIDE DEF r
  <2>4. Moves(t)
    BY <1>2, <1>8, ShapeKeeps DEF Shape
  <2> QED BY <1>2, <1>8, <2>1, <2>2, <2>3, <2>4, PeerSetKeeps
<1>7. CASE /\ peers[p].st = "accepted"
           /\ peers' = [peers EXCEPT ![p].st = "connected", ![p].player = x]
           /\ player_to_peer_id' = [player_to_peer_id EXCEPT ![x] = p]
           /\ told' = Create(x)
           /\ Unlock(t, Frame("createcb", p))
  <2> DEFINE r == [peers[p] EXCEPT !.st = "connected", !.player = x]
             f == Frame("createcb", p)
  <2>1. r \in PeerRecs
    BY <1>2, <1>3, PeerRecFacts DEF PeerStates
  <2>2. peers' = [peers EXCEPT ![p] = r]
    BY <1>2, <1>7 DEF SessionInv, Values
  <2>3. f \in FrameSet /\ Plain(f.pc) /\ Unlock(t, f)
    BY <1>2, <1>7, PeerFrames
  <2>4. Rest1
    <3>1. player_to_peer_id' \in [Players -> PeerIds \cup {Null}]
      BY <1>2, <1>7 DEF SessionInv, Values
    <3> QED BY <3>1, <1>4, <1>7, Rest1Holds
  <2> HIDE DEF r, f
  <2>5. Moves(t)
    BY <1>2, <2>3, ShapeKeeps DEF Shape
  <2> QED BY <1>2, <1>7, <2>1, <2>2, <2>4, <2>5, PeerSetKeeps
<1> QED BY <1>5, <1>6, <1>7, <1>8 DEF ConnectPeer, p, x

\* handle_connect_peer_ok().
LEMMA ConnectPeerOkKeeps ==
    ASSUME SessionInv, NEW t \in Threads, ConnectPeerOk(t)
    PROVE  Kept
<1> DEFINE p == Top(t).peer
<1>1. Runs(t, "connect_peer_ok") /\ "connect_peer_ok" \in HandlerPC
  BY DEF ConnectPeerOk, HandlerPC
<1>2. lock \in {t, Null} /\ stack[t] # <<>> /\ p \in PeerIds /\ peers[p] # Null /\ peers[p] \in PeerRecs
  BY <1>1, AtHandler
<1> HIDE DEF p
<1>3. CASE Return(t) /\ UNCHANGED <<state, listening, table, ids, starts, hist, fault>>
  BY <1>2, <1>3, ShapeKeeps DEF Shape
<1>4. CASE Abort("assert(state) in handle_connect_peer_ok")
  BY <1>4, AbortKeeps DEF Abort, Kept
<1>5. CASE /\ peers[p].st = "requesting_peer"
           /\ peers' = [peers EXCEPT ![p].st = "connected"]
           /\ player_to_peer_id' = [player_to_peer_id EXCEPT ![peers[p].player] = p]
           /\ told' = Create(peers[p].player)
           /\ Unlock(t, Frame("peerokcb", p))
           /\ UNCHANGED <<state, listening, ids, starts, completes, host_ok, fault>>
  <2> DEFINE r == [peers[p] EXCEPT !.st = "connected"]
             f == Frame("peerokcb", p)
  <2>1. r \in PeerRecs
    BY <1>2, PeerRecFacts DEF PeerStates
  <2>2. peers' = [peers EXCEPT ![p] = r]
    BY <1>2, <1>5 DEF SessionInv, Values
  <2>3. f \in FrameSet /\ Plain(f.pc) /\ Unlock(t, f)
    BY <1>2, <1>5, PeerFrames
  <2>4. Rest1
    <3>1. player_to_peer_id' \in [Players -> PeerIds \cup {Null}]
      BY <1>2, <1>5 DEF SessionInv, Values
    <3> QED BY <3>1, <1>5, Rest1Holds
  <2> HIDE DEF r, f
  <2>5. Moves(t)
    BY <1>2, <2>3, ShapeKeeps DEF Shape
  <2> QED BY <1>2, <1>5, <2>1, <2>2, <2>4, <2>5, PeerSetKeeps
<1> QED BY <1>3, <1>4, <1>5 DEF ConnectPeerOk, p

\* handle_connect_peer_ok() after CREATE_PLAYER.
LEMMA ConnectPeerIndicatedKeeps ==
    ASSUME SessionInv, NEW t \in Threads, ConnectPeerIndicated(t)
    PROVE  Kept
<1> DEFINE f == Frame("check", Null)
<1>1. lock \in {t, Null} /\ stack[t] # <<>>
  BY AtPeer DEF ConnectPeerIndicated
<1>2. f \in FrameSet /\ Plain(f.pc)
  BY NullFrames DEF NullPC
<1>3. Return(t) \/ Goto(t, f)
  BY DEF ConnectPeerIndicated
<1>4. UNCHANGED <<state, listening, table, ids, starts, hist>>
  BY DEF ConnectPeerIndicated
<1> HIDE DEF f
<1> QED BY <1>1, <1>2, <1>3, <1>4, ShapeKeeps DEF Shape

\* handle_destroy_peer() and handle_terminate_session().
LEMMA HandleDestroyKeeps ==
    ASSUME SessionInv, NEW t \in Threads, HandleDestroy(t)
    PROVE  Kept
<1> DEFINE x == Top(t).arg
           f == Frame("endcb", Null)
           g == Frame("destroy", player_to_peer_id[x])
<1>1. lock \in {t, Null} /\ stack[t] # <<>>
  BY AtPeer DEF HandleDestroy
<1>2. f \in FrameSet /\ Plain(f.pc)
  BY NullFrames DEF NullPC
<1>3. x \in Known => g \in FrameSet /\ Plain(g.pc)
  <2>1. x \in Known => player_to_peer_id[x] \in PeerIds
    BY DEF Known, SessionInv, Values
  <2> QED BY <2>1, PeerFrames
<1>4. Return(t) \/ Unlock(t, f) \/ (x \in Known /\ Goto(t, g))
  BY DEF HandleDestroy
<1>5. Values' /\ UNCHANGED <<peers, next_peer_id>>
  BY DEF HandleDestroy, SessionInv, Values, SessionStates, table, ids, hist
<1> HIDE DEF f, g, x
<1>6. Shape(t)
  BY <1>2, <1>3, <1>4 DEF Shape
<1> QED BY <1>1, <1>5, <1>6, ShapeKeeps

\* The session ends for this member.
LEMMA SessionEndsKeeps ==
    ASSUME SessionInv, NEW t \in Threads, SessionEnds(t) \/ SessionEnded(t)
    PROVE  Kept
<1> DEFINE f == Frame("endselfcb", Null)
           g == Frame("shutdownall", Null)
<1>1. lock \in {t, Null} /\ stack[t] # <<>>
  BY AtPeer DEF SessionEnds, SessionEnded
<1>2. f \in FrameSet /\ Plain(f.pc) /\ g \in FrameSet /\ Plain(g.pc)
  BY NullFrames DEF NullPC
<1>3. Unlock(t, f) \/ Goto(t, g)
  BY DEF SessionEnds, SessionEnded
<1>4. UNCHANGED <<state, listening, table, ids, starts, completes>> /\ (told' = told \/ \E x : told' = Destroy(x))
  BY DEF SessionEnds, SessionEnded, hist
<1> HIDE DEF f, g
<1>5. Shape(t)
  BY <1>2, <1>3 DEF Shape
<1> QED BY <1>1, <1>4, <1>5, ShapeKeeps

\* Initialize(), Host() and its failure.
LEMMA HostKeeps ==
    ASSUME SessionInv, NEW t \in Threads, Initialize(t) \/ Host(t) \/ HostFails(t)
    PROVE  Kept
<1>0. lock = Null /\ stack[t] = <<>>
  BY DEF Initialize, Host, HostFails
<1>1. CASE Initialize(t)
  <2>1. stack' = stack /\ lock' = Null
    BY <1>0, <1>1 DEF Initialize, run
  <2>2. Values' /\ UNCHANGED <<peers, next_peer_id>>
    BY <1>1 DEF Initialize, SessionInv, Values, SessionStates, table, ids, hist
  <2> QED BY <1>0, <2>1, <2>2, StartingMoves DEF Starting
<1>2. CASE Host(t)
  <2> DEFINE f == Frame("createcb", Null)
  <2>1. f \in FrameSet /\ Plain(f.pc)
    BY NullFrames DEF NullPC
  <2>2. lock' = Null /\ Stack(t, <<f>>)
    BY <1>0, <1>2 DEF Host, Stack
  <2> HIDE DEF f
  <2>3. Create(1) \in [Players -> {"unknown", "present", "gone", "twice", "unheard"}]
    BY ToldFacts DEF SessionInv
  <2>4. starts \in Nat /\ starts' = starts + 1 /\ starts < MaxStarts /\ MaxStarts \in Nat /\ MaxPlayers \in Nat /\ MaxPlayers >= 2
    BY <1>2, SessionAssumption DEF Host, Starts, SessionInv, Values
  <2>5. starts' \in 0..MaxStarts
    BY <2>4
  <2>6. Values' /\ UNCHANGED <<peers, next_peer_id>>
    BY <1>2, <2>3, <2>4, <2>5 DEF Host, SessionInv, Values, SessionStates, table
  <2> QED BY <1>0, <2>1, <2>2, <2>6, StartingMoves DEF Starting
<1>3. CASE HostFails(t)
  <2>1. stack' = stack /\ lock' = Null
    BY <1>0, <1>3 DEF HostFails, run
  <2>2. starts \in Nat /\ starts' = starts + 1 /\ starts < MaxStarts /\ MaxStarts \in Nat
    BY <1>3, SessionAssumption DEF HostFails, Starts, SessionInv, Values
  <2>3. starts' \in 0..MaxStarts
    BY <2>2
  <2>4. Values' /\ UNCHANGED <<peers, next_peer_id>>
    BY <1>3, <2>3 DEF HostFails, SessionInv, Values, table, ids, hist
  <2> QED BY <1>0, <2>1, <2>4, StartingMoves DEF Starting
<1> QED BY <1>1, <1>2, <1>3

\* Connect(), and its failures.
LEMMA ConnectKeeps ==
    ASSUME SessionInv, NEW t \in Threads, (\E sync \in BOOLEAN : Connect(t, sync)) \/ ConnectFails(t)
    PROVE  Kept
<1>1. /\ lock = Null /\ stack[t] = <<>> /\ state' \in SessionStates /\ completes' = 0
      /\ UNCHANGED <<player_to_peer_id, next_player_id, host_player_id, local_player_id, told>>
      /\ lock' = Null /\ listening' \in BOOLEAN /\ Starts
  BY DEF Connect, ConnectFails, SessionStates, run
<1>2. starts \in Nat /\ starts' = starts + 1 /\ starts < MaxStarts /\ MaxStarts \in Nat
  BY <1>1, SessionAssumption DEF Starts, SessionInv, Values
<1>3. starts' \in 0..MaxStarts /\ completes' \in Nat
  BY <1>1, <1>2
<1>4. Moves(t)
  <2> DEFINE f == Frame("connectwait", Null)
  <2>1. f \in FrameSet /\ Plain(f.pc)
    BY NullFrames DEF NullPC
  <2>2. stack' = stack \/ Stack(t, <<f>>)
    BY DEF Connect, ConnectFails, Stack, run
  <2> HIDE DEF f
  <2>3. Starting(t)
    BY <1>1, <2>1, <2>2 DEF Starting
  <2> QED BY <1>1, <2>3, StartingMoves
<1>5. CASE UNCHANGED <<peers, next_peer_id>>
  <2>1. Values'
    BY <1>1, <1>3, <1>5 DEF SessionInv, Values
  <2> QED BY <1>4, <1>5, <2>1, CalmKeeps DEF Kept
<1>6. CASE /\ next_peer_id \in PeerIds
           /\ peers' = [peers EXCEPT ![next_peer_id] = NewPeer("connecting_host", Null)]
           /\ next_peer_id' = next_peer_id + 1
  <2>1. "connecting_host" \in PeerStates
    BY DEF PeerStates
  <2> QED BY <1>1, <1>3, <1>4, <1>6, <2>1, NewPeerKeeps
<1> QED BY <1>5, <1>6 DEF Connect, ConnectFails

\* CancelAsyncOperation() of a Connect(), and the wait of a synchronous one.
LEMMA CancelKeeps ==
    ASSUME SessionInv, NEW t \in Threads, CancelConnect(t) \/ ConnectWaits(t)
    PROVE  Kept
<1>1. CASE CancelConnect(t)
  <2> DEFINE f == Frame("fail", Null)
  <2>1. f \in FrameSet /\ Plain(f.pc)
    BY NullFrames DEF NullPC
  <2>2. lock = Null /\ stack[t] = <<>> /\ lock' = t /\ Stack(t, <<f>>)
        /\ UNCHANGED <<state, listening, table, ids, starts, hist>>
    BY <1>1 DEF CancelConnect, Begin
  <2> HIDE DEF f
  <2> QED BY <2>1, <2>2, StartingMoves DEF Starting
<1>2. CASE ConnectWaits(t)
  <2> DEFINE f == Frame("connectwait", Null)
  <2>1. f \in FrameSet /\ Plain(f.pc)
    BY NullFrames DEF NullPC
  <2>2. Unlock(t, f) \/ Return(t)
    BY <1>2 DEF ConnectWaits
  <2>3. lock \in {t, Null} /\ stack[t] # <<>> /\ UNCHANGED <<state, listening, table, ids, starts, hist>>
    BY <1>2, AtPeer DEF ConnectWaits
  <2> HIDE DEF f
  <2> QED BY <2>1, <2>2, <2>3, ShapeKeeps DEF Shape
<1> QED BY <1>1, <1>2

\* Close() begins.
LEMMA CloseKeeps ==
    ASSUME SessionInv, NEW t \in Threads, NEW now \in BOOLEAN, Close(t, now)
    PROVE  Kept
<1> DEFINE b == With(Frame("close", Null), [was |-> state, now |-> now])
           f == Frame("fail", Null)
<1>1. f \in FrameSet /\ Plain(f.pc)
  BY NullFrames DEF NullPC
<1>2. b \in FrameSet /\ b.pc = "close"
  <2>1. [was |-> state, now |-> now] \in CloseArgs
    BY DEF SessionInv, Values, CloseArgs
  <2>2. [was |-> state, now |-> now] \in Args
    BY <2>1 DEF Args
  <2>3. "close" \in PCs /\ "close" \notin PeerPC \cup PlayerPC \cup ListPC \cup TerminatePC
    BY DEF PCs, PeerPC, PlayerPC, ListPC, ClosePC, TerminatePC
  <2> QED BY <2>1, <2>2, <2>3, WithFacts
<1>3. b.pc \in BelowPC /\ Plain(b.pc)
  BY <1>2 DEF BelowPC, Plain, HandlerPC
<1>4. lock = Null /\ stack[t] = <<>> /\ lock' = t /\ (Stack(t, <<b>>) \/ Stack(t, <<f, b>>))
  BY DEF Close, Begin
<1>5. Values' /\ UNCHANGED <<peers, next_peer_id>>
  BY DEF Close, SessionInv, Values, table, ids, hist
<1> HIDE DEF f, b
<1>6. Starting(t)
  BY <1>1, <1>2, <1>3, <1>4 DEF Starting
<1> QED BY <1>4, <1>5, <1>6, StartingMoves

\* A frame of Close() that goes on at another place.
LEMMA CloseFrames ==
    ASSUME NEW f \in FrameSet, f.pc \in ClosePC, NEW pc \in ClosePC, NEW g, g = [f EXCEPT !.pc = pc]
    PROVE  g \in FrameSet /\ g.pc = pc /\ Plain(pc)
<1>1. f.arg \in CloseArgs
  BY DEF FrameSet
<1>2. pc \in PCs /\ pc \notin PeerPC \cup PlayerPC \cup ListPC \cup TerminatePC /\ Plain(pc)
  BY DEF PCs, PeerPC, PlayerPC, ListPC, ClosePC, TerminatePC, Plain, HandlerPC
<1> QED BY <1>1, <1>2, SameArgFacts

\* Close() sets the state, and lets the peers go.
LEMMA CloseBeginsKeeps ==
    ASSUME SessionInv, NEW t \in Threads, CloseBegins(t) \/ ClosePeers(t)
    PROVE  Kept
<1>1. CASE CloseBegins(t)
  <2> DEFINE f == [Top(t) EXCEPT !.pc = "closeselfcb"]
             g == [Top(t) EXCEPT !.pc = "closepeers"]
  <2>1. lock \in {t, Null} /\ stack[t] # <<>> /\ Top(t) \in FrameSet /\ Top(t).pc = "close"
    BY <1>1, AtPeer DEF CloseBegins
  <2>2. f \in FrameSet /\ Plain(f.pc)
    <3>1. "close" \in ClosePC /\ "closeselfcb" \in ClosePC
      BY DEF ClosePC
    <3> QED BY <2>1, <3>1, CloseFrames
  <2>3. g \in FrameSet /\ Plain(g.pc)
    <3>1. "close" \in ClosePC /\ "closepeers" \in ClosePC
      BY DEF ClosePC
    <3> QED BY <2>1, <3>1, CloseFrames
  <2>4. Unlock(t, f) \/ Goto(t, g)
    BY <1>1 DEF CloseBegins
  <2> HIDE DEF f, g
  <2>5. Shape(t)
    BY <2>2, <2>3, <2>4 DEF Shape
  <2>6. told' \in [Players -> {"unknown", "present", "gone", "twice", "unheard"}]
    BY <1>1, ToldFacts DEF CloseBegins, SessionInv, Values
  <2>7. Values' /\ UNCHANGED <<peers, next_peer_id>>
    BY <1>1, <2>6 DEF CloseBegins, SessionInv, Values, SessionStates, table, ids
  <2> QED BY <2>1, <2>5, <2>7, ShapeKeeps
<1>2. CASE ClosePeers(t)
  <2> DEFINE pc == IF Top(t).arg.now THEN "destroyall" ELSE "shutdownall"
             f == Frame(pc, Null)
             b == [Top(t) EXCEPT !.pc = "closewaits"]
  <2>1. lock \in {t, Null} /\ stack[t] # <<>> /\ Top(t) \in FrameSet /\ Top(t).pc \in {"closepeers", "closeselfcb"}
    BY <1>2, AtPeer DEF ClosePeers
  <2>2. f \in FrameSet /\ Plain(f.pc)
    <3>1. pc \in NullPC /\ pc # "closewait"
      BY DEF NullPC
    <3> HIDE DEF pc
    <3> QED BY <3>1, NullFrames
  <2>3. b \in FrameSet /\ b.pc = "closewaits"
    <3>1. Top(t).pc \in ClosePC /\ "closewaits" \in ClosePC
      BY <2>1 DEF ClosePC
    <3> QED BY <2>1, <3>1, CloseFrames
  <2>4. b.pc \in BelowPC
    BY <2>3 DEF BelowPC
  <2>5. Call(t, f, b)
    BY <1>2 DEF ClosePeers
  <2>6. UNCHANGED <<state, listening, table, ids, starts, hist>>
    BY <1>2 DEF ClosePeers
  <2> HIDE DEF f, b
  <2>7. Shape(t)
    BY <2>2, <2>3, <2>4, <2>5 DEF Shape
  <2> QED BY <2>1, <2>6, <2>7, ShapeKeeps
<1> QED BY <1>1, <1>2

\* All places of a stack.
LEMMA AllPlaces ==
    ASSUME NEW s \in Seq(FrameSet), s # <<>>
    PROVE  PCsOf(s) = {TopIn(s).pc} \cup DeepOf(s) /\ TopIn(s) \in FrameSet /\ TopIn(s) = Head(s)
<1>1. Len(s) \in Nat \ {0} /\ TopIn(s) = s[1] /\ TopIn(s) = Head(s) /\ Head(s) \in FrameSet
  BY HeadTailProperties, EmptySeq, LenProperties DEF TopIn
<1>2. 1..Len(s) = {1} \cup 2..Len(s)
  BY <1>1
<1> QED BY <1>1, <1>2 DEF PCsOf, DeepOf

\* Close() waits on peer_destroyed, or goes on.
LEMMA CloseWaitsKeeps ==
    ASSUME SessionInv, NEW t \in Threads, CloseWaits(t)
    PROVE  Kept
<1> DEFINE q == IF Top(t).pc = "closewaits" THEN stack[t] ELSE Below(t)
           g == [Head(q) EXCEPT !.pc = "closeself"]
           w == Frame("closewait", Null)
<1>0. lock \in {t, Null} /\ stack[t] # <<>> /\ Top(t).pc \in {"closewaits", "closewait"} /\ Top(t) = TopIn(stack[t])
  BY AtPeer DEF CloseWaits
<1>1. stack[t] \in Seq(FrameSet) /\ DeepOf(stack[t]) \subseteq BelowPC /\ Waiting /\ Stacks
  BY DEF SessionInv, Stacks
<1>2. q \in Seq(FrameSet) /\ q # <<>> /\ TopIn(q).pc = "closewaits" /\ PCsOf(q) \subseteq BelowPC /\ DeepOf(q) \subseteq BelowPC
  <2>1. CASE Top(t).pc = "closewaits"
    <3>1. q = stack[t]
      BY <2>1
    <3>2. PCsOf(stack[t]) = {"closewaits"} \cup DeepOf(stack[t])
      BY <1>0, <1>1, <2>1, AllPlaces
    <3>3. PCsOf(stack[t]) \subseteq BelowPC
      BY <1>1, <3>2 DEF BelowPC
    <3> QED BY <1>0, <1>1, <2>1, <3>1, <3>3
  <2>2. CASE Top(t).pc = "closewait"
    <3>1. q = Tail(stack[t])
      BY <2>2 DEF Below
    <3>2. CallerIn(stack[t]) = "closewaits"
      BY <1>0, <1>1, <2>2 DEF Waiting
    <3> HIDE DEF q
    <3>3. /\ q \in Seq(FrameSet) /\ PCsOf(q) = DeepOf(stack[t]) /\ DeepOf(q) \subseteq DeepOf(stack[t])
          /\ q = <<>> => CallerIn(stack[t]) = "idle"
          /\ q # <<>> => TopIn(q).pc = CallerIn(stack[t])
      BY <1>0, <1>1, <3>1, Popped
    <3> QED BY <1>1, <3>2, <3>3
  <2> QED BY <1>0, <2>1, <2>2
<1>3. \/ lock' = t /\ Stack(t, <<g>> \o Tail(q))
      \/ lock' = Null /\ Stack(t, <<w>> \o q)
  BY DEF CloseWaits
<1> HIDE DEF q
<1>4. g \in FrameSet /\ Plain(g.pc)
  <2>1. Head(q) \in FrameSet /\ Head(q).pc = "closewaits"
    BY <1>2, AllPlaces
  <2>2. "closewaits" \in ClosePC /\ "closeself" \in ClosePC
    BY DEF ClosePC
  <2> QED BY <2>1, <2>2, CloseFrames
<1>5. w \in FrameSet /\ w.pc = "closewait"
  BY NullFrames DEF NullPC
<1> HIDE DEF g, w
<1>6. Moves(t)
  <2>1. CASE lock' = t /\ Stack(t, <<g>> \o Tail(q))
    <3> DEFINE s == <<g>> \o Tail(q)
    <3>1. s \in Seq(FrameSet) /\ s # <<>> /\ TopIn(s) = g /\ DeepOf(s) = DeepOf(q)
      BY <1>2, <1>4, Replaced
    <3> HIDE DEF s
    <3>2. Stack(t, s)
      BY <2>1 DEF s
    <3>3. Stacks' /\ Elsewhere(t) /\ stack'[t] = s
      BY <1>1, <1>2, <3>1, <3>2, StackReplaced
    <3> QED BY <1>0, <1>4, <2>1, <3>1, <3>3 DEF Moves, Locks, Arrives, Plain
  <2>2. CASE lock' = Null /\ Stack(t, <<w>> \o q)
    <3> DEFINE s == <<w>> \o q
    <3>1. s \in Seq(FrameSet) /\ s # <<>> /\ TopIn(s) = w /\ DeepOf(s) = PCsOf(q) /\ CallerIn(s) = "closewaits"
      BY <1>2, <1>5, Pushed
    <3> HIDE DEF s
    <3>2. Stack(t, s)
      BY <2>2 DEF s
    <3>3. Stacks' /\ Elsewhere(t) /\ stack'[t] = s
      BY <1>1, <1>2, <3>1, <3>2, StackReplaced
    <3>4. "closewait" \notin HandlerPC
      BY DEF HandlerPC
    <3> QED BY <1>0, <1>5, <2>2, <3>1, <3>3, <3>4 DEF Moves, Locks, Arrives
  <2> QED BY <1>3, <2>1, <2>2
<1>7. UNCHANGED <<state, listening, table, ids, starts, hist>>
  BY DEF CloseWaits
<1> QED BY <1>6, <1>7, ControlKeeps DEF Kept

\* Close() indicates and returns.
LEMMA CloseEndsKeeps ==
    ASSUME SessionInv, NEW t \in Threads, CloseSelf(t) \/ CloseReturns(t)
    PROVE  Kept
<1>1. lock \in {t, Null} /\ stack[t] # <<>>
  BY AtPeer DEF CloseSelf, CloseReturns
<1>2. CASE CloseSelf(t)
  <2> DEFINE f == Frame("closepool", Null)
  <2>1. f \in FrameSet /\ Plain(f.pc)
    BY NullFrames DEF NullPC
  <2>2. Unlock(t, f)
    BY <1>2 DEF CloseSelf
  <2>3. UNCHANGED <<state, listening, table, ids, starts, completes>> /\ (told' = told \/ \E x : told' = Destroy(x))
    BY <1>2 DEF CloseSelf
  <2> HIDE DEF f
  <2>4. Shape(t)
    BY <2>1, <2>2 DEF Shape
  <2> QED BY <1>1, <2>3, <2>4, ShapeKeeps
<1>3. CASE CloseReturns(t)
  <2>1. Shape(t)
    BY <1>3 DEF Shape, CloseReturns
  <2>2. Values' /\ UNCHANGED <<peers, next_peer_id>>
    BY <1>3 DEF CloseReturns, SessionInv, Values, SessionStates, table, ids, hist
  <2> QED BY <1>1, <2>1, <2>2, ShapeKeeps
<1> QED BY <1>2, <1>3

\* Frames of TerminateSession().
LEMMA TerminateFrames ==
    ASSUME NEW pc \in TerminatePC, NEW a \in TerminateArgs
    PROVE  LET f == With(Frame(pc, Null), a)
           IN  f \in FrameSet /\ f.pc = pc /\ f.arg = a /\ Plain(pc)
<1>1. pc \in PCs /\ pc \notin PeerPC \cup PlayerPC \cup ListPC \cup ClosePC /\ Plain(pc)
  BY DEF PCs, PeerPC, PlayerPC, ListPC, ClosePC, TerminatePC, Plain, HandlerPC
<1>2. a \in Args
  BY DEF Args
<1> QED BY <1>1, <1>2, WithFacts

\* TerminateSession() begins: every player is on its way out.
LEMMA TerminateSessionKeeps ==
    ASSUME SessionInv, NEW t \in Threads, TerminateSession(t)
    PROVE  Kept
<1> DEFINE joined == {p \in Present : peers[p].st = "connected"}
           others == {p \in Present : peers[p].st \notin {"connected", "closing"}}
           a == [players |-> {peers[p].player : p \in joined}, peers |-> others]
           f == With(Frame("tsendcb", Null), a)
<1>1. lock = Null /\ stack[t] = <<>> /\ lock' = Null
  BY DEF TerminateSession
<1>2. Stack(t, <<f>>)
  BY DEF TerminateSession, Stack
<1>3. \A p \in joined : p \in PeerIds /\ peers[p] \in PeerRecs /\ peers[p].st = "connected" /\ peers[p].player \in Players \cup {Null}
  BY DEF SessionInv, Values, Present, PeerRecs
<1>4. a \in TerminateArgs
  <2>1. {peers[p].player : p \in joined} \in SUBSET (Players \cup {Null})
    BY <1>3
  <2>2. others \in SUBSET PeerIds
    BY DEF Present
  <2> HIDE DEF joined, others
  <2> QED BY <2>1, <2>2 DEF TerminateArgs
<1> HIDE DEF a
<1>5. f \in FrameSet /\ Plain(f.pc)
  <2>1. "tsendcb" \in TerminatePC
    BY DEF TerminatePC
  <2> QED BY <1>4, <2>1, TerminateFrames
<1> HIDE DEF f
<1>6. Moves(t)
  BY <1>1, <1>2, <1>5, StartingMoves DEF Starting
<1>7. peers' = [p \in PeerIds |-> IF p \in joined THEN [peers[p] EXCEPT !.st = "closing"] ELSE peers[p]]
  BY DEF TerminateSession
<1> HIDE DEF joined
<1>8. ASSUME NEW p \in PeerIds PROVE peers'[p] \in {Null} \cup PeerRecs /\ PeerMoves(t, p)
  <2>1. CASE p \in joined
    <3> DEFINE r == [peers[p] EXCEPT !.st = "closing"]
    <3>1. peers'[p] = r
      BY <1>7, <2>1
    <3>2. r \in PeerRecs /\ r.st = "closing" /\ peers[p] # Null
      BY <1>3, <2>1, PeerRecFacts DEF PeerStates
    <3> QED BY <1>3, <2>1, <3>1, <3>2 DEF PeerMoves
  <2>2. CASE p \notin joined
    BY <1>7, <2>2 DEF PeerMoves, SessionInv, Values
  <2> QED BY <2>1, <2>2
<1>9. peers' \in [PeerIds -> {Null} \cup PeerRecs]
  <2>1. peers' = [p \in PeerIds |-> peers'[p]]
    BY <1>7
  <2> QED BY <1>8, <2>1
<1>10. Values' /\ UNCHANGED next_peer_id
  BY <1>9 DEF TerminateSession, SessionInv, Values, SessionStates, ids, hist
<1> QED BY <1>6, <1>8, <1>10, PeersKeep

\* TerminateSession() indicates, and destroys what was no player.
LEMMA TerminateKeeps ==
    ASSUME SessionInv, NEW t \in Threads, TerminateIndicates(t) \/ TerminateDestroys(t)
    PROVE  Kept
<1> DEFINE a == Top(t).arg
<1>1. lock \in {t, Null} /\ stack[t] # <<>> /\ Top(t) \in FrameSet /\ Top(t).pc \in TerminatePC /\ a \in TerminateArgs
  <2>1. lock \in {t, Null} /\ stack[t] # <<>> /\ Top(t) \in FrameSet /\ Top(t).pc \in TerminatePC
    BY AtPeer DEF TerminateIndicates, TerminateDestroys, TerminatePC
  <2> QED BY <2>1 DEF FrameSet
<1>2. CASE TerminateIndicates(t)
  <2> DEFINE x == IF Top(t).pc = "tsendcb" THEN local_player_id ELSE Min(a.players)
             f == [Top(t) EXCEPT !.pc = "tsdestroy"]
             b == [a EXCEPT !.players = @ \ {x}]
             g == With(Frame("tsplayercb", Null), b)
  <2>1. f \in FrameSet /\ Plain(f.pc)
    <3>1. "tsdestroy" \in PCs /\ "tsdestroy" \notin PeerPC \cup PlayerPC \cup ListPC \cup ClosePC /\ Plain("tsdestroy")
      BY DEF PCs, PeerPC, PlayerPC, ListPC, ClosePC, TerminatePC, Plain, HandlerPC
    <3> QED BY <1>1, <3>1, SameArgFacts
  <2>2. b \in TerminateArgs
    BY <1>1 DEF TerminateArgs
  <2>3. /\ Goto(t, f) \/ Unlock(t, g)
        /\ UNCHANGED <<state, listening, table, ids, starts, completes>> /\ (told' = told \/ \E y : told' = Destroy(y))
    BY <1>2 DEF TerminateIndicates
  <2> HIDE DEF b
  <2>4. g \in FrameSet /\ Plain(g.pc)
    <3>1. "tsplayercb" \in TerminatePC
      BY DEF TerminatePC
    <3> QED BY <2>2, <3>1, TerminateFrames
  <2> HIDE DEF f, g
  <2>5. Shape(t)
    BY <2>1, <2>3, <2>4 DEF Shape
  <2> QED BY <1>1, <2>3, <2>5, ShapeKeeps
<1>3. CASE TerminateDestroys(t)
  <2> DEFINE f == Frame("destroy", Min(a.peers))
             b == Top(t)
  <2>1. a.peers # {} => f \in FrameSet /\ Plain(f.pc)
    <3>1. a.peers \in SUBSET PeerIds
      BY <1>1 DEF TerminateArgs
    <3> HIDE DEF a
    <3>2. a.peers # {} => Min(a.peers) \in PeerIds
      BY <3>1, FirstPeer
    <3> QED BY <3>2, PeerFrames
  <2>2. b \in FrameSet /\ b.pc \in BelowPC
    BY <1>1, <1>3, AtPeer DEF TerminateDestroys, BelowPC
  <2>3. /\ Return(t) \/ (a.peers # {} /\ Call(t, f, b))
        /\ UNCHANGED <<state, listening, table, ids, starts, hist>>
    BY <1>3 DEF TerminateDestroys
  <2> HIDE DEF f, b
  <2>4. Shape(t)
    BY <2>1, <2>2, <2>3 DEF Shape
  <2> QED BY <1>1, <2>3, <2>4, ShapeKeeps
<1> QED BY <1>2, <1>3

\* DestroyPeer() begins.
LEMMA DestroyPeerKeeps ==
    ASSUME SessionInv, NEW t \in Threads, NEW x \in Players, DestroyPeer(t, x)
    PROVE  Kept
<1> DEFINE f == Frame("shutdown", player_to_peer_id[x])
<1>1. f \in FrameSet /\ Plain(f.pc)
  <2>1. player_to_peer_id[x] \in PeerIds
    BY DEF DestroyPeer, Present
  <2> QED BY <2>1, PeerFrames
<1>2. lock = Null /\ stack[t] = <<>> /\ lock' = t /\ Stack(t, <<f>>)
      /\ UNCHANGED <<state, listening, table, ids, starts, hist>>
  BY DEF DestroyPeer, Begin
<1> HIDE DEF f
<1> QED BY <1>1, <1>2, StartingMoves DEF Starting

-------------------------------------------------------------------------------
(* The theorems.                                                             *)

\* The steps of a thread that is in some function.
LEMMA RunKeeps ==
    ASSUME SessionInv, NEW t \in Threads, Run(t)
    PROVE  Kept
<1>1. CASE DestroyFlush(t) \/ DestroyFlushed(t)
  BY <1>1, FlushKeeps
<1>2. CASE DestroyPeerState(t)
  BY <1>2, DestroyPeerStateKeeps
<1>3. CASE DestroyIndicated(t)
  BY <1>3, DestroyIndicatedKeeps
<1>4. CASE HostLost(t) \/ HostLostDone(t)
  BY <1>4, HostLostKeeps
<1>5. CASE Erase(t)
  BY <1>5, EraseKeeps
<1>6. CASE DestroyAll(t) \/ ShutdownAll(t)
  BY <1>6, AllKeeps
<1>7. CASE PeerShutdown(t)
  BY <1>7, PeerShutdownKeeps
<1>8. CASE ShutdownIndicated(t)
  BY <1>8, ShutdownIndicatedKeeps
<1>9. CASE ConnectCheck(t) \/ ConnectChecked(t)
  BY <1>9, CheckKeeps
<1>10. CASE ConnectFail(t)
  BY <1>10, FailKeeps
<1>11. CASE ConnectFailSelf(t) \/ ConnectFailComplete(t) \/ ConnectFailed(t)
  BY <1>11, FailedKeeps
<1>12. CASE ReadDone(t)
  BY <1>12, ReadDoneKeeps
<1>13. CASE HostConnectRequest(t)
  BY <1>13, HostConnectRequestKeeps
<1>14. CASE IndicateAccepted(t) \/ IndicateRejected(t)
  BY <1>14, IndicatedKeeps
<1>15. CASE Indicated(t) \/ HandleMessage(t)
  BY <1>15, MessageHandledKeeps
<1>16. CASE HostConnectOk(t)
  BY <1>16, HostConnectOkKeeps
<1>17. CASE HostConnectOkSelf(t)
  BY <1>17, HostConnectOkSelfKeeps
<1>18. CASE HostConnectOkHost(t)
  BY <1>18, HostConnectOkHostKeeps
<1>19. CASE ConnectRefused(t)
  BY <1>19, ConnectRefusedKeeps
<1>20. CASE ConnectPeer(t)
  BY <1>20, ConnectPeerKeeps
<1>21. CASE ConnectPeerOk(t)
  BY <1>21, ConnectPeerOkKeeps
<1>22. CASE ConnectPeerIndicated(t)
  BY <1>22, ConnectPeerIndicatedKeeps
<1>23. CASE HandleDestroy(t)
  BY <1>23, HandleDestroyKeeps
<1>24. CASE SessionEnds(t) \/ SessionEnded(t)
  BY <1>24, SessionEndsKeeps
<1>25. CASE ConnectWaits(t)
  BY <1>25, CancelKeeps
<1>26. CASE CloseBegins(t) \/ ClosePeers(t)
  BY <1>26, CloseBeginsKeeps
<1>27. CASE CloseWaits(t)
  BY <1>27, CloseWaitsKeeps
<1>28. CASE CloseSelf(t) \/ CloseReturns(t)
  BY <1>28, CloseEndsKeeps
<1>29. CASE TerminateIndicates(t) \/ TerminateDestroys(t)
  BY <1>29, TerminateKeeps
<1>30. CASE ConnectionUsed(t)
  BY <1>30, AbortKeeps DEF ConnectionUsed, Abort, Kept
<1> QED BY <1>1, <1>2, <1>3, <1>4, <1>5, <1>6, <1>7, <1>8, <1>9, <1>10, <1>11, <1>12, <1>13, <1>14, <1>15,
           <1>16, <1>17, <1>18, <1>19, <1>20, <1>21, <1>22, <1>23, <1>24, <1>25, <1>26, <1>27, <1>28, <1>29, <1>30
        DEF Run

\* Socket events, and the calls of the application.
LEMMA OthersKeep ==
    ASSUME SessionInv, NEW t \in Threads, Serve(t) \/ CallApi(t)
    PROVE  Kept
<1>1. CASE Serve(t)
  <2>1. CASE Accept(t)
    BY <2>1, AcceptKeeps
  <2>2. ASSUME NEW p \in Present,
               \/ Established(t, p) \/ NotEstablished(t, p) \/ ConnectionUnknown(t, p)
               \/ SendFails(t, p) \/ ReadsEnd(t, p) \/ Message(t, p)
        PROVE  Kept
    <3>1. p \in PeerIds
      BY DEF Present
    <3> QED BY <2>2, <3>1, EstablishedKeeps, UnknownKeeps, EndKeeps, MessageKeeps
  <2> QED BY <1>1, <2>1, <2>2 DEF Serve
<1>2. CASE CallApi(t)
  <2>1. CASE Initialize(t) \/ Host(t) \/ HostFails(t)
    BY <2>1, HostKeeps
  <2>2. CASE Connect(t, TRUE) \/ Connect(t, FALSE) \/ ConnectFails(t)
    BY <2>2, ConnectKeeps
  <2>3. CASE CancelConnect(t)
    BY <2>3, CancelKeeps
  <2>4. CASE Close(t, TRUE) \/ Close(t, FALSE)
    BY <2>4, CloseKeeps
  <2>5. CASE TerminateSession(t)
    BY <2>5, TerminateSessionKeeps
  <2>6. CASE \E x \in Players : DestroyPeer(t, x)
    BY <2>6, DestroyPeerKeeps
  <2> QED BY <1>2, <2>1, <2>2, <2>3, <2>4, <2>5, <2>6 DEF CallApi
<1> QED BY <1>1, <1>2

\* Every step of the session.
LEMMA NextKeeps ==
    ASSUME SessionInv, [Next]_vars
    PROVE  Kept
<1>1. CASE UNCHANGED vars
  BY <1>1, AbortKeeps DEF vars, run, table, ids, hist, Kept
<1>2. CASE \E t \in Threads : Run(t)
  BY <1>2, RunKeeps
<1>3. CASE \E t \in Workers \cup Callers : Serve(t) \/ CallApi(t)
  BY <1>3, OthersKeep DEF Threads
<1> QED BY <1>1, <1>2, <1>3 DEF Next, Rest

\* At the beginning no thread is in a function and the table is empty.
LEMMA InitHolds ==
    ASSUME Init
    PROVE  SessionInv
<1>1. \A t \in Threads : stack[t] = <<>> /\ stack[t] \in Seq(FrameSet) /\ DeepOf(stack[t]) = {} /\ TopIn(stack[t]).pc = "idle"
  BY DEF Init, DeepOf, TopIn, Frame
<1>2. stack \in [Threads -> Seq(FrameSet)]
  BY <1>1 DEF Init
<1>3. Stacks
  BY <1>1, <1>2 DEF Stacks
<1>4. LockOK
  BY DEF Init, LockOK
<1>5. Values
  <2>1. /\ state = "new" /\ listening = FALSE /\ next_peer_id \in FirstPeerIds /\ starts = 0 /\ completes = 0
        /\ next_player_id = 0 /\ host_player_id = 0 /\ local_player_id = 0
    BY DEF Init
  <2>2. state \in SessionStates /\ listening \in BOOLEAN
    BY <2>1 DEF SessionStates
  <2>3. /\ next_peer_id \in Nat /\ starts \in 0..MaxStarts /\ completes \in Nat
        /\ next_player_id \in Nat /\ host_player_id \in 0..MaxPlayers /\ local_player_id \in 0..MaxPlayers
    BY <2>1, SessionAssumption
  <2>4. /\ peers \in [PeerIds -> {Null} \cup PeerRecs] /\ player_to_peer_id \in [Players -> PeerIds \cup {Null}]
        /\ told \in [Players -> {"unknown", "present", "gone", "twice", "unheard"}]
    BY DEF Init
  <2> QED BY <2>2, <2>3, <2>4 DEF Values
<1>6. Fresh
  BY DEF Init, Fresh, Present
<1>7. Indicating /\ Handling /\ Waiting
  BY <1>1 DEF Indicating, Handling, Waiting, HandlerPC
<1> QED BY <1>3, <1>4, <1>5, <1>6, <1>7 DEF SessionInv

\* The invariant holds in every state of every session: whatever threads do between
\* two releases of the lock, a handler finds its peer, ids are not used again, and a
\* peer the application is asked about stays what it is.
THEOREM SessionInvariant == Spec => []SessionInv
<1>1. Init => SessionInv
  BY InitHolds
<1>2. SessionInv /\ [Next]_vars => SessionInv'
  BY NextKeeps DEF Kept
<1> QED BY <1>1, <1>2, PTL DEF Spec

\* Every variable has its type, and whoever has the lock is in a function that will
\* release it.
THEOREM SessionTypeOK == Spec => []TypeOK
<1>1. SessionInv => TypeOK
  <2> HAVE SessionInv
  <2>1. ASSUME NEW t \in Threads, NEW i \in DOMAIN stack[t] PROVE stack[t][i].peer \in PeerIds \cup {Null}
    <3>1. stack[t] \in Seq(FrameSet)
      BY DEF SessionInv, Stacks
    <3>2. stack[t][i] \in FrameSet
      BY <3>1
    <3> QED BY <3>2 DEF FrameSet
  <2>2. \A f \in Frames : f.peer \in PeerIds \cup {Null}
    BY <2>1 DEF Frames
  <2> QED BY <2>2 DEF SessionInv, LockOK, Values, TypeOK
<1> QED BY <1>1, SessionInvariant, PTL

\* A peer that has begun to close, in peer_shutdown(), peer_destroy(), send_fail() or
\* TerminateSession(), never becomes a player again, whichever handler of it was in the
\* application meanwhile.
THEOREM ClosedPeersStayClosed == Spec => NoResurrection
<1>1. SessionInv /\ [Next]_vars =>
        [\A p \in Present : peers[p].st = "closing" => peers'[p] = Null \/ peers'[p].st = "closing"]_vars
  BY NextKeeps DEF Kept, StaysClosing
<1> QED BY <1>1, SessionInvariant, PTL DEF Spec, NoResurrection

-------------------------------------------------------------------------------
(* The end of a Connect(): however many members, answers and broken          *)
(* connections decide it on any number of threads, and whatever the          *)
(* application calls meanwhile, it is completed once.                        *)

\* One thread of the application hosts, joins and closes.  It does not host or join
\* another session while a Connect() fails, nor before it has closed one that has ended.
JoinsInTurn == (\A c, d \in Callers : c = d) /\ ConnectIn \subseteq {"initialised"}

\* The places of connect_fail() after it has set STATE_CONNECT_FAILED, and those before
\* it raises CONNECT_COMPLETE.
FailPC == {"failself", "failselfcb", "failcomplete", "failcb"}
UntoldPC == FailPC \ {"failcb"}

Failing(s) == PCsOf(s) \cap FailPC # {}
Untold(s) == PCsOf(s) \cap UntoldPC # {}

\* connect_fail() is not called by what it calls itself.
FailsOnce(s) == \A i \in 1..Len(s) : s[i].pc \in FailPC => \A j \in i+1..Len(s) : s[j].pc \notin FailPC

\* Nobody calls Close() but the application.
JoinStack(t, s) ==
    /\ FailsOnce(s) /\ Based(s)
    /\ PCsOf(s) \cap Outermost # {} => t \in Callers

JoinStacks == \A t \in Threads : JoinStack(t, stack[t])

\* One thread at a time is in connect_fail(), and until it leaves no other Connect() begins.
OneFails ==
    \A t \in Threads : Failing(stack[t]) =>
       /\ \A u \in Threads : Failing(stack[u]) => u = t
       /\ state \in {"connect_failed", "closing", "terminated"}

\* Neither a Connect() that goes on nor one that fails has been completed.
Completed ==
    /\ completes <= 1 /\ (Connecting => completes = 0)
    /\ \A t \in Threads : Untold(stack[t]) => completes = 0

JoinInv == JoinStacks /\ OneFails /\ Completed

-------------------------------------------------------------------------------
(* Stacks                                                                    *)

\* A function is entered.
LEMMA ConsFails ==
    ASSUME NEW S, NEW r \in Seq(S), NEW f \in S
    PROVE  FailsOnce(<<f>> \o r) <=> FailsOnce(r) /\ (f.pc \in FailPC => ~Failing(r))
<1> DEFINE s == <<f>> \o r
<1>1. Len(r) \in Nat /\ Len(s) = Len(r) + 1
  BY LenProperties
<1>2. s[1] = f /\ \A i \in 1..Len(r) : s[i + 1] = r[i]
  OBVIOUS
<1> HIDE DEF s
<1>3. ASSUME FailsOnce(s) PROVE FailsOnce(r) /\ (f.pc \in FailPC => ~Failing(r))
  <2>1. ASSUME NEW i \in 1..Len(r), r[i].pc \in FailPC, NEW j \in i+1..Len(r) PROVE r[j].pc \notin FailPC
    <3>1. i + 1 \in 1..Len(s) /\ j + 1 \in (i + 1)+1..Len(s) /\ j \in 1..Len(r)
      BY <1>1
    <3>2. s[i + 1].pc \in FailPC
      BY <1>2, <2>1
    <3> QED BY <1>2, <1>3, <3>1, <3>2 DEF FailsOnce
  <2>2. ASSUME f.pc \in FailPC, NEW j \in 1..Len(r) PROVE r[j].pc \notin FailPC
    <3>1. 1 \in 1..Len(s) /\ j + 1 \in 1+1..Len(s)
      BY <1>1
    <3> QED BY <1>2, <1>3, <2>2, <3>1 DEF FailsOnce
  <2> QED BY <2>1, <2>2 DEF FailsOnce, Failing, PCsOf
<1>4. ASSUME FailsOnce(r), f.pc \in FailPC => ~Failing(r) PROVE FailsOnce(s)
  <2> SUFFICES ASSUME NEW i \in 1..Len(s), s[i].pc \in FailPC, NEW j \in i+1..Len(s) PROVE s[j].pc \notin FailPC
    BY DEF FailsOnce
  <2>1. j - 1 \in 1..Len(r) /\ j = (j - 1) + 1
    BY <1>1
  <2>2. s[j] = r[j - 1]
    BY <1>2, <2>1
  <2>3. CASE i = 1
    BY <1>2, <1>4, <2>1, <2>2, <2>3 DEF Failing, PCsOf
  <2>4. CASE i # 1
    <3>1. i - 1 \in 1..Len(r) /\ i = (i - 1) + 1 /\ j - 1 \in (i - 1)+1..Len(r)
      BY <1>1, <2>4
    <3>2. s[i] = r[i - 1]
      BY <1>2, <3>1
    <3> QED BY <1>4, <2>2, <3>1, <3>2 DEF FailsOnce
  <2> QED BY <2>3, <2>4
<1> QED BY <1>3, <1>4 DEF s

\* The stack below the innermost function.
LEMMA JoinBelow ==
    ASSUME Stacks, JoinStacks, NEW t \in Threads, stack[t] # <<>>
    PROVE  LET s == Below(t)
           IN  /\ s \in Seq(FrameSet) /\ JoinStack(t, s)
               /\ PCsOf(stack[t]) = {Top(t).pc} \cup PCsOf(s)
               /\ Top(t).pc \in Outermost => s = <<>> /\ t \in Callers
               /\ Top(t).pc \in FailPC => ~Failing(s)
<1> DEFINE q == stack[t]
           s == Tail(q)
<1>0. Top(t) = TopIn(q)
  BY TopFacts
<1>1. q \in Seq(FrameSet) /\ q # <<>> /\ JoinStack(t, q) /\ s = Below(t)
  BY DEF Stacks, JoinStacks, Below
<1> HIDE DEF q
<1>2. s \in Seq(FrameSet) /\ PCsOf(s) = DeepOf(q)
  BY <1>1, Popped
<1>3. PCsOf(q) = {TopIn(q).pc} \cup DeepOf(q) /\ TopIn(q) \in FrameSet
  BY <1>1, FramesSplit
<1>4. Based(s) /\ (TopIn(q).pc \in Outermost => s = <<>>)
  BY <1>1, BasedFacts DEF JoinStack
<1>5. q = <<TopIn(q)>> \o s
  BY <1>1, HeadTailProperties DEF TopIn
<1> HIDE DEF s
<1>6. FailsOnce(s) /\ (TopIn(q).pc \in FailPC => ~Failing(s))
  BY <1>1, <1>2, <1>3, <1>5, ConsFails DEF JoinStack
<1>7. JoinStack(t, s) /\ (TopIn(q).pc \in Outermost => t \in Callers)
  BY <1>1, <1>2, <1>3, <1>4, <1>6 DEF JoinStack
<1> QED BY <1>0, <1>1, <1>2, <1>3, <1>4, <1>6, <1>7 DEF q

\* A thread is in the functions s now, and the others are where they were.
Moved(t, pcs) ==
    /\ JoinStacks' /\ PCsOf(stack'[t]) = pcs
    /\ \A u \in Threads \ {t} : PCsOf(stack'[u]) = PCsOf(stack[u])

LEMMA JoinReplaced ==
    ASSUME Stacks, JoinStacks, NEW t \in Threads, NEW s, Stack(t, s), JoinStack(t, s)
    PROVE  Moved(t, PCsOf(s)) /\ stack'[t] = s
<1>1. stack'[t] = s /\ \A u \in Threads \ {t} : stack'[u] = stack[u]
  BY DEF Stacks, Stack
<1>2. \A u \in Threads : JoinStack(u, stack'[u])
  BY <1>1 DEF JoinStacks
<1> QED BY <1>1, <1>2 DEF Moved, JoinStacks

\* A function on top of others.
LEMMA JoinPush ==
    ASSUME NEW S, NEW t \in Threads, NEW r \in Seq(S), JoinStack(t, r), NEW f \in S,
           f.pc \in Outermost => r = <<>> /\ t \in Callers, f.pc \in FailPC => ~Failing(r)
    PROVE  <<f>> \o r \in Seq(S) /\ JoinStack(t, <<f>> \o r) /\ PCsOf(<<f>> \o r) = {f.pc} \cup PCsOf(r)
<1>1. <<f>> \o r \in Seq(S) /\ PCsOf(<<f>> \o r) = {f.pc} \cup PCsOf(r)
  BY Pushed
<1>2. Based(<<f>> \o r)
  BY ConsBased DEF JoinStack
<1>3. FailsOnce(<<f>> \o r)
  BY ConsFails DEF JoinStack
<1> QED BY <1>1, <1>2, <1>3 DEF JoinStack

\* Goto(t, f) and Unlock(t, f).
LEMMA JoinGoto ==
    ASSUME Stacks, JoinStacks, NEW t \in Threads, stack[t] # <<>>, NEW f, Goto(t, f) \/ Unlock(t, f),
           f.pc \in Outermost => Top(t).pc \in Outermost, f.pc \in FailPC => Top(t).pc \in FailPC
    PROVE  Moved(t, {f.pc} \cup PCsOf(Below(t)))
<1> DEFINE S == FrameSet \cup {f}
           r == Below(t)
           s == <<f>> \o r
<1>1. /\ r \in Seq(FrameSet) /\ JoinStack(t, r)
      /\ Top(t).pc \in Outermost => r = <<>> /\ t \in Callers
      /\ Top(t).pc \in FailPC => ~Failing(r)
  BY JoinBelow
<1>2. FrameSet \subseteq S /\ f \in S
  OBVIOUS
<1>3. Stack(t, s)
  BY DEF Goto, Unlock
<1> HIDE DEF S, r
<1>4. r \in Seq(S)
  BY <1>1, <1>2, SeqGrows
<1>5. JoinStack(t, s) /\ PCsOf(s) = {f.pc} \cup PCsOf(r)
  BY <1>1, <1>2, <1>4, JoinPush
<1> HIDE DEF s
<1>6. Moved(t, PCsOf(s))
  BY <1>3, <1>5, JoinReplaced
<1> QED BY <1>5, <1>6 DEF r

\* Call(t, f, b).
LEMMA JoinCall ==
    ASSUME Stacks, JoinStacks, NEW t \in Threads, stack[t] # <<>>, NEW f, NEW b, Call(t, f, b),
           f.pc \notin Outermost, f.pc \notin FailPC,
           b.pc \in Outermost => Top(t).pc \in Outermost, b.pc \in FailPC => ~Failing(stack[t])
    PROVE  Moved(t, {f.pc, b.pc} \cup PCsOf(Below(t)))
<1> DEFINE S == FrameSet \cup {f, b}
           r == Below(t)
           q == <<b>> \o r
           s == <<f>> \o q
<1>1. /\ r \in Seq(FrameSet) /\ JoinStack(t, r)
      /\ Top(t).pc \in Outermost => r = <<>> /\ t \in Callers
      /\ PCsOf(stack[t]) = {Top(t).pc} \cup PCsOf(r)
  BY JoinBelow
<1>2. FrameSet \subseteq S /\ f \in S /\ b \in S
  OBVIOUS
<1> HIDE DEF S
<1>3. Stack(t, s)
  <2>1. Stack(t, <<f, b>> \o r)
    BY DEF Call
  <2> HIDE DEF r
  <2>2. r \in Seq(S)
    BY <1>1, <1>2, SeqGrows
  <2>3. <<f, b>> \o r = <<f>> \o (<<b>> \o r)
    BY <1>2, <2>2, TwoFrames
  <2> QED BY <2>1, <2>3
<1> HIDE DEF r
<1>4. r \in Seq(S) /\ (b.pc \in FailPC => ~Failing(r))
  BY <1>1, <1>2, SeqGrows DEF Failing
<1>5. q \in Seq(S) /\ JoinStack(t, q) /\ PCsOf(q) = {b.pc} \cup PCsOf(r)
  BY <1>1, <1>2, <1>4, JoinPush
<1> HIDE DEF q
<1>6. JoinStack(t, s) /\ PCsOf(s) = {f.pc} \cup PCsOf(q)
  BY <1>2, <1>5, JoinPush
<1> HIDE DEF s
<1>7. Moved(t, PCsOf(s))
  BY <1>3, <1>6, JoinReplaced
<1>8. PCsOf(s) = {f.pc, b.pc} \cup PCsOf(r)
  BY <1>5, <1>6
<1> QED BY <1>7, <1>8 DEF r

\* Return(t), which may wake others.
LEMMA JoinReturn ==
    ASSUME Stacks, JoinStacks, NEW t \in Threads, stack[t] # <<>>,
           Return(t) \/ ReturnAndNotify(t, "closewait") \/ ReturnAndNotify(t, "connectwait")
    PROVE  Moved(t, PCsOf(Below(t))) /\ stack'[t] = Below(t)
<1>1. JoinStack(t, Below(t))
  BY JoinBelow
<1>2. CASE Return(t)
  BY <1>1, <1>2, JoinReplaced DEF Return
<1>3. ASSUME NEW place \in {"closewait", "connectwait"}, ReturnAndNotify(t, place)
      PROVE  Moved(t, PCsOf(Below(t))) /\ stack'[t] = Below(t)
  <2>1. stack'[t] = Below(t) /\ \A u \in Threads \ {t} : PCsOf(stack'[u]) = PCsOf(stack[u])
    BY <1>3, NotifyShape DEF Shaped, Elsewhere
  <2>2. ASSUME NEW u \in Threads \ {t} PROVE JoinStack(u, stack'[u])
    <3>1. JoinStack(u, stack[u])
      BY DEF JoinStacks
    <3>2. CASE stack[u] # <<>> /\ Top(u).pc = place
      <4> DEFINE r == Below(u)
                 g == With(Top(u), "notified")
      <4>1. stack'[u] = <<g>> \o r
        BY <1>3, <3>2 DEF ReturnAndNotify
      <4>2. r \in Seq(FrameSet) /\ JoinStack(u, r)
        BY <3>2, JoinBelow
      <4>3. Top(u) \in FrameSet
        BY <3>2, TopFacts
      <4>4. g \in FrameSet /\ g.pc = place
        BY <3>2, <4>3, NotifiedFacts
      <4>5. place \notin Outermost /\ place \notin FailPC
        BY DEF Outermost, Family, ClosePC, FailPC
      <4> HIDE DEF r, g
      <4> QED BY <4>1, <4>2, <4>4, <4>5, JoinPush
    <3>3. CASE ~(stack[u] # <<>> /\ Top(u).pc = place)
      <4>1. stack'[u] = stack[u]
        BY <1>3, <3>3 DEF ReturnAndNotify
      <4> QED BY <3>1, <4>1
    <3> QED BY <3>2, <3>3
  <2> QED BY <1>1, <2>1, <2>2 DEF Moved, JoinStacks
<1> QED BY <1>2, <1>3

\* A thread that was idle begins.
LEMMA JoinBegin ==
    ASSUME Stacks, JoinStacks, NEW t \in Threads, stack[t] = <<>>, NEW f, NEW b,
           f.pc \notin FailPC /\ b.pc \notin FailPC, b.pc \in Outermost => t \in Callers,
           \/ Stack(t, <<f>>) /\ (f.pc \in Outermost => t \in Callers)
           \/ Stack(t, <<f, b>>) /\ f.pc \notin Outermost
    PROVE  PCsOf(stack[t]) = {} /\ (Moved(t, {f.pc}) \/ Moved(t, {f.pc, b.pc}))
<1> DEFINE S == {f, b}
           e == stack[t]
           q == <<b>> \o e
<1>0. e = <<>> /\ <<f>> \o e = <<f>>
  OBVIOUS
<1>1. e \in Seq(S) /\ JoinStack(t, e) /\ PCsOf(e) = {}
  BY DEF JoinStacks, PCsOf
<1>2. f \in S /\ b \in S
  OBVIOUS
<1>6. <<f, b>> \o e = <<f>> \o q
  BY <1>1, <1>2, TwoFrames
<1>7. <<f, b>> \o e = <<f, b>>
  OBVIOUS
<1> HIDE DEF e, S
<1>3. ~Failing(e)
  BY <1>1 DEF Failing
<1>4. CASE Stack(t, <<f>>) /\ (f.pc \in Outermost => t \in Callers)
  <2> DEFINE s == <<f>> \o e
  <2>1. f.pc \in Outermost => e = <<>> /\ t \in Callers
    BY <1>0, <1>4
  <2>2. Stack(t, s)
    BY <1>0, <1>4
  <2>3. JoinStack(t, s) /\ PCsOf(s) = {f.pc} \cup PCsOf(e)
    BY <1>1, <1>2, <2>1, JoinPush
  <2> HIDE DEF s
  <2> QED BY <1>1, <2>2, <2>3, JoinReplaced DEF e
<1>5. CASE Stack(t, <<f, b>>) /\ f.pc \notin Outermost
  <2> DEFINE s == <<f>> \o q
  <2>1. q \in Seq(S) /\ JoinStack(t, q) /\ PCsOf(q) = {b.pc} \cup PCsOf(e)
    <3>1. b.pc \in Outermost => e = <<>> /\ t \in Callers
      BY <1>0
    <3> QED BY <1>1, <1>2, <3>1, JoinPush
  <2>2. Stack(t, s)
    BY <1>5, <1>6, <1>7
  <2> HIDE DEF q
  <2>3. JoinStack(t, s) /\ PCsOf(s) = {f.pc} \cup PCsOf(q)
    BY <1>2, <1>5, <2>1, JoinPush
  <2> HIDE DEF s
  <2>4. PCsOf(s) = {f.pc, b.pc}
    BY <1>1, <2>1, <2>3
  <2>5. Moved(t, PCsOf(s))
    BY <2>2, <2>3, JoinReplaced
  <2> QED BY <1>1, <2>4, <2>5 DEF e
<1> QED BY <1>4, <1>5

-------------------------------------------------------------------------------
(* Steps that are none of connect_fail()                                     *)

\* Thread t is not more in connect_fail() than it was.
Untouched(t) ==
    /\ JoinStacks' /\ (Failing(stack'[t]) => Failing(stack[t])) /\ (Untold(stack'[t]) => Untold(stack[t]))
    /\ \A u \in Threads \ {t} : PCsOf(stack'[u]) = PCsOf(stack[u])

\* A session that ends may be one that a connect_fail() has ended; other states are
\* only left where no Connect() fails.
Steady ==
    \/ state' = state \/ state' \in {"closing", "terminated"}
    \/ state \notin {"connect_failed", "closing", "terminated"} /\ (Connecting' => Connecting)

\* Such a step keeps the invariant.
LEMMA UntouchedKeeps ==
    ASSUME JoinInv, NEW t \in Threads, Untouched(t), completes' = completes, Steady
    PROVE  JoinInv'
<1>0. JoinStacks /\ OneFails /\ Completed
  BY DEF JoinInv
<1>1. \A u \in Threads : (Failing(stack'[u]) => Failing(stack[u])) /\ (Untold(stack'[u]) => Untold(stack[u]))
  BY DEF Untouched, Failing, Untold
<1>2. ASSUME NEW u \in Threads, Failing(stack'[u])
      PROVE  /\ \A v \in Threads : Failing(stack'[v]) => v = u
             /\ state' \in {"connect_failed", "closing", "terminated"}
  <2>1. /\ \A v \in Threads : Failing(stack[v]) => v = u
        /\ state \in {"connect_failed", "closing", "terminated"}
    BY <1>0, <1>1, <1>2 DEF OneFails
  <2> QED BY <1>1, <2>1 DEF Steady
<1>3. Completed'
  <2>1. Connecting' => Connecting
    BY DEF Steady, Connecting
  <2> QED BY <1>0, <1>1, <2>1 DEF Completed
<1> QED BY <1>2, <1>3 DEF JoinInv, OneFails, Untouched

\* Places to go on at, in Close() only from Close().
Mild(t, f) == f.pc \notin FailPC /\ (f.pc \in Outermost => Top(t).pc \in Outermost)

\* A step of a thread that is in some function.
LEMMA RunQuiet ==
    ASSUME Stacks, JoinStacks, NEW t \in Threads, stack[t] # <<>>,
           \/ \E f : Mild(t, f) /\ (Goto(t, f) \/ Unlock(t, f))
           \/ \E f, b : f.pc \notin FailPC /\ f.pc \notin Outermost /\ Mild(t, b) /\ Call(t, f, b)
           \/ Return(t) \/ ReturnAndNotify(t, "closewait") \/ ReturnAndNotify(t, "connectwait")
    PROVE  Untouched(t)
<1>0. PCsOf(Below(t)) \subseteq PCsOf(stack[t])
  BY JoinBelow
<1>1. ASSUME NEW pcs, Moved(t, pcs), \A pc \in pcs : pc \in PCsOf(Below(t)) \/ pc \notin FailPC
      PROVE  Untouched(t)
  BY <1>0, <1>1 DEF Moved, Untouched, Failing, Untold, UntoldPC
<1>2. ASSUME NEW f, Mild(t, f), Goto(t, f) \/ Unlock(t, f) PROVE Untouched(t)
  <2>1. Moved(t, {f.pc} \cup PCsOf(Below(t)))
    BY <1>2, JoinGoto DEF Mild
  <2> QED BY <1>1, <1>2, <2>1 DEF Mild
<1>3. ASSUME NEW f, NEW b, f.pc \notin FailPC, f.pc \notin Outermost, Mild(t, b), Call(t, f, b) PROVE Untouched(t)
  <2>1. Moved(t, {f.pc, b.pc} \cup PCsOf(Below(t)))
    BY <1>3, JoinCall DEF Mild
  <2> QED BY <1>1, <1>3, <2>1 DEF Mild
<1>4. CASE Return(t) \/ ReturnAndNotify(t, "closewait") \/ ReturnAndNotify(t, "connectwait")
  BY <1>1, <1>4, JoinReturn
<1> QED BY <1>2, <1>3, <1>4

\* The first step of a thread.
LEMMA BeginQuiet ==
    ASSUME Stacks, JoinStacks, NEW t \in Threads, stack[t] = <<>>, NEW f, NEW b,
           f.pc \notin FailPC /\ b.pc \notin FailPC, b.pc \in Outermost => t \in Callers,
           \/ Stack(t, <<f>>) /\ (f.pc \in Outermost => t \in Callers)
           \/ Stack(t, <<f, b>>) /\ f.pc \notin Outermost
    PROVE  Untouched(t)
<1>1. Moved(t, {f.pc}) \/ Moved(t, {f.pc, b.pc})
  BY JoinBegin
<1> QED BY <1>1 DEF Moved, Untouched, Failing, Untold, UntoldPC

\* A step that leaves all threads where they are.
LEMMA StillQuiet ==
    ASSUME JoinStacks, NEW t \in Threads, UNCHANGED stack
    PROVE  Untouched(t)
BY DEF JoinStacks, Untouched

\* A thread that runs is in some function.
LEMMA InFunction ==
    ASSUME SessionInv, JoinInv, NEW t \in Threads
    PROVE  /\ JoinStacks /\ Stacks
           /\ \A pc : Runs(t, pc) \/ Resumes(t, pc) => stack[t] # <<>> /\ Top(t).pc = pc
           /\ stack[t] # <<>> => \A pc : [Top(t) EXCEPT !.pc = pc].pc = pc
<1>1. /\ Stacks /\ JoinStacks
      /\ \A pc : Runs(t, pc) \/ Resumes(t, pc) => stack[t] # <<>> /\ Top(t).pc = pc
  BY DEF Runs, Resumes, SessionInv, JoinInv
<1>2. stack[t] # <<>> => Top(t) \in [pc : PCs, peer : PeerIds \cup {Null}, arg : Args]
  BY <1>1, TopFacts DEF FrameSet
<1> QED BY <1>1, <1>2

\* peer_destroy() and peer_destroy_all()
LEMMA DestroyQuiet ==
    ASSUME SessionInv, JoinInv, NEW t \in Threads,
           \/ DestroyFlush(t) \/ DestroyFlushed(t) \/ DestroyPeerState(t) \/ DestroyIndicated(t)
           \/ HostLost(t) \/ HostLostDone(t) \/ Erase(t) \/ DestroyAll(t)
    PROVE  Untouched(t) /\ completes' = completes /\ Steady
<1>0. /\ JoinStacks /\ Stacks /\ \A pc : Runs(t, pc) \/ Resumes(t, pc) => stack[t] # <<>> /\ Top(t).pc = pc
      /\ stack[t] # <<>> => \A pc : [Top(t) EXCEPT !.pc = pc].pc = pc
  BY InFunction
<1>1. CASE DestroyFlush(t)
  BY <1>0, <1>1, RunQuiet, StillQuiet
  DEF DestroyFlush, Refuse, Connecting, Mild, Frame, With, Abort, Steady, run, hist, FailPC, Outermost, Family, ClosePC
<1>2. CASE DestroyFlushed(t)
  BY <1>0, <1>2, RunQuiet, StillQuiet
  DEF DestroyFlushed, Refuse, Connecting, Mild, Frame, With, Abort, Steady, run, hist, FailPC, Outermost, Family, ClosePC
<1>3. CASE DestroyPeerState(t)
  BY <1>0, <1>3, RunQuiet, StillQuiet
  DEF DestroyPeerState, Refuse, Connecting, Mild, Frame, With, Abort, Steady, run, hist, FailPC, Outermost, Family, ClosePC
<1>4. CASE DestroyIndicated(t)
  BY <1>0, <1>4, RunQuiet, StillQuiet
  DEF DestroyIndicated, Refuse, Connecting, Mild, Frame, With, Abort, Steady, run, hist, FailPC, Outermost, Family, ClosePC
<1>5. CASE HostLost(t)
  BY <1>0, <1>5, RunQuiet, StillQuiet
  DEF HostLost, Refuse, Connecting, Mild, Frame, With, Abort, Steady, run, hist, FailPC, Outermost, Family, ClosePC
<1>6. CASE HostLostDone(t)
  BY <1>0, <1>6, RunQuiet, StillQuiet
  DEF HostLostDone, Refuse, Connecting, Mild, Frame, With, Abort, Steady, run, hist, FailPC, Outermost, Family, ClosePC
<1>7. CASE Erase(t)
  BY <1>0, <1>7, RunQuiet, StillQuiet
  DEF Erase, Refuse, Connecting, Mild, Frame, With, Abort, Steady, run, hist, FailPC, Outermost, Family, ClosePC
<1>8. CASE DestroyAll(t)
  BY <1>0, <1>8, RunQuiet, StillQuiet
  DEF DestroyAll, Refuse, Connecting, Mild, Frame, With, Abort, Steady, run, hist, FailPC, Outermost, Family, ClosePC
<1> QED BY <1>1, <1>2, <1>3, <1>4, <1>5, <1>6, <1>7, <1>8

\* peer_shutdown() and peer_shutdown_all(), the end of a handler, a wait for Connect()
LEMMA ShutdownQuiet ==
    ASSUME SessionInv, JoinInv, NEW t \in Threads,
           \/ PeerShutdown(t) \/ ShutdownIndicated(t) \/ ShutdownAll(t) \/ ReadDone(t) \/ ConnectChecked(t)
           \/ ConnectWaits(t) \/ ConnectionUsed(t)
    PROVE  Untouched(t) /\ completes' = completes /\ Steady
<1>0. /\ JoinStacks /\ Stacks /\ \A pc : Runs(t, pc) \/ Resumes(t, pc) => stack[t] # <<>> /\ Top(t).pc = pc
      /\ stack[t] # <<>> => \A pc : [Top(t) EXCEPT !.pc = pc].pc = pc
  BY InFunction
<1>1. CASE PeerShutdown(t)
  BY <1>0, <1>1, RunQuiet, StillQuiet
  DEF PeerShutdown, Refuse, Connecting, Mild, Frame, With, Abort, Steady, run, hist, FailPC, Outermost, Family, ClosePC
<1>2. CASE ShutdownIndicated(t)
  BY <1>0, <1>2, RunQuiet, StillQuiet
  DEF ShutdownIndicated, Refuse, Connecting, Mild, Frame, With, Abort, Steady, run, hist, FailPC, Outermost, Family, ClosePC
<1>3. CASE ShutdownAll(t)
  BY <1>0, <1>3, RunQuiet, StillQuiet
  DEF ShutdownAll, Refuse, Connecting, Mild, Frame, With, Abort, Steady, run, hist, FailPC, Outermost, Family, ClosePC
<1>4. CASE ReadDone(t)
  BY <1>0, <1>4, RunQuiet, StillQuiet
  DEF ReadDone, Refuse, Connecting, Mild, Frame, With, Abort, Steady, run, hist, FailPC, Outermost, Family, ClosePC
<1>5. CASE ConnectChecked(t)
  BY <1>0, <1>5, RunQuiet, StillQuiet
  DEF ConnectChecked, Refuse, Connecting, Mild, Frame, With, Abort, Steady, run, hist, FailPC, Outermost, Family, ClosePC
<1>6. CASE ConnectWaits(t)
  BY <1>0, <1>6, RunQuiet, StillQuiet
  DEF ConnectWaits, Refuse, Connecting, Mild, Frame, With, Abort, Steady, run, hist, FailPC, Outermost, Family, ClosePC
<1>7. CASE ConnectionUsed(t)
  BY <1>0, <1>7, StillQuiet DEF ConnectionUsed, Abort, Steady, run, hist
<1> QED BY <1>1, <1>2, <1>3, <1>4, <1>5, <1>6, <1>7

\* The handlers of the messages of those that join
LEMMA HandlerQuiet ==
    ASSUME SessionInv, JoinInv, NEW t \in Threads,
           \/ HostConnectRequest(t) \/ IndicateAccepted(t) \/ IndicateRejected(t) \/ Indicated(t)
           \/ HandleMessage(t) \/ HostConnectOk(t) \/ HostConnectOkSelf(t) \/ HostConnectOkHost(t)
           \/ ConnectRefused(t) \/ ConnectPeer(t) \/ ConnectPeerOk(t) \/ ConnectPeerIndicated(t)
    PROVE  Untouched(t) /\ completes' = completes /\ Steady
<1>0. /\ JoinStacks /\ Stacks /\ \A pc : Runs(t, pc) \/ Resumes(t, pc) => stack[t] # <<>> /\ Top(t).pc = pc
      /\ stack[t] # <<>> => \A pc : [Top(t) EXCEPT !.pc = pc].pc = pc
  BY InFunction
<1>1. CASE HostConnectRequest(t)
  BY <1>0, <1>1, RunQuiet, StillQuiet
  DEF HostConnectRequest, Refuse, Connecting, Mild, Frame, With, Abort, Steady, run, hist, FailPC, Outermost, Family, ClosePC
<1>2. CASE IndicateAccepted(t)
  BY <1>0, <1>2, RunQuiet, StillQuiet
  DEF IndicateAccepted, Refuse, Connecting, Mild, Frame, With, Abort, Steady, run, hist, FailPC, Outermost, Family, ClosePC
<1>3. CASE IndicateRejected(t)
  BY <1>0, <1>3, RunQuiet, StillQuiet
  DEF IndicateRejected, Refuse, Connecting, Mild, Frame, With, Abort, Steady, run, hist, FailPC, Outermost, Family, ClosePC
<1>4. CASE Indicated(t)
  BY <1>0, <1>4, RunQuiet, StillQuiet
  DEF Indicated, Refuse, Connecting, Mild, Frame, With, Abort, Steady, run, hist, FailPC, Outermost, Family, ClosePC
<1>5. CASE HandleMessage(t)
  BY <1>0, <1>5, RunQuiet, StillQuiet
  DEF HandleMessage, Refuse, Connecting, Mild, Frame, With, Abort, Steady, run, hist, FailPC, Outermost, Family, ClosePC
<1>6. CASE HostConnectOk(t)
  BY <1>0, <1>6, RunQuiet, StillQuiet
  DEF HostConnectOk, Refuse, Connecting, Mild, Frame, With, Abort, Steady, run, hist, FailPC, Outermost, Family, ClosePC
<1>7. CASE HostConnectOkSelf(t)
  BY <1>0, <1>7, RunQuiet, StillQuiet
  DEF HostConnectOkSelf, Refuse, Connecting, Mild, Frame, With, Abort, Steady, run, hist, FailPC, Outermost, Family, ClosePC
<1>8. CASE HostConnectOkHost(t)
  BY <1>0, <1>8, RunQuiet, StillQuiet
  DEF HostConnectOkHost, Refuse, Connecting, Mild, Frame, With, Abort, Steady, run, hist, FailPC, Outermost, Family, ClosePC
<1>9. CASE ConnectRefused(t)
  BY <1>0, <1>9, RunQuiet, StillQuiet
  DEF ConnectRefused, Refuse, Connecting, Mild, Frame, With, Abort, Steady, run, hist, FailPC, Outermost, Family, ClosePC
<1>10. CASE ConnectPeer(t)
  BY <1>0, <1>10, RunQuiet, StillQuiet
  DEF ConnectPeer, Refuse, Connecting, Mild, Frame, With, Abort, Steady, run, hist, FailPC, Outermost, Family, ClosePC
<1>11. CASE ConnectPeerOk(t)
  BY <1>0, <1>11, RunQuiet, StillQuiet
  DEF ConnectPeerOk, Refuse, Connecting, Mild, Frame, With, Abort, Steady, run, hist, FailPC, Outermost, Family, ClosePC
<1>12. CASE ConnectPeerIndicated(t)
  BY <1>0, <1>12, RunQuiet, StillQuiet
  DEF ConnectPeerIndicated, Refuse, Connecting, Mild, Frame, With, Abort, Steady, run, hist, FailPC, Outermost, Family, ClosePC
<1> QED BY <1>1, <1>2, <1>3, <1>4, <1>5, <1>6, <1>7, <1>8, <1>9, <1>10, <1>11, <1>12

\* Those of the messages that end a session, and TerminateSession()
LEMMA EndQuiet ==
    ASSUME SessionInv, JoinInv, NEW t \in Threads,
           \/ HandleDestroy(t) \/ SessionEnds(t) \/ SessionEnded(t) \/ TerminateIndicates(t)
           \/ TerminateDestroys(t)
    PROVE  Untouched(t) /\ completes' = completes /\ Steady
<1>0. /\ JoinStacks /\ Stacks /\ \A pc : Runs(t, pc) \/ Resumes(t, pc) => stack[t] # <<>> /\ Top(t).pc = pc
      /\ stack[t] # <<>> => \A pc : [Top(t) EXCEPT !.pc = pc].pc = pc
  BY InFunction
<1>1. CASE HandleDestroy(t)
  BY <1>0, <1>1, RunQuiet, StillQuiet
  DEF HandleDestroy, Refuse, Connecting, Mild, Frame, With, Abort, Steady, run, hist, FailPC, Outermost, Family, ClosePC
<1>2. CASE SessionEnds(t)
  BY <1>0, <1>2, RunQuiet, StillQuiet
  DEF SessionEnds, Refuse, Connecting, Mild, Frame, With, Abort, Steady, run, hist, FailPC, Outermost, Family, ClosePC
<1>3. CASE SessionEnded(t)
  BY <1>0, <1>3, RunQuiet, StillQuiet
  DEF SessionEnded, Refuse, Connecting, Mild, Frame, With, Abort, Steady, run, hist, FailPC, Outermost, Family, ClosePC
<1>4. CASE TerminateIndicates(t)
  BY <1>0, <1>4, RunQuiet, StillQuiet
  DEF TerminateIndicates, Refuse, Connecting, Mild, Frame, With, Abort, Steady, run, hist, FailPC, Outermost, Family, ClosePC
<1>5. CASE TerminateDestroys(t)
  BY <1>0, <1>5, RunQuiet, StillQuiet
  DEF TerminateDestroys, Refuse, Connecting, Mild, Frame, With, Abort, Steady, run, hist, FailPC, Outermost, Family, ClosePC
<1> QED BY <1>1, <1>2, <1>3, <1>4, <1>5

\* Close(), until it returns.
LEMMA CloseQuiet ==
    ASSUME SessionInv, JoinInv, NEW t \in Threads,
           \/ CloseBegins(t) \/ ClosePeers(t) \/ CloseSelf(t)
    PROVE  Untouched(t) /\ completes' = completes /\ Steady
<1>0. /\ JoinStacks /\ Stacks /\ \A pc : Runs(t, pc) \/ Resumes(t, pc) => stack[t] # <<>> /\ Top(t).pc = pc
      /\ stack[t] # <<>> => \A pc : [Top(t) EXCEPT !.pc = pc].pc = pc
  BY InFunction
<1>1. CASE CloseBegins(t)
  BY <1>0, <1>1, RunQuiet, StillQuiet
  DEF CloseBegins, Refuse, Connecting, Mild, Frame, With, Abort, Steady, run, hist, FailPC, Outermost, Family, ClosePC
<1>2. CASE ClosePeers(t)
  BY <1>0, <1>2, RunQuiet, StillQuiet
  DEF ClosePeers, Refuse, Connecting, Mild, Frame, With, Abort, Steady, run, hist, FailPC, Outermost, Family, ClosePC
<1>3. CASE CloseSelf(t)
  BY <1>0, <1>3, RunQuiet, StillQuiet
  DEF CloseSelf, Refuse, Connecting, Mild, Frame, With, Abort, Steady, run, hist, FailPC, Outermost, Family, ClosePC
<1> QED BY <1>1, <1>2, <1>3

\* A step that enters one function.
LEMMA EnterQuiet ==
    ASSUME Stacks, JoinStacks, NEW t \in Threads, NEW s, Stack(t, s), JoinStack(t, s),
           NEW pc, pc \notin FailPC, PCsOf(s) \subseteq {pc} \cup PCsOf(stack[t])
    PROVE  Untouched(t)
<1>1. Moved(t, PCsOf(s))
  BY JoinReplaced
<1> QED BY <1>1 DEF Moved, Untouched, Failing, Untold, UntoldPC

\* Close() waits on peer_destroyed, or goes on.
LEMMA CloseWaitsQuiet ==
    ASSUME SessionInv, JoinInv, NEW t \in Threads, CloseWaits(t)
    PROVE  Untouched(t) /\ completes' = completes /\ Steady
<1> DEFINE q == IF Top(t).pc = "closewaits" THEN stack[t] ELSE Below(t)
           g == [Head(q) EXCEPT !.pc = "closeself"]
           w == Frame("closewait", Null)
<1>0. Stacks /\ JoinStacks /\ Waiting /\ stack[t] # <<>> /\ Top(t).pc \in {"closewaits", "closewait"} /\ Top(t) = TopIn(stack[t])
  BY AtPeer DEF CloseWaits, SessionInv, JoinInv
<1>1. /\ Below(t) \in Seq(FrameSet) /\ JoinStack(t, Below(t)) /\ Below(t) = Tail(stack[t])
      /\ PCsOf(stack[t]) = {Top(t).pc} \cup PCsOf(Below(t)) /\ stack[t] \in Seq(FrameSet)
  BY <1>0, JoinBelow DEF Below, Stacks
<1>2. q \in Seq(FrameSet) /\ q # <<>> /\ TopIn(q).pc = "closewaits" /\ JoinStack(t, q) /\ PCsOf(q) \subseteq PCsOf(stack[t])
  <2>1. CASE Top(t).pc = "closewaits"
    BY <1>0, <1>1, <2>1 DEF JoinStacks
  <2>2. CASE Top(t).pc = "closewait"
    <3>1. q = Tail(stack[t])
      BY <1>1, <2>2
    <3>2. CallerIn(stack[t]) = "closewaits"
      BY <1>0, <2>2 DEF Waiting
    <3> HIDE DEF q
    <3>3. /\ q \in Seq(FrameSet)
          /\ q = <<>> => CallerIn(stack[t]) = "idle"
          /\ q # <<>> => TopIn(q).pc = CallerIn(stack[t])
      BY <1>0, <1>1, <3>1, Popped
    <3> QED BY <1>1, <3>1, <3>2, <3>3
  <2> QED BY <1>0, <2>1, <2>2
<1>3. Stack(t, <<g>> \o Tail(q)) \/ Stack(t, <<w>> \o q)
  BY DEF CloseWaits
<1>4. UNCHANGED <<state, completes>>
  BY DEF CloseWaits, hist
<1> SUFFICES Untouched(t)
  BY <1>4 DEF Steady
<1> HIDE DEF q
<1>5. /\ Tail(q) \in Seq(FrameSet) /\ PCsOf(q) = {TopIn(q).pc} \cup PCsOf(Tail(q)) /\ q = <<TopIn(q)>> \o Tail(q)
      /\ TopIn(q) \in FrameSet /\ Head(q) = TopIn(q)
  <2>1. Tail(q) \in Seq(FrameSet) /\ PCsOf(Tail(q)) = DeepOf(q)
    BY <1>2, Popped
  <2>2. Head(q) = TopIn(q) /\ q = <<Head(q)>> \o Tail(q)
    BY <1>2, HeadTailProperties DEF TopIn
  <2> QED BY <1>2, <2>1, <2>2, AllPlaces
<1>6. g.pc = "closeself"
  <2>1. TopIn(q) \in [pc : PCs, peer : PeerIds \cup {Null}, arg : Args]
    BY <1>5 DEF FrameSet
  <2> QED BY <1>5, <2>1
<1>7. "closewaits" \in Outermost /\ "closeself" \in Outermost /\ "closewait" \notin Outermost
      /\ "closewait" \notin FailPC /\ "closeself" \notin FailPC
  BY DEF Outermost, Family, ClosePC, FailPC
<1>8. Tail(q) = <<>> /\ t \in Callers /\ JoinStack(t, Tail(q))
  <2>1. Based(Tail(q)) /\ Tail(q) = <<>>
    BY <1>2, <1>7, BasedFacts DEF JoinStack
  <2>2. t \in Callers
    BY <1>2, <1>5, <1>7 DEF JoinStack
  <2>3. FailsOnce(Tail(q))
    BY <1>2, <1>5, ConsFails DEF JoinStack
  <2> QED BY <1>2, <1>5, <2>1, <2>2, <2>3 DEF JoinStack
<1>9. w.pc = "closewait"
  BY DEF Frame
<1> HIDE DEF g, w
<1>10. CASE Stack(t, <<g>> \o Tail(q))
  <2> DEFINE S == FrameSet \cup {g}
             r == Tail(q)
             s == <<g>> \o r
  <2>1. FrameSet \subseteq S /\ g \in S
    OBVIOUS
  <2>2. r \in Seq(FrameSet) /\ JoinStack(t, r) /\ PCsOf(r) \subseteq PCsOf(q)
    BY <1>5, <1>8
  <2>3. g.pc \in Outermost => r = <<>> /\ t \in Callers
    BY <1>8
  <2>4. Stack(t, s)
    BY <1>10
  <2> HIDE DEF S, r
  <2>5. r \in Seq(S) /\ (g.pc \in FailPC => ~Failing(r))
    BY <1>6, <1>7, <2>1, <2>2, SeqGrows
  <2>6. JoinStack(t, s) /\ PCsOf(s) = {g.pc} \cup PCsOf(r)
    BY <2>1, <2>2, <2>3, <2>5, JoinPush
  <2> HIDE DEF s
  <2>7. PCsOf(s) \subseteq {"closeself"} \cup PCsOf(stack[t])
    BY <1>2, <1>6, <2>2, <2>6
  <2> QED BY <1>0, <1>7, <2>4, <2>6, <2>7, EnterQuiet
<1>11. CASE Stack(t, <<w>> \o q)
  <2> DEFINE S == FrameSet \cup {w}
             s == <<w>> \o q
  <2>1. FrameSet \subseteq S /\ w \in S
    OBVIOUS
  <2>2. Stack(t, s)
    BY <1>11
  <2> HIDE DEF S
  <2>3. JoinStack(t, s) /\ PCsOf(s) = {w.pc} \cup PCsOf(q)
    BY <1>2, <1>7, <1>9, <2>1, SeqGrows, JoinPush
  <2> HIDE DEF s
  <2>4. PCsOf(s) \subseteq {"closewait"} \cup PCsOf(stack[t])
    BY <1>2, <1>9, <2>3
  <2> QED BY <1>0, <1>7, <2>2, <2>3, <2>4, EnterQuiet
<1> QED BY <1>3, <1>10, <1>11

-------------------------------------------------------------------------------
(* connect_check() and connect_fail()                                        *)

\* While a Connect() goes on it has not been completed and no other fails.
LEMMA Undecided ==
    ASSUME JoinInv, Connecting
    PROVE  completes = 0 /\ \A u \in Threads : ~Failing(stack[u])
BY DEF JoinInv, OneFails, Completed, Connecting

\* The last outgoing connection has been made: the Connect() is completed.
LEMMA CheckCompletes ==
    ASSUME SessionInv, JoinInv, NEW t \in Threads, ConnectCheck(t)
    PROVE  JoinInv'
<1>0. JoinStacks /\ Stacks /\ stack[t] # <<>>
  BY InFunction DEF ConnectCheck
<1>1. Untouched(t)
  BY <1>0, RunQuiet, StillQuiet
  DEF ConnectCheck, Abort, run, Mild, Frame, FailPC, Outermost, Family, ClosePC
<1>2. CASE UNCHANGED <<state, completes>>
  BY <1>1, <1>2, UntouchedKeeps DEF Steady
<1>3. CASE Connecting /\ state' = "connected" /\ completes' = completes + 1
  <2>1. completes' = 1 /\ \A u \in Threads : ~Failing(stack'[u])
    BY <1>1, <1>3, Undecided DEF Untouched, Failing
  <2>2. \A u \in Threads : ~Untold(stack'[u])
    BY <2>1 DEF Failing, Untold, UntoldPC
  <2> QED BY <1>1, <1>3, <2>1, <2>2 DEF JoinInv, OneFails, Completed, Connecting, Untouched
<1> QED BY <1>2, <1>3 DEF ConnectCheck, Abort, hist

\* connect_fail() begins: no other is being made, as the state says that no Connect()
\* has failed.
LEMMA FailBegins ==
    ASSUME SessionInv, JoinInv, NEW t \in Threads, ConnectFail(t)
    PROVE  JoinInv'
<1>0. JoinStacks /\ Stacks /\ stack[t] # <<>>
  BY InFunction DEF ConnectFail
<1>1. CASE Abort("assert(state) in connect_fail")
  BY <1>0, <1>1, StillQuiet, UntouchedKeeps DEF Abort, run, hist, Steady
<1>2. CASE ~Abort("assert(state) in connect_fail")
  <2> DEFINE f == Frame("destroyall", Null)
             b == With(Frame("failself", Null), state)
  <2>1. Connecting /\ state' = "connect_failed" /\ completes' = completes /\ Call(t, f, b)
    BY <1>2 DEF ConnectFail, hist
  <2>2. f.pc = "destroyall" /\ b.pc = "failself"
    BY DEF Frame, With
  <2> HIDE DEF f, b
  <2>3. completes = 0 /\ \A u \in Threads : ~Failing(stack[u])
    BY <2>1, Undecided
  <2>4. Moved(t, {f.pc, b.pc} \cup PCsOf(Below(t)))
    BY <1>0, <2>1, <2>2, <2>3, JoinCall DEF FailPC, Outermost, Family, ClosePC
  <2>5. \A u \in Threads \ {t} : ~Failing(stack'[u])
    BY <2>3, <2>4 DEF Moved, Failing
  <2> QED BY <2>1, <2>3, <2>4, <2>5 DEF JoinInv, OneFails, Completed, Connecting, Moved
<1> QED BY <1>1, <1>2

\* The local player is taken back, then the Connect() is completed, then its state is
\* that before it.
LEMMA FailEnds ==
    ASSUME SessionInv, JoinInv, NEW t \in Threads, ConnectFailSelf(t) \/ ConnectFailComplete(t) \/ ConnectFailed(t)
    PROVE  JoinInv'
<1>0. /\ JoinStacks /\ Stacks /\ stack[t] # <<>> /\ OneFails /\ Completed
      /\ \A pc : Runs(t, pc) \/ Resumes(t, pc) => Top(t).pc = pc
  BY InFunction DEF JoinInv, ConnectFailSelf, ConnectFailComplete, ConnectFailed
<1>1. /\ PCsOf(stack[t]) = {Top(t).pc} \cup PCsOf(Below(t))
      /\ Top(t).pc \in FailPC => ~Failing(Below(t))
  BY <1>0, JoinBelow
<1>2. CASE ConnectFailSelf(t)
  <2>0. Top(t).pc = "failself" /\ state' = state /\ completes' = completes
    BY <1>0, <1>2 DEF ConnectFailSelf
  <2>1. PICK f : f.pc \in UntoldPC /\ (Goto(t, f) \/ Unlock(t, f))
    BY <1>2 DEF ConnectFailSelf, Frame, UntoldPC, FailPC
  <2>2. Moved(t, {f.pc} \cup PCsOf(Below(t)))
    BY <1>0, <2>0, <2>1, JoinGoto DEF UntoldPC, FailPC, Outermost, Family, ClosePC
  <2>3. Failing(stack[t]) /\ Untold(stack[t])
    BY <1>1, <2>0 DEF Failing, Untold, UntoldPC, FailPC
  <2>4. Untouched(t)
    BY <2>2, <2>3 DEF Moved, Untouched
  <2> QED BY <2>0, <2>4, UntouchedKeeps DEF Steady
<1>3. CASE ConnectFailComplete(t)
  <2> DEFINE f == Frame("failcb", Null)
  <2>0. /\ Top(t).pc \in {"failcomplete", "failselfcb"} /\ state' = state /\ completes' = completes + 1
        /\ Unlock(t, f) /\ f.pc = "failcb"
    BY <1>0, <1>3 DEF ConnectFailComplete, Frame
  <2> HIDE DEF f
  <2>1. Moved(t, {f.pc} \cup PCsOf(Below(t))) /\ ~Failing(Below(t))
    BY <1>0, <1>1, <2>0, JoinGoto DEF FailPC, Outermost, Family, ClosePC
  <2>2. Failing(stack[t]) /\ Untold(stack[t])
    BY <1>1, <2>0 DEF Failing, Untold, UntoldPC, FailPC
  <2>3. \A u \in Threads \ {t} : ~Failing(stack'[u])
    BY <1>0, <2>1, <2>2 DEF OneFails, Moved, Failing
  <2>4. \A u \in Threads : ~Untold(stack'[u])
    BY <2>0, <2>1, <2>3 DEF Moved, Failing, Untold, UntoldPC
  <2>5. completes = 0 /\ state \in {"connect_failed", "closing", "terminated"}
    BY <1>0, <2>2 DEF OneFails, Completed
  <2> QED BY <2>0, <2>1, <2>3, <2>4, <2>5 DEF JoinInv, OneFails, Completed, Connecting, Moved
<1>4. CASE ConnectFailed(t)
  <2>0. Top(t).pc = "failcb" /\ state' = "initialised" /\ completes' = completes
    BY <1>0, <1>4 DEF ConnectFailed, hist
  <2>1. Moved(t, PCsOf(Below(t)))
    BY <1>0, <1>4, JoinReturn DEF ConnectFailed
  <2>2. Failing(stack[t]) /\ ~Failing(Below(t))
    BY <1>1, <2>0 DEF Failing, FailPC
  <2>3. \A u \in Threads : ~Failing(stack'[u])
    BY <1>0, <2>1, <2>2 DEF OneFails, Moved, Failing
  <2>4. \A u \in Threads : ~Untold(stack'[u])
    BY <2>3 DEF Failing, Untold, UntoldPC
  <2> QED BY <1>0, <2>0, <2>1, <2>3, <2>4 DEF JoinInv, OneFails, Completed, Connecting, Moved
<1> QED BY <1>2, <1>3, <1>4

\* Close() returns when every worker is gone: no Connect() fails any more.
LEMMA JoinCloseReturns ==
    ASSUME JoinsInTurn, SessionInv, JoinInv, NEW t \in Threads, CloseReturns(t)
    PROVE  JoinInv'
<1>0. JoinStacks /\ Stacks /\ stack[t] # <<>> /\ Top(t).pc = "closepool" /\ Completed
  BY InFunction DEF JoinInv, CloseReturns
<1>1. Below(t) = <<>> /\ t \in Callers
  BY <1>0, JoinBelow DEF Outermost, Family
<1>2. Moved(t, PCsOf(Below(t))) /\ stack'[t] = Below(t)
  BY <1>0, JoinReturn DEF CloseReturns
<1>3. ASSUME NEW u \in Threads PROVE PCsOf(stack'[u]) = {}
  <2>1. u \in Workers \/ u = t
    BY <1>1 DEF Threads, JoinsInTurn
  <2>2. PCsOf(<<>>) = {}
    BY DEF PCsOf
  <2>3. CASE u = t
    BY <1>1, <1>2, <2>2, <2>3
  <2>4. CASE u # t
    <3>1. stack[u] = <<>>
      BY <2>1, <2>4 DEF CloseReturns
    <3> QED BY <1>2, <2>2, <2>4, <3>1 DEF Moved
  <2> QED BY <2>3, <2>4
<1>4. \A u \in Threads : ~Failing(stack'[u]) /\ ~Untold(stack'[u])
  BY <1>3 DEF Failing, Untold
<1>5. state' = "new" /\ completes' = completes
  BY DEF CloseReturns, hist
<1> QED BY <1>0, <1>2, <1>4, <1>5 DEF JoinInv, OneFails, Completed, Connecting, Moved

-------------------------------------------------------------------------------
(* Socket events, and the calls of the application.                          *)

\* A thread that was idle begins with one function, or with one that another calls.
LEMMA BeginsQuiet ==
    ASSUME SessionInv, JoinInv, NEW t \in Threads,
           \/ UNCHANGED stack
           \/ /\ stack[t] = <<>>
              /\ \/ \E f : f.pc \notin FailPC /\ (f.pc \in Outermost => t \in Callers) /\ Stack(t, <<f>>)
                 \/ \E f, b : /\ f.pc \notin FailPC \cup Outermost /\ b.pc \notin FailPC
                              /\ b.pc \in Outermost => t \in Callers
                              /\ Stack(t, <<f, b>>)
    PROVE  Untouched(t)
BY BeginQuiet, StillQuiet DEF SessionInv, JoinInv

\* A worker serves a socket.
LEMMA ServeQuiet ==
    ASSUME SessionInv, JoinInv, NEW t \in Threads, Serve(t)
    PROVE  JoinInv'
<1>1. CASE Accept(t)
  BY <1>1, BeginsQuiet, UntouchedKeeps DEF Accept, run, hist, Steady
<1>2. ASSUME NEW p \in Present, Established(t, p) PROVE JoinInv'
  BY <1>2, BeginsQuiet, UntouchedKeeps DEF Established, Abort, run, hist, Steady
<1>3. ASSUME NEW p \in Present, NotEstablished(t, p) \/ SendFails(t, p) \/ ReadsEnd(t, p) PROVE JoinInv'
  <2>1. Untouched(t)
    BY <1>3, BeginsQuiet
    DEF NotEstablished, SendFails, ReadsEnd, Reads, Begin, Abort, run, Frame, FailPC, Outermost, Family, ClosePC
  <2>2. UNCHANGED <<state, completes>>
    BY <1>3 DEF NotEstablished, SendFails, ReadsEnd, Reads, Abort, hist
  <2> QED BY <2>1, <2>2, UntouchedKeeps DEF Steady
<1>5. ASSUME NEW p \in Present, ConnectionUnknown(t, p) PROVE JoinInv'
  <2>1. Untouched(t)
    BY <1>5, BeginsQuiet DEF ConnectionUnknown, Begin, Frame, FailPC, Outermost, Family, ClosePC
  <2>2. UNCHANGED <<state, completes>>
    BY <1>5 DEF ConnectionUnknown, hist
  <2> QED BY <2>1, <2>2, UntouchedKeeps DEF Steady
<1>4. ASSUME NEW p \in Present, Message(t, p) PROVE JoinInv'
  <2>1. PICK h \in HandlerPC : \E x : ReadsMessage(t, p, h, x)
    BY <1>4 DEF Message, HandlerPC
  <2>2. PICK x : ReadsMessage(t, p, h, x)
    BY <2>1
  <2> DEFINE f == With(Frame(h, p), x)
             b == Frame("readdone", p)
  <2>3. f.pc = h /\ b.pc = "readdone"
    BY DEF With, Frame
  <2>4. stack[t] = <<>> /\ Stack(t, <<f, b>>) /\ UNCHANGED <<state, completes>>
    BY <2>2 DEF ReadsMessage, Reads, Begin, hist
  <2> HIDE DEF f, b
  <2>5. f.pc \notin FailPC \cup Outermost /\ b.pc \notin FailPC \cup Outermost
    BY <2>3 DEF HandlerPC, FailPC, Outermost, Family, ClosePC
  <2>6. Untouched(t)
    BY <2>4, <2>5, BeginsQuiet
  <2> QED BY <2>4, <2>6, UntouchedKeeps DEF Steady
<1> QED BY <1>1, <1>2, <1>3, <1>4, <1>5 DEF Serve

\* A Connect() begins in a state in which none fails.
LEMMA StartKeeps ==
    ASSUME JoinInv, NEW t \in Threads, Untouched(t), state = "initialised", completes' = 0
    PROVE  JoinInv'
<1>1. \A u \in Threads : ~Failing(stack[u])
  BY DEF JoinInv, OneFails
<1>2. \A u \in Threads : ~Failing(stack'[u])
  BY <1>1 DEF Untouched, Failing
<1> QED BY <1>2 DEF JoinInv, OneFails, Completed, Untouched

\* The application makes a call.
LEMMA CallQuiet ==
    ASSUME JoinsInTurn, SessionInv, JoinInv, NEW t \in Callers, CallApi(t)
    PROVE  JoinInv'
<1>0. t \in Threads
  BY DEF Threads
<1>1. Starts => state = "initialised"
  BY DEF Starts, JoinsInTurn
<1>2. CASE Initialize(t) \/ Host(t) \/ HostFails(t)
  <2>1. Untouched(t)
    BY <1>0, <1>2, BeginsQuiet DEF Initialize, Host, HostFails, Stack, run, Frame, FailPC, Outermost, Family, ClosePC
  <2>2. completes' = completes /\ Steady
    BY <1>1, <1>2 DEF Initialize, Host, HostFails, Steady, Connecting, hist
  <2> QED BY <1>0, <2>1, <2>2, UntouchedKeeps
<1>3. CASE Connect(t, TRUE) \/ Connect(t, FALSE) \/ ConnectFails(t)
  <2>1. Untouched(t)
    BY <1>0, <1>3, BeginsQuiet DEF Connect, ConnectFails, Stack, run, Frame, FailPC, Outermost, Family, ClosePC
  <2>2. state = "initialised" /\ completes' = 0
    BY <1>1, <1>3 DEF Connect, ConnectFails
  <2> QED BY <1>0, <2>1, <2>2, StartKeeps
<1>4. CASE CancelConnect(t) \/ \E x \in Players : DestroyPeer(t, x)
  <2>1. Untouched(t)
    BY <1>0, <1>4, BeginsQuiet DEF CancelConnect, DestroyPeer, Begin, Frame, FailPC, Outermost, Family, ClosePC
  <2>2. UNCHANGED <<state, completes>>
    BY <1>4 DEF CancelConnect, DestroyPeer, hist
  <2> QED BY <1>0, <2>1, <2>2, UntouchedKeeps DEF Steady
<1>5. CASE TerminateSession(t)
  <2>1. PICK a : stack[t] = <<>> /\ Stack(t, <<With(Frame("tsendcb", Null), a)>>)
    BY <1>5 DEF TerminateSession, Stack
  <2>2. Untouched(t)
    BY <1>0, <2>1, BeginsQuiet DEF With, Frame, FailPC, Outermost, Family, ClosePC
  <2>3. state' = "terminated" /\ completes' = completes
    BY <1>5 DEF TerminateSession, hist
  <2> QED BY <1>0, <2>2, <2>3, UntouchedKeeps DEF Steady
<1>6. CASE Close(t, TRUE) \/ Close(t, FALSE)
  <2>1. PICK a : stack[t] = <<>> /\ \/ Stack(t, <<Frame("fail", Null), With(Frame("close", Null), a)>>)
                                    \/ Stack(t, <<With(Frame("close", Null), a)>>)
    BY <1>6 DEF Close, Begin
  <2> DEFINE f == Frame("fail", Null)
             b == With(Frame("close", Null), a)
  <2>2. f.pc = "fail" /\ b.pc = "close"
    BY DEF With, Frame
  <2>3. stack[t] = <<>> /\ (Stack(t, <<f, b>>) \/ Stack(t, <<b>>))
    BY <2>1
  <2> HIDE DEF f, b
  <2>4. Untouched(t)
    BY <1>0, <2>2, <2>3, BeginsQuiet DEF FailPC, Outermost, Family, ClosePC
  <2>5. UNCHANGED <<state, completes>>
    BY <1>6 DEF Close, hist
  <2> QED BY <1>0, <2>4, <2>5, UntouchedKeeps DEF Steady
<1> QED BY <1>2, <1>3, <1>4, <1>5, <1>6 DEF CallApi

-------------------------------------------------------------------------------
(* The theorems.                                                             *)

LEMMA JoinRuns ==
    ASSUME JoinsInTurn, SessionInv, JoinInv, NEW t \in Threads, Run(t)
    PROVE  JoinInv'
<1>1. CASE \/ DestroyFlush(t) \/ DestroyFlushed(t) \/ DestroyPeerState(t) \/ DestroyIndicated(t)
           \/ HostLost(t) \/ HostLostDone(t) \/ Erase(t) \/ DestroyAll(t)
  BY <1>1, DestroyQuiet, UntouchedKeeps
<1>2. CASE PeerShutdown(t) \/ ShutdownIndicated(t) \/ ShutdownAll(t) \/ ReadDone(t) \/ ConnectChecked(t) \/ ConnectWaits(t)
           \/ ConnectionUsed(t)
  BY <1>2, ShutdownQuiet, UntouchedKeeps
<1>3. CASE \/ HostConnectRequest(t) \/ IndicateAccepted(t) \/ IndicateRejected(t) \/ Indicated(t) \/ HandleMessage(t)
           \/ HostConnectOk(t) \/ HostConnectOkSelf(t) \/ HostConnectOkHost(t) \/ ConnectRefused(t)
           \/ ConnectPeer(t) \/ ConnectPeerOk(t) \/ ConnectPeerIndicated(t)
  BY <1>3, HandlerQuiet, UntouchedKeeps
<1>4. CASE HandleDestroy(t) \/ SessionEnds(t) \/ SessionEnded(t) \/ TerminateIndicates(t) \/ TerminateDestroys(t)
  BY <1>4, EndQuiet, UntouchedKeeps
<1>5. CASE CloseBegins(t) \/ ClosePeers(t) \/ CloseSelf(t) \/ CloseWaits(t)
  BY <1>5, CloseQuiet, CloseWaitsQuiet, UntouchedKeeps
<1>6. CASE \/ ConnectCheck(t) \/ ConnectFail(t) \/ ConnectFailSelf(t) \/ ConnectFailComplete(t) \/ ConnectFailed(t)
           \/ CloseReturns(t)
  BY <1>6, CheckCompletes, FailBegins, FailEnds, JoinCloseReturns
<1> QED BY <1>1, <1>2, <1>3, <1>4, <1>5, <1>6 DEF Run

\* Whatever decides a Connect(), and however many threads find out at once, one of
\* them is in connect_fail(), and nobody completes it but that one or connect_check().
THEOREM JoinInvariant ==
    ASSUME JoinsInTurn
    PROVE  Spec => []JoinInv
<1>1. Init => JoinInv
  <2> SUFFICES ASSUME Init PROVE JoinInv
    OBVIOUS
  <2>1. completes = 0 /\ \A t \in Threads : stack[t] = <<>>
    BY DEF Init
  <2>2. PCsOf(<<>>) = {} /\ FailsOnce(<<>>) /\ Based(<<>>)
    BY DEF PCsOf, FailsOnce, Based
  <2> QED BY <2>1, <2>2 DEF JoinInv, JoinStacks, JoinStack, OneFails, Completed, Failing, Untold
<1>2. SessionInv /\ JoinInv /\ [Next]_vars => JoinInv'
  <2> SUFFICES ASSUME SessionInv, JoinInv, [Next]_vars PROVE JoinInv'
    OBVIOUS
  <2>1. CASE UNCHANGED vars
    <3>1. UNCHANGED <<stack, state, completes>>
      BY <2>1 DEF vars, run, hist
    <3> QED BY <3>1 DEF JoinInv, JoinStacks, OneFails, Completed, Connecting
  <2>2. CASE \E t \in Threads : Run(t)
    BY <2>2, JoinRuns
  <2>3. CASE \E t \in Workers : Serve(t)
    BY <2>3, ServeQuiet DEF Threads
  <2>4. CASE \E t \in Callers : CallApi(t)
    BY <2>4, CallQuiet
  <2> QED BY <2>1, <2>2, <2>3, <2>4 DEF Next, Rest
<1> QED BY <1>1, <1>2, SessionInvariant, PTL DEF Spec

\* A Connect() is completed at most once, be it answered, refused, cancelled, closed or
\* cut off from any number of members at a time.
THEOREM ConnectsCompleteOnce ==
    ASSUME JoinsInTurn
    PROVE  Spec => []OneComplete
<1>1. JoinInv => OneComplete
  BY DEF JoinInv, Completed, OneComplete
<1> QED BY <1>1, JoinInvariant, PTL

==============================================================================
