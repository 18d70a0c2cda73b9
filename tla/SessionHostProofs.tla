-------------------------- MODULE SessionHostProofs --------------------------
(***************************************************************************)
(* Proofs about a host: a peer whose application hosts sessions, destroys  *)
(* players, and ends its sessions with Close().  Any number of peers       *)
(* connect, ask to join, leave and break off, on any number of threads,    *)
(* and each indication lets the others go on.                              *)
(***************************************************************************)
EXTENDS SessionProofs

\* The application hosts sessions, destroys peers, and closes, on any of its threads.
\* It does not join the sessions of others, nor host one before Close() has returned.
HostOnly ==
    /\ Calls \subseteq {"Host", "Close", "CloseImmediate", "DestroyPeer"}
    /\ "closing" \notin ConnectIn

\* Where the threads of a host can be, and where they can return to.
HostPC == {"destroy", "flushcb", "destroyflushed", "destroycb", "erase", "destroyall", "shutdown",
           "shutdowncb", "shutdownall", "readdone", "host_connect_request", "indicatecb", "createcb",
           "message", "destroy_message", "closewait", "closepool"} \cup ClosePC
HostBelow == {"destroyall", "shutdownall", "readdone", "closewaits"}

\* Where a call of the application other than Close() is itself.
OtherCall == {"createcb", "shutdown", "shutdowncb"}

InClose(s) == PCsOf(s) \cap Family # {}

\* Only a caller is in Close(), and it was not connected to another's session.
HostFrame(t, f) ==
    /\ f.pc \in HostPC
    /\ f.pc \in Family => t \in Callers
    /\ f.pc \in ClosePC => f.arg.was # "connected"

\* A call of the application other than Close() returns from all that it calls.
OfCaller(s) == s = <<>> \/ InClose(s) \/ (DeepOf(s) = {} /\ TopIn(s).pc \in OtherCall)

HostStack(t, s) ==
    /\ \A f \in FramesOf(s) : HostFrame(t, f)
    /\ DeepOf(s) \subseteq HostBelow /\ Based(s)
    /\ t \in Callers => OfCaller(s)

HostStacks == \A t \in Threads : HostStack(t, stack[t])

\* A thread that is at the place from goes on at the place to: in Close() if it was, and
\* in another call if it is in one.
Follows(t, from, to) ==
    /\ to \in Family => from \in Outermost
    /\ from \in Family => from \in Outermost /\ to \in Outermost
    /\ t \in Callers /\ from \in OtherCall => to \in OtherCall \/ InClose(stack[t])

\* What thread t does to the stacks: it is at g now, and in Close() only if it was.
HostMoved(t, g) ==
    /\ HostStacks' /\ Elsewhere(t) /\ TopIn(stack'[t]) = g
    /\ InClose(stack'[t]) => InClose(stack[t])

\* A thread's new stack is as a host's should be, the others are unchanged.
LEMMA HostReplaced ==
    ASSUME Stacks, HostStacks, NEW t \in Threads, NEW s, Stack(t, s), HostStack(t, s)
    PROVE  HostStacks' /\ Elsewhere(t) /\ stack'[t] = s
<1>1. stack'[t] = s /\ \A u \in Threads \ {t} : stack'[u] = stack[u]
  BY DEF Stacks, Stack
<1>2. Elsewhere(t)
  BY <1>1 DEF Elsewhere
<1>3. \A u \in Threads : HostStack(u, stack'[u])
  BY <1>1 DEF HostStacks
<1> QED BY <1>1, <1>2, <1>3 DEF HostStacks

\* Goto(t, f) and Unlock(t, f).
LEMMA HostGoto ==
    ASSUME Stacks, HostStacks, NEW t \in Threads, stack[t] # <<>>, NEW f, HostFrame(t, f),
           Follows(t, Top(t).pc, f.pc), Stack(t, <<f>> \o Below(t))
    PROVE  HostMoved(t, f)
<1>0. Top(t) = TopIn(stack[t])
  BY TopFacts
<1> DEFINE S == FrameSet \cup {f}
           q == stack[t]
           s == <<f>> \o Tail(q)
<1>1. stack[t] \in Seq(FrameSet) /\ FrameSet \subseteq S /\ f \in S
  BY DEF Stacks
<1>2. stack[t] \in Seq(S)
  <2> HIDE DEF S
  <2> QED BY <1>1, SeqGrows
<1> HIDE DEF S
<1>3. /\ s \in Seq(S) /\ s # <<>> /\ TopIn(s) = f
      /\ DeepOf(s) = DeepOf(q) /\ PCsOf(s) = {f.pc} \cup DeepOf(q) /\ DeepFrames(s) = DeepFrames(q)
  BY <1>1, <1>2, Replaced
<1>4. Stack(t, s)
  BY DEF Below
<1>5. FramesOf(q) = {TopIn(q)} \cup DeepFrames(q) /\ PCsOf(q) = {TopIn(q).pc} \cup DeepOf(q)
  BY <1>2, FramesSplit
<1>6. HostStack(t, q) /\ q # <<>> /\ Follows(t, TopIn(q).pc, f.pc)
  BY <1>0 DEF HostStacks
<1>7. Based(s)
  <2>1. Based(Tail(q)) /\ (TopIn(q).pc \in Outermost => Tail(q) = <<>>) /\ Tail(q) \in Seq(S)
    <3> HIDE DEF q, S
    <3>1. Based(q) /\ q \in Seq(S)
      BY <1>2, <1>6 DEF HostStack, q
    <3> QED BY <1>6, <3>1, BasedFacts, Popped
  <2>2. f.pc \in Outermost => TopIn(q).pc \in Outermost
    BY <1>6 DEF Follows, Outermost
  <2>3. f \in S
    BY <1>1
  <2> HIDE DEF q, S
  <2>4. Based(<<f>> \o Tail(q))
    BY <2>1, <2>2, <2>3, ConsBased
  <2> QED BY <2>4 DEF s
<1>8. q = stack[t]
  OBVIOUS
<1> HIDE DEF s, q
<1>9. FramesOf(s) = {f} \cup DeepFrames(s)
  BY <1>3, FramesSplit
<1>10. t \in Callers => OfCaller(s)
  <2> SUFFICES ASSUME t \in Callers PROVE OfCaller(s)
    OBVIOUS
  <2>1. CASE InClose(q)
    <3>1. TopIn(q).pc \in Family => f.pc \in Family
      BY <1>6 DEF Follows, Outermost
    <3> QED BY <1>3, <1>5, <2>1, <3>1 DEF OfCaller, InClose
  <2>2. CASE ~InClose(q)
    <3>1. DeepOf(q) = {} /\ TopIn(q).pc \in OtherCall
      BY <1>6, <2>2 DEF HostStack, OfCaller
    <3>2. f.pc \in OtherCall
      BY <1>6, <1>8, <2>2, <3>1 DEF Follows
    <3> QED BY <1>3, <3>1, <3>2 DEF OfCaller
  <2> QED BY <2>1, <2>2
<1>11. HostStack(t, s)
  BY <1>3, <1>5, <1>6, <1>7, <1>9, <1>10 DEF HostStack
<1>12. HostStacks' /\ Elsewhere(t) /\ stack'[t] = s
  BY <1>4, <1>11, HostReplaced
<1>13. InClose(s) => InClose(stack[t])
  <2>1. f.pc \in Family => TopIn(q).pc \in Family
    BY <1>6 DEF Follows, Outermost
  <2> QED BY <1>3, <1>5, <1>8, <2>1 DEF InClose
<1> QED BY <1>3, <1>12, <1>13 DEF HostMoved

\* Call(t, f, b).
LEMMA HostCall ==
    ASSUME Stacks, HostStacks, NEW t \in Threads, stack[t] # <<>>, NEW f, HostFrame(t, f), NEW b, HostFrame(t, b),
           b.pc \in HostBelow, f.pc \notin Family, Follows(t, Top(t).pc, b.pc), Stack(t, <<f, b>> \o Below(t))
    PROVE  HostMoved(t, f) /\ DeepOf(stack'[t]) # {}
<1>0. Top(t) = TopIn(stack[t])
  BY TopFacts
<1> DEFINE S == FrameSet \cup {f, b}
           q == stack[t]
           d == Tail(q)
           s == <<f, b>> \o d
<1>1. q \in Seq(FrameSet) /\ FrameSet \subseteq S /\ f \in S /\ b \in S
  BY DEF Stacks
<1>2. q \in Seq(S)
  <2> HIDE DEF S, q
  <2> QED BY <1>1, SeqGrows
<1> HIDE DEF S
<1>3. d \in Seq(S) /\ PCsOf(d) = DeepOf(q) /\ FramesOf(d) = DeepFrames(q)
  <2> HIDE DEF q
  <2>1. q # <<>>
    BY DEF q
  <2> QED BY <1>2, <2>1, Popped
<1>4. Stack(t, s)
  BY DEF Below
<1>5. FramesOf(q) = {TopIn(q)} \cup DeepFrames(q) /\ PCsOf(q) = {TopIn(q).pc} \cup DeepOf(q)
  BY <1>2, FramesSplit
<1>6. HostStack(t, q) /\ q # <<>> /\ q = stack[t] /\ Follows(t, TopIn(q).pc, b.pc)
  BY <1>0 DEF HostStacks
<1>7. Based(d) /\ (TopIn(q).pc \in Outermost => d = <<>>)
  <2> HIDE DEF q, S
  <2>1. Based(q)
    BY <1>6 DEF HostStack
  <2> QED BY <1>2, <1>6, <2>1, BasedFacts DEF d
<1> HIDE DEF d
<1>8. /\ s \in Seq(S) /\ s # <<>> /\ TopIn(s) = f
      /\ DeepOf(s) = {b.pc} \cup PCsOf(d) /\ PCsOf(s) = {f.pc, b.pc} \cup PCsOf(d)
      /\ DeepFrames(s) = {b} \cup FramesOf(d)
  BY <1>1, <1>3, PushedTwo
<1>9. Based(s)
  <2>1. Based(<<b>> \o d)
    <3>1. b.pc \in Outermost => TopIn(q).pc \in Outermost
      BY <1>6 DEF Follows, Outermost
    <3> HIDE DEF q, S
    <3> QED BY <1>1, <1>3, <1>7, <3>1, ConsBased
  <2>2. <<b>> \o d \in Seq(S) /\ s = <<f>> \o (<<b>> \o d)
    BY <1>1, <1>3
  <2> HIDE DEF s, q, S
  <2> QED BY <1>1, <2>1, <2>2, ConsBased DEF Outermost
<1> HIDE DEF s, q
<1>10. FramesOf(s) = {f} \cup DeepFrames(s)
  BY <1>8, FramesSplit
<1>11. t \in Callers => InClose(s)
  <2> SUFFICES ASSUME t \in Callers PROVE InClose(s)
    OBVIOUS
  <2>1. InClose(q)
    <3> SUFFICES ASSUME ~InClose(q) PROVE FALSE
      OBVIOUS
    <3>1. TopIn(q).pc \in OtherCall
      BY <1>6 DEF HostStack, OfCaller
    <3> QED BY <1>6, <3>1 DEF Follows, OtherCall, HostBelow
  <2>2. TopIn(q).pc \in Family => b.pc \in Family
    BY <1>6 DEF Follows, Outermost
  <2> QED BY <1>3, <1>5, <1>8, <2>1, <2>2 DEF InClose
<1>12. HostStack(t, s)
  BY <1>3, <1>5, <1>6, <1>8, <1>9, <1>10, <1>11 DEF HostStack, OfCaller
<1>13. HostStacks' /\ Elsewhere(t) /\ stack'[t] = s
  BY <1>4, <1>12, HostReplaced
<1>14. InClose(s) => InClose(stack[t])
  <2>1. b.pc \in Family => TopIn(q).pc \in Family
    BY <1>6 DEF Follows, Outermost
  <2> QED BY <1>3, <1>5, <1>6, <1>8, <2>1 DEF InClose
<1> QED BY <1>8, <1>13, <1>14 DEF HostMoved

\* Begin(t, <<f>>).
LEMMA HostBegin ==
    ASSUME Stacks, HostStacks, NEW t \in Threads, stack[t] = <<>>, NEW f, HostFrame(t, f), Stack(t, <<f>>),
           t \in Callers => f.pc \in Family \cup OtherCall
    PROVE  /\ HostStacks' /\ Elsewhere(t) /\ TopIn(stack'[t]) = f
           /\ InClose(stack'[t]) => f.pc \in Family
<1> DEFINE S == {f}
           e == stack[t]
           s == <<f>> \o e
<1>1. e \in Seq(S) /\ PCsOf(e) = {} /\ FramesOf(e) = {}
  BY DEF PCsOf, FramesOf
<1>2. s = <<f>>
  OBVIOUS
<1> HIDE DEF e
<1>3. /\ s # <<>> /\ TopIn(s) = f /\ FramesOf(s) = {f} \cup FramesOf(e)
      /\ DeepOf(s) = PCsOf(e) /\ PCsOf(s) = {f.pc} \cup PCsOf(e)
  BY <1>1, Pushed
<1>4. Stack(t, s)
  BY <1>2
<1> HIDE DEF s
<1>5. HostStack(t, s)
  <2>1. Based(s)
    BY <1>2 DEF Based
  <2>2. t \in Callers => OfCaller(s)
    BY <1>1, <1>3 DEF OfCaller, InClose
  <2> QED BY <1>1, <1>3, <2>1, <2>2 DEF HostStack
<1>6. HostStacks' /\ Elsewhere(t) /\ stack'[t] = s
  BY <1>4, <1>5, HostReplaced
<1> QED BY <1>1, <1>3, <1>6 DEF InClose

\* Begin(t, <<f, b>>).
LEMMA HostBeginTwo ==
    ASSUME Stacks, HostStacks, NEW t \in Threads, stack[t] = <<>>, NEW f, HostFrame(t, f), NEW b, HostFrame(t, b),
           b.pc \in HostBelow, {f.pc, b.pc} \cap Family = {}, t \notin Callers, Stack(t, <<f, b>>)
    PROVE  HostMoved(t, f)
<1> DEFINE S == {f, b}
           e == stack[t]
           s == <<f, b>> \o e
<1>1. e \in Seq(S) /\ PCsOf(e) = {} /\ FramesOf(e) = {}
  BY DEF PCsOf, FramesOf
<1>2. s = <<f, b>>
  OBVIOUS
<1>0. Based(s)
  BY <1>2 DEF Based, Outermost
<1> HIDE DEF e
<1>3. /\ s # <<>> /\ TopIn(s) = f /\ s \in Seq(S) /\ DeepFrames(s) = {b} \cup FramesOf(e)
      /\ DeepOf(s) = {b.pc} \cup PCsOf(e) /\ PCsOf(s) = {f.pc, b.pc} \cup PCsOf(e)
  BY <1>1, PushedTwo
<1>4. Stack(t, s)
  BY <1>2
<1> HIDE DEF s, S
<1>5. FramesOf(s) = {f} \cup DeepFrames(s)
  BY <1>3, FramesSplit
<1>6. HostStack(t, s)
  BY <1>0, <1>1, <1>3, <1>5 DEF HostStack
<1>7. HostStacks' /\ Elsewhere(t) /\ stack'[t] = s
  BY <1>4, <1>6, HostReplaced
<1> QED BY <1>1, <1>3, <1>7 DEF InClose, HostMoved

\* Where a function returns to.
Plainly(g) == g.pc \in HostBelow \cup {"idle"}

\* The stack below the innermost function.
LEMMA HostBelowHolds ==
    ASSUME Stacks, Waiting, HostStacks, NEW t \in Threads, stack[t] # <<>>
    PROVE  LET s == Below(t)
           IN  /\ HostStack(t, s) /\ Plainly(TopIn(s)) /\ (InClose(s) => InClose(stack[t]))
               /\ Top(t).pc \in Outermost => s = <<>>
<1> DEFINE q == stack[t]
           s == Tail(q)
<1>0. Top(t) = TopIn(q)
  BY TopFacts
<1>1. q \in Seq(FrameSet) /\ HostStack(t, q) /\ q # <<>>
      /\ (TopIn(q).pc = "closewait" => CallerIn(q) = "closewaits")
  BY DEF Stacks, HostStacks, Waiting
<1>2. s = Below(t)
  BY DEF Below
<1>3. /\ s \in Seq(FrameSet) /\ PCsOf(s) = DeepOf(q) /\ DeepOf(s) \subseteq DeepOf(q) /\ FramesOf(s) = DeepFrames(q)
      /\ s # <<>> => TopIn(s).pc \in DeepOf(q) /\ TopIn(s).pc = CallerIn(q)
      /\ s = <<>> => TopIn(s) = Frame("idle", Null) /\ CallerIn(q) = "idle"
  <2> HIDE DEF q
  <2> QED BY <1>1, Popped
<1>4. FramesOf(q) = {TopIn(q)} \cup DeepFrames(q) /\ PCsOf(q) = {TopIn(q).pc} \cup DeepOf(q)
  BY <1>1, FramesSplit
<1>5. Based(s) /\ (TopIn(q).pc \in Outermost => s = <<>>)
  <2> HIDE DEF q
  <2> QED BY <1>1, BasedFacts DEF HostStack
<1> HIDE DEF s, q
<1>8. t \in Callers => OfCaller(s)
  <2> SUFFICES ASSUME t \in Callers, s # <<>> PROVE InClose(s)
    BY DEF OfCaller
  <2>1. TopIn(s).pc \in DeepOf(q)
    BY <1>3
  <2>2. InClose(q)
    BY <1>1, <2>1 DEF HostStack, OfCaller
  <2>3. TopIn(q).pc \notin Outermost
    BY <1>5
  <2>4. CASE TopIn(q).pc = "closewait"
    BY <1>1, <1>3, <2>1, <2>4 DEF InClose, Family, ClosePC
  <2>5. CASE TopIn(q).pc \notin Family
    BY <1>3, <1>4, <2>2, <2>5 DEF InClose
  <2> QED BY <2>3, <2>4, <2>5 DEF Outermost
<1>9. HostStack(t, s)
  BY <1>1, <1>3, <1>4, <1>5, <1>8 DEF HostStack
<1>6. Plainly(TopIn(s))
  BY <1>1, <1>3 DEF HostStack, Plainly, Frame
<1>7. InClose(s) => InClose(q)
  BY <1>3, <1>4 DEF InClose
<1> QED BY <1>0, <1>2, <1>5, <1>6, <1>7, <1>9 DEF q

\* Return(t).
LEMMA HostReturn ==
    ASSUME Stacks, Waiting, HostStacks, NEW t \in Threads, stack[t] # <<>>, Stack(t, Below(t))
    PROVE  (\E g : Plainly(g) /\ HostMoved(t, g)) /\ (Top(t).pc \in Outermost => stack'[t] = <<>>)
<1> DEFINE s == Below(t)
<1>1. /\ HostStack(t, s) /\ Plainly(TopIn(s)) /\ (InClose(s) => InClose(stack[t]))
      /\ Top(t).pc \in Outermost => s = <<>>
  BY HostBelowHolds
<1>2. HostStacks' /\ Elsewhere(t) /\ stack'[t] = s
  BY <1>1, HostReplaced
<1> QED BY <1>1, <1>2 DEF HostMoved

\* ReturnAndNotify(t, "closewait").
LEMMA HostNotify ==
    ASSUME SessionInv, HostStacks, NEW t \in Threads, stack[t] # <<>>, ReturnAndNotify(t, "closewait")
    PROVE  \E g : Plainly(g) /\ HostMoved(t, g)
<1> DEFINE s == Below(t)
<1>0. Stacks /\ Waiting
  BY DEF SessionInv
<1>1. HostStack(t, s) /\ Plainly(TopIn(s)) /\ (InClose(s) => InClose(stack[t]))
  BY <1>0, HostBelowHolds
<1>2. Elsewhere(t) /\ stack'[t] = s
  BY <1>0, NotifyShape DEF Shaped
<1> HIDE DEF s
<1>3. ASSUME NEW u \in Threads \ {t} PROVE HostStack(u, stack'[u])
  <2>1. CASE stack[u] # <<>> /\ Top(u).pc = "closewait"
    <3> DEFINE q == stack[u]
               f == Top(u)
               g == With(f, "notified")
               r == <<g>> \o Tail(q)
    <3>1. stack'[u] = r
      BY <2>1 DEF ReturnAndNotify, Below
    <3>2. f \in FrameSet /\ f = TopIn(q) /\ q \in Seq(FrameSet) /\ HostStack(u, q)
      BY <1>0, <2>1, TopFacts DEF Stacks, HostStacks
    <3>3. g \in FrameSet /\ g.pc = "closewait"
      <4> HIDE DEF f
      <4>1. f.pc = "closewait"
        BY <2>1 DEF f
      <4> QED BY <3>2, <4>1, NotifiedFacts
    <3> HIDE DEF f, g
    <3>4. r \in Seq(FrameSet) /\ r # <<>> /\ TopIn(r) = g /\ DeepOf(r) = DeepOf(q) /\ DeepFrames(r) = DeepFrames(q)
      <4> HIDE DEF q
      <4>1. q # <<>>
        BY <2>1 DEF q
      <4> QED BY <3>2, <3>3, <4>1, Replaced
    <3>5. FramesOf(q) = {f} \cup DeepFrames(q)
      <4>1. FramesOf(q) = {TopIn(q)} \cup DeepFrames(q)
        BY <2>1, <3>2, FramesSplit
      <4> QED BY <4>1, <3>2
    <3> HIDE DEF q, r
    <3>6. FramesOf(r) = {g} \cup DeepFrames(r)
      BY <3>4, FramesSplit
    <3>7. HostFrame(u, f) /\ f.pc = "closewait"
      BY <2>1, <3>2, <3>5 DEF HostStack, f
    <3>8. HostFrame(u, g)
      BY <3>3, <3>7 DEF HostFrame, ClosePC
    <3>9. Based(r)
      <4>1. Based(Tail(q)) /\ Tail(q) \in Seq(FrameSet) /\ g.pc \notin Outermost
        <5>1. q # <<>>
          BY <2>1 DEF q
        <5>2. Based(q)
          BY <3>2 DEF HostStack
        <5> QED BY <3>2, <3>3, <5>1, <5>2, BasedFacts, Popped DEF Outermost
      <4> QED BY <3>3, <4>1, ConsBased DEF r
    <3>10. OfCaller(r)
      <4>1. g.pc \in PCsOf(r)
        BY <3>4, FramesSplit
      <4> QED BY <3>3, <4>1 DEF OfCaller, InClose, Family
    <3>11. HostStack(u, r)
      BY <3>2, <3>4, <3>5, <3>6, <3>8, <3>9, <3>10 DEF HostStack
    <3> QED BY <3>1, <3>11
  <2>2. CASE ~(stack[u] # <<>> /\ Top(u).pc = "closewait")
    <3>1. stack'[u] = stack[u]
      BY <2>2 DEF ReturnAndNotify
    <3> QED BY <3>1 DEF HostStacks
  <2> QED BY <2>1, <2>2
<1>4. HostStacks'
  BY <1>1, <1>2, <1>3 DEF HostStacks
<1> QED BY <1>1, <1>2, <1>4 DEF HostMoved

-------------------------------------------------------------------------------
(* The invariant of a host.                                                   *)

\* The states of the session and of its peers, and its own player ids.
Modes ==
    /\ fault = Null
    /\ state \in {"new", "initialised", "hosting", "closing"}
    /\ \A p \in Present : peers[p].st \in {"accepted", "indicating", "connected", "closing"}
    /\ local_player_id = host_player_id /\ host_player_id \in {0, 1}
    /\ state = "hosting" => host_player_id = 1 /\ next_player_id >= 2
    /\ \A p \in Present : peers[p].st = "indicating" => next_player_id >= 2

\* Before a session nobody is a player, or is being asked about, or is leaving.
Before ==
    state \in {"new", "initialised"} =>
       /\ \A p \in Present : peers[p].st \notin {"indicating", "connected"}
       /\ \A t \in Threads : TopIn(stack[t]).pc # "destroycb"

\* A thread that will use a peer has had the lock since it looked the peer up; one
\* that closes, since it looked at the state.
HasLock(t, g, l, ps, st) ==
    /\ g.pc \in {"destroy", "destroyflushed", "shutdown"} => l = t /\ ps[g.peer] # Null
    /\ g.pc = "erase" => l = t /\ (ps[g.peer] # Null => ps[g.peer].st # "connected")
    /\ g.pc = "close" => l = t /\ g.arg.was = st
    /\ g.pc = "destroy_message" => /\ l = t /\ ps[g.peer] # Null /\ ps[g.peer].st = "connected"
                                   /\ g.arg = ps[g.peer].player

HaveLock == \A t \in Threads : HasLock(t, TopIn(stack[t]), lock, peers, state)

\* Nobody can connect while a thread is in Close(), so that the peers it has waited
\* for are the last; otherwise anybody can while the peer hosts.
Quiet ==
    /\ \A t \in Threads : InClose(stack[t]) => ~listening
    /\ state = "hosting" => listening \/ \E t \in Threads : TopIn(stack[t]).pc = "close"

\* One thread is in Close(), and has set STATE_CLOSING but at its beginning.
OneCloses ==
    /\ \A t, u \in Threads : InClose(stack[t]) /\ InClose(stack[u]) => t = u
    /\ \A t \in Threads : InClose(stack[t]) => state = "closing" \/ TopIn(stack[t]).pc = "close"

\* Where the table of players leads to: to one that is, or was, a player.  So
\* DestroyPeer() does not destroy a peer that is none.
WasPlayer(ps, p) == ps[p] # Null => ps[p].st \in {"connected", "closing"}
Entries ==
    \A x \in Players : player_to_peer_id[x] # Null =>
       player_to_peer_id[x] < next_peer_id /\ WasPlayer(peers, player_to_peer_id[x])
Asked ==
    \A t \in Threads : TopIn(stack[t]).pc = "shutdown" /\ DeepOf(stack[t]) = {} =>
       WasPlayer(peers, TopIn(stack[t]).peer)

Emptied == \A t \in Threads : TopIn(stack[t]).pc \in {"closeself", "closepool"} => Present = {}

\* k is the id of a peer that goes, or has gone.
Gone(k, ps, nq) == k \in PeerIds /\ k < nq /\ (ps[k] # Null => ps[k].st = "closing")

\* The entry of player x leads to p, or peer_shutdown() has erased it for the peer x.
Filed(x, p, ps, ptp, nq) == ptp[x] = p \/ (ptp[x] = Null /\ Gone(x, ps, nq))

\* Every player has an id of its own, which was given to it, and is found by it.
Members ==
    /\ \A p \in Joined : /\ peers[p].player \in 2..next_player_id - 1
                         /\ Filed(peers[p].player, p, peers, player_to_peer_id, next_peer_id)
    /\ \A p, q \in Joined : peers[p].player = peers[q].player => p = q

PlayersIn(ps) == {ps[p].player : p \in {q \in PeerIds : ps[q] # Null /\ ps[q].st = "connected"}}

\* While the application handles DESTROY_PLAYER, the player is none of the others, and
\* still has its entry; its peer, if it is still there, will not be a player again.
Goes(x, p, ps, ptp, np, nq) ==
    x \in Players /\ x \in 2..np - 1 /\ x \notin PlayersIn(ps) /\ Filed(x, p, ps, ptp, nq)
IsLeaving(g, st, ps, ptp, np, nq) ==
    /\ g.peer < nq
    /\ ps[g.peer] # Null => /\ st \in {"hosting", "closing"} /\ ps[g.peer].st = "closing"
                            /\ Goes(ps[g.peer].player, g.peer, ps, ptp, np, nq)
    /\ g.pc = "destroycb" => Goes(g.arg, g.peer, ps, ptp, np, nq)

Departing == {"destroycb", "shutdowncb"}

Leaving ==
    /\ \A t \in Threads : TopIn(stack[t]).pc \in Departing =>
          IsLeaving(TopIn(stack[t]), state, peers, player_to_peer_id, next_player_id, next_peer_id)
    /\ \A t, u \in Threads :
          /\ TopIn(stack[t]).pc \in Departing /\ TopIn(stack[u]).pc \in Departing
          /\ TopIn(stack[t]).peer = TopIn(stack[u]).peer
          => u = t

\* The application has been told of the players, and of its own while it hosts.
Telling ==
    \A x \in Players :
       /\ told[x] \in {"unknown", "present", "gone"}
       /\ told[x] = "present" <=> x \in PlayersIn(peers) \/ (x = 1 /\ state = "hosting")

HostInv ==
    /\ HostStacks /\ OneCloses /\ Asked /\ HaveLock /\ Quiet /\ Emptied
    /\ Modes /\ Before /\ Entries /\ Members /\ Leaving /\ Telling

-------------------------------------------------------------------------------
(* What a step does to threads.                                               *)

\* The other threads' places.
LEMMA ElsewhereFacts ==
    ASSUME NEW t \in Threads, Elsewhere(t), NEW u \in Threads, u # t
    PROVE  /\ TopIn(stack'[u]).pc = TopIn(stack[u]).pc /\ PCsOf(stack'[u]) = PCsOf(stack[u])
           /\ TopIn(stack[u]).pc \notin {"closewait", "connectwait"} => TopIn(stack'[u]) = TopIn(stack[u])
BY DEF Elsewhere

\* A thread at a place of Close() is in Close().
LEMMA InCloseFacts ==
    ASSUME Stacks, NEW u \in Threads, TopIn(stack[u]).pc \in Family
    PROVE  InClose(stack[u])
<1> DEFINE s == stack[u]
<1>1. s \in Seq(FrameSet)
  BY DEF Stacks
<1>2. s # <<>>
  BY TopFacts DEF Family, ClosePC
<1> HIDE DEF s
<1>3. TopIn(s).pc \in PCsOf(s)
  BY <1>1, <1>2, FramesSplit
<1> QED BY <1>3 DEF InClose, s

\* A step of t changes nothing for those that need the lock or wait for peers to go.
LEMMA TopsKeep ==
    ASSUME SessionInv, HostInv, NEW t \in Threads, lock \in {t, Null}, NEW g,
           HostStacks', Elsewhere(t), TopIn(stack'[t]) = g, HasLock(t, g, lock', peers', state'), Quiet', OneCloses',
           g.pc = "shutdown" => DeepOf(stack'[t]) # {} \/ WasPlayer(peers', g.peer),
           g.pc \in {"closeself", "closepool"} => Present' = {},
           \A p \in PeerIds : peers'[p] # Null => peers[p] # Null \/ listening
    PROVE  HostStacks' /\ OneCloses' /\ Asked' /\ HaveLock' /\ Quiet' /\ Emptied'
<1>0. Stacks /\ HaveLock /\ Quiet /\ Emptied
  BY DEF SessionInv, HostInv
<1>1. HaveLock'
  <2> SUFFICES ASSUME NEW u \in Threads PROVE HasLock(u, TopIn(stack'[u]), lock', peers', state')
    BY DEF HaveLock
  <2>1. CASE u = t
    BY <2>1
  <2>2. CASE u # t
    <3>1. TopIn(stack'[u]).pc = TopIn(stack[u]).pc
      BY <2>2, ElsewhereFacts
    <3>2. lock # u
      BY <2>2, IdFacts
    <3>3. HasLock(u, TopIn(stack[u]), lock, peers, state)
      BY <1>0 DEF HaveLock
    <3> QED BY <3>1, <3>2, <3>3 DEF HasLock
  <2> QED BY <2>1, <2>2
<1>2. Emptied'
  <2> SUFFICES ASSUME NEW u \in Threads, TopIn(stack'[u]).pc \in {"closeself", "closepool"} PROVE Present' = {}
    BY DEF Emptied
  <2>1. CASE u = t
    BY <2>1
  <2>2. CASE u # t
    <3>1. TopIn(stack[u]).pc \in {"closeself", "closepool"}
      BY <2>2, ElsewhereFacts
    <3>2. InClose(stack[u])
      BY <1>0, <3>1, InCloseFacts DEF Family, ClosePC
    <3>3. ~listening /\ Present = {}
      BY <1>0, <3>1, <3>2 DEF Quiet, Emptied
    <3> QED BY <3>3 DEF Present
  <2> QED BY <2>1, <2>2
<1>3. Asked'
  <2> SUFFICES ASSUME NEW u \in Threads, TopIn(stack'[u]).pc = "shutdown", DeepOf(stack'[u]) = {}
               PROVE  WasPlayer(peers', TopIn(stack'[u]).peer)
    BY DEF Asked, WasPlayer
  <2>1. CASE u = t
    BY <2>1
  <2>2. CASE u # t
    <3>1. TopIn(stack[u]).pc = "shutdown"
      BY <2>2, ElsewhereFacts
    <3>2. HasLock(u, TopIn(stack[u]), lock, peers, state) /\ lock # u
      BY <1>0, <2>2, IdFacts DEF HaveLock
    <3> QED BY <3>1, <3>2 DEF HasLock
  <2> QED BY <2>1, <2>2
<1> QED BY <1>1, <1>2, <1>3

\* Nobody new is in Close(), and nothing begins to listen.
LEMMA QuietKeeps ==
    ASSUME Quiet, OneCloses, NEW t \in Threads, Elsewhere(t), InClose(stack'[t]) => InClose(stack[t]),
           TopIn(stack[t]).pc # "close", listening' = listening, state' = state
    PROVE  Quiet' /\ OneCloses'
<1>1. \A u \in Threads : InClose(stack'[u]) => InClose(stack[u])
  BY DEF Elsewhere, InClose
<1>2. \A u \in Threads \ {t} : TopIn(stack'[u]).pc = TopIn(stack[u]).pc
  BY DEF Elsewhere
<1>4. \A u, v \in Threads : InClose(stack'[u]) /\ InClose(stack'[v]) => u = v
  BY <1>1 DEF OneCloses
<1>5. \A u \in Threads : InClose(stack'[u]) => state' = "closing" \/ TopIn(stack'[u]).pc = "close"
  BY <1>1, <1>2 DEF OneCloses
<1>3. (\E u \in Threads : TopIn(stack[u]).pc = "close") => \E u \in Threads : TopIn(stack'[u]).pc = "close"
  BY <1>2
<1> QED BY <1>1, <1>3, <1>4, <1>5 DEF Quiet, OneCloses

-------------------------------------------------------------------------------
(* What a step does to peers.                                                 *)

\* A peer that is no player comes, goes, is asked about, or begins to close.
Serves(p) ==
    \/ peers'[p] = peers[p]
    \/ peers'[p] = Null /\ (peers[p] # Null => peers[p].st # "connected")
    \/ /\ peers[p] # Null /\ peers'[p] # Null /\ peers'[p].player = peers[p].player
       /\ \/ peers'[p].st = peers[p].st
          \/ peers'[p].st = "indicating" /\ peers[p].st = "accepted" /\ state = "hosting"
          \/ peers'[p].st = "closing" /\ peers[p].st \in {"accepted", "indicating"}
    \/ /\ peers[p] = Null /\ next_peer_id <= p /\ listening
       /\ peers'[p] # Null /\ peers'[p].st = "accepted"

\* The players stay the same.
LEMMA ServesFacts ==
    ASSUME \A p \in PeerIds : Serves(p)
    PROVE  /\ Joined' = Joined /\ \A p \in Joined : peers'[p].player = peers[p].player
           /\ PlayersIn(peers') = PlayersIn(peers)
           /\ \A p \in PeerIds : peers'[p] # Null => peers[p] # Null \/ listening
<1>1. \A p \in PeerIds : (peers'[p] # Null /\ peers'[p].st = "connected") <=> (peers[p] # Null /\ peers[p].st = "connected")
  BY DEF Serves
<1>2. Joined' = Joined
  BY <1>1 DEF Joined, Present
<1>3. \A p \in PeerIds : peers[p] # Null /\ peers[p].st = "connected" => peers'[p].player = peers[p].player
  BY DEF Serves
<1>4. \A p \in Joined : peers'[p].player = peers[p].player
  BY <1>3 DEF Joined, Present
<1>5. PlayersIn(peers') = PlayersIn(peers)
  BY <1>1, <1>3 DEF PlayersIn
<1>6. \A p \in PeerIds : peers'[p] # Null => peers[p] # Null \/ listening
  BY DEF Serves
<1> QED BY <1>2, <1>4, <1>5, <1>6

\* Who the players are.
LEMMA MemberFacts ==
    ASSUME SessionInv, HostInv, NEW p \in Joined
    PROVE  LET x == peers[p].player
           IN  /\ p \in PeerIds /\ peers[p] # Null /\ peers[p].st = "connected" /\ p < next_peer_id
               /\ x \in Players /\ x \in PlayersIn(peers)
               /\ Filed(x, p, peers, player_to_peer_id, next_peer_id)
               /\ x \in 2..next_player_id - 1 /\ x >= 2 /\ x # 1 /\ x # 0
               /\ state \in {"hosting", "closing"} /\ told[x] = "present"
<1> DEFINE x == peers[p].player
<1>1. p \in PeerIds /\ peers[p] # Null /\ peers[p].st = "connected" /\ p < next_peer_id
  BY DEF Joined, Present, SessionInv, Fresh
<1>2. x \in 2..next_player_id - 1 /\ Filed(x, p, peers, player_to_peer_id, next_peer_id)
  BY DEF HostInv, Members
<1>3. x \in Players \cup {Null}
  BY <1>1 DEF SessionInv, Values, PeerRecs
<1>4. x \in Nat /\ x >= 2 /\ x # 1 /\ x # 0
  <2>1. next_player_id \in Nat
    BY DEF SessionInv, Values
  <2> HIDE DEF x
  <2> QED BY <1>2, <2>1
<1>5. x \in Players
  BY <1>3, <1>4, IdFacts
<1>6. x \in PlayersIn(peers)
  BY <1>1 DEF PlayersIn
<1>7. state \in {"hosting", "closing"}
  BY <1>1 DEF HostInv, Modes, Before, Present
<1>8. told[x] = "present"
  BY <1>5, <1>6 DEF HostInv, Telling
<1> QED BY <1>1, <1>2, <1>4, <1>5, <1>6, <1>7, <1>8

\* An entry stays, or is erased for the peer that has the player's id.
EntryStays(x) ==
    \/ player_to_peer_id'[x] = player_to_peer_id[x]
    \/ player_to_peer_id'[x] = Null /\ Gone(x, peers, next_peer_id)
EntriesStay == \A x \in Players : EntryStays(x)

\* A peer that goes is not a player again, and its id not that of another.
StaysGone(p) ==
    p < next_peer_id /\ (peers[p] # Null => peers[p].st = "closing") /\ peers'[p] # Null =>
       peers[p] # Null /\ peers'[p].st = "closing" /\ peers'[p].player = peers[p].player

Closes ==
    /\ \A p \in PeerIds : StaysGone(p)
    /\ next_peer_id \in Nat /\ next_peer_id' \in Nat /\ next_peer_id <= next_peer_id'

LEMMA GoneStays ==
    ASSUME Closes, NEW k, Gone(k, peers, next_peer_id)
    PROVE  Gone(k, peers', next_peer_id')
<1>1. k \in PeerIds /\ k \in Nat /\ k < next_peer_id /\ StaysGone(k)
  BY IdFacts DEF Gone, Closes
<1>2. k < next_peer_id'
  BY <1>1 DEF Closes
<1> QED BY <1>1, <1>2 DEF Gone, StaysGone

\* A player's entry still leads to its peer.
StaysFiled(x, p) ==
    Filed(x, p, peers, player_to_peer_id, next_peer_id) => Filed(x, p, peers', player_to_peer_id', next_peer_id')

LEMMA FiledStays ==
    ASSUME Closes, NEW x, EntryStays(x), NEW p
    PROVE  StaysFiled(x, p)
BY GoneStays DEF EntryStays, StaysFiled, Filed

LEMMA ServesCloses ==
    ASSUME SessionInv, \A p \in PeerIds : Serves(p), next_peer_id <= next_peer_id', next_peer_id' \in Nat
    PROVE  Closes
<1>1. next_peer_id \in Nat
  BY DEF SessionInv, Values
<1>2. ASSUME NEW p \in PeerIds PROVE StaysGone(p)
  <2>1. Serves(p) /\ p \in Nat
    BY IdFacts
  <2> QED BY <1>1, <2>1 DEF Serves, StaysGone
<1> QED BY <1>1, <1>2 DEF Closes

\* A player that leaves still does.
LEMMA LeaverStays ==
    ASSUME Closes, NEW g, g.peer \in PeerIds,
           IsLeaving(g, state, peers, player_to_peer_id, next_player_id, next_peer_id),
           state \in {"hosting", "closing"} => state' \in {"hosting", "closing"},
           \A x \in 2..next_player_id - 1 : x \in 2..next_player_id' - 1 /\ (x \in PlayersIn(peers') => x \in PlayersIn(peers)),
           \A x \in Players : x \in 2..next_player_id - 1 => StaysFiled(x, g.peer)
    PROVE  IsLeaving(g, state', peers', player_to_peer_id', next_player_id', next_peer_id')
<1>1. \A x : Goes(x, g.peer, peers, player_to_peer_id, next_player_id, next_peer_id) =>
             Goes(x, g.peer, peers', player_to_peer_id', next_player_id', next_peer_id')
  BY DEF Goes, StaysFiled
<1>2. g.peer < next_peer_id' /\ StaysGone(g.peer)
  <2>1. g.peer \in Nat /\ g.peer < next_peer_id
    BY IdFacts DEF IsLeaving
  <2>2. next_peer_id \in Nat /\ next_peer_id' \in Nat /\ next_peer_id <= next_peer_id' /\ StaysGone(g.peer)
    BY DEF Closes
  <2> QED BY <2>1, <2>2
<1>3. g.pc = "destroycb" => Goes(g.arg, g.peer, peers', player_to_peer_id', next_player_id', next_peer_id')
  BY <1>1 DEF IsLeaving
<1>4. ASSUME peers'[g.peer] # Null
      PROVE  /\ state' \in {"hosting", "closing"} /\ peers'[g.peer].st = "closing"
             /\ Goes(peers'[g.peer].player, g.peer, peers', player_to_peer_id', next_player_id', next_peer_id')
  <2>1. peers[g.peer] # Null /\ peers'[g.peer].st = "closing" /\ peers'[g.peer].player = peers[g.peer].player
    BY <1>2, <1>4 DEF IsLeaving, StaysGone
  <2>2. state \in {"hosting", "closing"} /\ Goes(peers[g.peer].player, g.peer, peers, player_to_peer_id, next_player_id, next_peer_id)
    BY <2>1 DEF IsLeaving
  <2> QED BY <1>1, <2>1, <2>2
<1> QED BY <1>2, <1>3, <1>4 DEF IsLeaving

\* The frame of another thread whose indication of a departure is not over.
LEMMA DepartsElsewhere ==
    ASSUME SessionInv, HostInv, NEW t \in Threads, Elsewhere(t), NEW u \in Threads \ {t},
           TopIn(stack'[u]).pc \in Departing \/ TopIn(stack[u]).pc \in Departing
    PROVE  /\ TopIn(stack[u]).pc \in Departing /\ TopIn(stack'[u]) = TopIn(stack[u])
           /\ TopIn(stack[u]).peer \in PeerIds
           /\ IsLeaving(TopIn(stack[u]), state, peers, player_to_peer_id, next_player_id, next_peer_id)
<1>1. TopIn(stack[u]).pc \in Departing /\ TopIn(stack'[u]) = TopIn(stack[u])
  BY ElsewhereFacts DEF Departing
<1>2. stack[u] # <<>> /\ TopIn(stack[u]) \in FrameSet
  BY <1>1, TopFacts DEF SessionInv, Departing
<1>3. TopIn(stack[u]).peer \in PeerIds
  BY <1>1, <1>2 DEF FrameSet, PeerPC, Departing
<1> QED BY <1>1, <1>3 DEF HostInv, Leaving

LEMMA LeavingStays ==
    ASSUME SessionInv, HostInv, NEW t \in Threads, Elsewhere(t), Closes,
           state \in {"hosting", "closing"} => state' \in {"hosting", "closing"},
           \A x \in 2..next_player_id - 1 : x \in 2..next_player_id' - 1 /\ (x \in PlayersIn(peers') => x \in PlayersIn(peers)),
           \A u \in Threads \ {t} : TopIn(stack[u]).pc \in Departing =>
              \A x \in Players : x \in 2..next_player_id - 1 => StaysFiled(x, TopIn(stack[u]).peer),
           NEW g, TopIn(stack'[t]) = g,
           g.pc \in Departing =>
              /\ IsLeaving(g, state', peers', player_to_peer_id', next_player_id', next_peer_id')
              /\ \A u \in Threads \ {t} : TopIn(stack[u]).pc \in Departing => TopIn(stack[u]).peer # g.peer
    PROVE  Leaving'
<1>1. ASSUME NEW u \in Threads \ {t}, TopIn(stack'[u]).pc \in Departing
      PROVE  /\ TopIn(stack[u]).pc \in Departing /\ TopIn(stack'[u]) = TopIn(stack[u])
             /\ IsLeaving(TopIn(stack'[u]), state', peers', player_to_peer_id', next_player_id', next_peer_id')
  <2>1. PICK h : h = TopIn(stack[u])
    OBVIOUS
  <2>2. /\ h.pc \in Departing /\ TopIn(stack'[u]) = h /\ h.peer \in PeerIds
        /\ IsLeaving(h, state, peers, player_to_peer_id, next_player_id, next_peer_id)
    BY <1>1, <2>1, DepartsElsewhere
  <2>3. \A x \in Players : x \in 2..next_player_id - 1 => StaysFiled(x, h.peer)
    BY <2>1, <2>2
  <2>4. IsLeaving(h, state', peers', player_to_peer_id', next_player_id', next_peer_id')
    BY <2>2, <2>3, LeaverStays
  <2> QED BY <2>1, <2>2, <2>4
<1>2. ASSUME NEW u \in Threads, TopIn(stack'[u]).pc \in Departing
      PROVE  IsLeaving(TopIn(stack'[u]), state', peers', player_to_peer_id', next_player_id', next_peer_id')
  BY <1>1, <1>2
<1>3. ASSUME NEW u \in Threads, NEW v \in Threads, TopIn(stack'[u]).pc \in Departing, TopIn(stack'[v]).pc \in Departing,
             TopIn(stack'[u]).peer = TopIn(stack'[v]).peer
      PROVE  v = u
  <2>1. CASE u # t /\ v # t
    <3>1. /\ TopIn(stack[u]).pc \in Departing /\ TopIn(stack[v]).pc \in Departing
          /\ TopIn(stack[u]).peer = TopIn(stack[v]).peer
      BY <1>1, <1>3, <2>1
    <3> QED BY <3>1 DEF HostInv, Leaving
  <2>2. CASE u = t \/ v = t
    BY <1>1, <1>3, <2>2
  <2> QED BY <2>1, <2>2
<1> QED BY <1>2, <1>3 DEF Leaving

\* Nor does one whose peer is gone.
LEMMA LeavingNobody ==
    ASSUME SessionInv, HostInv, NEW t \in Threads, Elsewhere(t), TopIn(stack'[t]).pc \notin Departing,
           state \in {"new", "initialised"} \/ Present = {},
           \A u \in Threads : TopIn(stack'[u]).pc # "destroycb", UNCHANGED <<peers, next_peer_id>>
    PROVE  Leaving'
<1>1. ASSUME NEW u \in Threads, TopIn(stack'[u]).pc \in Departing
      PROVE  /\ u # t /\ TopIn(stack[u]).pc \in Departing /\ TopIn(stack'[u]) = TopIn(stack[u])
             /\ IsLeaving(TopIn(stack'[u]), state', peers', player_to_peer_id', next_player_id', next_peer_id')
  <2>0. u \in Threads \ {t}
    BY <1>1
  <2>1. PICK h : h = TopIn(stack[u])
    OBVIOUS
  <2>2. /\ h.pc \in Departing /\ TopIn(stack'[u]) = h /\ h.peer \in PeerIds
        /\ IsLeaving(h, state, peers, player_to_peer_id, next_player_id, next_peer_id)
    BY <1>1, <2>0, <2>1, DepartsElsewhere
  <2>3. peers[h.peer] = Null
    BY <2>2 DEF IsLeaving, Present
  <2>4. IsLeaving(h, state', peers', player_to_peer_id', next_player_id', next_peer_id')
    BY <2>2, <2>3 DEF IsLeaving
  <2> QED BY <2>0, <2>1, <2>2, <2>4
<1>2. \A u, v \in Threads :
          /\ TopIn(stack'[u]).pc \in Departing /\ TopIn(stack'[v]).pc \in Departing
          /\ TopIn(stack'[u]).peer = TopIn(stack'[v]).peer
          => v = u
  BY <1>1 DEF HostInv, Leaving
<1> QED BY <1>1, <1>2 DEF Leaving

\* The entries still lead to one that is or was a player.
LEMMA EntriesKeep ==
    ASSUME SessionInv, HostInv, \A p \in PeerIds : Serves(p), EntriesStay,
           next_peer_id <= next_peer_id', next_peer_id' \in Nat
    PROVE  Entries'
<1> SUFFICES ASSUME NEW x \in Players, player_to_peer_id'[x] # Null
             PROVE  player_to_peer_id'[x] < next_peer_id' /\ WasPlayer(peers', player_to_peer_id'[x])
  BY DEF Entries, WasPlayer
<1> DEFINE p == player_to_peer_id[x]
<1>0. player_to_peer_id'[x] = p
  BY DEF EntriesStay, EntryStays
<1>1. p \in PeerIds /\ p \in Nat /\ next_peer_id \in Nat
  <2>1. p \in PeerIds
    BY <1>0 DEF SessionInv, Values
  <2> QED BY <2>1, IdFacts DEF SessionInv, Values
<1>2. p < next_peer_id /\ WasPlayer(peers, p)
  BY <1>0 DEF HostInv, Entries
<1>3. Serves(p)
  BY <1>1
<1> HIDE DEF p
<1>4. p < next_peer_id' /\ ~(next_peer_id <= p)
  BY <1>1, <1>2
<1>5. WasPlayer(peers', p)
  BY <1>2, <1>3, <1>4 DEF Serves, WasPlayer
<1> QED BY <1>0, <1>4, <1>5

\* The players still have their entries.
LEMMA MembersKeep ==
    ASSUME SessionInv, HostInv, Closes, Joined' \subseteq Joined, \A p \in Joined' : peers'[p].player = peers[p].player,
           next_player_id' = next_player_id,
           \A p \in Joined' : StaysFiled(peers[p].player, p)
    PROVE  Members'
<1>1. ASSUME NEW p \in Joined'
      PROVE  /\ peers'[p].player \in 2..next_player_id' - 1
             /\ Filed(peers'[p].player, p, peers', player_to_peer_id', next_peer_id')
  <2>1. PICK x : x = peers[p].player
    OBVIOUS
  <2>2. x \in 2..next_player_id - 1 /\ Filed(x, p, peers, player_to_peer_id, next_peer_id)
    BY <1>1, <2>1 DEF HostInv, Members
  <2>3. Filed(x, p, peers', player_to_peer_id', next_peer_id')
    BY <1>1, <2>1, <2>2 DEF StaysFiled
  <2> QED BY <1>1, <2>1, <2>2, <2>3
<1>2. ASSUME NEW p \in Joined', NEW q \in Joined', peers'[p].player = peers'[q].player
      PROVE  p = q
  BY <1>2 DEF HostInv, Members
<1> QED BY <1>1, <1>2 DEF Members

\* The threads' part of a step, and that nobody begins to leave.
LEMMA LeavingKeeps ==
    ASSUME SessionInv, HostInv, NEW t \in Threads, Elsewhere(t), TopIn(stack'[t]).pc \notin Departing,
           \A p \in PeerIds : Serves(p), EntriesStay, UNCHANGED <<state, next_player_id>>,
           next_peer_id <= next_peer_id', next_peer_id' \in Nat
    PROVE  Leaving' /\ Members'
<1>1. Closes
  BY ServesCloses
<1>2. /\ Joined' = Joined /\ \A p \in Joined : peers'[p].player = peers[p].player
      /\ PlayersIn(peers') = PlayersIn(peers)
  BY ServesFacts
<1>3. \A x \in Players : \A p : StaysFiled(x, p)
  BY <1>1, FiledStays DEF EntriesStay
<1>4. PICK g : g = TopIn(stack'[t])
  OBVIOUS
<1>5. Leaving'
  <2>1. \A u \in Threads \ {t} : TopIn(stack[u]).pc \in Departing => \A x \in Players : StaysFiled(x, TopIn(stack[u]).peer)
    BY <1>3
  <2>2. \A x \in 2..next_player_id - 1 : x \in 2..next_player_id' - 1 /\ (x \in PlayersIn(peers') => x \in PlayersIn(peers))
    BY <1>2
  <2> QED BY <1>1, <1>4, <2>1, <2>2, LeavingStays
<1>6. Members'
  <2>1. \A p \in Joined : peers[p].player \in Players
    BY MemberFacts
  <2>2. \A p \in Joined' : StaysFiled(peers[p].player, p)
    BY <1>2, <1>3, <2>1
  <2> QED BY <1>1, <1>2, <2>2, MembersKeep
<1> QED BY <1>5, <1>6

\* Every step that leaves the players as they are keeps the invariant.
LEMMA StillKeeps ==
    ASSUME SessionInv, HostInv, NEW t \in Threads, lock \in {t, Null}, NEW g, g.pc \notin Departing,
           HostStacks', Elsewhere(t), TopIn(stack'[t]) = g, HasLock(t, g, lock', peers', state'), Quiet', OneCloses',
           g.pc = "shutdown" => DeepOf(stack'[t]) # {} \/ WasPlayer(peers', g.peer),
           g.pc \in {"closeself", "closepool"} => Present' = {},
           \A p \in PeerIds : Serves(p), next_peer_id <= next_peer_id', next_peer_id' \in Nat,
           EntriesStay, UNCHANGED <<state, next_player_id, host_player_id, local_player_id, told, fault>>
    PROVE  HostInv'
<1>0. Modes /\ Before /\ Telling
  BY DEF HostInv
<1>1. /\ Joined' = Joined /\ \A p \in Joined : peers'[p].player = peers[p].player
      /\ PlayersIn(peers') = PlayersIn(peers)
      /\ \A p \in PeerIds : peers'[p] # Null => peers[p] # Null \/ listening
  BY ServesFacts
<1>2. HostStacks' /\ OneCloses' /\ Asked' /\ HaveLock' /\ Quiet' /\ Emptied'
  BY <1>1, TopsKeep
<1>3. Leaving' /\ Members' /\ Entries'
  BY LeavingKeeps, EntriesKeep
<1>4. \A p \in PeerIds : peers'[p] # Null =>
         /\ peers'[p].st \in {"accepted", "indicating", "connected", "closing"}
         /\ peers'[p].st = "indicating" => state = "hosting" \/ (peers[p] # Null /\ peers[p].st = "indicating")
         /\ peers'[p].st = "connected" => peers[p] # Null /\ peers[p].st = "connected"
  <2> SUFFICES ASSUME NEW p \in PeerIds, peers'[p] # Null
               PROVE  /\ peers'[p].st \in {"accepted", "indicating", "connected", "closing"}
                      /\ peers'[p].st = "indicating" => state = "hosting" \/ (peers[p] # Null /\ peers[p].st = "indicating")
                      /\ peers'[p].st = "connected" => peers[p] # Null /\ peers[p].st = "connected"
    OBVIOUS
  <2>1. Serves(p)
    OBVIOUS
  <2>2. peers[p] # Null => peers[p].st \in {"accepted", "indicating", "connected", "closing"}
    BY <1>0 DEF Modes, Present
  <2> QED BY <2>1, <2>2 DEF Serves
<1>5. Modes'
  BY <1>0, <1>4 DEF Modes, Present
<1>6. Before'
  <2>1. \A u \in Threads : TopIn(stack'[u]).pc = "destroycb" => TopIn(stack[u]).pc = "destroycb"
    BY ElsewhereFacts DEF Departing
  <2> QED BY <1>0, <1>4, <2>1 DEF Before, Present
<1>7. Telling'
  BY <1>0, <1>1 DEF Telling
<1> QED BY <1>2, <1>3, <1>5, <1>6, <1>7 DEF HostInv

-------------------------------------------------------------------------------
(* Steps that leave the players as they are.                                  *)

\* A step of t to g, at which the players stay.
Stays(t, g) ==
    /\ lock \in {t, Null} /\ TopIn(stack[t]).pc # "close" /\ g.pc \notin Departing
    /\ HasLock(t, g, lock', peers', state')
    /\ g.pc = "shutdown" => DeepOf(stack'[t]) # {} \/ WasPlayer(peers', g.peer)
    /\ g.pc \in {"closeself", "closepool"} => Present' = {}
    /\ \A p \in PeerIds : Serves(p)
    /\ next_peer_id <= next_peer_id' /\ next_peer_id' \in Nat
    /\ EntriesStay /\ UNCHANGED <<state, listening, next_player_id, host_player_id, local_player_id, told, fault>>

LEMMA StaysKeeps ==
    ASSUME SessionInv, HostInv, NEW t \in Threads, NEW g, HostMoved(t, g), Stays(t, g)
    PROVE  HostInv'
<1>1. Quiet' /\ OneCloses'
  BY QuietKeeps DEF HostInv, HostMoved, Stays
<1> QED BY <1>1, StillKeeps DEF HostMoved, Stays

\* The places that ask nothing of what a step does.
Free == HostPC \ {"destroy", "destroyflushed", "shutdown", "erase", "close", "destroy_message",
                  "closeself", "closepool", "destroycb", "shutdowncb"}

LEMMA FreeStays ==
    ASSUME NEW t, NEW g, g.pc \in Free \cup {"idle"}, NEW l, NEW ps, NEW st
    PROVE  HasLock(t, g, l, ps, st) /\ g.pc \notin Departing /\ g.pc \notin {"shutdown", "closeself", "closepool"}
BY DEF Free, HasLock, Departing

\* The peers stay as they are.
Static == UNCHANGED <<state, listening, table, ids, told, fault>>

LEMMA StaticServes ==
    ASSUME SessionInv, Static
    PROVE  /\ \A p \in PeerIds : Serves(p)
           /\ next_peer_id <= next_peer_id' /\ next_peer_id' \in Nat
           /\ EntriesStay /\ UNCHANGED <<state, listening, next_player_id, host_player_id, local_player_id, told, fault>>
           /\ peers' = peers /\ Present' = Present
<1>1. next_peer_id \in Nat
  BY DEF SessionInv, Values
<1> QED BY <1>1 DEF Static, Serves, table, ids, Present, EntriesStay, EntryStays

\* The other variables of a step that changes peers that are no players.
Serving ==
    /\ \A p \in PeerIds : Serves(p)
    /\ EntriesStay /\ UNCHANGED <<state, listening, ids, told, fault>>

LEMMA SameServing ==
    ASSUME \A p \in PeerIds : Serves(p), UNCHANGED <<state, listening, player_to_peer_id, ids, told, fault>>
    PROVE  Serving
BY DEF Serving, EntriesStay, EntryStays

LEMMA ServingFacts ==
    ASSUME SessionInv, Serving
    PROVE  /\ \A p \in PeerIds : Serves(p)
           /\ next_peer_id <= next_peer_id' /\ next_peer_id' \in Nat
           /\ EntriesStay /\ UNCHANGED <<state, listening, next_player_id, host_player_id, local_player_id, told, fault>>
<1>1. next_peer_id \in Nat
  BY DEF SessionInv, Values
<1> QED BY <1>1 DEF Serving, ids

LEMMA StaticServing ==
    ASSUME SessionInv, Static
    PROVE  Serving
BY StaticServes, SameServing DEF Static, table

\* A function of t returns.
LEMMA ReturnStays ==
    ASSUME SessionInv, HostInv, NEW t \in Threads, lock \in {t, Null}, stack[t] # <<>>, Top(t).pc # "close", Serving,
           Return(t) \/ ReturnAndNotify(t, "closewait")
    PROVE  HostInv'
<1>1. PICK g : Plainly(g) /\ HostMoved(t, g)
  <2>1. Stacks /\ Waiting /\ HostStacks
    BY DEF SessionInv, HostInv
  <2> QED BY <2>1, HostReturn, HostNotify DEF Return
<1>2. g.pc \in Free \cup {"idle"}
  BY <1>1 DEF Plainly, HostBelow, Free, HostPC, ClosePC, Departing
<1>3. Stays(t, g)
  BY <1>2, FreeStays, ServingFacts DEF Stays, Top, TopIn
<1> QED BY <1>1, <1>3, StaysKeeps

\* t goes on, calls or begins a function.
LEMMA GotoStays ==
    ASSUME SessionInv, HostInv, NEW t \in Threads, lock \in {t, Null}, stack[t] # <<>>, Top(t).pc # "close", Serving,
           NEW f, HostFrame(t, f), Follows(t, Top(t).pc, f.pc), Goto(t, f) \/ Unlock(t, f),
           \/ f.pc \in Free
           \/ /\ f.pc \notin {"destroycb", "shutdowncb", "shutdown"} /\ HasLock(t, f, lock', peers', state')
              /\ f.pc \in {"closeself", "closepool"} => Present' = {}
    PROVE  HostInv'
<1>1. HostMoved(t, f)
  <2>1. Stacks /\ HostStacks
    BY DEF SessionInv, HostInv
  <2> QED BY <2>1, HostGoto DEF Goto, Unlock
<1>2. Stays(t, f)
  BY FreeStays, ServingFacts DEF Stays, Top, TopIn, Departing
<1> QED BY <1>1, <1>2, StaysKeeps

LEMMA CallStays ==
    ASSUME SessionInv, HostInv, NEW t \in Threads, lock \in {t, Null}, stack[t] # <<>>, Top(t).pc # "close", Serving,
           NEW f, HostFrame(t, f), NEW b, HostFrame(t, b), b.pc \in HostBelow,
           f.pc \notin Family, Follows(t, Top(t).pc, b.pc), Call(t, f, b),
           f.pc \in Free \/ (f.pc \in {"destroy", "shutdown"} /\ peers'[f.peer] # Null)
    PROVE  HostInv'
<1>1. HostMoved(t, f) /\ DeepOf(stack'[t]) # {}
  <2>1. Stacks /\ HostStacks
    BY DEF SessionInv, HostInv
  <2> QED BY <2>1, HostCall DEF Call
<1>2. HasLock(t, f, lock', peers', state') /\ f.pc \notin Departing /\ f.pc \notin {"closeself", "closepool"}
  BY FreeStays DEF HasLock, Call, Departing
<1>3. Stays(t, f)
  BY <1>1, <1>2, ServingFacts DEF Stays, Top, TopIn
<1> QED BY <1>1, <1>3, StaysKeeps

LEMMA BeginStays ==
    ASSUME SessionInv, HostInv, NEW t \in Threads, lock = Null, stack[t] = <<>>, Serving,
           NEW f, HostFrame(t, f), f.pc \notin Family,
           \/ Begin(t, <<f>>) /\ (t \in Callers => f.pc \in OtherCall)
           \/ \E b : HostFrame(t, b) /\ b.pc \in HostBelow \ Family /\ t \notin Callers /\ Begin(t, <<f, b>>),
           HasLock(t, f, lock', peers', state'), f.pc \notin Departing,
           f.pc = "shutdown" => WasPlayer(peers', f.peer)
    PROVE  HostInv'
<1>1. HostMoved(t, f)
  <2>0. Stacks /\ HostStacks
    BY DEF SessionInv, HostInv
  <2>1. CASE Begin(t, <<f>>) /\ (t \in Callers => f.pc \in OtherCall)
    <3>1. Stack(t, <<f>>)
      BY <2>1 DEF Begin
    <3> QED BY <2>0, <3>1, HostBegin DEF HostMoved
  <2>2. ASSUME NEW b, HostFrame(t, b), b.pc \in HostBelow \ Family, t \notin Callers, Begin(t, <<f, b>>)
        PROVE  HostMoved(t, f)
    <3>1. Stack(t, <<f, b>>)
      BY <2>2 DEF Begin
    <3>2. {f.pc, b.pc} \cap Family = {} /\ b.pc \in HostBelow
      BY <2>2
    <3> QED BY <2>0, <2>2, <3>1, <3>2, HostBeginTwo
  <2> QED BY <2>1, <2>2
<1>2. f.pc \notin {"closeself", "closepool"}
  BY DEF Family, ClosePC
<1>3. Stays(t, f)
  BY <1>2, TopFacts, ServingFacts DEF Stays, SessionInv
<1> QED BY <1>1, <1>3, StaysKeeps

\* Frames of a host without an argument.
LEMMA HostFrames ==
    ASSUME NEW t, NEW pc \in HostPC \ Family, NEW p
    PROVE  HostFrame(t, Frame(pc, p)) /\ Frame(pc, p).pc = pc /\ Frame(pc, p).peer = p /\ Frame(pc, p).arg = Null
BY DEF HostFrame, Frame, Family

\* A function other than Close() goes on.
LEMMA InnerFollows ==
    ASSUME NEW t, NEW from, from \notin Family \cup OtherCall, NEW to, to \notin Family
    PROVE  Follows(t, from, to)
BY DEF Follows, Outermost

\* The frame of a thread of a host.
LEMMA HostTop ==
    ASSUME SessionInv, HostInv, NEW t \in Threads, stack[t] # <<>>
    PROVE  /\ Top(t) = TopIn(stack[t]) /\ HostFrame(t, Top(t)) /\ Top(t).pc \in HostPC
           /\ HasLock(t, Top(t), lock, peers, state)
           /\ Top(t).pc \in Family => InClose(stack[t]) /\ t \in Callers
           /\ Top(t).pc \in PeerPC => Top(t).peer \in PeerIds
<1>1. stack[t] \in Seq(FrameSet) /\ HostStack(t, stack[t])
  BY DEF SessionInv, Stacks, HostInv, HostStacks
<1>2. Top(t) = TopIn(stack[t]) /\ Top(t) \in FrameSet
  BY TopFacts DEF SessionInv
<1>3. HostFrame(t, TopIn(stack[t]))
  <2> DEFINE s == stack[t]
  <2> HIDE DEF s
  <2>1. TopIn(s) \in FramesOf(s)
    BY <1>1, FramesSplit DEF s
  <2> QED BY <1>1, <2>1 DEF HostStack, s
<1>4. HasLock(t, TopIn(stack[t]), lock, peers, state)
  BY DEF HostInv, HaveLock
<1>5. TopIn(stack[t]).pc \in Family => InClose(stack[t])
  BY InCloseFacts DEF SessionInv
<1> QED BY <1>2, <1>3, <1>4, <1>5 DEF HostFrame, FrameSet

-------------------------------------------------------------------------------
(* peer_destroy() and peer_shutdown() of a host.                              *)

\* The callbacks of the flush of peer_destroy().
LEMMA HostFlush ==
    ASSUME SessionInv, HostInv, NEW t \in Threads, DestroyFlush(t) \/ DestroyFlushed(t)
    PROVE  HostInv'
<1>1. Serving
  <2>1. Static
    BY DEF DestroyFlush, DestroyFlushed, Static, hist
  <2> QED BY <2>1, StaticServing
<1>2. lock \in {t, Null} /\ stack[t] # <<>> /\ Top(t).pc \in {"destroy", "flushcb"} /\ Top(t).pc # "close"
  BY DEF DestroyFlush, DestroyFlushed, Runs, Resumes
<1>5. Top(t).pc \notin Family \cup OtherCall
  BY <1>2 DEF Family, ClosePC, OtherCall
<1> DEFINE p == Top(t).peer
<1>3. CASE DestroyFlush(t)
  <2> DEFINE f == Frame("flushcb", p)
  <2>1. HostFrame(t, f) /\ f.pc \in Free /\ f.pc \notin Family
    BY HostFrames DEF Free, HostPC, Family, ClosePC
  <2>2. Unlock(t, f)
    BY <1>3 DEF DestroyFlush
  <2> HIDE DEF f
  <2>3. Follows(t, Top(t).pc, f.pc)
    BY <1>5, <2>1, InnerFollows
  <2> QED BY <1>1, <1>2, <2>1, <2>2, <2>3, GotoStays
<1>4. CASE DestroyFlushed(t)
  <2> DEFINE f == Frame("destroyflushed", p)
  <2>1. HostFrame(t, f) /\ f.pc = "destroyflushed" /\ f.pc \notin Family /\ f.peer = p
    BY HostFrames DEF HostPC, Family, ClosePC
  <2>2. CASE peers[p] = Null
    <3>1. Return(t)
      BY <1>4, <2>2 DEF DestroyFlushed
    <3> QED BY <1>1, <1>2, <3>1, ReturnStays
  <2>3. CASE peers[p] # Null
    <3>1. Goto(t, f) /\ peers' = peers
      BY <1>4, <2>3 DEF DestroyFlushed, table
    <3> HIDE DEF f, p
    <3>2. HasLock(t, f, lock', peers', state')
      BY <2>1, <2>3, <3>1 DEF HasLock, Goto
    <3>3. Follows(t, Top(t).pc, f.pc)
      BY <1>5, <2>1, InnerFollows
    <3> QED BY <1>1, <1>2, <2>1, <3>1, <3>2, <3>3, GotoStays
  <2> QED BY <2>2, <2>3
<1> QED BY <1>3, <1>4

\* What peer_destroy_all(), peer_shutdown_all() do next.
LEMMA HostAll ==
    ASSUME SessionInv, HostInv, NEW t \in Threads, DestroyAll(t) \/ ShutdownAll(t)
    PROVE  HostInv'
<1>1. Static
  BY DEF DestroyAll, ShutdownAll, Static, hist
<1>2. Serving /\ peers' = peers
  BY <1>1, StaticServing, StaticServes
<1>3. lock \in {t, Null} /\ stack[t] # <<>> /\ Top(t).pc \in {"destroyall", "shutdownall"} /\ Top(t).pc # "close"
  BY DEF DestroyAll, ShutdownAll, Runs
<1>4. CASE Return(t)
  BY <1>2, <1>3, <1>4, ReturnStays
<1>5. ASSUME NEW pc \in {"destroy", "shutdown"}, NEW all \in {"destroyall", "shutdownall"},
             NEW S \in SUBSET Present, S # {}, Call(t, Frame(pc, Min(S)), Frame(all, Null))
      PROVE  HostInv'
  <2> DEFINE f == Frame(pc, Min(S))
             b == Frame(all, Null)
  <2>1. Min(S) \in Present
    <3>1. S \in SUBSET Nat
      BY IdFacts DEF Present
    <3> QED BY <1>5, <3>1, MinFacts
  <2>2. HostFrame(t, f) /\ f.pc = pc /\ f.peer = Min(S) /\ HostFrame(t, b) /\ b.pc = all
    <3>1. pc \in HostPC \ Family /\ all \in HostPC \ Family
      BY DEF HostPC, Family, ClosePC
    <3> QED BY <3>1, HostFrames
  <2>3. peers'[f.peer] # Null
    BY <1>2, <2>1, <2>2 DEF Present
  <2>4. /\ b.pc \in HostBelow /\ f.pc \notin Family /\ f.pc \in {"destroy", "shutdown"} /\ b.pc \notin Family
        /\ Top(t).pc \notin Family \cup OtherCall
    BY <1>3, <2>2 DEF HostBelow, Family, ClosePC, OtherCall
  <2>5. Call(t, f, b) /\ Follows(t, Top(t).pc, b.pc)
    BY <1>5, <2>4, InnerFollows
  <2> HIDE DEF f, b
  <2> QED BY <1>2, <1>3, <2>2, <2>3, <2>4, <2>5, CallStays
<1>6. CASE DestroyAll(t)
  <2>1. Return(t) \/ (Present # {} /\ Call(t, Frame("destroy", Min(Present)), Frame("destroyall", Null)))
    BY <1>6 DEF DestroyAll
  <2> QED BY <1>4, <1>5, <2>1
<1>7. CASE ShutdownAll(t)
  <2> DEFINE S == {p \in Present : peers[p].st # "closing"}
  <2>1. Return(t) \/ (S # {} /\ Call(t, Frame("shutdown", Min(S)), Frame("shutdownall", Null)))
    BY <1>7 DEF ShutdownAll
  <2>2. S \in SUBSET Present
    OBVIOUS
  <2> HIDE DEF S
  <2> QED BY <1>4, <1>5, <2>1, <2>2
<1> QED BY <1>6, <1>7

\* A peer is replaced by nothing, or by itself in another state.
LEMMA OneServes ==
    ASSUME SessionInv, NEW p \in PeerIds, NEW r, peers' = [peers EXCEPT ![p] = r],
           \/ r = Null /\ (peers[p] # Null => peers[p].st # "connected")
           \/ /\ peers[p] # Null /\ r # Null /\ r.player = peers[p].player
              /\ \/ r.st = peers[p].st
                 \/ r.st = "indicating" /\ peers[p].st = "accepted" /\ state = "hosting"
                 \/ r.st = "closing" /\ peers[p].st \in {"accepted", "indicating"}
    PROVE  \A q \in PeerIds : Serves(q)
<1>1. peers'[p] = r /\ \A q \in PeerIds \ {p} : peers'[q] = peers[q]
  BY DEF SessionInv, Values
<1>2. Serves(p)
  BY <1>1 DEF Serves
<1>3. \A q \in PeerIds \ {p} : Serves(q)
  BY <1>1 DEF Serves
<1> QED BY <1>2, <1>3

\* A record of a peer in another state has the same player.
LEMMA SamePlayer ==
    ASSUME SessionInv, NEW p \in PeerIds, peers[p] # Null
    PROVE  /\ \A st \in PeerStates : LET r == [peers[p] EXCEPT !.st = st]
                                     IN  r.st = st /\ r.player = peers[p].player /\ r # Null
           /\ \A b \in BOOLEAN : LET r == [peers[p] EXCEPT !.recv_busy = b]
                                 IN  r.st = peers[p].st /\ r.player = peers[p].player /\ r # Null
<1>1. peers[p] \in PeerRecs
  BY DEF SessionInv, Values
<1>2. \A st \in PeerStates : [peers[p] EXCEPT !.st = st] \in PeerRecs
  BY <1>1 DEF PeerRecs
<1>3. \A b \in BOOLEAN : [peers[p] EXCEPT !.recv_busy = b] \in PeerRecs
  BY <1>1 DEF PeerRecs
<1>4. Null \notin PeerRecs
  BY SessionAssumption
<1> QED BY <1>1, <1>2, <1>3, <1>4 DEF PeerRecs

\* A peer that is no player is erased.
LEMMA HostErase ==
    ASSUME SessionInv, HostInv, NEW t \in Threads, Erase(t)
    PROVE  HostInv'
<1> DEFINE p == Top(t).peer
<1>1. lock \in {t, Null} /\ stack[t] # <<>> /\ Top(t).pc = "erase"
  BY DEF Erase, Runs
<1>2. p \in PeerIds /\ (peers[p] # Null => peers[p].st # "connected")
  BY <1>1, HostTop DEF PeerPC, HasLock
<1>3. peers' = [peers EXCEPT ![p] = Null] /\ (Return(t) \/ ReturnAndNotify(t, "closewait"))
  BY DEF Erase
<1>4. UNCHANGED <<state, listening, player_to_peer_id, ids, told, fault>>
  BY DEF Erase, hist
<1> HIDE DEF p
<1>5. Serving
  BY <1>2, <1>3, <1>4, OneServes, SameServing
<1> QED BY <1>1, <1>3, <1>5, ReturnStays

\* A player leaves: its peer is marked before the application is told.
LEMMA LeaveKeeps ==
    ASSUME SessionInv, HostInv, NEW t \in Threads, lock \in {t, Null}, TopIn(stack[t]).pc # "close", NEW g, HostMoved(t, g),
           NEW p \in Joined, peers' = [peers EXCEPT ![p].st = "closing"], told' = Destroy(peers[p].player),
           UNCHANGED <<state, listening, player_to_peer_id, ids, fault>>,
           g.peer = p, g.pc = "shutdowncb" \/ (g.pc = "destroycb" /\ g.arg = peers[p].player)
    PROVE  HostInv'
<1> DEFINE x == peers[p].player
           r == [peers[p] EXCEPT !.st = "closing"]
<1>1. /\ p \in PeerIds /\ peers[p] # Null /\ peers[p].st = "connected" /\ p < next_peer_id
      /\ x \in Players /\ x \in PlayersIn(peers)
      /\ Filed(x, p, peers, player_to_peer_id, next_peer_id)
      /\ x \in 2..next_player_id - 1 /\ x # 1
      /\ state \in {"hosting", "closing"} /\ told[x] = "present"
  BY MemberFacts
<1>2. r.st = "closing" /\ r # Null /\ r.player = x
  BY <1>1, SamePlayer DEF PeerStates
<1>3. peers'[p] = r /\ \A q \in PeerIds \ {p} : peers'[q] = peers[q]
  BY <1>1 DEF SessionInv, Values
<1> HIDE DEF r
<1>4. /\ Modes /\ Before /\ Entries /\ Members /\ Leaving /\ Telling /\ Values
      /\ UNCHANGED <<next_peer_id, next_player_id, host_player_id, local_player_id>>
  BY DEF HostInv, SessionInv, ids
<1>5. Joined' = Joined \ {p}
  BY <1>2, <1>3 DEF Joined, Present
<1>6. p \in Joined /\ \A q \in Joined : peers[q].player = x => q = p
  BY <1>4 DEF Members
<1>14. Closes
  <2>1. next_peer_id \in Nat /\ next_peer_id' = next_peer_id
    BY <1>4 DEF Values
  <2>2. \A q \in PeerIds : StaysGone(q)
    BY <1>1, <1>3 DEF StaysGone
  <2> QED BY <2>1, <2>2, IdFacts DEF Closes
<1>15. \A y : \A q : StaysFiled(y, q)
  BY <1>14, FiledStays DEF EntryStays
<1>7. PlayersIn(peers') = PlayersIn(peers) \ {x}
  <2>1. \A q \in PeerIds \ {p} : peers[q] # Null /\ peers[q].st = "connected" => peers[q].player # x
    <3> SUFFICES ASSUME NEW q \in PeerIds \ {p}, peers[q] # Null, peers[q].st = "connected", peers[q].player = x
                 PROVE  FALSE
      OBVIOUS
    <3>1. q \in Joined
      BY DEF Joined, Present
    <3> QED BY <3>1, <1>6
  <2>2. PlayersIn(peers') \subseteq PlayersIn(peers) \ {x}
    BY <1>2, <1>3, <2>1 DEF PlayersIn
  <2>3. PlayersIn(peers) \ {x} \subseteq PlayersIn(peers')
    BY <1>3 DEF PlayersIn
  <2> QED BY <2>2, <2>3
<1>13. Entries'
  BY <1>2, <1>3, <1>4 DEF Entries, WasPlayer, Values
<1>8. HostStacks' /\ OneCloses' /\ Asked' /\ HaveLock' /\ Quiet' /\ Emptied'
  <2>1. HasLock(t, g, lock', peers', state') /\ g.pc \notin {"closeself", "closepool"} /\ g.pc # "shutdown"
    BY DEF HasLock
  <2>2. Quiet' /\ OneCloses'
    BY QuietKeeps DEF HostInv, HostMoved
  <2>3. \A q \in PeerIds : peers'[q] # Null => peers[q] # Null \/ listening
    BY <1>1, <1>3
  <2> QED BY <2>1, <2>2, <2>3, TopsKeep DEF HostMoved
<1>9. Modes' /\ Before'
  BY <1>1, <1>2, <1>3, <1>4 DEF Modes, Before, Present
<1>10. Members'
  <2>1. Joined' \subseteq Joined /\ \A q \in Joined' : peers'[q].player = peers[q].player
    BY <1>3, <1>5 DEF Joined, Present
  <2>2. \A q \in Joined' : StaysFiled(peers[q].player, q)
    BY <1>15
  <2> QED BY <1>4, <1>14, <2>1, <2>2, MembersKeep
<1>11. Telling'
  <2>1. told' = [told EXCEPT ![x] = "gone"]
    BY <1>1 DEF Destroy
  <2>2. told'[x] = "gone" /\ \A y \in Players \ {x} : told'[y] = told[y]
    BY <2>1, <1>1, <1>4 DEF Values
  <2> HIDE DEF x
  <2> QED BY <1>1, <1>4, <1>7, <2>2 DEF Telling
<1>12. Leaving'
  <2>1. TopIn(stack'[t]) = g /\ Elsewhere(t)
    BY DEF HostMoved
  <2>2. \A y \in 2..next_player_id - 1 : y \in 2..next_player_id' - 1 /\ (y \in PlayersIn(peers') => y \in PlayersIn(peers))
    BY <1>4, <1>7
  <2>3. Goes(x, p, peers', player_to_peer_id', next_player_id', next_peer_id')
    <3>1. Filed(x, p, peers', player_to_peer_id', next_peer_id')
      BY <1>1, <1>15 DEF StaysFiled
    <3> QED BY <1>1, <1>4, <1>7, <3>1 DEF Goes
  <2>4. IsLeaving(g, state', peers', player_to_peer_id', next_player_id', next_peer_id')
    <3>1. g.pc = "destroycb" => g.arg = x
      OBVIOUS
    <3> HIDE DEF x
    <3> QED BY <1>1, <1>2, <1>3, <1>4, <2>3, <3>1 DEF IsLeaving
  <2>5. ASSUME NEW u \in Threads \ {t}, TopIn(stack[u]).pc \in Departing PROVE TopIn(stack[u]).peer # p
    <3>1. IsLeaving(TopIn(stack[u]), state, peers, player_to_peer_id, next_player_id, next_peer_id)
      BY <1>4, <2>5 DEF Leaving
    <3> QED BY <1>1, <3>1 DEF IsLeaving
  <2>6. \A u \in Threads \ {t} : TopIn(stack[u]).pc \in Departing => \A y \in Players : StaysFiled(y, TopIn(stack[u]).peer)
    BY <1>15
  <2> HIDE DEF x
  <2> QED BY <1>4, <1>14, <2>1, <2>2, <2>4, <2>5, <2>6, LeavingStays
<1> QED BY <1>8, <1>9, <1>10, <1>11, <1>12, <1>13 DEF HostInv

\* peer_destroy() indicates DESTROY_PLAYER, or goes on.
LEMMA HostDestroys ==
    ASSUME SessionInv, HostInv, NEW t \in Threads, DestroyPeerState(t)
    PROVE  HostInv'
<1> DEFINE p == Top(t).peer
<1>1. lock \in {t, Null} /\ stack[t] # <<>> /\ Top(t).pc \in {"destroy", "destroyflushed"} /\ Top(t) = TopIn(stack[t])
  BY DEF DestroyPeerState, Runs, Top, TopIn
<1>2. p \in PeerIds /\ peers[p] # Null
  BY <1>1, HostTop DEF PeerPC, HasLock
<1>5. Top(t).pc \notin Family \cup OtherCall
  BY <1>1 DEF Family, ClosePC, OtherCall
<1>3. CASE peers[p].st = "connected"
  <2> DEFINE g == With(Frame("destroycb", p), peers[p].player)
  <2>1. /\ peers' = [peers EXCEPT ![p].st = "closing"] /\ told' = Destroy(peers[p].player) /\ Unlock(t, g)
        /\ UNCHANGED <<state, listening, player_to_peer_id, ids, fault>>
    BY <1>2, <1>3 DEF DestroyPeerState
  <2>2. g.pc = "destroycb" /\ g.peer = p /\ g.arg = peers[p].player
    BY DEF With, Frame
  <2>3. HostFrame(t, g) /\ g.pc \notin Family
    BY <2>2 DEF HostFrame, HostPC, ClosePC, Family
  <2> HIDE DEF g
  <2>4. HostMoved(t, g)
    <3>1. Follows(t, Top(t).pc, g.pc)
      BY <1>5, <2>3, InnerFollows
    <3> QED BY <1>1, <2>1, <2>3, <3>1, HostGoto DEF Unlock, SessionInv, HostInv
  <2>5. p \in Joined
    BY <1>2, <1>3 DEF Joined, Present
  <2> HIDE DEF p
  <2> QED BY <1>1, <2>1, <2>2, <2>4, <2>5, LeaveKeeps
<1>4. CASE peers[p].st # "connected"
  <2> DEFINE f == Frame("erase", p)
  <2>1. state \notin {"connecting_to_host", "connecting_to_peers"}
    BY DEF HostInv, Modes
  <2>2. Goto(t, f) /\ UNCHANGED <<state, listening, table, ids, starts, hist, fault>>
    BY <1>2, <1>4, <2>1 DEF DestroyPeerState
  <2>3. Serving /\ peers' = peers
    BY <2>2, StaticServing, StaticServes DEF Static, hist
  <2>4. HostFrame(t, f) /\ f.pc = "erase" /\ f.peer = p /\ f.pc \notin Family
    BY HostFrames DEF HostPC, Family, ClosePC
  <2> HIDE DEF f, p
  <2>5. HasLock(t, f, lock', peers', state')
    BY <1>4, <2>2, <2>3, <2>4 DEF HasLock, Goto
  <2>6. Follows(t, Top(t).pc, f.pc)
    BY <1>5, <2>4, InnerFollows
  <2> QED BY <1>1, <2>2, <2>3, <2>4, <2>5, <2>6, GotoStays
<1> QED BY <1>3, <1>4

\* The player's entry goes after the application has been told.
LEMMA HostDestroyIndicated ==
    ASSUME SessionInv, HostInv, NEW t \in Threads, DestroyIndicated(t)
    PROVE  HostInv'
<1> DEFINE p == Top(t).peer
           x == Top(t).arg
           f == Frame("erase", p)
<1>1. lock \in {t, Null} /\ stack[t] # <<>> /\ Top(t).pc = "destroycb" /\ Top(t) = TopIn(stack[t])
  BY HostTop DEF DestroyIndicated, Resumes
<1>2. IsLeaving(Top(t), state, peers, player_to_peer_id, next_player_id, next_peer_id)
  BY <1>1 DEF HostInv, Leaving, Departing
<1>3. state # "connected"
  BY DEF HostInv, Modes
<1>4. /\ player_to_peer_id' = [player_to_peer_id EXCEPT ![x] = Null] /\ state' = state /\ Goto(t, f)
      /\ UNCHANGED <<listening, peers, ids, told, fault>>
  BY <1>3 DEF DestroyIndicated, hist
<1>5. HostFrame(t, f) /\ f.pc = "erase" /\ f.peer = p /\ f.pc \notin Family
  BY HostFrames DEF HostPC, Family, ClosePC
<1>6. x \in Players /\ x \notin PlayersIn(peers) /\ (peers[p] # Null => peers[p].st = "closing")
  BY <1>1, <1>2 DEF IsLeaving, Goes
<1>17. Filed(x, p, peers, player_to_peer_id, next_peer_id)
  BY <1>1, <1>2 DEF IsLeaving, Goes
<1>18. p = Top(t).peer
  OBVIOUS
<1> HIDE DEF f, p, x
<1>7. HostMoved(t, f)
  <2>1. Top(t).pc \notin Family \cup OtherCall
    BY <1>1 DEF Family, ClosePC, OtherCall
  <2>2. Follows(t, Top(t).pc, f.pc)
    BY <1>5, <2>1, InnerFollows
  <2> QED BY <1>1, <1>4, <1>5, <2>2, HostGoto DEF Goto, SessionInv, HostInv
<1>8. HasLock(t, f, lock', peers', state')
  BY <1>4, <1>5, <1>6 DEF HasLock, Goto
<1>9. HostStacks' /\ OneCloses' /\ Asked' /\ HaveLock' /\ Quiet' /\ Emptied'
  <2>1. Quiet' /\ OneCloses'
    BY <1>1, <1>4, <1>7, QuietKeeps DEF HostInv, HostMoved
  <2>2. \A q \in PeerIds : peers'[q] # Null => peers[q] # Null \/ listening
    BY <1>4
  <2> QED BY <1>1, <1>5, <1>7, <1>8, <2>1, <2>2, TopsKeep DEF HostMoved
<1>10. \A y \in Players \ {x} : player_to_peer_id'[y] = player_to_peer_id[y]
  BY <1>4, <1>6 DEF SessionInv, Values
<1>11. /\ Modes /\ Before /\ Entries /\ Members /\ Leaving /\ Telling
       /\ UNCHANGED <<next_peer_id, next_player_id, host_player_id, local_player_id>>
  BY <1>4 DEF HostInv, ids
<1>12. ASSUME NEW u \in Threads, TopIn(stack'[u]).pc = "destroycb"
       PROVE  u # t /\ TopIn(stack[u]) = TopIn(stack'[u]) /\ TopIn(stack[u]).pc = "destroycb"
  BY <1>5, <1>7, <1>12, ElsewhereFacts DEF HostMoved
<1>19. Closes
  <2>1. next_peer_id \in Nat
    BY DEF SessionInv, Values
  <2> QED BY <1>4, <1>11, <2>1 DEF Closes, StaysGone
\* Another peer that has, or had, the same player is not found by the entry.
<1>20. ASSUME NEW q, q # p PROVE \A y \in Players : StaysFiled(y, q)
  <2> SUFFICES ASSUME NEW y \in Players PROVE StaysFiled(y, q)
    OBVIOUS
  <2>1. CASE y # x
    BY <1>10, <1>19, <2>1, FiledStays DEF EntryStays
  <2>2. CASE y = x
    <3> SUFFICES ASSUME Filed(x, q, peers, player_to_peer_id, next_peer_id)
                 PROVE  Filed(x, q, peers', player_to_peer_id', next_peer_id')
      BY <2>2 DEF StaysFiled
    <3>1. player_to_peer_id[x] = Null /\ player_to_peer_id'[x] = Null
      BY <1>4, <1>6, <1>17, <1>20 DEF Filed, SessionInv, Values
    <3> QED BY <1>19, <3>1, GoneStays DEF Filed
  <2> QED BY <2>1, <2>2
<1>13. Modes' /\ Before' /\ Telling'
  BY <1>4, <1>11, <1>12 DEF Modes, Before, Telling, Present
<1>16. Entries'
  <2>1. player_to_peer_id'[x] = Null
    BY <1>4, <1>6 DEF SessionInv, Values
  <2> QED BY <1>4, <1>10, <1>11, <2>1 DEF Entries, WasPlayer
<1>14. Members'
  <2>1. Joined' = Joined /\ peers' = peers
    BY <1>4 DEF Joined, Present
  <2>2. \A q \in Joined' : StaysFiled(peers[q].player, q)
    <3>1. \A q \in Joined : peers[q].player \in Players /\ q # p
      BY <1>6, MemberFacts
    <3> QED BY <1>20, <2>1, <3>1
  <2> QED BY <1>11, <1>19, <2>1, <2>2, MembersKeep
<1>15. Leaving'
  <2>1. TopIn(stack'[t]) = f /\ Elsewhere(t) /\ f.pc \notin Departing
    BY <1>5, <1>7 DEF HostMoved, Departing
  <2>2. \A y \in 2..next_player_id - 1 : y \in 2..next_player_id' - 1 /\ (y \in PlayersIn(peers') => y \in PlayersIn(peers))
    BY <1>4, <1>11
  <2>3. ASSUME NEW u \in Threads \ {t}, TopIn(stack[u]).pc \in Departing
        PROVE  \A y \in Players : StaysFiled(y, TopIn(stack[u]).peer)
    <3>1. TopIn(stack[u]).peer # p
      BY <1>1, <1>11, <1>18, <2>3 DEF Leaving, Departing
    <3>2. PICK q : q = TopIn(stack[u]).peer
      OBVIOUS
    <3> QED BY <1>20, <3>1, <3>2
  <2> QED BY <1>4, <1>19, <2>1, <2>2, <2>3, LeavingStays
<1> QED BY <1>9, <1>13, <1>14, <1>15, <1>16 DEF HostInv

\* peer_shutdown() marks a player's peer, and destroys one that is no player yet.
LEMMA HostShutdown ==
    ASSUME SessionInv, HostInv, NEW t \in Threads, PeerShutdown(t)
    PROVE  HostInv'
<1> DEFINE p == Top(t).peer
<1>1. lock \in {t, Null} /\ stack[t] # <<>> /\ Top(t).pc = "shutdown" /\ Top(t) = TopIn(stack[t])
  BY DEF PeerShutdown, Runs, Top, TopIn
<1>2. p \in PeerIds /\ peers[p] # Null
  BY <1>1, HostTop DEF PeerPC, HasLock
<1>3. CASE peers[p].st = "connected"
  <2> DEFINE g == Frame("shutdowncb", p)
  <2>0. g.pc = "shutdowncb" /\ g.peer = p
    BY DEF Frame
  <2>1. /\ peers' = [peers EXCEPT ![p].st = "closing"] /\ told' = Destroy(peers[p].player) /\ Unlock(t, g)
        /\ UNCHANGED <<state, listening, player_to_peer_id, ids, fault>>
    BY <1>2, <1>3 DEF PeerShutdown
  <2>2. HostFrame(t, g) /\ g.pc \notin Family
    BY HostFrames DEF HostPC, ClosePC, Family
  <2> HIDE DEF g
  <2>3. HostMoved(t, g)
    <3>1. Follows(t, Top(t).pc, g.pc)
      BY <1>1, <2>0, <2>2 DEF Follows, OtherCall, Family, ClosePC
    <3> QED BY <1>1, <2>1, <2>2, <3>1, HostGoto DEF Unlock, SessionInv, HostInv
  <2>4. p \in Joined
    BY <1>2, <1>3 DEF Joined, Present
  <2> HIDE DEF p
  <2> QED BY <1>1, <2>0, <2>1, <2>3, <2>4, LeaveKeeps
<1>4. CASE peers[p].st # "connected"
  <2> DEFINE f == Frame("destroy", p)
  <2>1. /\ Return(t) \/ (Goto(t, f) /\ peers[p].st # "closing")
        /\ UNCHANGED <<state, listening, table, ids, starts, hist, fault>>
    BY <1>2, <1>4 DEF PeerShutdown
  <2>2. Serving /\ peers' = peers
    BY <2>1, StaticServing, StaticServes DEF Static, hist
  <2>3. HostFrame(t, f) /\ f.pc = "destroy" /\ f.peer = p /\ f.pc \notin Family
    BY HostFrames DEF HostPC, Family, ClosePC
  <2> HIDE DEF f, p
  <2>4. CASE Goto(t, f) /\ peers[p].st # "closing"
    <3>1. HasLock(t, f, lock', peers', state')
      BY <1>2, <2>2, <2>3, <2>4 DEF HasLock, Goto
    <3>2. ~WasPlayer(peers, Top(t).peer)
      BY <1>2, <1>4, <2>4 DEF WasPlayer, p
    <3>3. DeepOf(stack[t]) # {}
      BY <1>1, <3>2 DEF HostInv, Asked
    <3>4. t \in Callers => InClose(stack[t])
      BY <1>1, <3>3 DEF HostInv, HostStacks, HostStack, OfCaller
    <3>5. Follows(t, Top(t).pc, f.pc)
      BY <1>1, <2>3, <3>4 DEF Follows, Family, ClosePC
    <3> QED BY <1>1, <2>2, <2>3, <2>4, <3>1, <3>5, GotoStays
  <2>5. CASE Return(t)
    BY <1>1, <2>2, <2>5, ReturnStays
  <2> QED BY <2>1, <2>4, <2>5
<1> QED BY <1>3, <1>4

\* After DESTROY_PLAYER the entry of the player that has the id of this peer is erased.
LEMMA HostShutdownIndicated ==
    ASSUME SessionInv, HostInv, NEW t \in Threads, ShutdownIndicated(t)
    PROVE  HostInv'
<1> DEFINE k == Top(t).peer
<1>1. lock \in {t, Null} /\ stack[t] # <<>> /\ Top(t).pc = "shutdowncb" /\ Top(t) = TopIn(stack[t])
  BY HostTop DEF ShutdownIndicated, Resumes
<1>2. k \in PeerIds
  BY <1>1, HostTop DEF PeerPC
<1>3. IsLeaving(Top(t), state, peers, player_to_peer_id, next_player_id, next_peer_id)
  BY <1>1 DEF HostInv, Leaving, Departing
<1>4. Gone(k, peers, next_peer_id)
  BY <1>2, <1>3 DEF IsLeaving, Gone
<1>5. /\ player_to_peer_id' = [x \in Players |-> IF x = k THEN Null ELSE player_to_peer_id[x]]
      /\ Return(t) /\ UNCHANGED <<state, listening, peers, ids, told, fault>>
  BY DEF ShutdownIndicated, hist
<1> HIDE DEF k
<1>6. EntriesStay
  BY <1>4, <1>5 DEF EntriesStay, EntryStays
<1>7. Serving
  BY <1>5, <1>6 DEF Serving, Serves
<1> QED BY <1>1, <1>5, <1>7, ReturnStays

-------------------------------------------------------------------------------
(* What a host reads.                                                         *)

\* A thread has read a message.
LEMMA HostReadDone ==
    ASSUME SessionInv, HostInv, NEW t \in Threads, ReadDone(t)
    PROVE  HostInv'
<1> DEFINE p == Top(t).peer
           r == IF peers[p] = Null THEN Null ELSE [peers[p] EXCEPT !.recv_busy = FALSE]
<1>1. lock \in {t, Null} /\ stack[t] # <<>> /\ Top(t).pc = "readdone" /\ Return(t)
  BY DEF ReadDone, Runs
<1>2. p \in PeerIds
  BY <1>1, HostTop DEF PeerPC
<1>3. peers' = [peers EXCEPT ![p] = r]
  <2>1. CASE peers[p] = Null
    <3>1. peers' = peers
      BY <2>1 DEF ReadDone
    <3>2. peers = [peers EXCEPT ![p] = Null]
      BY <1>2, <2>1 DEF SessionInv, Values
    <3> QED BY <2>1, <3>1, <3>2
  <2>2. CASE peers[p] # Null
    BY <1>2, <2>2 DEF ReadDone, SessionInv, Values
  <2> QED BY <2>1, <2>2
<1>4. \/ r = Null /\ peers[p] = Null
      \/ peers[p] # Null /\ r.st = peers[p].st /\ r.player = peers[p].player /\ r # Null
  BY <1>2, SamePlayer
<1>5. UNCHANGED <<state, listening, player_to_peer_id, ids, told, fault>>
  BY DEF ReadDone, hist
<1> HIDE DEF p, r
<1>6. Serving
  BY <1>2, <1>3, <1>4, <1>5, OneServes, SameServing
<1> QED BY <1>1, <1>6, ReturnStays

\* A peer asks to connect: it is refused, or the application is asked.
LEMMA HostAsked ==
    ASSUME SessionInv, HostInv, NEW t \in Threads, HostConnectRequest(t)
    PROVE  HostInv'
<1> DEFINE p == Top(t).peer
           f == Frame("indicatecb", p)
<1>1. lock \in {t, Null} /\ stack[t] # <<>> /\ Top(t).pc = "host_connect_request"
  BY DEF HostConnectRequest, Runs
<1>2. p \in PeerIds /\ peers[p] # Null
  <2>1. p \in PeerIds /\ Top(t) = TopIn(stack[t])
    BY <1>1, HostTop DEF PeerPC
  <2>2. peers[TopIn(stack[t]).peer] # Null
    BY <1>1, <2>1 DEF SessionInv, Handling, HandlerPC
  <2> QED BY <2>1, <2>2
<1>3. UNCHANGED <<state, listening, player_to_peer_id, ids, told, fault>>
  BY DEF HostConnectRequest, hist
<1>4. CASE Return(t) /\ UNCHANGED peers
  <2>1. Serving
    BY <1>3, <1>4, SameServing DEF Serves
  <2> QED BY <1>1, <1>4, <2>1, ReturnStays
<1>5. CASE peers[p].st = "accepted" /\ Refuse(t, p)
  <2> DEFINE r == [peers[p] EXCEPT !.st = "closing"]
  <2>1. r.st = "closing" /\ r.player = peers[p].player /\ r # Null
    BY <1>2, SamePlayer DEF PeerStates
  <2>2. peers' = [peers EXCEPT ![p] = r] /\ Return(t)
    BY <1>5, <1>2 DEF Refuse, SessionInv, Values
  <2> HIDE DEF p, r
  <2>3. Serving
    BY <1>2, <1>3, <1>5, <2>1, <2>2, OneServes, SameServing
  <2> QED BY <1>1, <2>2, <2>3, ReturnStays
<1>6. CASE peers[p].st = "accepted" /\ state = "hosting" /\ peers' = [peers EXCEPT ![p].st = "indicating"] /\ Unlock(t, f)
  <2> DEFINE r == [peers[p] EXCEPT !.st = "indicating"]
  <2>1. r.st = "indicating" /\ r.player = peers[p].player /\ r # Null
    BY <1>2, SamePlayer DEF PeerStates
  <2>2. peers' = [peers EXCEPT ![p] = r]
    BY <1>6, <1>2 DEF SessionInv, Values
  <2>3. HostFrame(t, f) /\ f.pc \in Free /\ f.pc \notin Family
    BY HostFrames DEF HostPC, Family, ClosePC, Free
  <2> HIDE DEF p, r, f
  <2>4. Serving
    BY <1>2, <1>3, <1>6, <2>1, <2>2, OneServes, SameServing
  <2>5. Top(t).pc \notin Family \cup OtherCall
    BY <1>1 DEF Family, ClosePC, OtherCall
  <2>6. Follows(t, Top(t).pc, f.pc)
    BY <2>3, <2>5, InnerFollows
  <2> QED BY <1>1, <1>6, <2>3, <2>4, <2>6, GotoStays
<1> QED BY <1>4, <1>5, <1>6 DEF HostConnectRequest

\* The application rejects a peer.
LEMMA HostRejects ==
    ASSUME SessionInv, HostInv, NEW t \in Threads, IndicateRejected(t)
    PROVE  HostInv'
<1> DEFINE p == Top(t).peer
<1>1. lock \in {t, Null} /\ stack[t] # <<>> /\ Top(t).pc = "indicatecb" /\ Top(t) = TopIn(stack[t])
  BY HostTop DEF IndicateRejected, Resumes
<1>2. p \in PeerIds /\ (peers[p] # Null => peers[p].st = "indicating")
  BY <1>1, HostTop DEF PeerPC, SessionInv, Indicating
<1>3. UNCHANGED <<state, listening, player_to_peer_id, ids, told, fault>>
  BY DEF IndicateRejected, hist
<1>4. CASE peers[p] = Null
  <2>1. Return(t) /\ UNCHANGED peers
    BY <1>4 DEF IndicateRejected
  <2>2. Serving
    BY <1>3, <2>1, SameServing DEF Serves
  <2> QED BY <1>1, <2>1, <2>2, ReturnStays
<1>5. CASE peers[p] # Null
  <2> DEFINE r == [peers[p] EXCEPT !.st = "closing"]
  <2>1. r.st = "closing" /\ r.player = peers[p].player /\ r # Null
    BY <1>2, <1>5, SamePlayer DEF PeerStates
  <2>2. peers' = [peers EXCEPT ![p] = r] /\ Return(t)
    BY <1>2, <1>5 DEF IndicateRejected, Refuse, SessionInv, Values
  <2> HIDE DEF p, r
  <2>3. Serving
    BY <1>2, <1>3, <1>5, <2>1, <2>2, OneServes, SameServing
  <2> QED BY <1>1, <2>2, <2>3, ReturnStays
<1> QED BY <1>4, <1>5

\* An indication is over; a message is indicated.
LEMMA HostIndicates ==
    ASSUME SessionInv, HostInv, NEW t \in Threads, Indicated(t) \/ HandleMessage(t)
    PROVE  HostInv'
<1> DEFINE f == Frame("createcb", Top(t).peer)
<1>1. lock \in {t, Null} /\ stack[t] # <<>> /\ Top(t).pc # "close" /\ (Return(t) \/ (Top(t).pc = "message" /\ Unlock(t, f)))
  BY DEF Indicated, HandleMessage, Runs, Resumes
<1>2. Serving
  <2>1. Static
    BY DEF Indicated, HandleMessage, Static, hist
  <2> QED BY <2>1, StaticServing
<1>3. HostFrame(t, f) /\ f.pc \in Free /\ f.pc \notin Family
  BY HostFrames DEF HostPC, Family, ClosePC, Free
<1> HIDE DEF f
<1>4. ASSUME Top(t).pc = "message" PROVE Follows(t, Top(t).pc, f.pc)
  <2>1. Top(t).pc \notin Family \cup OtherCall
    BY <1>4 DEF Family, ClosePC, OtherCall
  <2> QED BY <1>3, <2>1, InnerFollows
<1> QED BY <1>1, <1>2, <1>3, <1>4, ReturnStays, GotoStays

\* A player says that it leaves: its own peer is destroyed.
LEMMA HostLeft ==
    ASSUME SessionInv, HostInv, NEW t \in Threads, HandleDestroy(t)
    PROVE  HostInv'
<1> DEFINE p == Top(t).peer
           x == Top(t).arg
           f == Frame("destroy", player_to_peer_id[x])
<1>1. lock \in {t, Null} /\ stack[t] # <<>> /\ Top(t).pc = "destroy_message"
  BY DEF HandleDestroy, Runs
<1>2. p \in PeerIds /\ peers[p] # Null /\ peers[p].st = "connected" /\ x = peers[p].player
  BY <1>1, HostTop DEF PeerPC, HasLock
<1>3. x # 0 /\ x # 1 /\ (player_to_peer_id[x] = p \/ player_to_peer_id[x] = Null)
  <2>1. p \in Joined
    BY <1>2 DEF Joined, Present
  <2> QED BY <1>2, <2>1, MemberFacts DEF Filed
<1>4. local_player_id \in {0, 1}
  BY DEF HostInv, Modes
<1>5. /\ Return(t) \/ (Goto(t, f) /\ player_to_peer_id[x] = p)
      /\ state' = state /\ UNCHANGED <<listening, table, ids, starts, hist, fault>>
  <2>1. ~(x \in {0, local_player_id})
    BY <1>3, <1>4
  <2> QED BY <1>3, <2>1 DEF HandleDestroy, Known
<1>6. Serving /\ peers' = peers
  <2>1. Static
    BY <1>5 DEF Static, hist
  <2> QED BY <2>1, StaticServing, StaticServes
<1>7. HostFrame(t, f) /\ f.pc = "destroy" /\ (player_to_peer_id[x] = p => f.peer = p) /\ f.pc \notin Family
  BY HostFrames DEF HostPC, Family, ClosePC
<1> HIDE DEF f, p, x
<1>8. CASE Goto(t, f) /\ player_to_peer_id[x] = p
  <2>1. HasLock(t, f, lock', peers', state')
    BY <1>2, <1>6, <1>7, <1>8 DEF HasLock, Goto
  <2>2. Top(t).pc \notin Family \cup OtherCall
    BY <1>1 DEF Family, ClosePC, OtherCall
  <2>3. Follows(t, Top(t).pc, f.pc)
    BY <1>7, <2>2, InnerFollows
  <2> QED BY <1>1, <1>6, <1>7, <1>8, <2>1, <2>3, GotoStays
<1>9. CASE Return(t)
  BY <1>1, <1>6, <1>9, ReturnStays
<1> QED BY <1>5, <1>8, <1>9

\* A peer that has not been refused becomes a player, with an id that is new.
LEMMA HostAccepts ==
    ASSUME SessionInv, HostInv, NEW t \in Threads, IndicateAccepted(t)
    PROVE  HostInv'
<1> DEFINE p == Top(t).peer
           x == next_player_id
           r == [peers[p] EXCEPT !.st = "connected", !.player = x]
           g == Frame("createcb", p)
<1>1. lock \in {t, Null} /\ stack[t] # <<>> /\ Top(t).pc = "indicatecb" /\ Top(t) = TopIn(stack[t])
  BY HostTop DEF IndicateAccepted, Resumes
<1>2. p \in PeerIds /\ peers[p] # Null /\ peers[p].st = "indicating" /\ p < next_peer_id
  BY <1>1, HostTop DEF PeerPC, SessionInv, Indicating, IndicateAccepted
<1>3. /\ x \in Players /\ next_player_id' = x + 1
      /\ player_to_peer_id' = [player_to_peer_id EXCEPT ![x] = p]
      /\ peers' = [peers EXCEPT ![p].st = "connected", ![p].player = x]
      /\ told' = Create(x) /\ Unlock(t, g)
      /\ UNCHANGED <<state, listening, next_peer_id, host_player_id, local_player_id, fault>>
  BY DEF IndicateAccepted
<1>4. /\ Modes /\ Before /\ Entries /\ Members /\ Leaving /\ Telling /\ Values /\ Stacks /\ HostStacks
      /\ Quiet /\ OneCloses
  BY DEF HostInv, SessionInv
<1>5. peers[p] \in PeerRecs
  BY <1>2, <1>4 DEF Values
<1>6. r \in PeerRecs /\ r.st = "connected" /\ r.player = x /\ r # Null
  <2>1. r \in PeerRecs /\ r.st = "connected" /\ r.player = x
    BY <1>3, <1>5 DEF PeerRecs, PeerStates
  <2> QED BY <2>1, SessionAssumption
<1>7. peers' = [peers EXCEPT ![p] = r]
  BY <1>2, <1>3, <1>4 DEF Values
<1>8. /\ peers'[p] = r /\ \A q \in PeerIds \ {p} : peers'[q] = peers[q]
      /\ player_to_peer_id'[x] = p /\ \A y \in Players \ {x} : player_to_peer_id'[y] = player_to_peer_id[y]
  BY <1>2, <1>3, <1>4, <1>7 DEF Values
<1>9. HostFrame(t, g) /\ g.pc \in Free /\ g.pc \notin Family
  BY HostFrames DEF HostPC, Family, ClosePC, Free
<1>10. x \in Nat /\ x >= 2 /\ state \in {"hosting", "closing"}
  BY <1>2, <1>4 DEF Values, Modes, Before, Present
<1> HIDE DEF p, r, g
<1>11. HostMoved(t, g)
  <2>1. Top(t).pc \notin Family \cup OtherCall
    BY <1>1 DEF Family, ClosePC, OtherCall
  <2>2. Follows(t, Top(t).pc, g.pc)
    BY <1>9, <2>1, InnerFollows
  <2> QED BY <1>1, <1>3, <1>4, <1>9, <2>2, HostGoto DEF Unlock
<1>12. \A y : y \in 2..x - 1 => y \in 2..x /\ y # x /\ x \in 2..x
  BY <1>10
<1>13. x \notin 2..x - 1 /\ x # 1 /\ x \in 2..x /\ 2..(x + 1) - 1 = 2..x
  BY <1>10
<1>14. Joined' = Joined \cup {p} /\ p \notin Joined
  BY <1>2, <1>6, <1>8 DEF Joined, Present
<1>15. \A q \in Joined : peers[q].player \in 2..x - 1 /\ peers[q].player \in Players
  BY MemberFacts
<1>25. Closes
  <2>1. next_peer_id \in Nat /\ next_peer_id' = next_peer_id
    BY <1>3, <1>4 DEF Values
  <2>2. \A q \in PeerIds : StaysGone(q)
    BY <1>2, <1>8 DEF StaysGone
  <2> QED BY <2>1, <2>2 DEF Closes
<1>26. \A y \in Players \ {x} : \A q : StaysFiled(y, q)
  BY <1>8, <1>25, FiledStays DEF EntryStays
<1>16. PlayersIn(peers') = PlayersIn(peers) \cup {x}
  BY <1>2, <1>6, <1>8 DEF PlayersIn
<1>17. x \notin PlayersIn(peers)
  BY <1>13, <1>15 DEF PlayersIn, Joined, Present
<1>24. Entries'
  <2> SUFFICES ASSUME NEW y \in Players, player_to_peer_id'[y] # Null
               PROVE  player_to_peer_id'[y] < next_peer_id /\ WasPlayer(peers', player_to_peer_id'[y])
    BY <1>3 DEF Entries, WasPlayer
  <2>1. CASE y = x
    BY <1>2, <1>6, <1>8, <2>1 DEF WasPlayer
  <2>2. CASE y # x
    <3> DEFINE q == player_to_peer_id[y]
    <3>1. player_to_peer_id'[y] = q /\ q # Null
      BY <1>8, <2>2
    <3>2. q \in PeerIds /\ q < next_peer_id /\ WasPlayer(peers, q)
      BY <1>4, <3>1 DEF Entries, Values
    <3> HIDE DEF q
    <3>3. WasPlayer(peers', q)
      BY <1>6, <1>8, <3>2 DEF WasPlayer
    <3> QED BY <3>1, <3>2, <3>3
  <2> QED BY <2>1, <2>2
<1>18. HostStacks' /\ OneCloses' /\ Asked' /\ HaveLock' /\ Quiet' /\ Emptied'
  <2>1. HasLock(t, g, lock', peers', state') /\ g.pc \notin {"closeself", "closepool"} /\ g.pc # "shutdown"
    BY <1>9, FreeStays
  <2>2. Quiet' /\ OneCloses'
    BY <1>1, <1>3, <1>4, <1>11, QuietKeeps DEF HostMoved
  <2>3. \A q \in PeerIds : peers'[q] # Null => peers[q] # Null \/ listening
    BY <1>2, <1>8
  <2> QED BY <1>1, <1>11, <2>1, <2>2, <2>3, TopsKeep DEF HostMoved
<1>19. Modes'
  <2>1. \A q \in PeerIds : peers'[q] # Null => peers'[q].st \in {"accepted", "indicating", "connected", "closing"}
    <3>1. \A q \in PeerIds : peers[q] # Null => peers[q].st \in {"accepted", "indicating", "connected", "closing"}
      BY <1>4 DEF Modes, Present
    <3> QED BY <3>1, <1>6, <1>8
  <2>2. next_player_id' >= 2
    BY <1>3, <1>10
  <2> QED BY <1>3, <1>4, <2>1, <2>2 DEF Modes, Present
<1>20. Before'
  BY <1>3, <1>10 DEF Before
<1>21. Members'
  <2>1. Filed(x, p, peers', player_to_peer_id', next_peer_id')
    BY <1>8 DEF Filed
  <2>2. ASSUME NEW q \in Joined', q # p
        PROVE  /\ q \in Joined /\ peers'[q] = peers[q] /\ peers'[q].player # x /\ peers'[q].player \in 2..x
               /\ Filed(peers'[q].player, q, peers', player_to_peer_id', next_peer_id')
    <3>1. q \in Joined /\ peers'[q] = peers[q]
      BY <1>8, <1>14, <2>2 DEF Joined, Present
    <3>2. PICK y : y = peers[q].player
      OBVIOUS
    <3>3. y \in 2..x - 1 /\ y \in Players /\ Filed(y, q, peers, player_to_peer_id, next_peer_id)
      BY <1>4, <1>15, <3>1, <3>2 DEF Members
    <3>4. y # x /\ y \in 2..x
      BY <1>12, <3>3
    <3>5. Filed(y, q, peers', player_to_peer_id', next_peer_id')
      BY <1>26, <3>3, <3>4 DEF StaysFiled
    <3> QED BY <3>1, <3>2, <3>4, <3>5
  <2>3. peers'[p].player = x /\ next_player_id' - 1 = x
    BY <1>3, <1>6, <1>8, <1>10
  <2>4. \A q \in Joined' : /\ peers'[q].player \in 2..next_player_id' - 1
                           /\ Filed(peers'[q].player, q, peers', player_to_peer_id', next_peer_id')
    BY <1>13, <2>1, <2>2, <2>3
  <2>5. ASSUME NEW q \in Joined', NEW o \in Joined', peers'[q].player = peers'[o].player PROVE q = o
    <3>1. CASE q # p /\ o # p
      BY <1>4, <2>2, <2>5, <3>1 DEF Members
    <3>2. CASE q = p \/ o = p
      BY <2>2, <2>3, <2>5, <3>2
    <3> QED BY <3>1, <3>2
  <2> QED BY <2>4, <2>5 DEF Members
<1>22. Telling'
  <2>1. told[x] # "present"
    BY <1>3, <1>4, <1>13, <1>17 DEF Telling
  <2>2. told'[x] = "present" /\ \A y \in Players \ {x} : told'[y] = told[y]
    BY <1>3, <1>4, <2>1 DEF Create, Values
  <2> QED BY <1>3, <1>4, <1>16, <2>2 DEF Telling
<1>23. Leaving'
  <2>1. TopIn(stack'[t]) = g /\ Elsewhere(t) /\ g.pc \notin Departing
    BY <1>9, <1>11 DEF HostMoved, Free, Departing
  <2>2. \A y \in 2..next_player_id - 1 : y \in 2..next_player_id' - 1 /\ (y \in PlayersIn(peers') => y \in PlayersIn(peers))
    BY <1>3, <1>12, <1>13, <1>16
  <2>3. \A y \in Players : y \in 2..x - 1 => \A q : StaysFiled(y, q)
    BY <1>13, <1>26
  <2>4. state \in {"hosting", "closing"} => state' \in {"hosting", "closing"}
    BY <1>3
  <2> QED BY <1>25, <2>1, <2>2, <2>3, <2>4, LeavingStays
<1> QED BY <1>18, <1>19, <1>20, <1>21, <1>22, <1>23, <1>24 DEF HostInv

-------------------------------------------------------------------------------
(* Close() of a host.                                                         *)

\* The frame of Close() goes on at another place.
LEMMA HostCloseFrame ==
    ASSUME NEW t, NEW f \in FrameSet, HostFrame(t, f), f.pc \in ClosePC, NEW pc \in ClosePC
    PROVE  LET g == [f EXCEPT !.pc = pc] IN HostFrame(t, g) /\ g.pc = pc /\ g.arg = f.arg
<1> DEFINE g == [f EXCEPT !.pc = pc]
<1>1. g.pc = pc /\ g.arg = f.arg
  BY DEF FrameSet
<1> HIDE DEF g
<1>2. HostFrame(t, g)
  BY <1>1 DEF HostFrame, HostPC, Family
<1> QED BY <1>1, <1>2 DEF g

\* A host that closes first indicates its own departure.
LEMMA HostCloseBegins ==
    ASSUME SessionInv, HostInv, NEW t \in Threads, CloseBegins(t)
    PROVE  HostInv'
<1> DEFINE pc == IF Top(t).arg.was = "hosting" THEN "closeselfcb" ELSE "closepeers"
           g == [Top(t) EXCEPT !.pc = pc]
<1>1. lock \in {t, Null} /\ stack[t] # <<>> /\ Top(t).pc = "close" /\ Top(t) = TopIn(stack[t]) /\ Top(t) \in FrameSet
  BY HostTop, TopFacts DEF CloseBegins, Runs, SessionInv
<1>2. HostFrame(t, Top(t)) /\ Top(t).arg.was = state /\ InClose(stack[t])
  BY <1>1, HostTop DEF HasLock, Family, ClosePC
<1>3. HostFrame(t, g) /\ g.pc = pc
  <2>1. pc \in ClosePC /\ Top(t).pc \in ClosePC
    BY <1>1 DEF ClosePC
  <2> HIDE DEF pc
  <2> QED BY <1>1, <1>2, <2>1, HostCloseFrame
<1>4. /\ state' = "closing" /\ Stack(t, <<g>> \o Below(t))
      /\ told' = IF state = "hosting" THEN Destroy(local_player_id) ELSE told
      /\ UNCHANGED <<listening, table, ids, fault>>
  BY <1>2 DEF CloseBegins, Unlock, Goto
<1>5. g.pc \in {"closeselfcb", "closepeers"}
  BY <1>3
<1> HIDE DEF g, pc
<1>6. HostMoved(t, g)
  <2>1. Follows(t, Top(t).pc, g.pc)
    BY <1>1, <1>5 DEF Follows, Outermost, Family, ClosePC, OtherCall
  <2> QED BY <1>1, <1>2, <1>3, <1>4, <2>1, HostGoto DEF SessionInv, HostInv
<1>7. /\ Modes /\ Before /\ Entries /\ Members /\ Leaving /\ Telling /\ Quiet /\ OneCloses /\ Values
      /\ UNCHANGED <<peers, player_to_peer_id, next_peer_id, next_player_id, host_player_id, local_player_id>>
  BY <1>4 DEF HostInv, SessionInv, ids, table
<1>8. HostStacks' /\ OneCloses' /\ Asked' /\ HaveLock' /\ Quiet' /\ Emptied'
  <2>1. HasLock(t, g, lock', peers', state') /\ g.pc \notin {"closeself", "closepool"} /\ g.pc # "shutdown"
    BY <1>5 DEF HasLock
  <2>2. Quiet' /\ OneCloses'
    <3>1. \A u \in Threads : InClose(stack'[u]) => InClose(stack[u])
      BY <1>6 DEF HostMoved, Elsewhere, InClose
    <3> QED BY <1>4, <1>7, <3>1 DEF Quiet, OneCloses
  <2>3. \A q \in PeerIds : peers'[q] # Null => peers[q] # Null \/ listening
    BY <1>7
  <2> QED BY <1>1, <1>6, <2>1, <2>2, <2>3, TopsKeep DEF HostMoved
<1>9. Modes' /\ Before' /\ Members' /\ Entries'
  BY <1>4, <1>7 DEF Modes, Before, Members, Joined, Present, Entries, WasPlayer
<1>10. Leaving'
  <2>1. TopIn(stack'[t]) = g /\ Elsewhere(t) /\ g.pc \notin Departing
    BY <1>5, <1>6 DEF HostMoved, Departing
  <2>2. Closes
    <3>1. next_peer_id \in Nat /\ next_peer_id' = next_peer_id
      BY <1>7 DEF Values
    <3> QED BY <1>7, <3>1 DEF Closes, StaysGone
  <2>3. \A x : \A q : StaysFiled(x, q)
    BY <1>7, <2>2, FiledStays DEF EntryStays
  <2>4. \A x \in 2..next_player_id - 1 : x \in 2..next_player_id' - 1 /\ (x \in PlayersIn(peers') => x \in PlayersIn(peers))
    BY <1>7
  <2> QED BY <1>4, <2>1, <2>2, <2>3, <2>4, LeavingStays
<1>11. Telling'
  <2>1. 1 \in Players /\ 1 \notin PlayersIn(peers)
    <3>1. \A q \in Joined : peers[q].player # 1
      BY MemberFacts
    <3> QED BY <3>1, IdFacts DEF PlayersIn, Joined, Present
  <2>2. CASE state = "hosting"
    <3>1. local_player_id = 1 /\ told[1] = "present"
      BY <1>7, <2>1, <2>2 DEF Modes, Telling
    <3>2. told'[1] = "gone" /\ \A y \in Players \ {1} : told'[y] = told[y]
      BY <1>4, <1>7, <2>1, <2>2, <3>1 DEF Destroy, Values
    <3> QED BY <1>4, <1>7, <2>1, <3>2 DEF Telling
  <2>3. CASE state # "hosting"
    BY <1>4, <1>7, <2>3 DEF Telling
  <2> QED BY <2>2, <2>3
<1> QED BY <1>8, <1>9, <1>10, <1>11 DEF HostInv

\* Close() turns to the peers, and waits for them.
LEMMA HostClosePeers ==
    ASSUME SessionInv, HostInv, NEW t \in Threads, ClosePeers(t)
    PROVE  HostInv'
<1> DEFINE f == Frame(IF Top(t).arg.now THEN "destroyall" ELSE "shutdownall", Null)
           b == [Top(t) EXCEPT !.pc = "closewaits"]
<1>1. /\ lock \in {t, Null} /\ stack[t] # <<>> /\ Top(t).pc \in {"closepeers", "closeselfcb"} /\ Top(t).pc # "close"
      /\ Top(t) \in FrameSet
  BY TopFacts DEF ClosePeers, Runs, Resumes, SessionInv
<1>2. HostFrame(t, Top(t)) /\ InClose(stack[t]) /\ Top(t).pc \in ClosePC
  BY <1>1, HostTop DEF Family, ClosePC
<1>3. HostFrame(t, b) /\ b.pc = "closewaits" /\ b.pc \in HostBelow
  <2>1. "closewaits" \in ClosePC
    BY DEF ClosePC
  <2>2. HostFrame(t, b) /\ b.pc = "closewaits"
    BY <1>1, <1>2, <2>1, HostCloseFrame
  <2> HIDE DEF b
  <2> QED BY <2>2 DEF HostBelow
<1>7. Follows(t, Top(t).pc, b.pc)
  BY <1>1, <1>3 DEF Follows, Outermost, Family, ClosePC, OtherCall
<1>4. HostFrame(t, f) /\ f.pc \in Free /\ f.pc \notin Family
  <2>1. \A pc \in {"destroyall", "shutdownall"} : pc \in HostPC \ Family /\ pc \in Free
    BY DEF HostPC, Family, ClosePC, Free
  <2>2. \A pc \in {"destroyall", "shutdownall"} : HostFrame(t, Frame(pc, Null)) /\ Frame(pc, Null).pc = pc
    BY <2>1, HostFrames
  <2> QED BY <2>1, <2>2
<1>5. Call(t, f, b)
  BY DEF ClosePeers
<1>6. Serving
  <2>1. Static
    BY DEF ClosePeers, Static, hist
  <2> QED BY <2>1, StaticServing
<1> HIDE DEF f, b
<1> QED BY <1>1, <1>2, <1>3, <1>4, <1>5, <1>6, <1>7, CallStays

\* Close() waits until the table is empty.
LEMMA HostCloseWaits ==
    ASSUME SessionInv, HostInv, NEW t \in Threads, CloseWaits(t)
    PROVE  HostInv'
<1> DEFINE q == IF Top(t).pc = "closewaits" THEN stack[t] ELSE Below(t)
           g == [Head(q) EXCEPT !.pc = "closeself"]
           w == Frame("closewait", Null)
<1>0. lock \in {t, Null} /\ stack[t] # <<>> /\ Top(t).pc \in {"closewaits", "closewait"} /\ Top(t) = TopIn(stack[t])
  BY HostTop DEF CloseWaits, Runs, Resumes
<1>1. /\ stack[t] \in Seq(FrameSet) /\ Waiting /\ Stacks /\ HostStacks /\ HostStack(t, stack[t])
      /\ InClose(stack[t]) /\ t \in Callers
  BY <1>0, HostTop DEF SessionInv, Stacks, HostInv, HostStacks, Family, ClosePC
<1>2. q \in Seq(FrameSet) /\ q # <<>> /\ TopIn(q).pc = "closewaits" /\ HostStack(t, q)
  <2>1. CASE Top(t).pc = "closewaits"
    BY <1>0, <1>1, <2>1
  <2>2. CASE Top(t).pc = "closewait"
    <3>1. q = Tail(stack[t])
      BY <2>2 DEF Below
    <3>2. CallerIn(stack[t]) = "closewaits"
      BY <1>0, <1>1, <2>2 DEF Waiting
    <3>3. HostStack(t, q)
      BY <1>0, <1>1, <2>2, HostBelowHolds
    <3> HIDE DEF q
    <3>4. /\ q \in Seq(FrameSet) /\ (q = <<>> => CallerIn(stack[t]) = "idle")
          /\ q # <<>> => TopIn(q).pc = CallerIn(stack[t])
      BY <1>0, <1>1, <3>1, Popped
    <3> QED BY <3>2, <3>3, <3>4
  <2> QED BY <1>0, <2>1, <2>2
<1>3. /\ \/ lock' = t /\ Stack(t, <<g>> \o Tail(q)) /\ Present = {}
         \/ lock' = Null /\ Stack(t, <<w>> \o q)
      /\ UNCHANGED <<state, listening, table, ids, starts, hist, fault>>
  BY DEF CloseWaits
<1> HIDE DEF q
<1>4. TopIn(q) \in FramesOf(q) /\ TopIn(q) \in FrameSet /\ TopIn(q) = Head(q)
      /\ FramesOf(q) = {TopIn(q)} \cup DeepFrames(q) /\ PCsOf(q) = {TopIn(q).pc} \cup DeepOf(q)
  BY <1>2, FramesSplit, AllPlaces
<1>5. HostFrame(t, g) /\ g.pc = "closeself"
  <2>1. Head(q) \in FrameSet /\ HostFrame(t, Head(q)) /\ Head(q).pc = "closewaits"
    BY <1>2, <1>4 DEF HostStack
  <2>2. "closewaits" \in ClosePC /\ "closeself" \in ClosePC
    BY DEF ClosePC
  <2> QED BY <2>1, <2>2, HostCloseFrame
<1>6. HostFrame(t, w) /\ w.pc = "closewait"
  BY <1>1 DEF HostFrame, HostPC, Frame, ClosePC
<1>7. Static
  BY <1>3 DEF Static, hist
<1>8. /\ \A p \in PeerIds : Serves(p)
      /\ next_peer_id <= next_peer_id' /\ next_peer_id' \in Nat
      /\ EntriesStay /\ UNCHANGED <<state, listening, next_player_id, host_player_id, local_player_id, told, fault>>
      /\ Present' = Present
  BY <1>7, StaticServes
<1> HIDE DEF g, w
<1>9. CASE lock' = t /\ Stack(t, <<g>> \o Tail(q)) /\ Present = {}
  <2> DEFINE S == FrameSet \cup {g}
             s == <<g>> \o Tail(q)
  <2>1. q \in Seq(S)
    <3>1. FrameSet \subseteq S
      OBVIOUS
    <3> HIDE DEF S
    <3> QED BY <1>2, <3>1, SeqGrows
  <2>2. g \in S
    OBVIOUS
  <2> HIDE DEF S
  <2>3. s \in Seq(S) /\ s # <<>> /\ TopIn(s) = g /\ DeepOf(s) = DeepOf(q) /\ DeepFrames(s) = DeepFrames(q)
    BY <1>2, <2>1, <2>2, Replaced
  <2>4. Stack(t, s)
    BY <1>9
  <2>10. Based(s)
    <3>1. Based(Tail(q)) /\ Tail(q) = <<>> /\ Tail(q) \in Seq(S)
      <4>1. Based(q) /\ TopIn(q).pc \in Outermost
        BY <1>2 DEF HostStack, Outermost, Family, ClosePC
      <4> QED BY <1>2, <2>1, <4>1, BasedFacts, Popped
    <3> QED BY <2>2, <3>1, ConsBased
  <2> HIDE DEF s
  <2>5. FramesOf(s) = {g} \cup DeepFrames(s) /\ g.pc \in PCsOf(s)
    BY <2>3, FramesSplit
  <2>6. HostStack(t, s)
    <3>1. OfCaller(s)
      BY <1>5, <2>5 DEF OfCaller, InClose, Family, ClosePC
    <3> QED BY <1>2, <1>4, <1>5, <2>3, <2>5, <2>10, <3>1 DEF HostStack
  <2>7. HostStacks' /\ Elsewhere(t) /\ stack'[t] = s
    BY <1>1, <2>4, <2>6, HostReplaced
  <2>8. HostMoved(t, g)
    BY <1>1, <2>3, <2>7 DEF HostMoved
  <2>9. Stays(t, g)
    <3>1. HasLock(t, g, lock', peers', state')
      BY <1>5 DEF HasLock
    <3> QED BY <1>0, <1>5, <1>8, <1>9, <3>1 DEF Stays, Departing
  <2> QED BY <2>8, <2>9, StaysKeeps
<1>10. CASE lock' = Null /\ Stack(t, <<w>> \o q)
  <2> DEFINE S == FrameSet \cup {w}
             s == <<w>> \o q
  <2>1. q \in Seq(S)
    <3>1. FrameSet \subseteq S
      OBVIOUS
    <3> HIDE DEF S
    <3> QED BY <1>2, <3>1, SeqGrows
  <2>2. w \in S
    OBVIOUS
  <2> HIDE DEF S
  <2>3. /\ s # <<>> /\ TopIn(s) = w /\ DeepOf(s) = PCsOf(q) /\ FramesOf(s) = {w} \cup FramesOf(q)
        /\ PCsOf(s) = {w.pc} \cup PCsOf(q)
    BY <2>1, <2>2, Pushed
  <2>4. Stack(t, s)
    BY <1>10
  <2>9. Based(s)
    <3>1. Based(q) /\ w.pc \notin Outermost
      BY <1>2, <1>6 DEF HostStack, Outermost
    <3> QED BY <2>1, <2>2, <3>1, ConsBased
  <2> HIDE DEF s
  <2>5. HostStack(t, s)
    <3>1. "closewaits" \in HostBelow
      BY DEF HostBelow
    <3>2. OfCaller(s)
      BY <1>6, <2>3 DEF OfCaller, InClose, Family
    <3> QED BY <1>2, <1>4, <1>6, <2>3, <2>9, <3>1, <3>2 DEF HostStack
  <2>6. HostStacks' /\ Elsewhere(t) /\ stack'[t] = s
    BY <1>1, <2>4, <2>5, HostReplaced
  <2>7. HostMoved(t, w)
    BY <1>1, <2>3, <2>6 DEF HostMoved
  <2>8. Stays(t, w)
    <3>1. w.pc \in Free
      BY <1>6 DEF Free, HostPC, ClosePC
    <3> QED BY <1>0, <1>8, <1>10, <3>1, FreeStays DEF Stays
  <2> QED BY <2>7, <2>8, StaysKeeps
<1> QED BY <1>3, <1>9, <1>10

\* A host has indicated its departure before.
LEMMA HostCloseSelf ==
    ASSUME SessionInv, HostInv, NEW t \in Threads, CloseSelf(t)
    PROVE  HostInv'
<1> DEFINE f == Frame("closepool", Null)
<1>1. lock \in {t, Null} /\ stack[t] # <<>> /\ Top(t).pc = "closeself" /\ Top(t).pc # "close" /\ Top(t) = TopIn(stack[t])
  BY HostTop DEF CloseSelf, Runs
<1>2. HostFrame(t, Top(t)) /\ InClose(stack[t]) /\ t \in Callers
  BY <1>1, HostTop DEF Family, ClosePC
<1>3. told' = told /\ Unlock(t, f)
  BY <1>1, <1>2 DEF CloseSelf, HostFrame, ClosePC
<1>4. Static
  BY <1>3 DEF CloseSelf, Static
<1>5. Serving /\ Present' = Present
  BY <1>4, StaticServing, StaticServes
<1>6. HostFrame(t, f) /\ f.pc = "closepool"
  BY <1>2 DEF HostFrame, HostPC, Frame, ClosePC
<1>7. Present' = {} /\ HasLock(t, f, lock', peers', state')
  BY <1>1, <1>5, <1>6 DEF HostInv, Emptied, HasLock
<1> HIDE DEF f
<1>8. Follows(t, Top(t).pc, f.pc)
  BY <1>1, <1>6 DEF Follows, Outermost, Family, ClosePC, OtherCall
<1> QED BY <1>1, <1>2, <1>3, <1>5, <1>6, <1>7, <1>8, GotoStays

\* Close() returns when every worker is gone.  Another thread of the application can
\* only be on its way out of a call.
LEMMA HostCloseReturns ==
    ASSUME SessionInv, HostInv, NEW t \in Threads, CloseReturns(t)
    PROVE  HostInv'
<1> DEFINE g == Frame("idle", Null)
<1>1. lock = Null /\ stack[t] # <<>> /\ Top(t).pc = "closepool" /\ Top(t) = TopIn(stack[t])
  BY HostTop DEF CloseReturns, Resumes
<1>2. InClose(stack[t]) /\ t \in Callers /\ Top(t).pc \in Outermost
  BY <1>1, HostTop DEF Family, ClosePC, Outermost
<1>3. /\ Modes /\ Before /\ Entries /\ Members /\ Leaving /\ Telling /\ Quiet /\ OneCloses /\ Emptied /\ state' = "new"
      /\ UNCHANGED <<peers, player_to_peer_id, next_peer_id, next_player_id, host_player_id, local_player_id, listening,
                     told, fault>>
  BY DEF HostInv, CloseReturns, ids, table, hist
<1>4. HostMoved(t, g) /\ ~InClose(stack'[t])
  <2>1. Stacks /\ Waiting /\ HostStacks
    BY DEF SessionInv, HostInv
  <2>2. Stack(t, Below(t))
    BY DEF CloseReturns, Return
  <2>3. stack'[t] = <<>> /\ \E h : Plainly(h) /\ HostMoved(t, h)
    BY <1>1, <1>2, <2>1, <2>2, HostReturn
  <2>4. TopIn(stack'[t]) = g /\ PCsOf(stack'[t]) = {}
    BY <2>3 DEF TopIn, PCsOf
  <2> QED BY <2>3, <2>4 DEF HostMoved, InClose
<1>5. Present = {} /\ ~listening /\ state = "closing"
  BY <1>1, <1>2, <1>3 DEF Emptied, Quiet, OneCloses
<1>6. \A u \in Threads : ~InClose(stack'[u]) /\ TopIn(stack'[u]).pc \in OtherCall \cup {"idle"}
  <2> SUFFICES ASSUME NEW u \in Threads, u # t
               PROVE  ~InClose(stack'[u]) /\ TopIn(stack'[u]).pc \in OtherCall \cup {"idle"}
    BY <1>4 DEF HostMoved, Frame
  <2>1. ~InClose(stack[u])
    BY <1>2, <1>3 DEF OneCloses
  <2>2. TopIn(stack'[u]).pc = TopIn(stack[u]).pc /\ PCsOf(stack'[u]) = PCsOf(stack[u])
    BY <1>4, ElsewhereFacts DEF HostMoved
  <2>3. CASE stack[u] = <<>>
    BY <2>1, <2>2, <2>3 DEF InClose, TopIn, Frame
  <2>4. CASE stack[u] # <<>>
    <3>1. u \in Callers
      BY <2>4 DEF CloseReturns, Threads
    <3>2. TopIn(stack[u]).pc \in OtherCall
      BY <2>1, <2>4, <3>1 DEF HostInv, HostStacks, HostStack, OfCaller
    <3> QED BY <2>1, <2>2, <3>2 DEF InClose
  <2> QED BY <2>3, <2>4
<1>7. Present' = {} /\ Joined' = {} /\ PlayersIn(peers) = {}
  BY <1>3, <1>5 DEF Present, Joined, PlayersIn
<1>8. HostStacks' /\ OneCloses' /\ Asked' /\ HaveLock' /\ Quiet' /\ Emptied'
  <2>1. HasLock(t, g, lock', peers', state') /\ g.pc \notin {"closeself", "closepool", "shutdown"}
    BY DEF HasLock, Frame
  <2>2. Quiet' /\ OneCloses'
    BY <1>3, <1>6 DEF Quiet, OneCloses
  <2>3. \A q \in PeerIds : peers'[q] # Null => peers[q] # Null \/ listening
    BY <1>3
  <2> HIDE DEF g
  <2> QED BY <1>1, <1>4, <2>1, <2>2, <2>3, TopsKeep DEF HostMoved
<1>9. Modes' /\ Before' /\ Members' /\ Leaving' /\ Entries'
  <2>1. \A u \in Threads : TopIn(stack'[u]).pc # "destroycb"
    BY <1>6 DEF OtherCall
  <2>2. TopIn(stack'[t]).pc \notin Departing /\ Elsewhere(t)
    BY <1>4 DEF HostMoved, Frame, Departing
  <2>3. Leaving'
    BY <1>3, <1>5, <2>1, <2>2, LeavingNobody
  <2> QED BY <1>3, <1>7, <2>1, <2>3 DEF Modes, Before, Members, Entries, WasPlayer
<1>10. Telling'
  BY <1>3, <1>5 DEF Telling
<1> QED BY <1>8, <1>9, <1>10 DEF HostInv

-------------------------------------------------------------------------------
(* Socket events of a host.                                                   *)

\* A connection is accepted.
LEMMA HostAccept ==
    ASSUME SessionInv, HostInv, NEW t \in Threads, Accept(t)
    PROVE  HostInv'
<1> DEFINE g == Frame("idle", Null)
           n == NewPeer("accepted", Null)
<1>1. /\ lock = Null /\ stack[t] = <<>> /\ lock' = lock /\ stack' = stack
      /\ listening /\ next_peer_id \in PeerIds /\ peers' = [peers EXCEPT ![next_peer_id] = n]
      /\ next_peer_id' = next_peer_id + 1
      /\ EntriesStay /\ UNCHANGED <<state, listening, next_player_id, host_player_id, local_player_id, told, fault>>
  BY DEF Accept, run, hist, EntriesStay, EntryStays
<1>2. n # Null /\ n.st = "accepted"
  <2>1. n \in PeerRecs
    BY DEF NewPeer, PeerRecs, PeerStates
  <2> QED BY <2>1, SessionAssumption DEF NewPeer
<1>3. peers[next_peer_id] = Null
  <2>1. next_peer_id \in Nat
    BY DEF SessionInv, Values
  <2>2. next_peer_id \in Present => next_peer_id < next_peer_id
    BY DEF SessionInv, Fresh
  <2> QED BY <1>1, <2>1, <2>2 DEF Present
<1> HIDE DEF n
<1>4. peers'[next_peer_id] = n /\ \A q \in PeerIds \ {next_peer_id} : peers'[q] = peers[q]
  BY <1>1 DEF SessionInv, Values
<1>5. next_peer_id <= next_peer_id /\ next_peer_id <= next_peer_id' /\ next_peer_id' \in Nat
  BY <1>1 DEF SessionInv, Values
<1>6. \A q \in PeerIds : Serves(q)
  BY <1>1, <1>2, <1>3, <1>4, <1>5 DEF Serves
<1>7. HostMoved(t, g)
  BY <1>1 DEF HostMoved, HostInv, HostStacks, Elsewhere, TopIn
<1>8. Stays(t, g)
  <2>1. g.pc \in Free \cup {"idle"}
    BY DEF Frame
  <2>2. TopIn(stack[t]).pc # "close"
    BY <1>1 DEF TopIn, Frame
  <2> HIDE DEF g
  <2> QED BY <1>1, <1>5, <1>6, <2>1, <2>2, FreeStays DEF Stays
<1> QED BY <1>7, <1>8, StaysKeeps

\* A host makes no connections.
LEMMA HostNotConnecting ==
    ASSUME SessionInv, HostInv, NEW p \in Present
    PROVE  peers[p].st \in {"accepted", "indicating", "connected", "closing"}
BY DEF HostInv, Modes

\* A host's thread reads from p.
LEMMA HostReads ==
    ASSUME SessionInv, HostInv, NEW t \in Threads, NEW p \in PeerIds, NEW s, Reads(t, p, s)
    PROVE  Serving /\ peers'[p] # Null /\ peers'[p].st = peers[p].st /\ peers'[p].player = peers[p].player
<1> DEFINE r == [peers[p] EXCEPT !.recv_busy = TRUE]
<1>1. peers[p] # Null
  BY DEF Reads, Present
<1>2. r.st = peers[p].st /\ r.player = peers[p].player /\ r # Null
  BY <1>1, SamePlayer
<1>3. peers' = [peers EXCEPT ![p] = r]
  BY DEF Reads, SessionInv, Values
<1>4. UNCHANGED <<state, listening, player_to_peer_id, ids, told, fault>>
  BY DEF Reads, hist
<1>5. peers'[p] = r
  BY <1>3 DEF SessionInv, Values
<1> HIDE DEF r
<1>6. \A q \in PeerIds : Serves(q)
  BY <1>1, <1>2, <1>3, OneServes
<1> QED BY <1>2, <1>4, <1>5, <1>6, SameServing

\* A connection has ended or is broken.
LEMMA HostEnds ==
    ASSUME SessionInv, HostInv, NEW t \in Threads \ Callers, NEW p \in PeerIds, SendFails(t, p) \/ ReadsEnd(t, p)
    PROVE  HostInv'
<1> DEFINE f == Frame("destroy", p)
<1>1. HostFrame(t, f) /\ f.pc = "destroy" /\ f.peer = p /\ f.pc \notin Family
  BY HostFrames DEF HostPC, Family, ClosePC
<1>2. Begin(t, <<f>>)
  BY DEF SendFails, ReadsEnd, Reads
<1>3. Serving /\ peers'[p] # Null
  <2>1. CASE SendFails(t, p)
    <3>1. Static /\ peers[p] # Null
      BY <2>1 DEF SendFails, Static, hist, Present
    <3> QED BY <3>1, StaticServing, StaticServes
  <2>2. CASE ReadsEnd(t, p)
    BY <2>2, HostReads DEF ReadsEnd
  <2> QED BY <2>1, <2>2
<1> HIDE DEF f
<1>4. lock = Null /\ stack[t] = <<>> /\ lock' = t
  BY <1>2 DEF Begin
<1>5. HasLock(t, f, lock', peers', state') /\ f.pc \notin Departing
  BY <1>1, <1>3, <1>4 DEF HasLock, Departing
<1> QED BY <1>1, <1>2, <1>3, <1>4, <1>5, BeginStays

\* A message that a host handles begins its handler.
LEMMA HostReadsMessage ==
    ASSUME SessionInv, HostInv, NEW t \in Threads \ Callers, NEW p \in PeerIds, NEW h, NEW x, ReadsMessage(t, p, h, x),
           \/ h \in {"host_connect_request", "message"}
           \/ h = "destroy_message" /\ peers[p].st = "connected" /\ x = peers[p].player
    PROVE  HostInv'
<1> DEFINE f == With(Frame(h, p), x)
           b == Frame("readdone", p)
<1>1. Begin(t, <<f, b>>) /\ Reads(t, p, <<f, b>>)
  BY DEF ReadsMessage, Reads
<1>2. Serving /\ peers'[p] # Null /\ peers'[p].st = peers[p].st /\ peers'[p].player = peers[p].player
  BY <1>1, HostReads
<1>3. lock = Null /\ stack[t] = <<>> /\ lock' = t
  BY <1>1 DEF Begin
<1>4. f.pc = h /\ f.peer = p /\ f.arg = x
  BY DEF With, Frame
<1>5. HostFrame(t, b) /\ b.pc \in HostBelow \ Family
  BY HostFrames DEF HostPC, Family, ClosePC, HostBelow
<1> HIDE DEF f, b
<1>6. HostFrame(t, f) /\ f.pc \notin Family /\ f.pc \notin Departing /\ f.pc # "shutdown"
  BY <1>4 DEF HostFrame, HostPC, Family, ClosePC, Departing
<1>7. HasLock(t, f, lock', peers', state')
  BY <1>2, <1>3, <1>4 DEF HasLock
<1> QED BY <1>1, <1>2, <1>3, <1>5, <1>6, <1>7, BeginStays

LEMMA HostMessage ==
    ASSUME SessionInv, HostInv, NEW t \in Threads \ Callers, NEW p \in Present, Message(t, p)
    PROVE  HostInv'
<1>1. p \in PeerIds
  BY DEF Present
<1>2. host_player_id = local_player_id
  BY DEF HostInv, Modes
<1>3. peers[p].st \notin {"requesting_host", "requesting_peer"}
  BY HostNotConnecting
<1>4. peers[p].st = "connected" => peers[p].player # 1
  <2>1. peers[p].st = "connected" => p \in Joined
    BY DEF Joined
  <2> QED BY <2>1, MemberFacts
<1>5. \/ \E fits : ReadsMessage(t, p, "host_connect_request", fits)
      \/ ReadsMessage(t, p, "message", Null)
      \/ peers[p].st = "connected" /\ ReadsMessage(t, p, "destroy_message", peers[p].player)
  BY <1>2, <1>3, <1>4 DEF Message
<1> QED BY <1>1, <1>5, HostReadsMessage

-------------------------------------------------------------------------------
(* The calls of a host.                                                       *)

\* Before Close() has set STATE_CLOSING it has the lock.
LEMMA NobodyCloses ==
    ASSUME HostInv, lock = Null, state # "closing"
    PROVE  \A u \in Threads : ~InClose(stack[u])
<1> SUFFICES ASSUME NEW u \in Threads, InClose(stack[u]) PROVE FALSE
  OBVIOUS
<1>1. TopIn(stack[u]).pc = "close" /\ HasLock(u, TopIn(stack[u]), lock, peers, state)
  BY DEF HostInv, OneCloses, HaveLock
<1> QED BY <1>1, IdFacts DEF HasLock

\* Host() that fails only opens the listener socket.
LEMMA HostHostFails ==
    ASSUME HostOnly, SessionInv, HostInv, NEW t \in Callers, HostFails(t)
    PROVE  HostInv'
<1> DEFINE g == Frame("idle", Null)
<1>0. t \in Threads
  BY DEF Threads
<1>1. lock = Null /\ stack[t] = <<>> /\ lock' = lock /\ stack' = stack /\ listening' = TRUE
      /\ UNCHANGED <<state, table, ids, told, fault>>
  BY DEF HostFails, run, hist
<1>2. UNCHANGED <<peers, player_to_peer_id, next_peer_id, next_player_id, host_player_id, local_player_id>>
  BY <1>1 DEF table, ids
<1>3. \A q \in PeerIds : Serves(q)
  BY <1>2 DEF Serves
<1>4. next_peer_id <= next_peer_id' /\ next_peer_id' \in Nat
  BY <1>2 DEF SessionInv, Values
<1>5. Quiet' /\ OneCloses'
  <2>1. state # "closing"
    BY DEF HostFails, Starts, HostOnly
  <2> QED BY <1>1, <2>1, NobodyCloses DEF Quiet, OneCloses, HostInv
<1>6. HostStacks' /\ Elsewhere(t) /\ TopIn(stack'[t]) = g
  BY <1>0, <1>1 DEF HostInv, HostStacks, Elsewhere, TopIn
<1>7. /\ HasLock(t, g, lock', peers', state') /\ g.pc \notin {"closeself", "closepool", "shutdown"}
      /\ g.pc \notin Departing
  BY DEF HasLock, Frame, Departing
<1> HIDE DEF g
<1>8. EntriesStay
  BY <1>2 DEF EntriesStay, EntryStays
<1> QED BY <1>0, <1>1, <1>2, <1>3, <1>4, <1>5, <1>6, <1>7, <1>8, StillKeeps

\* Close() stops the listener socket first.
LEMMA HostClose ==
    ASSUME SessionInv, HostInv, NEW t \in Callers, NEW now \in BOOLEAN, Close(t, now)
    PROVE  HostInv'
<1> DEFINE f == With(Frame("close", Null), [was |-> state, now |-> now])
<1>0. t \in Threads
  BY DEF Threads
<1>1. ~Connecting
  BY DEF HostInv, Modes, Connecting
<1>2. Begin(t, <<f>>) /\ listening' = FALSE /\ UNCHANGED <<state, table, ids, told, fault>>
  BY <1>1 DEF Close, hist
<1>3. f.pc = "close" /\ f.arg.was = state
  BY DEF With, Frame
<1>4. HostFrame(t, f)
  <2>1. f.arg.was # "connected"
    BY <1>3 DEF HostInv, Modes
  <2> HIDE DEF f
  <2> QED BY <1>3, <2>1 DEF HostFrame, HostPC, ClosePC
<1> HIDE DEF f
<1>5. lock = Null /\ lock' = t /\ stack[t] = <<>> /\ Stack(t, <<f>>)
  BY <1>2 DEF Begin
<1>6. UNCHANGED <<peers, player_to_peer_id, next_peer_id, next_player_id, host_player_id, local_player_id>>
  BY <1>2 DEF table, ids
<1>7. \A q \in PeerIds : Serves(q)
  BY <1>6 DEF Serves
<1>8. next_peer_id <= next_peer_id' /\ next_peer_id' \in Nat
  BY <1>6 DEF SessionInv, Values
<1>9. HostStacks' /\ Elsewhere(t) /\ TopIn(stack'[t]) = f
  <2>1. f.pc \in Family
    BY <1>3 DEF Family, ClosePC
  <2> QED BY <1>0, <1>4, <1>5, <2>1, HostBegin DEF SessionInv, HostInv
<1>10. Quiet' /\ OneCloses'
  <2>1. \A u \in Threads : ~InClose(stack[u])
    <3>1. state # "closing"
      BY DEF Close
    <3> QED BY <1>5, <3>1, NobodyCloses
  <2>2. \A u \in Threads \ {t} : ~InClose(stack'[u])
    BY <1>9, <2>1 DEF Elsewhere, InClose
  <2> QED BY <1>0, <1>2, <1>3, <1>9, <2>2 DEF Quiet, OneCloses
<1>11. /\ HasLock(t, f, lock', peers', state') /\ f.pc \notin {"closeself", "closepool", "shutdown"}
       /\ f.pc \notin Departing
  BY <1>2, <1>3, <1>5 DEF HasLock, Departing
<1>12. EntriesStay
  BY <1>6 DEF EntriesStay, EntryStays
<1> QED BY <1>0, <1>2, <1>5, <1>6, <1>7, <1>8, <1>9, <1>10, <1>11, <1>12, StillKeeps

\* DestroyPeer() finds the peer of a player that is in the table.
LEMMA HostDestroyPeer ==
    ASSUME SessionInv, HostInv, NEW t \in Callers, NEW x \in Players, DestroyPeer(t, x)
    PROVE  HostInv'
<1> DEFINE p == player_to_peer_id[x]
           f == Frame("shutdown", p)
<1>0. t \in Threads
  BY DEF Threads
<1>1. Begin(t, <<f>>) /\ p \in Present
  BY DEF DestroyPeer
<1>2. Serving /\ peers' = peers
  <2>1. Static
    BY DEF DestroyPeer, Static, hist
  <2> QED BY <2>1, StaticServing, StaticServes
<1>3. HostFrame(t, f) /\ f.pc = "shutdown" /\ f.peer = p /\ f.pc \notin Family
  BY HostFrames DEF HostPC, Family, ClosePC
<1>6. f.pc \in OtherCall
  BY <1>3 DEF OtherCall
<1>7. p # Null
  BY <1>1, IdFacts DEF Present
<1>8. WasPlayer(peers, p)
  BY <1>7 DEF HostInv, Entries
<1> HIDE DEF f, p
<1>9. WasPlayer(peers', f.peer)
  BY <1>2, <1>3, <1>8 DEF WasPlayer
<1>4. lock = Null /\ stack[t] = <<>> /\ lock' = t
  BY <1>1 DEF Begin
<1>5. HasLock(t, f, lock', peers', state') /\ f.pc \notin Departing
  BY <1>1, <1>2, <1>3, <1>4 DEF HasLock, Present, Departing
<1> QED BY <1>0, <1>1, <1>2, <1>3, <1>4, <1>5, <1>6, <1>9, BeginStays

\* Initialize().
LEMMA HostInitialize ==
    ASSUME SessionInv, HostInv, NEW t \in Threads, Initialize(t)
    PROVE  HostInv'
<1> DEFINE g == Frame("idle", Null)
<1>1. /\ lock = Null /\ stack[t] = <<>> /\ lock' = lock /\ stack' = stack /\ state = "new" /\ state' = "initialised"
      /\ UNCHANGED <<listening, table, ids, told, fault>>
  BY DEF Initialize, run, hist
<1>2. /\ UNCHANGED <<listening, peers, player_to_peer_id, next_peer_id, next_player_id, host_player_id, local_player_id, told, fault>>
      /\ Modes /\ Before /\ HostStacks /\ Quiet /\ OneCloses /\ Entries /\ Members /\ Leaving /\ Telling
  BY <1>1 DEF table, ids, HostInv
<1>3. HostStacks' /\ OneCloses' /\ Asked' /\ HaveLock' /\ Quiet' /\ Emptied'
  <2>1. HostStacks' /\ Elsewhere(t) /\ TopIn(stack'[t]) = g
    BY <1>1, <1>2 DEF HostStacks, Elsewhere, TopIn
  <2>2. HasLock(t, g, lock', peers', state') /\ g.pc \notin {"closeself", "closepool", "shutdown"}
    BY DEF HasLock, Frame
  <2>3. Quiet' /\ OneCloses'
    BY <1>1, <1>2, NobodyCloses DEF Quiet, OneCloses
  <2>4. \A q \in PeerIds : peers'[q] # Null => peers[q] # Null \/ listening
    BY <1>2
  <2> HIDE DEF g
  <2> QED BY <1>1, <2>1, <2>2, <2>3, <2>4, TopsKeep
<1>4. Modes' /\ Before' /\ Members' /\ Entries'
  BY <1>1, <1>2 DEF Modes, Before, Members, Joined, Present, Entries, WasPlayer
<1>5. Leaving' /\ Telling'
  <2>1. TopIn(stack'[t]).pc \notin Departing /\ Elsewhere(t)
    BY <1>1 DEF TopIn, Frame, Departing, Elsewhere
  <2>2. \A u \in Threads : TopIn(stack'[u]).pc # "destroycb"
    BY <1>1, <1>2 DEF Before
  <2> QED BY <1>1, <1>2, <2>1, <2>2, LeavingNobody DEF Telling
<1> QED BY <1>3, <1>4, <1>5 DEF HostInv

\* Host() begins a session, in which there are no players yet.
LEMMA HostHosts ==
    ASSUME HostOnly, SessionInv, HostInv, NEW t \in Callers, Host(t)
    PROVE  HostInv'
<1> DEFINE f == Frame("createcb", Null)
<1>0. t \in Threads
  BY DEF Threads
<1>1. lock = Null /\ stack[t] = <<>> /\ state = "initialised" /\ state' = "hosting" /\ listening' = TRUE
  <2>1. state \in {"new", "initialised", "hosting", "closing"}
    BY DEF HostInv, Modes
  <2> QED BY <2>1 DEF Host, Starts, MayStart, HostOnly
<1>2. host_player_id' = 1 /\ local_player_id' = 1 /\ next_player_id' = 2 /\ told' = Create(1)
  BY DEF Host
<1>3. /\ Stack(t, <<f>>) /\ UNCHANGED <<lock, peers, player_to_peer_id, next_peer_id, fault>>
      /\ Modes /\ Before /\ HostStacks /\ Quiet /\ Entries /\ Members /\ Telling /\ Stacks /\ Emptied
  BY DEF Host, Stack, table, HostInv, SessionInv
<1>4. HostFrame(t, f) /\ f.pc = "createcb"
  BY HostFrames DEF HostPC, Family, ClosePC
<1> HIDE DEF f
<1>5. HostStacks' /\ Elsewhere(t) /\ TopIn(stack'[t]) = f /\ ~InClose(stack'[t])
  BY <1>0, <1>1, <1>3, <1>4, HostBegin DEF Family, ClosePC, OtherCall
<1>6. \A u \in Threads : ~InClose(stack[u])
  BY <1>1, NobodyCloses
<1>7. \A u \in Threads : ~InClose(stack'[u]) /\ TopIn(stack'[u]).pc \notin {"destroycb", "closeself", "closepool"}
  <2> SUFFICES ASSUME NEW u \in Threads
               PROVE  ~InClose(stack'[u]) /\ TopIn(stack'[u]).pc \notin {"destroycb", "closeself", "closepool"}
    OBVIOUS
  <2>1. CASE u = t
    BY <1>4, <1>5, <2>1
  <2>2. CASE u # t
    <3>1. TopIn(stack'[u]).pc = TopIn(stack[u]).pc /\ PCsOf(stack'[u]) = PCsOf(stack[u])
      BY <1>0, <1>5, <2>2, ElsewhereFacts
    <3>2. ~InClose(stack[u]) /\ TopIn(stack[u]).pc # "destroycb"
      BY <1>1, <1>3, <1>6 DEF Before
    <3>3. TopIn(stack[u]).pc \notin Family
      BY <1>3, <3>2, InCloseFacts
    <3> QED BY <3>1, <3>2, <3>3 DEF InClose, Family, ClosePC
  <2> QED BY <2>1, <2>2
<1>8. HaveLock'
  <2> SUFFICES ASSUME NEW u \in Threads PROVE HasLock(u, TopIn(stack'[u]), lock', peers', state')
    BY DEF HaveLock
  <2>1. CASE u = t
    BY <1>4, <1>5, <2>1 DEF HasLock
  <2>2. CASE u # t
    <3>1. TopIn(stack'[u]).pc = TopIn(stack[u]).pc
      BY <1>0, <1>5, <2>2, ElsewhereFacts
    <3>2. HasLock(u, TopIn(stack[u]), lock, peers, state) /\ lock # u
      BY <1>1, IdFacts DEF HostInv, HaveLock
    <3> QED BY <3>1, <3>2 DEF HasLock
  <2> QED BY <2>1, <2>2
<1>9. Quiet' /\ OneCloses' /\ Emptied'
  BY <1>1, <1>7 DEF Quiet, OneCloses, Emptied
<1>16. Leaving'
  <2>1. TopIn(stack'[t]).pc \notin Departing
    BY <1>4, <1>5 DEF Departing
  <2> QED BY <1>0, <1>1, <1>3, <1>5, <1>7, <2>1, LeavingNobody
<1>14. Asked'
  <2> SUFFICES ASSUME NEW u \in Threads, TopIn(stack'[u]).pc = "shutdown" PROVE FALSE
    BY DEF Asked, WasPlayer
  <2>1. u # t
    BY <1>4, <1>5
  <2>2. HasLock(u, TopIn(stack[u]), lock, peers, state) /\ TopIn(stack[u]).pc = "shutdown"
    BY <1>0, <1>5, <2>1, ElsewhereFacts DEF HostInv, HaveLock
  <2> QED BY <1>1, <2>2, IdFacts DEF HasLock
<1>15. Entries'
  BY <1>3 DEF Entries, WasPlayer
<1>10. \A p \in Present : peers[p].st \notin {"indicating", "connected"}
  BY <1>1, <1>3 DEF Before
<1>11. Modes' /\ Before'
  BY <1>1, <1>2, <1>3, <1>10 DEF Modes, Before, Present
<1>12. Members'
  BY <1>3, <1>10 DEF Members, Joined, Present
<1>13. Telling'
  <2>1. PlayersIn(peers') = {} /\ PlayersIn(peers) = {}
    BY <1>3, <1>10 DEF PlayersIn, Present
  <2>2. 1 \in Players /\ told[1] \in {"unknown", "gone"}
    BY <1>1, <1>3, <2>1, IdFacts DEF Telling
  <2>3. told'[1] = "present" /\ \A x \in Players \ {1} : told'[x] = told[x]
    BY <1>2, <2>2 DEF Create, SessionInv, Values
  <2> QED BY <1>1, <1>3, <2>1, <2>3 DEF Telling
<1> QED BY <1>5, <1>8, <1>9, <1>11, <1>12, <1>13, <1>14, <1>15, <1>16 DEF HostInv

-------------------------------------------------------------------------------
(* What a host never does.                                                    *)

\* No thread of a host is in a function of those that join a session, or that lose
\* their host, or in TerminateSession().
LEMMA HostElsewhere ==
    ASSUME SessionInv, HostInv, NEW t \in Threads
    PROVE  /\ ~HostLost(t) /\ ~HostLostDone(t) /\ ~ConnectCheck(t) /\ ~ConnectChecked(t)
           /\ ~ConnectFail(t) /\ ~ConnectFailSelf(t) /\ ~ConnectFailComplete(t) /\ ~ConnectFailed(t)
           /\ ~HostConnectOk(t) /\ ~HostConnectOkSelf(t) /\ ~HostConnectOkHost(t) /\ ~ConnectRefused(t)
           /\ ~ConnectPeer(t) /\ ~ConnectPeerOk(t) /\ ~ConnectPeerIndicated(t)
           /\ ~SessionEnds(t) /\ ~SessionEnded(t) /\ ~ConnectWaits(t)
           /\ ~TerminateIndicates(t) /\ ~TerminateDestroys(t) /\ ~ConnectionUsed(t)
<1>1. stack[t] # <<>> => Top(t).pc \in HostPC
  BY HostTop
<1>2. \A pc : Runs(t, pc) \/ Resumes(t, pc) => pc \in HostPC
  BY <1>1 DEF Runs, Resumes
<1>3. \A pc \in {"hostlostcb", "hostlostselfcb", "check", "checkcb", "fail", "failself", "failselfcb", "failcomplete",
                 "failcb", "host_connect_ok", "okselfcb", "okhostcb", "connect_refused", "connect_peer",
                 "connect_peer_ok", "peerokcb", "endcb", "endselfcb", "connectwait", "tsendcb", "tsplayercb",
                 "tsdestroy", "connectfailed"} : ~Runs(t, pc) /\ ~Resumes(t, pc)
  BY <1>2 DEF HostPC, ClosePC
<1> HIDE DEF HostInv
<1>4. /\ ~HostLost(t) /\ ~HostLostDone(t) /\ ~ConnectCheck(t) /\ ~ConnectChecked(t)
      /\ ~ConnectFail(t) /\ ~ConnectFailSelf(t) /\ ~ConnectFailComplete(t) /\ ~ConnectFailed(t)
  BY <1>3 DEF HostLost, HostLostDone, ConnectCheck, ConnectChecked, ConnectFail, ConnectFailSelf,
              ConnectFailComplete, ConnectFailed
<1>5. /\ ~HostConnectOk(t) /\ ~HostConnectOkSelf(t) /\ ~HostConnectOkHost(t) /\ ~ConnectRefused(t)
      /\ ~ConnectPeer(t) /\ ~ConnectPeerOk(t) /\ ~ConnectPeerIndicated(t)
  BY <1>3 DEF HostConnectOk, HostConnectOkSelf, HostConnectOkHost, ConnectRefused, ConnectPeer, ConnectPeerOk,
              ConnectPeerIndicated
<1>6. /\ ~SessionEnds(t) /\ ~SessionEnded(t) /\ ~ConnectWaits(t) /\ ~TerminateIndicates(t) /\ ~TerminateDestroys(t)
      /\ ~ConnectionUsed(t)
  BY <1>3 DEF SessionEnds, SessionEnded, ConnectWaits, TerminateIndicates, TerminateDestroys, ConnectionUsed
<1> QED BY <1>4, <1>5, <1>6

\* The calls of a host are those that HostOnly names.
LEMMA HostCalls ==
    ASSUME HostOnly, SessionInv, HostInv, NEW t \in Callers, CallApi(t)
    PROVE  HostInv'
<1>0. t \in Threads
  BY DEF Threads
<1>1. Calls \cap {"Connect", "ConnectSync", "CancelConnect", "TerminateSession"} = {}
  BY DEF HostOnly
<1>2. /\ ~Connect(t, TRUE) /\ ~Connect(t, FALSE) /\ ~ConnectFails(t) /\ ~CancelConnect(t) /\ ~TerminateSession(t)
  BY <1>1 DEF Connect, ConnectFails, CancelConnect, TerminateSession
<1>3. CASE Initialize(t)
  BY <1>0, <1>3, HostInitialize
<1>4. CASE Host(t)
  BY <1>4, HostHosts
<1>5. CASE HostFails(t)
  BY <1>5, HostHostFails
<1>6. CASE Close(t, TRUE) \/ Close(t, FALSE)
  BY <1>6, HostClose
<1>7. CASE \E x \in Players : DestroyPeer(t, x)
  BY <1>7, HostDestroyPeer
<1> QED BY <1>2, <1>3, <1>4, <1>5, <1>6, <1>7 DEF CallApi

\* Socket events.
LEMMA HostServes ==
    ASSUME SessionInv, HostInv, NEW t \in Workers, Serve(t)
    PROVE  HostInv'
<1>0. t \in Threads /\ t \in Threads \ Callers
  BY SessionAssumption DEF Threads
<1>1. CASE Accept(t)
  BY <1>0, <1>1, HostAccept
<1>2. ASSUME NEW p \in Present, Established(t, p) \/ NotEstablished(t, p) \/ ConnectionUnknown(t, p) PROVE FALSE
  BY <1>2, HostNotConnecting DEF Established, NotEstablished, ConnectionUnknown
<1>3. ASSUME NEW p \in Present, SendFails(t, p) \/ ReadsEnd(t, p) PROVE HostInv'
  BY <1>0, <1>3, HostEnds DEF Present
<1>4. ASSUME NEW p \in Present, Message(t, p) PROVE HostInv'
  BY <1>0, <1>4, HostMessage
<1> QED BY <1>1, <1>2, <1>3, <1>4 DEF Serve

\* Functions that go on.
LEMMA HostRuns ==
    ASSUME HostOnly, SessionInv, HostInv, NEW t \in Threads, Run(t)
    PROVE  HostInv'
<1>1. CASE DestroyFlush(t) \/ DestroyFlushed(t)
  BY <1>1, HostFlush
<1>2. CASE DestroyPeerState(t)
  BY <1>2, HostDestroys
<1>3. CASE DestroyIndicated(t)
  BY <1>3, HostDestroyIndicated
<1>4. CASE Erase(t)
  BY <1>4, HostErase
<1>5. CASE DestroyAll(t) \/ ShutdownAll(t)
  BY <1>5, HostAll
<1>6. CASE PeerShutdown(t)
  BY <1>6, HostShutdown
<1>7. CASE ShutdownIndicated(t)
  BY <1>7, HostShutdownIndicated
<1>8. CASE ReadDone(t)
  BY <1>8, HostReadDone
<1>9. CASE HostConnectRequest(t)
  BY <1>9, HostAsked
<1>10. CASE IndicateAccepted(t)
  BY <1>10, HostAccepts
<1>11. CASE IndicateRejected(t)
  BY <1>11, HostRejects
<1>12. CASE Indicated(t) \/ HandleMessage(t)
  BY <1>12, HostIndicates
<1>13. CASE HandleDestroy(t)
  BY <1>13, HostLeft
<1>14. CASE CloseBegins(t)
  BY <1>14, HostCloseBegins
<1>15. CASE ClosePeers(t)
  BY <1>15, HostClosePeers
<1>16. CASE CloseWaits(t)
  BY <1>16, HostCloseWaits
<1>17. CASE CloseSelf(t)
  BY <1>17, HostCloseSelf
<1>18. CASE CloseReturns(t)
  BY <1>18, HostCloseReturns
<1> QED BY <1>1, <1>2, <1>3, <1>4, <1>5, <1>6, <1>7, <1>8, <1>9, <1>10, <1>11, <1>12, <1>13, <1>14, <1>15,
           <1>16, <1>17, <1>18, HostElsewhere
        DEF Run

LEMMA HostRests ==
    ASSUME HostInv, UNCHANGED vars
    PROVE  HostInv'
<1>1. UNCHANGED <<lock, stack, state, listening, peers, player_to_peer_id, next_peer_id, next_player_id,
                  host_player_id, local_player_id, told, fault>>
  BY DEF vars, run, table, ids, hist
<1>2. HostStacks' /\ OneCloses' /\ Asked' /\ HaveLock' /\ Quiet' /\ Emptied'
  BY <1>1 DEF HostInv, HostStacks, OneCloses, Asked, WasPlayer, HaveLock, Quiet, Emptied, Present
<1>3. Modes' /\ Before' /\ Entries' /\ Members'
  BY <1>1 DEF HostInv, Modes, Before, Entries, WasPlayer, Members, Joined, Present
<1>4. Leaving' /\ Telling'
  BY <1>1 DEF HostInv, Leaving, Telling
<1> QED BY <1>2, <1>3, <1>4 DEF HostInv

LEMMA HostNext ==
    ASSUME HostOnly, SessionInv, HostInv, [Next]_vars
    PROVE  HostInv'
<1>1. CASE UNCHANGED vars
  BY <1>1, HostRests
<1>2. CASE \E t \in Threads : Run(t)
  BY <1>2, HostRuns
<1>3. CASE \E t \in Workers : Serve(t)
  BY <1>3, HostServes
<1>4. CASE \E t \in Callers : CallApi(t)
  BY <1>4, HostCalls
<1> QED BY <1>1, <1>2, <1>3, <1>4 DEF Next, Rest

LEMMA HostInit ==
    ASSUME Init
    PROVE  HostInv
<1>1. /\ lock = Null /\ state = "new" /\ listening = FALSE /\ fault = Null
      /\ peers = [p \in PeerIds |-> Null] /\ told = [x \in Players |-> "unknown"]
      /\ next_player_id = 0 /\ host_player_id = 0 /\ local_player_id = 0
  BY DEF Init
<1>2. \A t \in Threads : /\ stack[t] = <<>> /\ TopIn(stack[t]).pc = "idle"
                         /\ FramesOf(stack[t]) = {} /\ DeepOf(stack[t]) = {} /\ PCsOf(stack[t]) = {}
  BY DEF Init, TopIn, Frame, FramesOf, DeepOf, PCsOf
<1>3. Present = {} /\ Joined = {} /\ PlayersIn(peers) = {}
  BY <1>1 DEF Present, Joined, PlayersIn
<1>6. \A t \in Threads : Based(stack[t]) /\ OfCaller(stack[t])
  BY <1>2 DEF Based, OfCaller
<1>4. HostStacks /\ HaveLock /\ Quiet /\ OneCloses /\ Asked /\ Emptied
  BY <1>1, <1>2, <1>6 DEF HostStacks, HostStack, HaveLock, HasLock, Quiet, OneCloses, Asked, InClose, Emptied
<1>5. Modes /\ Before /\ Entries /\ Members /\ Leaving /\ Telling
  <2>1. Entries
    BY DEF Init, Entries
  <2> QED BY <1>1, <1>2, <1>3, <2>1 DEF Modes, Before, Members, Leaving, Departing, Telling
<1> QED BY <1>4, <1>5 DEF HostInv

-------------------------------------------------------------------------------
(* What holds of a host.                                                      *)

\* Whatever its peers, its workers and its callers do in whichever order, a host is
\* in a state of HostInv: its table, what its threads are about to do, and what the
\* application has been told agree.
THEOREM HostInvariant ==
    ASSUME HostOnly
    PROVE  Spec => []HostInv
<1>1. Init => SessionInv /\ HostInv
  BY InitHolds, HostInit
<1>2. SessionInv /\ HostInv /\ [Next]_vars => (SessionInv /\ HostInv)'
  BY NextKeeps, HostNext DEF Kept
<1> QED BY <1>1, <1>2, PTL DEF Spec

\* A host gives each player an id of its own, and none of them its own.
THEOREM HostsGiveUniqueIds ==
    ASSUME HostOnly
    PROVE  Spec => []UniquePlayers
<1>1. SessionInv /\ HostInv => UniquePlayers
  <2> HAVE SessionInv /\ HostInv
  <2>1. \A p \in Joined : peers[p].player # 0 /\ peers[p].player # 1
    BY MemberFacts
  <2>2. local_player_id \in {0, 1} /\ Members
    BY DEF HostInv, Modes
  <2> QED BY <2>1, <2>2 DEF UniquePlayers, Members
<1> QED BY <1>1, HostInvariant, SessionInvariant, PTL

\* handle_host_connect_request() enters a player, and peer_destroy() takes it out after
\* its DESTROY_PLAYER.  Until then the DPNID leads to the Peer, unless another
\* peer_destroy() has deleted it in that callback, or peer_shutdown() has erased
\* the entry, the peer id of whom it shut down being the DPNID of this player.
THEOREM HostsFindTheirPlayers ==
    ASSUME HostOnly
    PROVE  Spec => []Reachable
<1>1. ASSUME SessionInv, HostInv, NEW x \in Players, NEW p \in PeerIds, peers[p] # Null, peers[p].player = x,
             Filed(x, p, peers, player_to_peer_id, next_peer_id)
      PROVE  Addressable(x) \/ Misfiled(x)
  <2>1. p # Null
    BY IdFacts
  <2> QED BY <1>1, <2>1 DEF Filed, Gone, Addressable, Misfiled
<1>2. ASSUME SessionInv, HostInv, NEW x \in Players \ {local_player_id}, told[x] = "present"
      PROVE  Addressable(x) \/ Misfiled(x)
  <2>1. x \in PlayersIn(peers)
    BY <1>2 DEF HostInv, Telling, Modes
  <2>2. PICK p \in Joined : peers[p].player = x
    BY <2>1 DEF PlayersIn, Joined, Present
  <2> QED BY <1>1, <1>2, <2>2, MemberFacts
<1>3. ASSUME SessionInv, HostInv, NEW f \in Frames, f.pc \in Departing, peers[f.peer] # Null
      PROVE  Addressable(peers[f.peer].player) \/ Misfiled(peers[f.peer].player)
  <2>1. PICK t \in Threads : \E i \in DOMAIN stack[t] : stack[t][i] = f
    BY DEF Frames
  <2>2. PICK s : s = stack[t]
    OBVIOUS
  <2>3. s \in Seq(FrameSet) /\ DeepOf(s) \subseteq HostBelow
    BY <1>3, <2>2 DEF SessionInv, Stacks, HostInv, HostStacks, HostStack
  <2>4. PICK i \in 1..Len(s) : s[i] = f
    BY <2>1, <2>2, <2>3
  <2>5. i \notin 2..Len(s)
    BY <1>3, <2>3, <2>4 DEF DeepOf, HostBelow, Departing
  <2>6. i = 1 /\ s # <<>>
    BY <2>3, <2>4, <2>5
  <2>7. TopIn(s) = f /\ f \in FrameSet
    BY <2>3, <2>4, <2>6 DEF TopIn
  <2>8. f.peer \in PeerIds
    BY <1>3, <2>7 DEF FrameSet, PeerPC, Departing
  <2>9. IsLeaving(f, state, peers, player_to_peer_id, next_player_id, next_peer_id)
    BY <1>3, <2>2, <2>7 DEF HostInv, Leaving
  <2>10. /\ peers[f.peer].player \in Players
         /\ Filed(peers[f.peer].player, f.peer, peers, player_to_peer_id, next_peer_id)
    BY <1>3, <2>9 DEF IsLeaving, Goes
  <2> QED BY <1>1, <1>3, <2>8, <2>10
<1>4. SessionInv /\ HostInv => Reachable
  BY <1>2, <1>3 DEF Reachable, Departing
<1> QED BY <1>4, HostInvariant, SessionInvariant, PTL

\* CREATE_PLAYER and DESTROY_PLAYER alternate: peer_destroy(), peer_shutdown() and
\* Close() never both indicate that a player is gone, and an id is not given twice.
THEOREM HostsIndicateOnce ==
    ASSUME HostOnly
    PROVE  Spec => []IndicatedOnce
<1>1. HostInv => IndicatedOnce
  BY DEF HostInv, Telling, IndicatedOnce
<1> QED BY <1>1, HostInvariant, PTL

\* When Close() returns, the application has been told that everybody it knew is gone,
\* also its own player.
THEOREM HostsLeaveNobody ==
    ASSUME HostOnly
    PROVE  Spec => [](NobodyLeft /\ LocalGone)
<1>1. HostInv => NobodyLeft /\ LocalGone
  <2> HAVE HostInv
  <2>1. SUFFICES ASSUME state = "new" PROVE NobodyLeft /\ LocalGone
    BY DEF NobodyLeft, LocalGone
  <2>2. PlayersIn(peers) = {}
    BY <2>1 DEF HostInv, Before, PlayersIn, Present
  <2>3. \A x \in Players : told[x] # "present"
    BY <2>1, <2>2 DEF HostInv, Telling
  <2> QED BY <2>3, IdFacts DEF NobodyLeft, LocalGone
<1> QED BY <1>1, HostInvariant, PTL

\* While the application calls only Host(), Close() and DestroyPeer(), no assert() of
\* the library fails and it uses no Peer that has been deleted.  TerminateSession()
\* is left out, since the assert() of the peer_destroy() in its loop does fail.
THEOREM HostsThatOnlyCloseNeverFail ==
    ASSUME HostOnly
    PROVE  Spec => []NoFault
<1>1. HostInv => NoFault
  BY DEF HostInv, Modes, NoFault
<1> QED BY <1>1, HostInvariant, PTL

=============================================================================
