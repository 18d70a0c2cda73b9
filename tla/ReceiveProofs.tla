---------------------------- MODULE ReceiveProofs ----------------------------
(***************************************************************************)
(* The receiving side for any number of workers, any streams and any       *)
(* largest packet: io_peer_recv() has one reader at a time, never offers   *)
(* recv() an empty space, and follows the boundaries of the packets, so    *)
(* that the handlers are given what was sent.  What the deserialiser makes *)
(* of a whole packet is a hypothesis (PacketsRead), which TLC checks.      *)
(***************************************************************************)
EXTENDS Receive, SequenceTheorems, TLAPS

Active == {"parse", "handling", "enable", "destroy", "flushing", "indicating"}

\* recv_busy and rb_claimed: a worker that is past its recv() has claimed the
\* peer, and while the peer exists there is at most one.
OneReader ==
    /\ \A w \in Workers : claimed[w] => at[w] \in Active \cup {"loop"}
    /\ \A w \in Workers : at[w] \in Active => claimed[w]
    /\ \A w \in Workers : at[w] \in {"parse", "enable", "destroy"} => peer # "gone"
    /\ peer # "gone" => \A w \in Workers : claimed[w] => recv_busy
    /\ peer # "gone" => \A v, w \in Workers : claimed[v] /\ claimed[w] => v = w

\* Between two packets recv_buf holds less than one: there is room for recv().
\* A handler that has released the lock will find its packet again.
Buffering ==
    peer # "gone" =>
        /\ (\A w \in Workers : at[w] \notin Active \ {"enable"}) => Incomplete
        /\ \A w \in Workers : at[w] = "handling" =>
              ~Incomplete /\ ~OverSize /\ size[w] = FullPacketSize

\* Everything a handler may be given.
Given == {[type |-> d.type, values |-> Values(d), upto |-> n] : d \in {Deserialise(b) : b \in Seq(Nat)}, n \in Nat}

\* Nothing is handled beyond what was read, and nothing is being parsed that was
\* read after the peer began to close.
Reading ==
    /\ handled \in Seq(Given)
    /\ peer = "open" => \A i \in DOMAIN handled : handled[i].upto <= taken
    /\ peer = "closing" => \A w \in Workers : at[w] \in {"parse", "handling"} => taken = closingAt
    /\ LateDiscarded

\* The part of the inductive invariant that does not depend on what packets mean.
ReadInv == TypeOK /\ OneReader /\ Buffering /\ Reading

\* Nothing has been thrown away yet.
Live == peer = "open" \/ (peer = "closing" /\ taken = closingAt)

\* handled is what the packets before packet k mean.
HandledBefore(k) ==
    /\ \A i \in DOMAIN handled : \E j \in 1..k - 1 :
          /\ handled[i].upto = stream.packets[j].upto
          /\ stream.packets[j].means = <<[type |-> handled[i].type, values |-> handled[i].values]>>
    /\ \A j \in 1..k - 1 : stream.packets[j].means # <<>> => WasHandled(j)

InHandler == \E w \in Workers : at[w] = "handling"

\* recv_buf is the stream from the beginning of packet k on, as far as it was read.
Framed(k) ==
    /\ taken - Len(recv_buf) = Start(stream, k)
    /\ recv_buf = SubSeq(Wire, Start(stream, k) + 1, taken)
    /\ HandledBefore(IF InHandler THEN k + 1 ELSE k)

Framing == Live => \E k \in 1..Len(stream.packets) + 1 : Framed(k)

\* The inductive invariant.
FrameInv == ReadInv /\ Framing /\ InOrder /\ DropsDeserved

-------------------------------------------------------------------------------
\* What memmove() leaves in recv_buf.
LEMMA ShiftProperties ==
    ASSUME NEW buffer \in Seq(Nat), NEW n \in Nat
    PROVE  /\ SubSeq(buffer, n + 1, Len(buffer)) \in Seq(Nat)
           /\ Len(SubSeq(buffer, n + 1, Len(buffer))) = IF n < Len(buffer) THEN Len(buffer) - n ELSE 0
<1>1. \A i \in n + 1..Len(buffer) : buffer[i] \in Nat
  BY ElementOfSeq
<1>2. Len(buffer) \in Nat
  BY LenProperties
<1> QED
  BY <1>1, <1>2, SubSeqProperties

\* What recv() adds to recv_buf.
LEMMA ReadProperties ==
    ASSUME NEW wire \in Seq(Nat), NEW buffer \in Seq(Nat), NEW m \in Nat, NEW r \in Nat, m + r <= Len(wire)
    PROVE  /\ buffer \o SubSeq(wire, m + 1, m + r) \in Seq(Nat)
           /\ Len(buffer \o SubSeq(wire, m + 1, m + r)) = Len(buffer) + r
<1>0. Len(wire) \in Nat /\ Len(buffer) \in Nat
  BY LenProperties
<1>1. \A i \in m + 1..m + r : wire[i] \in Nat
  BY <1>0, ElementOfSeq
<1>2. SubSeq(wire, m + 1, m + r) \in Seq(Nat) /\ Len(SubSeq(wire, m + 1, m + r)) = r
  BY <1>1, SubSeqProperties
<1> QED
  BY <1>2, ConcatProperties

\* The sizes that occur are numbers.
LEMMA Sizes ==
    ASSUME TypeOK
    PROVE  /\ Wire \in Seq(Nat) /\ Len(Wire) \in Nat
           /\ Len(recv_buf) \in Nat /\ Room \in Nat /\ Readable \in Nat
           /\ taken \in Nat /\ Len(recv_buf) <= taken
           /\ Len(recv_buf) >= HeaderSize => FullPacketSize \in Nat /\ FullPacketSize >= HeaderSize
<1>1. Wire \in Seq(Nat) /\ Len(Wire) \in Nat
  BY StreamsAssumption, LenProperties DEF TypeOK, Wire
<1>2. /\ Len(recv_buf) \in Nat /\ Room \in Nat /\ Readable \in Nat
      /\ taken \in Nat /\ Len(recv_buf) <= taken
  BY <1>1, LenProperties, ReceiveAssumption DEF TypeOK, Room, Readable, Least
<1>3. Len(recv_buf) >= HeaderSize => FullPacketSize \in Nat /\ FullPacketSize >= HeaderSize
  BY <1>2, ElementOfSeq DEF TypeOK, FullPacketSize, HeaderSize
<1> QED
  BY <1>1, <1>2, <1>3

\* The same of the variables.
LEMMA Shifted ==
    ASSUME TypeOK, NEW n \in Nat, Shift(n)
    PROVE  recv_buf' \in Seq(Nat) /\ Len(recv_buf') = IF n < Len(recv_buf) THEN Len(recv_buf) - n ELSE 0
<1>1. recv_buf \in Seq(Nat)
  BY DEF TypeOK
<1> QED
  BY <1>1, ShiftProperties DEF Shift

\* What recv() appends to recv_buf.
LEMMA Appended ==
    ASSUME TypeOK, NEW r \in Nat, taken + r <= arrived, recv_buf' = recv_buf \o SubSeq(Wire, taken + 1, taken + r)
    PROVE  recv_buf' \in Seq(Nat) /\ Len(recv_buf') = Len(recv_buf) + r
<1>1. Wire \in Seq(Nat) /\ recv_buf \in Seq(Nat) /\ taken \in Nat /\ taken + r <= Len(Wire)
  BY Sizes DEF TypeOK
<1> QED
  BY <1>1, ReadProperties

\* The two halves of TypeOK: where the workers are, and what they have read.
Places ==
    /\ lock \in Workers \cup {None} /\ claimed \in [Workers -> BOOLEAN]
    /\ at \in [Workers -> {"idle", "woken", "sending", "loop", "parse", "handling", "enable",
                           "destroy", "flushing", "indicating"}]
    /\ \A w \in Workers : lock = w <=> at[w] \in {"loop", "parse", "enable", "destroy"}

Counts ==
    /\ stream \in Streams /\ arrived \in 0..Len(Wire) /\ remote \in {"open", "ended", "reset"}
    /\ taken \in 0..arrived /\ recv_buf \in Seq(Nat) /\ Len(recv_buf) <= Least(MAX_PACKET_SIZE, taken)
    /\ recv_busy \in BOOLEAN /\ selected \in BOOLEAN /\ event \in BOOLEAN
    /\ peer \in {"open", "closing", "gone"} /\ size \in [Workers -> 0..MAX_PACKET_SIZE]
    /\ closingAt \in 0..taken /\ lostBy \in {None, "closed", "error", "stream"}

\* Together they are TypeOK.
LEMMA TypeSplit == TypeOK <=> Places /\ Counts
BY DEF TypeOK, Places, Counts

\* Every step keeps Places.
LEMMA PlacesStep == Places /\ [Next]_vars => Places'
<1> SUFFICES ASSUME Places, [Next]_vars PROVE Places'
  OBVIOUS
<1> USE ReceiveAssumption DEF Places, Held, Free
<1>1. ASSUME NEW w \in Workers, Wake(w) PROVE Places'
  BY <1>1 DEF Wake, Goto
<1>2. ASSUME NEW w \in Workers, Trigger(w) PROVE Places'
  <2>1. at[w] = "woken" /\ lock = None
    BY <1>2 DEF Trigger
  <2>2. CASE Return(w)
    BY <2>1, <2>2 DEF Return
  <2>3. CASE lock' = w /\ Goto(w, "loop")
    BY <2>1, <2>3 DEF Goto
  <2>4. CASE lock' = None /\ Goto(w, "sending")
    BY <2>1, <2>4 DEF Goto
  <2> QED
    BY <1>2, <2>2, <2>3, <2>4 DEF Trigger
<1>3. ASSUME NEW w \in Workers, SendReturns(w) PROVE Places'
  BY <1>3 DEF SendReturns, Goto
<1>4. ASSUME NEW w \in Workers, LoopReturns(w) PROVE Places'
  BY <1>4 DEF LoopReturns, Return
<1>5. ASSUME NEW w \in Workers, NothingToRead(w) PROVE Places'
  BY <1>5 DEF NothingToRead, Return, Goto
<1>6. ASSUME NEW w \in Workers, Read(w) PROVE Places'
  <2>1. lock' = lock /\ at[w] = "loop" /\ lock = w /\ claimed' = [claimed EXCEPT ![w] = TRUE]
    BY <1>6 DEF Read, Claim, Discard
  <2>2. CASE at' = [at EXCEPT ![w] = "loop"]
    BY <2>1, <2>2
  <2>3. CASE at' = [at EXCEPT ![w] = "parse"]
    BY <2>1, <2>3
  <2> QED
    BY <1>6, <2>2, <2>3 DEF Read, Claim, Discard
<1>7. ASSUME NEW w \in Workers, ReadEnd(w) PROVE Places'
  BY <1>7 DEF ReadEnd, Claim
<1>8. ASSUME NEW w \in Workers, Enable(w) PROVE Places'
  BY <1>8 DEF Enable, Return
<1>9. ASSUME NEW w \in Workers, ParseMore(w) PROVE Places'
  BY <1>9 DEF ParseMore, Goto
<1>10. ASSUME NEW w \in Workers, ParseBad(w) PROVE Places'
  BY <1>10 DEF ParseBad, Goto
<1>11. ASSUME NEW w \in Workers, ParseIgnored(w) PROVE Places'
  BY <1>11 DEF ParseIgnored, Shift
<1>12. ASSUME NEW w \in Workers, ParseHandled(w) PROVE Places'
  BY <1>12 DEF ParseHandled, Goto
<1>13. ASSUME NEW w \in Workers, HandlerReturns(w) PROVE Places'
  <2>1. at[w] = "handling" /\ lock = None
    BY <1>13 DEF HandlerReturns
  <2>2. CASE Return(w)
    BY <2>1, <2>2 DEF Return
  <2>3. CASE lock' = w /\ Goto(w, "parse")
    BY <2>1, <2>3 DEF Goto
  <2> QED
    BY <1>13, <2>2, <2>3 DEF HandlerReturns
<1>14. ASSUME NEW w \in Workers, DestroyFlushes(w) PROVE Places'
  BY <1>14 DEF DestroyFlushes, Goto
<1>15. ASSUME NEW w \in Workers, DestroyIndicates(w) PROVE Places'
  BY <1>15 DEF DestroyIndicates, Indicate, Closing, Delete, Goto, Return
<1>16. ASSUME NEW w \in Workers, DestroyEnds(w) PROVE Places'
  BY <1>16 DEF DestroyEnds, Delete, Return
<1>17. ASSUME NEW w \in Workers, DestroyFinds(w) PROVE Places'
  BY <1>17 DEF DestroyFinds, Return
<1>18. ASSUME Arrive PROVE Places'
  BY <1>18 DEF Arrive
<1>19. ASSUME NEW how \in {"ended", "reset"}, RemoteEnds(how) PROVE Places'
  BY <1>19 DEF RemoteEnds
<1>20. ASSUME Nudge PROVE Places'
  BY <1>20 DEF Nudge
<1>21. ASSUME PeerShutdown PROVE Places'
  BY <1>21 DEF PeerShutdown, Closing
<1>22. ASSUME OtherIndicates PROVE Places'
  BY <1>22 DEF OtherIndicates, Closing
<1>23. ASSUME DestroyedByOther PROVE Places'
  BY <1>23 DEF DestroyedByOther, Delete
<1>24. ASSUME UNCHANGED vars PROVE Places'
  BY <1>24 DEF vars
<1> HIDE DEF Places, Held, Free
<1> QED
  BY <1>1, <1>2, <1>3, <1>4, <1>5, <1>6, <1>7, <1>8, <1>9, <1>10, <1>11, <1>12, <1>13, <1>14, <1>15, <1>16, <1>17, <1>18, <1>19, <1>20, <1>21, <1>22, <1>23, <1>24 DEF Next, Step, Ended

\* Every step keeps Counts.
LEMMA CountsStep == TypeOK /\ [Next]_vars => Counts'
<1> SUFFICES ASSUME TypeOK, [Next]_vars PROVE Counts'
  OBVIOUS
<1>s. /\ Wire \in Seq(Nat) /\ Len(Wire) \in Nat /\ Len(recv_buf) \in Nat /\ Room \in Nat /\ Readable \in Nat
      /\ Len(recv_buf) >= HeaderSize => FullPacketSize \in Nat /\ FullPacketSize >= HeaderSize
  BY Sizes
<1> USE ReceiveAssumption, <1>s DEF TypeOK, Counts, netvars, Held, Free, Wire, Least, HeaderSize
<1>d. ASSUME Delete PROVE Counts'
  <2>1. Len(recv_buf') = 0 /\ recv_buf' \in Seq(Nat)
    BY <1>d, EmptySeq DEF Delete
  <2>2. /\ arrived' = 0 /\ taken' = 0 /\ closingAt' = 0 /\ peer' = "gone"
        /\ recv_busy' \in BOOLEAN /\ selected' \in BOOLEAN /\ event' \in BOOLEAN
        /\ UNCHANGED <<stream, remote, size, lostBy>>
    BY <1>d DEF Delete
  <2> QED
    BY <2>1, <2>2
<1>1. ASSUME NEW w \in Workers, Wake(w) PROVE Counts'
  BY <1>1 DEF Wake, Goto
<1>2. ASSUME NEW w \in Workers, Trigger(w) PROVE Counts'
  BY <1>2 DEF Trigger, Return, Goto
<1>3. ASSUME NEW w \in Workers, SendReturns(w) PROVE Counts'
  BY <1>3 DEF SendReturns, Goto
<1>4. ASSUME NEW w \in Workers, LoopReturns(w) PROVE Counts'
  BY <1>4 DEF LoopReturns, Return
<1>5. ASSUME NEW w \in Workers, NothingToRead(w) PROVE Counts'
  BY <1>5 DEF NothingToRead, Return, Goto
<1>6. ASSUME NEW w \in Workers, Read(w) PROVE Counts'
  <2> DEFINE r == IF Room < Readable THEN Room ELSE Readable
  <2>1. r \in Nat /\ r <= Room /\ r <= Readable
    OBVIOUS
  <2>2. taken' = taken + r /\ taken + r <= arrived /\ UNCHANGED <<netvars, peer, size, closingAt, lostBy>>
    BY <1>6, <2>1 DEF Read, Readable
  <2>3. recv_busy' \in BOOLEAN /\ selected' \in BOOLEAN /\ event' \in BOOLEAN
    BY <1>6 DEF Read, Claim, Discard
  <2>4. recv_buf' \in Seq(Nat) /\ Len(recv_buf') <= MAX_PACKET_SIZE /\ Len(recv_buf') <= taken'
    <3>1. CASE recv_buf' = recv_buf
      BY <3>1, <2>1, <2>2
    <3>2. CASE recv_buf' = recv_buf \o SubSeq(stream.units, taken + 1, taken + r)
      <4>1. recv_buf' \in Seq(Nat) /\ Len(recv_buf') = Len(recv_buf) + r
        BY <3>2, <2>1, <2>2, Appended
      <4> QED
        BY <4>1, <2>1, <2>2 DEF Room
    <3> QED
      BY <3>1, <3>2, <1>6 DEF Read
  <2> QED
    BY <2>2, <2>3, <2>4
<1>7. ASSUME NEW w \in Workers, ReadEnd(w) PROVE Counts'
  BY <1>7 DEF ReadEnd, Claim
<1>8. ASSUME NEW w \in Workers, Enable(w) PROVE Counts'
  BY <1>8 DEF Enable, Return
<1>9. ASSUME NEW w \in Workers, ParseMore(w) PROVE Counts'
  BY <1>9 DEF ParseMore, Goto
<1>10. ASSUME NEW w \in Workers, ParseBad(w) PROVE Counts'
  BY <1>10 DEF ParseBad, Goto
<1>11. ASSUME NEW w \in Workers, ParseIgnored(w) PROVE Counts'
  <2>1. Len(recv_buf) >= HeaderSize
    BY <1>11 DEF ParseIgnored, Incomplete
  <2>2. recv_buf' \in Seq(Nat) /\ Len(recv_buf') <= Len(recv_buf)
    <3>1. FullPacketSize \in Nat
      BY <2>1
    <3>2. Shift(FullPacketSize)
      BY <1>11 DEF ParseIgnored
    <3> QED
      BY <3>1, <3>2, <1>11, Shifted
  <2> QED
    BY <1>11, <2>2 DEF ParseIgnored
<1>12. ASSUME NEW w \in Workers, ParseHandled(w) PROVE Counts'
  <2>1. FullPacketSize \in 0..MAX_PACKET_SIZE
    BY <1>12 DEF ParseHandled, Incomplete, Unusable, OverSize
  <2>2. UNCHANGED <<netvars, taken, recv_buf, recv_busy, selected, event, peer, closingAt, lostBy>>
    BY <1>12 DEF ParseHandled
  <2>3. size' = [size EXCEPT ![w] = FullPacketSize]
    BY <1>12 DEF ParseHandled
  <2>4. size' \in [Workers -> 0..MAX_PACKET_SIZE]
    BY <2>1, <2>3
  <2> QED
    BY <2>2, <2>4
<1>13. ASSUME NEW w \in Workers, HandlerReturns(w) PROVE Counts'
  <2>1. recv_buf' \in Seq(Nat) /\ Len(recv_buf') <= Len(recv_buf)
    <3>1. CASE recv_buf' = recv_buf
      BY <3>1
    <3>2. CASE Shift(size[w])
      BY <3>2, Shifted
    <3> QED
      BY <1>13, <3>1, <3>2 DEF HandlerReturns
  <2>2. UNCHANGED <<netvars, taken, recv_busy, selected, event, peer, closingAt, lostBy>>
    BY <1>13 DEF HandlerReturns
  <2>3. size' = [size EXCEPT ![w] = 0]
    BY <1>13 DEF HandlerReturns
  <2>4. size' \in [Workers -> 0..MAX_PACKET_SIZE]
    BY <2>3
  <2> QED
    BY <2>1, <2>2, <2>4
<1>14. ASSUME NEW w \in Workers, DestroyFlushes(w) PROVE Counts'
  BY <1>14 DEF DestroyFlushes, Goto
<1>15. ASSUME NEW w \in Workers, DestroyIndicates(w) PROVE Counts'
  <2>1. CASE Delete
    BY <1>d, <2>1
  <2>2. CASE Closing /\ UNCHANGED <<netvars, taken, recv_buf, recv_busy, selected, event, size, lostBy>>
    BY <2>2 DEF Closing
  <2> QED
    BY <1>15, <2>1, <2>2 DEF DestroyIndicates, Indicate
<1>16. ASSUME NEW w \in Workers, DestroyEnds(w) PROVE Counts'
  BY <1>16, <1>d DEF DestroyEnds
<1>17. ASSUME NEW w \in Workers, DestroyFinds(w) PROVE Counts'
  BY <1>17 DEF DestroyFinds, Return
<1>18. ASSUME Arrive PROVE Counts'
  BY <1>18 DEF Arrive, Readable
<1>19. ASSUME NEW how \in {"ended", "reset"}, RemoteEnds(how) PROVE Counts'
  BY <1>19 DEF RemoteEnds
<1>20. ASSUME Nudge PROVE Counts'
  BY <1>20 DEF Nudge
<1>21. ASSUME PeerShutdown PROVE Counts'
  BY <1>21 DEF PeerShutdown, Closing
<1>22. ASSUME OtherIndicates PROVE Counts'
  BY <1>22 DEF OtherIndicates, Closing
<1>23. ASSUME DestroyedByOther PROVE Counts'
  BY <1>23, <1>d DEF DestroyedByOther
<1>24. ASSUME UNCHANGED vars PROVE Counts'
  BY <1>24 DEF vars
<1> HIDE DEF TypeOK, Counts, netvars, Held, Free, Wire, Least, HeaderSize
<1> QED
  BY <1>1, <1>2, <1>3, <1>4, <1>5, <1>6, <1>7, <1>8, <1>9, <1>10, <1>11, <1>12, <1>13, <1>14, <1>15, <1>16, <1>17, <1>18, <1>19, <1>20, <1>21, <1>22, <1>23, <1>24 DEF Next, Step, Ended

\* Every step keeps TypeOK.
LEMMA TypeStep == TypeOK /\ [Next]_vars => TypeOK'
<1>1. Places' /\ Counts' => TypeOK'
  BY DEF TypeOK, Places, Counts
<1> QED
  BY <1>1, TypeSplit, PlacesStep, CountsStep

\* Every step keeps OneReader.
LEMMA OneReaderStep == (Places /\ OneReader) /\ [Next]_vars => OneReader'
<1> SUFFICES ASSUME Places, OneReader, [Next]_vars PROVE OneReader'
  OBVIOUS
<1> USE ReceiveAssumption DEF Places, OneReader, Active, Held, Free
<1>1. ASSUME NEW w \in Workers, Wake(w) PROVE OneReader'
  BY <1>1 DEF Wake, Goto
<1>2. ASSUME NEW w \in Workers, Trigger(w) PROVE OneReader'
  <2>1. at[w] = "woken" /\ lock = None /\ ~claimed[w] /\ UNCHANGED <<peer, recv_busy>>
    BY <1>2 DEF Trigger
  <2>2. CASE Return(w)
    BY <2>1, <2>2 DEF Return
  <2>3. CASE \E place \in {"loop", "sending"} : Goto(w, place)
    BY <2>1, <2>3 DEF Goto
  <2> QED
    BY <1>2, <2>2, <2>3 DEF Trigger
<1>3. ASSUME NEW w \in Workers, SendReturns(w) PROVE OneReader'
  BY <1>3 DEF SendReturns, Goto
<1>4. ASSUME NEW w \in Workers, LoopReturns(w) PROVE OneReader'
  BY <1>4 DEF LoopReturns, Return, MayRead
<1>5. ASSUME NEW w \in Workers, NothingToRead(w) PROVE OneReader'
  <2>1. at[w] = "loop" /\ peer # "gone" /\ UNCHANGED <<peer, recv_busy>>
    BY <1>5 DEF NothingToRead, MayRead
  <2>2. CASE Return(w)
    BY <2>1, <2>2 DEF Return
  <2>3. CASE claimed[w] /\ Goto(w, "enable")
    BY <2>1, <2>3 DEF Goto
  <2> QED
    BY <1>5, <2>2, <2>3 DEF NothingToRead
<1>6. ASSUME NEW w \in Workers, Read(w) PROVE OneReader'
  <2>1. at[w] = "loop" /\ peer # "gone" /\ (claimed[w] \/ ~recv_busy) /\ UNCHANGED peer
    BY <1>6 DEF Read, MayRead
  <2>2. \E place \in {"loop", "parse"} : Claim(w, place)
    BY <1>6 DEF Read, Discard
  <2> QED
    BY <2>1, <2>2 DEF Claim
<1>7. ASSUME NEW w \in Workers, ReadEnd(w) PROVE OneReader'
  BY <1>7 DEF ReadEnd, Claim, MayRead
<1>8. ASSUME NEW w \in Workers, Enable(w) PROVE OneReader'
  BY <1>8 DEF Enable, Return
<1>9. ASSUME NEW w \in Workers, ParseMore(w) PROVE OneReader'
  BY <1>9 DEF ParseMore, Goto
<1>10. ASSUME NEW w \in Workers, ParseBad(w) PROVE OneReader'
  BY <1>10 DEF ParseBad, Goto
<1>11. ASSUME NEW w \in Workers, ParseIgnored(w) PROVE OneReader'
  BY <1>11 DEF ParseIgnored, Shift
<1>12. ASSUME NEW w \in Workers, ParseHandled(w) PROVE OneReader'
  BY <1>12 DEF ParseHandled, Goto
<1>13. ASSUME NEW w \in Workers, HandlerReturns(w) PROVE OneReader'
  <2>1. at[w] = "handling" /\ lock = None /\ claimed[w] /\ UNCHANGED <<peer, recv_busy>>
    BY <1>13 DEF HandlerReturns
  <2>2. CASE Return(w)
    BY <2>1, <2>2 DEF Return
  <2>3. CASE peer # "gone" /\ Goto(w, "parse")
    BY <2>1, <2>3 DEF Goto
  <2> QED
    BY <1>13, <2>2, <2>3 DEF HandlerReturns
<1>14. ASSUME NEW w \in Workers, DestroyFlushes(w) PROVE OneReader'
  BY <1>14 DEF DestroyFlushes, Goto
<1>15. ASSUME NEW w \in Workers, DestroyIndicates(w) PROVE OneReader'
  BY <1>15 DEF DestroyIndicates, Indicate, Closing, Delete, Goto, Return
<1>16. ASSUME NEW w \in Workers, DestroyEnds(w) PROVE OneReader'
  BY <1>16 DEF DestroyEnds, Delete, Return
<1>17. ASSUME NEW w \in Workers, DestroyFinds(w) PROVE OneReader'
  BY <1>17 DEF DestroyFinds, Return
<1>18. ASSUME Arrive PROVE OneReader'
  BY <1>18 DEF Arrive
<1>19. ASSUME NEW how \in {"ended", "reset"}, RemoteEnds(how) PROVE OneReader'
  BY <1>19 DEF RemoteEnds
<1>20. ASSUME Nudge PROVE OneReader'
  BY <1>20 DEF Nudge
<1>21. ASSUME PeerShutdown PROVE OneReader'
  BY <1>21 DEF PeerShutdown, Closing
<1>22. ASSUME OtherIndicates PROVE OneReader'
  BY <1>22 DEF OtherIndicates, Closing
<1>23. ASSUME DestroyedByOther PROVE OneReader'
  BY <1>23 DEF DestroyedByOther, Delete
<1>24. ASSUME UNCHANGED vars PROVE OneReader'
  BY <1>24 DEF vars
<1> HIDE DEF Places, OneReader, Active, Held, Free
<1> QED
  BY <1>1, <1>2, <1>3, <1>4, <1>5, <1>6, <1>7, <1>8, <1>9, <1>10, <1>11, <1>12, <1>13, <1>14, <1>15, <1>16, <1>17, <1>18, <1>19, <1>20, <1>21, <1>22, <1>23, <1>24 DEF Next, Step, Ended

\* A worker that goes on to recv() is the only reader, has parsed all there was,
\* and offers recv() some space: Room = 0 never ends a connection.
LEMMA SoleReader ==
    ASSUME TypeOK, OneReader, Buffering, NEW w \in Workers, at[w] = "loop", MayRead(w)
    PROVE  /\ \A v \in Workers : claimed[v] => v = w
           /\ \A v \in Workers : at[v] \notin Active
           /\ Incomplete /\ Room > 0
<1>1. \A v \in Workers : claimed[v] => v = w
  BY DEF OneReader, MayRead
<1>2. \A v \in Workers : at[v] \notin Active
  BY <1>1 DEF OneReader, Active
<1>3. Incomplete
  BY <1>2 DEF Buffering, MayRead
<1>4. /\ Len(recv_buf) \in Nat
      /\ Len(recv_buf) >= HeaderSize => FullPacketSize \in Nat
  BY Sizes
<1>5. Room > 0
  BY <1>3, <1>4, ReceiveAssumption DEF Incomplete, OverSize, Room, HeaderSize
<1> QED
  BY <1>1, <1>2, <1>3, <1>5

\* The one that parses is alone as well.
LEMMA SoleParser ==
    ASSUME TypeOK, OneReader, NEW w \in Workers, at[w] = "parse"
    PROVE  /\ \A v \in Workers : at[v] \in Active => v = w
           /\ \A v \in Workers : at[v] # "handling"
           /\ peer # "gone"
BY DEF OneReader, Active

\* The packet that is parsed is in the buffer.
LEMMA WholePacket ==
    ASSUME TypeOK, ~Incomplete, ~OverSize
    PROVE  /\ FullPacketSize \in HeaderSize..Len(recv_buf) /\ Len(recv_buf) \in Nat /\ FullPacketSize <= MAX_PACKET_SIZE
           /\ SubSeq(recv_buf, 1, FullPacketSize) \in Seq(Nat)
<1>1. Len(recv_buf) >= HeaderSize /\ FullPacketSize <= Len(recv_buf) /\ FullPacketSize <= MAX_PACKET_SIZE
  BY Sizes, ReceiveAssumption DEF Incomplete, OverSize, HeaderSize
<1>2. FullPacketSize \in HeaderSize..Len(recv_buf) /\ Len(recv_buf) \in Nat
  BY <1>1, Sizes DEF HeaderSize
<1>3. \A i \in 1..FullPacketSize : recv_buf[i] \in Nat
  BY <1>2, ElementOfSeq DEF TypeOK, HeaderSize
<1>4. SubSeq(recv_buf, 1, FullPacketSize) \in Seq(Nat)
  BY <1>2, <1>3, SubSeqProperties DEF HeaderSize
<1> QED
  BY <1>1, <1>2, <1>4


\* What a packet that is handled adds to handled.
LEMMA HandledGrows ==
    ASSUME TypeOK, handled \in Seq(Given), NEW w \in Workers, ParseHandled(w)
    PROVE  LET upto == taken - Len(recv_buf) + FullPacketSize IN
           /\ handled' \in Seq(Given) /\ Len(handled') = Len(handled) + 1
           /\ \A i \in DOMAIN handled : i \in DOMAIN handled' /\ handled'[i] = handled[i]
           /\ handled'[Len(handled) + 1] = [type |-> Packet0.type, values |-> Values(Packet0), upto |-> upto]
           /\ \A i \in DOMAIN handled' : \/ i \in DOMAIN handled /\ handled'[i] = handled[i]
                                         \/ handled'[i].upto = upto
<1> DEFINE upto == taken - Len(recv_buf) + FullPacketSize
           given == [type |-> Packet0.type, values |-> Values(Packet0), upto |-> upto]
<1>1. ~Incomplete /\ ~OverSize /\ handled' = Append(handled, given)
  BY DEF ParseHandled, Unusable
<1>2. /\ FullPacketSize \in HeaderSize..Len(recv_buf) /\ Len(recv_buf) \in Nat
      /\ SubSeq(recv_buf, 1, FullPacketSize) \in Seq(Nat)
  BY <1>1, WholePacket
<1>3. taken \in Nat /\ Len(recv_buf) <= taken
  BY Sizes
<1>4. upto \in Nat
  BY <1>2, <1>3 DEF HeaderSize
<1>5. given \in Given
  <2>1. Packet0 \in {Deserialise(b) : b \in Seq(Nat)}
    BY <1>2 DEF Packet0
  <2> QED
    BY <2>1, <1>4, SMTT(30) DEF Given
<1>6. given.upto = upto
  OBVIOUS
<1> HIDE DEF given
<1>7. /\ handled' \in Seq(Given) /\ Len(handled') = Len(handled) + 1 /\ handled'[Len(handled) + 1] = given
      /\ \A i \in 1..Len(handled) : handled'[i] = handled[i]
  BY <1>1, <1>5, AppendProperties
<1>8. /\ DOMAIN handled = 1..Len(handled) /\ DOMAIN handled' = 1..Len(handled) + 1
      /\ Len(handled) \in Nat
  BY <1>7, LenProperties
<1>9. \A i \in DOMAIN handled' : (i \in DOMAIN handled /\ handled'[i] = handled[i]) \/ handled'[i] = given
  BY <1>7, <1>8
<1> QED
  BY <1>6, <1>7, <1>8, <1>9 DEF given

\* Every step keeps Buffering.
LEMMA BufferingStep == TypeOK /\ OneReader /\ Buffering /\ [Next]_vars => Buffering'
<1> SUFFICES ASSUME TypeOK, OneReader, Buffering, [Next]_vars PROVE Buffering'
  OBVIOUS
<1>p. Places
  BY TypeSplit
<1>u. recv_buf' = recv_buf =>
        (Incomplete' <=> Incomplete) /\ (OverSize' <=> OverSize) /\ FullPacketSize' = FullPacketSize
  BY DEF Incomplete, OverSize, FullPacketSize
<1> USE <1>p, <1>u DEF Buffering, Places, Active, Held, Free
<1>1. ASSUME NEW w \in Workers, Wake(w) PROVE Buffering'
  BY <1>1 DEF Wake, Goto
<1>2. ASSUME NEW w \in Workers, Trigger(w) PROVE Buffering'
  <2>1. at[w] = "woken" /\ UNCHANGED <<peer, recv_buf, size>>
    BY <1>2 DEF Trigger
  <2>2. \E place \in {"idle", "loop", "sending"} : at' = [at EXCEPT ![w] = place]
    BY <1>2 DEF Trigger, Return, Goto
  <2> QED
    BY <2>1, <2>2
<1>3. ASSUME NEW w \in Workers, SendReturns(w) PROVE Buffering'
  BY <1>3 DEF SendReturns, Goto
<1>4. ASSUME NEW w \in Workers, LoopReturns(w) PROVE Buffering'
  BY <1>4 DEF LoopReturns, Return
<1>5. ASSUME NEW w \in Workers, NothingToRead(w) PROVE Buffering'
  <2>1. at[w] = "loop" /\ UNCHANGED <<peer, recv_buf, size>>
    BY <1>5 DEF NothingToRead
  <2>2. \E place \in {"idle", "enable"} : at' = [at EXCEPT ![w] = place]
    BY <1>5 DEF NothingToRead, Return, Goto
  <2> QED
    BY <2>1, <2>2
<1>6. ASSUME NEW w \in Workers, Read(w) PROVE Buffering'
  <2>1. Incomplete /\ \A v \in Workers : at[v] \notin Active
    BY <1>6, SoleReader DEF Read
  <2>2. CASE at' = [at EXCEPT ![w] = "parse"]
    BY <2>1, <2>2
  <2>3. CASE at' = [at EXCEPT ![w] = "loop"] /\ recv_buf' = recv_buf
    BY <2>1, <2>3
  <2> QED
    BY <1>6, <2>2, <2>3 DEF Read, Claim, Discard
<1>7. ASSUME NEW w \in Workers, ReadEnd(w) PROVE Buffering'
  <2>1. \A v \in Workers : at[v] \notin Active
    BY <1>7, SoleReader DEF ReadEnd
  <2> QED
    BY <1>7, <2>1 DEF ReadEnd, Claim
<1>8. ASSUME NEW w \in Workers, Enable(w) PROVE Buffering'
  BY <1>8 DEF Enable, Return
<1>9. ASSUME NEW w \in Workers, ParseMore(w) PROVE Buffering'
  <2>1. \A v \in Workers : at[v] # "handling"
    BY <1>9, SoleParser DEF ParseMore
  <2> QED
    BY <1>9, <2>1 DEF ParseMore, Goto
<1>10. ASSUME NEW w \in Workers, ParseBad(w) PROVE Buffering'
  BY <1>10 DEF ParseBad, Goto
<1>11. ASSUME NEW w \in Workers, ParseIgnored(w) PROVE Buffering'
  <2>1. \A v \in Workers : at[v] # "handling"
    BY <1>11, SoleParser DEF ParseIgnored
  <2> QED
    BY <1>11, <2>1 DEF ParseIgnored
<1>12. ASSUME NEW w \in Workers, ParseHandled(w) PROVE Buffering'
  <2>1. \A v \in Workers : at[v] # "handling"
    BY <1>12, SoleParser DEF ParseHandled
  <2>2. ~Incomplete /\ ~OverSize /\ size' = [size EXCEPT ![w] = FullPacketSize] /\ recv_buf' = recv_buf
    BY <1>12 DEF ParseHandled, Unusable
  <2>3. size'[w] = FullPacketSize /\ at' = [at EXCEPT ![w] = "handling"]
    BY <1>12, <2>2 DEF ParseHandled, Goto, TypeOK
  <2> QED
    BY <2>1, <2>2, <2>3
<1>13. ASSUME NEW w \in Workers, HandlerReturns(w) PROVE Buffering'
  <2>1. CASE peer = "gone"
    BY <1>13, <2>1 DEF HandlerReturns
  <2>2. CASE peer # "gone"
    <3>1. \A v \in Workers : at[v] = "handling" => v = w
      BY <1>13, <2>2 DEF HandlerReturns, OneReader
    <3>2. at' = [at EXCEPT ![w] = "parse"]
      BY <1>13, <2>2 DEF HandlerReturns, Goto
    <3> QED
      BY <3>1, <3>2
  <2> QED
    BY <2>1, <2>2
<1>14. ASSUME NEW w \in Workers, DestroyFlushes(w) PROVE Buffering'
  BY <1>14 DEF DestroyFlushes, Goto
<1>15. ASSUME NEW w \in Workers, DestroyIndicates(w) PROVE Buffering'
  <2>1. CASE Delete
    BY <2>1 DEF Delete
  <2>2. CASE peer = "open" /\ Goto(w, "indicating") /\ UNCHANGED <<recv_buf, size>>
    BY <2>2 DEF Goto
  <2> QED
    BY <1>15, <2>1, <2>2 DEF DestroyIndicates, Indicate
<1>16. ASSUME NEW w \in Workers, DestroyEnds(w) PROVE Buffering'
  BY <1>16 DEF DestroyEnds, Delete, Return
<1>17. ASSUME NEW w \in Workers, DestroyFinds(w) PROVE Buffering'
  BY <1>17 DEF DestroyFinds, Return
<1>18. ASSUME Arrive PROVE Buffering'
  BY <1>18 DEF Arrive
<1>19. ASSUME NEW how \in {"ended", "reset"}, RemoteEnds(how) PROVE Buffering'
  BY <1>19 DEF RemoteEnds
<1>20. ASSUME Nudge PROVE Buffering'
  BY <1>20 DEF Nudge
<1>21. ASSUME PeerShutdown PROVE Buffering'
  BY <1>21 DEF PeerShutdown, Closing
<1>22. ASSUME OtherIndicates PROVE Buffering'
  BY <1>22 DEF OtherIndicates, Closing
<1>23. ASSUME DestroyedByOther PROVE Buffering'
  BY <1>23 DEF DestroyedByOther, Delete
<1>24. ASSUME UNCHANGED vars PROVE Buffering'
  BY <1>24 DEF vars
<1> HIDE DEF Buffering, Places, Active, Held, Free
<1> QED
  BY <1>1, <1>2, <1>3, <1>4, <1>5, <1>6, <1>7, <1>8, <1>9, <1>10, <1>11, <1>12, <1>13, <1>14, <1>15, <1>16, <1>17, <1>18, <1>19, <1>20, <1>21, <1>22, <1>23, <1>24 DEF Next, Step, Ended

\* Every step keeps Reading.
LEMMA ReadingStep == TypeOK /\ OneReader /\ Buffering /\ Reading /\ [Next]_vars => Reading'
<1> SUFFICES ASSUME TypeOK, OneReader, Buffering, Reading, [Next]_vars PROVE Reading'
  OBVIOUS
<1>p. Places
  BY TypeSplit
<1>h. taken \in Nat /\ closingAt \in Nat /\ \A i \in DOMAIN handled : handled[i].upto \in Nat
  BY Sizes DEF TypeOK, Reading, Given
<1>m. taken \in Nat /\ Len(recv_buf) \in Nat /\ Len(recv_buf) <= taken
  BY Sizes
<1> USE <1>p, <1>h DEF Reading, LateDiscarded, Places, Held, Free
<1>1. ASSUME NEW w \in Workers, Wake(w) PROVE Reading'
  BY <1>1 DEF Wake, Goto
<1>2. ASSUME NEW w \in Workers, Trigger(w) PROVE Reading'
  <2>1. at[w] = "woken" /\ UNCHANGED <<peer, handled, taken, closingAt>>
    BY <1>2 DEF Trigger
  <2>2. \E place \in {"idle", "loop", "sending"} : at' = [at EXCEPT ![w] = place]
    BY <1>2 DEF Trigger, Return, Goto
  <2> QED
    BY <2>1, <2>2
<1>3. ASSUME NEW w \in Workers, SendReturns(w) PROVE Reading'
  BY <1>3 DEF SendReturns, Goto
<1>4. ASSUME NEW w \in Workers, LoopReturns(w) PROVE Reading'
  BY <1>4 DEF LoopReturns, Return
<1>5. ASSUME NEW w \in Workers, NothingToRead(w) PROVE Reading'
  <2>1. UNCHANGED <<peer, handled, taken, closingAt>>
    BY <1>5 DEF NothingToRead
  <2>2. \E place \in {"idle", "enable"} : at' = [at EXCEPT ![w] = place]
    BY <1>5 DEF NothingToRead, Return, Goto
  <2> QED
    BY <2>1, <2>2
<1>6. ASSUME NEW w \in Workers, Read(w) PROVE Reading'
  <2>1. at[w] = "loop" /\ \A v \in Workers : at[v] \notin Active
    BY <1>6, SoleReader DEF Read
  <2>2. UNCHANGED <<peer, handled, closingAt>> /\ taken' \in Nat /\ taken <= taken'
    BY <1>6, Sizes DEF Read, Least, TypeOK
  <2>3. peer = "closing" => at' = [at EXCEPT ![w] = "loop"]
    BY <1>6 DEF Read, Discards, Discard, Claim
  <2> QED
    BY <2>1, <2>2, <2>3 DEF Active
<1>7. ASSUME NEW w \in Workers, ReadEnd(w) PROVE Reading'
  BY <1>7 DEF ReadEnd, Claim
<1>8. ASSUME NEW w \in Workers, Enable(w) PROVE Reading'
  BY <1>8 DEF Enable, Return
<1>9. ASSUME NEW w \in Workers, ParseMore(w) PROVE Reading'
  BY <1>9 DEF ParseMore, Goto
<1>10. ASSUME NEW w \in Workers, ParseBad(w) PROVE Reading'
  BY <1>10 DEF ParseBad, Goto
<1>11. ASSUME NEW w \in Workers, ParseIgnored(w) PROVE Reading'
  BY <1>11 DEF ParseIgnored, Shift
<1>12. ASSUME NEW w \in Workers, ParseHandled(w) PROVE Reading'
  <2>1. ~Incomplete /\ ~OverSize /\ peer \in {"open", "closing"} /\ at[w] = "parse"
    BY <1>12, SoleParser DEF ParseHandled, Unusable, TypeOK
  <2>2. taken - Len(recv_buf) + FullPacketSize <= taken
    BY <2>1, <1>m, WholePacket
  <2>3. /\ handled' \in Seq(Given)
        /\ \A i \in DOMAIN handled' : \/ i \in DOMAIN handled /\ handled'[i] = handled[i]
                                      \/ handled'[i].upto = taken - Len(recv_buf) + FullPacketSize
    BY <1>12, HandledGrows
  <2>4. UNCHANGED <<peer, taken, closingAt>>
    BY <1>12 DEF ParseHandled
  <2>5. at' = [at EXCEPT ![w] = "handling"]
    BY <1>12 DEF ParseHandled, Goto
  <2> QED
    BY <2>1, <2>2, <2>3, <2>4, <2>5
<1>13. ASSUME NEW w \in Workers, HandlerReturns(w) PROVE Reading'
  <2>1. at[w] = "handling" /\ UNCHANGED <<peer, handled, taken, closingAt>>
    BY <1>13 DEF HandlerReturns
  <2>2. \E place \in {"idle", "parse"} : at' = [at EXCEPT ![w] = place]
    BY <1>13 DEF HandlerReturns, Return, Goto
  <2> QED
    BY <2>1, <2>2
<1>14. ASSUME NEW w \in Workers, DestroyFlushes(w) PROVE Reading'
  BY <1>14 DEF DestroyFlushes, Goto
<1>15. ASSUME NEW w \in Workers, DestroyIndicates(w) PROVE Reading'
  <2>1. CASE Delete
    BY <2>1 DEF Delete
  <2>2. CASE peer = "open" /\ Closing /\ UNCHANGED <<taken, handled>>
    BY <2>2 DEF Closing
  <2> QED
    BY <1>15, <2>1, <2>2 DEF DestroyIndicates, Indicate
<1>16. ASSUME NEW w \in Workers, DestroyEnds(w) PROVE Reading'
  BY <1>16 DEF DestroyEnds, Delete, Return
<1>17. ASSUME NEW w \in Workers, DestroyFinds(w) PROVE Reading'
  BY <1>17 DEF DestroyFinds, Return
<1>18. ASSUME Arrive PROVE Reading'
  BY <1>18 DEF Arrive
<1>19. ASSUME NEW how \in {"ended", "reset"}, RemoteEnds(how) PROVE Reading'
  BY <1>19 DEF RemoteEnds
<1>20. ASSUME Nudge PROVE Reading'
  BY <1>20 DEF Nudge
<1>21. ASSUME PeerShutdown PROVE Reading'
  BY <1>21 DEF PeerShutdown, Closing
<1>22. ASSUME OtherIndicates PROVE Reading'
  BY <1>22 DEF OtherIndicates, Closing
<1>23. ASSUME DestroyedByOther PROVE Reading'
  BY <1>23 DEF DestroyedByOther, Delete
<1>24. ASSUME UNCHANGED vars PROVE Reading'
  BY <1>24 DEF vars
<1> HIDE DEF Reading, LateDiscarded, Places, Held, Free
<1> QED
  BY <1>1, <1>2, <1>3, <1>4, <1>5, <1>6, <1>7, <1>8, <1>9, <1>10, <1>11, <1>12, <1>13, <1>14, <1>15, <1>16, <1>17, <1>18, <1>19, <1>20, <1>21, <1>22, <1>23, <1>24 DEF Next, Step, Ended

\* The part of the invariant that the meaning of packets has no part in.
LEMMA ReadInvStep == ReadInv /\ [Next]_vars => ReadInv'
BY TypeStep, TypeSplit, OneReaderStep, BufferingStep, ReadingStep DEF ReadInv

\* Before anything has arrived.
LEMMA ReadInvInit == Init => ReadInv
<1> SUFFICES ASSUME Init PROVE ReadInv
  OBVIOUS
<1>1. TypeOK
  <2>1. Wire \in Seq(Nat) /\ Len(Wire) \in Nat
    BY StreamsAssumption, LenProperties DEF Init, Wire
  <2>2. recv_buf \in Seq(Nat) /\ Len(recv_buf) = 0
    BY EmptySeq DEF Init
  <2>3. Places
    BY ReceiveAssumption DEF Init, Places
  <2>4. Counts
    <3>1. recv_busy \in BOOLEAN /\ selected \in BOOLEAN /\ event \in BOOLEAN
      BY DEF Init
    <3>2. size \in [Workers -> 0..MAX_PACKET_SIZE]
      BY ReceiveAssumption DEF Init
    <3>3. /\ stream \in Streams /\ arrived = 0 /\ remote = "open" /\ taken = 0
          /\ peer = "open" /\ closingAt = 0 /\ lostBy = None
      BY DEF Init
    <3> QED
      BY <2>1, <2>2, <3>1, <3>2, <3>3, ReceiveAssumption DEF Counts, Least
  <2> QED
    BY <2>3, <2>4, TypeSplit
<1>2. OneReader
  BY DEF Init, OneReader, Active
<1>3. Incomplete
  BY EmptySeq DEF Init, Incomplete, HeaderSize
<1>4. Buffering
  BY <1>3 DEF Init, Buffering
<1>5. Reading
  <2>1. handled \in Seq(Given) /\ DOMAIN handled = {}
    BY EmptySeq DEF Init
  <2> QED
    BY <2>1 DEF Init, Reading, LateDiscarded
<1> QED
  BY <1>1, <1>2, <1>4, <1>5 DEF ReadInv

\* One reader at a time, whatever the streams, the number of workers and the
\* largest packet: io_peer_recv() with recv_busy, rb_claimed and the lock.
THEOREM ReadInvariant == Spec => []ReadInv
<1> QED
  BY ReadInvInit, ReadInvStep, PTL DEF Spec

\* Type correctness of the receiving side.
THEOREM ReceiveTypeOK == Spec => []TypeOK
<1>1. ReadInv => TypeOK
  BY DEF ReadInv
<1> QED
  BY <1>1, ReadInvariant, PTL

\* What a closing peer sends is discarded (PS_CLOSING in io_peer_recv()).
THEOREM LateIsDiscarded == Spec => []LateDiscarded
<1>1. ReadInv => LateDiscarded
  BY DEF ReadInv, Reading
<1> QED
  BY <1>1, ReadInvariant, PTL

-------------------------------------------------------------------------------
\* The packets of the stream tile it.
LEMMA StreamFacts ==
    ASSUME TypeOK
    PROVE  /\ Wire \in Seq(Nat) /\ Len(Wire) \in Nat
           /\ Len(stream.packets) \in Nat /\ DOMAIN stream.packets = 1..Len(stream.packets)
           /\ Start(stream, Len(stream.packets) + 1) = Len(Wire)
           /\ \A k \in 1..Len(stream.packets) + 1 : Start(stream, k) \in 0..Len(Wire)
           /\ \A k \in 1..Len(stream.packets) :
                 /\ stream.packets[k].upto \in Start(stream, k) + HeaderSize..Len(Wire)
                 /\ stream.packets[k].upto = Start(stream, k) + HeaderSize + Wire[Start(stream, k) + 2]
                 /\ stream.packets[k].upto = Start(stream, k + 1)
                 /\ \A j \in 1..k - 1 : stream.packets[j].upto < stream.packets[k].upto
                 /\ stream.packets[k].bad => k = Len(stream.packets) /\ stream.packets[k].means = <<>>
<1>1. stream \in Streams
  BY DEF TypeOK
<1>2. stream.packets \in Seq(Packets) /\ Wire \in Seq(Nat)
  BY <1>1, StreamsAssumption DEF Wire
<1>3. /\ Len(stream.packets) \in Nat /\ DOMAIN stream.packets = 1..Len(stream.packets)
      /\ Len(Wire) \in Nat /\ DOMAIN Wire = 1..Len(Wire)
  BY <1>2, LenProperties
<1>4. \A k \in 1..Len(stream.packets) : stream.packets[k].upto \in Nat
  <2>1. \A k \in 1..Len(stream.packets) : stream.packets[k] \in Packets
    BY <1>2, ElementOfSeq
  <2> QED
    BY <2>1 DEF Packets
<1>5. \A k \in 1..Len(stream.packets) : stream.packets[k].upto <= Len(Wire)
  BY <1>1, <1>3, StreamsAssumption DEF Wire
<1>6. \A k \in 1..Len(stream.packets) + 1 : Start(stream, k) \in 0..Len(Wire)
  BY <1>3, <1>4, <1>5 DEF Start
<1>7. ASSUME NEW k \in 1..Len(stream.packets)
      PROVE  /\ stream.packets[k].upto \in Start(stream, k) + HeaderSize..Len(Wire)
             /\ stream.packets[k].upto = Start(stream, k + 1)
  <2>1. Start(stream, k) + HeaderSize <= Len(Wire) /\ Start(stream, k) \in Nat
    BY <1>1, <1>3, <1>6, StreamsAssumption DEF Wire
  <2>2. Wire[Start(stream, k) + 2] \in Nat
    BY <2>1, <1>2, <1>3, ElementOfSeq DEF HeaderSize
  <2>3. stream.packets[k].upto = Start(stream, k) + HeaderSize + Wire[Start(stream, k) + 2]
    BY <1>1, <1>3, StreamsAssumption DEF Wire
  <2>4. stream.packets[k].upto = Start(stream, k + 1)
    BY <1>3 DEF Start
  <2> QED
    BY <2>1, <2>2, <2>3, <2>4, <1>4, <1>5 DEF HeaderSize
<1>8. Start(stream, Len(stream.packets) + 1) = Len(Wire)
  BY <1>1, StreamsAssumption DEF Wire
<1>9. \A k \in 1..Len(stream.packets) :
        /\ stream.packets[k].upto = Start(stream, k) + HeaderSize + Wire[Start(stream, k) + 2]
        /\ \A j \in 1..k - 1 : stream.packets[j].upto < stream.packets[k].upto
        /\ stream.packets[k].bad => k = Len(stream.packets) /\ stream.packets[k].means = <<>>
  BY <1>1, <1>3, StreamsAssumption DEF Wire
<1> QED
  BY <1>2, <1>3, <1>6, <1>7, <1>8, <1>9

\* A part of a part of a sequence, empty ones included.
LEMMA SubSubSeq ==
    ASSUME NEW wire \in Seq(Nat), NEW a \in Nat, NEW b \in Nat, a <= b, b <= Len(wire),
           NEW m \in Nat, NEW n \in Nat, m <= n, n <= b - a
    PROVE  SubSeq(SubSeq(wire, a + 1, b), m + 1, n) = SubSeq(wire, a + m + 1, a + n)
<1> DEFINE inner == SubSeq(wire, a + 1, b)
           left == SubSeq(inner, m + 1, n)
           right == SubSeq(wire, a + m + 1, a + n)
<1>0. Len(wire) \in Nat
  BY LenProperties
<1>1. \A i \in a + 1..b : wire[i] \in Nat
  BY <1>0, ElementOfSeq
<1>2. /\ inner \in Seq(Nat) /\ Len(inner) = b - a
      /\ \A i \in 1..b - a : inner[i] = wire[a + i]
  BY <1>1, SubSeqProperties
<1> HIDE DEF inner
<1>3. \A i \in m + 1..n : inner[i] \in Nat
  BY <1>2, ElementOfSeq
<1>4. /\ left \in Seq(Nat) /\ Len(left) = n - m
      /\ \A i \in 1..n - m : left[i] = inner[m + i]
  BY <1>3, SubSeqProperties
<1>5. \A i \in a + m + 1..a + n : wire[i] \in Nat
  BY <1>1
<1>6. /\ right \in Seq(Nat) /\ Len(right) = n - m
      /\ \A i \in 1..n - m : right[i] = wire[a + m + i]
  BY <1>5, SubSeqProperties
<1> HIDE DEF left, right
<1>7. \A i \in 1..n - m : left[i] = right[i]
  BY <1>2, <1>4, <1>6
<1>8. left = right
  BY <1>4, <1>6, <1>7, SeqEqual
<1> QED
  BY <1>8 DEF left, right, inner

\* When recv_buf begins with packet k, what io_peer_recv() takes for the packet is the packet.
LEMMA FramedPacket ==
    ASSUME TypeOK, NEW k \in 1..Len(stream.packets) + 1, Framed(k), ~Incomplete
    PROVE  /\ k \in 1..Len(stream.packets)
           /\ Start(stream, k) + FullPacketSize = stream.packets[k].upto
           /\ taken - Len(recv_buf) = Start(stream, k)
           /\ ~OverSize => /\ SubSeq(recv_buf, 1, FullPacketSize) =
                                  SubSeq(Wire, Start(stream, k) + 1, stream.packets[k].upto)
                           /\ SubSeq(recv_buf, FullPacketSize + 1, Len(recv_buf)) =
                                  SubSeq(Wire, stream.packets[k].upto + 1, taken)
<1> DEFINE s == Start(stream, k)
<1>1. /\ Len(recv_buf) \in Nat /\ taken \in Nat /\ taken <= Len(Wire) /\ s \in 0..Len(Wire)
      /\ Wire \in Seq(Nat) /\ Len(Wire) \in Nat /\ Len(stream.packets) \in Nat
  <2>1. taken <= Len(Wire)
    BY Sizes, StreamFacts DEF TypeOK
  <2> QED
    BY <2>1, Sizes, StreamFacts
<1>2. taken - Len(recv_buf) = s /\ recv_buf = SubSeq(Wire, s + 1, taken)
  BY DEF Framed
<1>3. Len(recv_buf) >= HeaderSize
  BY <1>1 DEF Incomplete, HeaderSize
<1>4. k \in 1..Len(stream.packets)
  <2>1. CASE k = Len(stream.packets) + 1
    <3>1. s = Len(Wire)
      BY <2>1, StreamFacts
    <3> QED
      BY <3>1, <1>1, <1>2, <1>3 DEF HeaderSize
  <2> QED
    BY <2>1, <1>1
<1>5. recv_buf[2] = Wire[s + 2]
  <2>1. \A i \in s + 1..taken : Wire[i] \in Nat
    BY <1>1, ElementOfSeq, SMTT(30)
  <2>2. \A i \in 1..taken - s : SubSeq(Wire, s + 1, taken)[i] = Wire[s + i]
    BY <2>1, <1>1, SubSeqProperties, SMTT(30)
  <2>3. 2 \in 1..taken - s
    BY <1>1, <1>2, <1>3 DEF HeaderSize
  <2> QED
    BY <2>2, <2>3, <1>2
<1>6. /\ stream.packets[k].upto = s + HeaderSize + Wire[s + 2]
      /\ stream.packets[k].upto \in s + HeaderSize..Len(Wire)
  BY <1>4, StreamFacts
<1>7. FullPacketSize \in Nat
  BY <1>3, Sizes
<1>8. s + FullPacketSize = stream.packets[k].upto
  <2> HIDE DEF s
  <2>1. s + 2 \in 1..Len(Wire)
    BY <1>1, <1>2, <1>3 DEF HeaderSize
  <2>2. Wire[s + 2] \in Nat
    BY <1>1, <2>1, ElementOfSeq
  <2>3. FullPacketSize = HeaderSize + Wire[s + 2]
    BY <1>5 DEF FullPacketSize
  <2> QED
    <3>1. s \in Nat
      BY <1>1
    <3>2. stream.packets[k].upto = s + (HeaderSize + Wire[s + 2])
      BY <1>6, <2>2, <3>1 DEF HeaderSize
    <3> QED
      BY <2>3, <3>2, Zenon
<1>9. ASSUME ~OverSize
      PROVE  /\ SubSeq(recv_buf, 1, FullPacketSize) = SubSeq(Wire, s + 1, s + FullPacketSize)
             /\ SubSeq(recv_buf, FullPacketSize + 1, Len(recv_buf)) = SubSeq(Wire, s + FullPacketSize + 1, taken)
  <2>1. FullPacketSize <= Len(recv_buf) /\ Len(recv_buf) = taken - s
    BY <1>1, <1>2, <1>9, WholePacket DEF HeaderSize
  <2> HIDE DEF s
  <2>2. SubSeq(SubSeq(Wire, s + 1, taken), 0 + 1, FullPacketSize) = SubSeq(Wire, s + 0 + 1, s + FullPacketSize)
    BY <1>1, <1>7, <2>1, SubSubSeq
  <2>3. SubSeq(SubSeq(Wire, s + 1, taken), FullPacketSize + 1, taken - s) = SubSeq(Wire, s + FullPacketSize + 1, s + (taken - s))
    BY <1>1, <1>7, <2>1, SubSubSeq
  <2>4. 0 + 1 = 1 /\ s + 0 + 1 = s + 1 /\ s + (taken - s) = taken
    BY <1>1
  <2> QED
    BY <1>2, <2>1, <2>2, <2>3, <2>4
<1> QED
  BY <1>1, <1>2, <1>4, <1>8, <1>9

\* While a worker parses or handles, nothing has been thrown away.
LEMMA ParserIsLive ==
    ASSUME TypeOK, OneReader, Reading, peer # "gone", NEW w \in Workers, at[w] \in {"parse", "handling"}
    PROVE  Live
BY DEF TypeOK, Reading, Live

\* What the packet in front of recv_buf means is what the handlers will make of it.
LEMMA PacketMeaning ==
    ASSUME PacketsRead, TypeOK, NEW k \in 1..Len(stream.packets) + 1, Framed(k), ~Incomplete
    PROVE  /\ Unusable <=> stream.packets[k].bad
           /\ ~Unusable => stream.packets[k].means =
                  IF Accepted(Packet0) THEN <<[type |-> Packet0.type, values |-> Values(Packet0)]>> ELSE <<>>
<1> DEFINE packet == stream.packets[k]
           pd == Deserialise(SubSeq(Wire, Start(stream, k) + 1, packet.upto))
<1>1. /\ k \in DOMAIN stream.packets /\ packet.upto = Start(stream, k) + FullPacketSize
      /\ Start(stream, k) \in Nat
  BY FramedPacket, StreamFacts
<1>2. ~OverSize => Packet0 = pd
  BY FramedPacket DEF Packet0
<1>3. /\ packet.bad <=> packet.upto - Start(stream, k) > MAX_PACKET_SIZE \/ pd.error # "none"
      /\ ~packet.bad => packet.means =
            IF Accepted(pd) THEN <<[type |-> pd.type, values |-> Values(pd)]>> ELSE <<>>
  BY <1>1 DEF PacketsRead, TypeOK, Wire
<1>4. FullPacketSize \in Nat
  <2>1. Len(recv_buf) >= HeaderSize
    BY Sizes DEF Incomplete, HeaderSize
  <2> QED
    BY <2>1, Sizes
<1>5. OverSize <=> packet.upto - Start(stream, k) > MAX_PACKET_SIZE
  BY <1>1, <1>4, ReceiveAssumption DEF OverSize
<1> HIDE DEF pd
<1>6. CASE OverSize
  BY <1>3, <1>5, <1>6 DEF Unusable
<1>7. CASE ~OverSize
  BY <1>2, <1>3, <1>5, <1>7 DEF Unusable
<1> QED
  BY <1>6, <1>7

\* The buffer after the packet in front of it is removed.
LEMMA FrameMoves ==
    ASSUME TypeOK, NEW k \in 1..Len(stream.packets) + 1, Framed(k), ~Incomplete, ~OverSize,
           Shift(FullPacketSize), UNCHANGED <<stream, taken>>
    PROVE  /\ k + 1 \in 1..Len(stream'.packets) + 1
           /\ taken' - Len(recv_buf') = Start(stream', k + 1)
           /\ recv_buf' = SubSeq(Wire', Start(stream', k + 1) + 1, taken')
<1>1. /\ k \in 1..Len(stream.packets) /\ Start(stream, k) + FullPacketSize = stream.packets[k].upto
      /\ taken - Len(recv_buf) = Start(stream, k)
      /\ SubSeq(recv_buf, FullPacketSize + 1, Len(recv_buf)) = SubSeq(Wire, stream.packets[k].upto + 1, taken)
  BY FramedPacket
<1>2. Start(stream, k + 1) = stream.packets[k].upto /\ Len(stream.packets) \in Nat
  BY <1>1, StreamFacts
<1>3. FullPacketSize \in Nat /\ FullPacketSize <= Len(recv_buf) /\ Len(recv_buf) \in Nat /\ taken \in Nat
  BY WholePacket, Sizes DEF HeaderSize
<1>4. Len(recv_buf') = Len(recv_buf) - FullPacketSize
  BY <1>3, Shifted
<1>5. taken' - Len(recv_buf') = Start(stream', k + 1)
  BY <1>1, <1>2, <1>3, <1>4
<1>6. recv_buf' = SubSeq(Wire', Start(stream', k + 1) + 1, taken')
  BY <1>1, <1>2 DEF Shift, Wire
<1>7. k + 1 \in 1..Len(stream'.packets) + 1
  BY <1>1, <1>2
<1> QED
  BY <1>5, <1>6, <1>7

\* Packets that were handled stay so.
LEMMA HandledBeforeGrows ==
    ASSUME PacketsRead, TypeOK, handled \in Seq(Given), NEW k \in 1..Len(stream.packets) + 1, Framed(k),
           HandledBefore(k), NEW w \in Workers, ParseHandled(w)
    PROVE  /\ k \in 1..Len(stream.packets) /\ HandledBefore(k + 1)'
           /\ handled'[Len(handled) + 1].upto = stream.packets[k].upto
           /\ stream.packets[k].means = <<[type |-> handled'[Len(handled) + 1].type,
                                           values |-> handled'[Len(handled) + 1].values]>>
<1> DEFINE new == handled'[Len(handled) + 1]
<1>1. ~Incomplete /\ ~Unusable /\ ~OverSize /\ Accepted(Packet0) /\ UNCHANGED stream
  BY DEF ParseHandled, Unusable, netvars
<1>2. /\ k \in 1..Len(stream.packets) /\ taken - Len(recv_buf) + FullPacketSize = stream.packets[k].upto
      /\ Len(stream.packets) \in Nat
  BY <1>1, FramedPacket, StreamFacts
<1>3. new = [type |-> Packet0.type, values |-> Values(Packet0), upto |-> taken - Len(recv_buf) + FullPacketSize]
  BY HandledGrows
<1>4. stream.packets[k].means = <<[type |-> Packet0.type, values |-> Values(Packet0)]>>
  BY <1>1, PacketMeaning
<1>5. new.upto = stream.packets[k].upto /\ stream.packets[k].means = <<[type |-> new.type, values |-> new.values]>>
  BY <1>2, <1>3, <1>4
<1>6. /\ DOMAIN handled' = 1..Len(handled) + 1 /\ DOMAIN handled = 1..Len(handled) /\ Len(handled) \in Nat
      /\ \A i \in DOMAIN handled : i \in DOMAIN handled' /\ handled'[i] = handled[i]
  <2>1. /\ handled' \in Seq(Given) /\ Len(handled') = Len(handled) + 1
        /\ \A i \in DOMAIN handled : i \in DOMAIN handled' /\ handled'[i] = handled[i]
    BY HandledGrows
  <2> QED
    BY <2>1, LenProperties
<1> HIDE DEF new
<1>7. ASSUME NEW i \in DOMAIN handled'
      PROVE  \E j \in 1..k : /\ handled'[i].upto = stream.packets[j].upto
                             /\ stream.packets[j].means = <<[type |-> handled'[i].type, values |-> handled'[i].values]>>
  <2>1. CASE i \in DOMAIN handled
    <3>1. PICK j \in 1..k - 1 :
              /\ handled[i].upto = stream.packets[j].upto
              /\ stream.packets[j].means = <<[type |-> handled[i].type, values |-> handled[i].values]>>
      BY <2>1 DEF HandledBefore
    <3> QED
      BY <2>1, <3>1, <1>6
  <2>2. CASE i = Len(handled) + 1
    <3>1. handled'[i] = new
      BY <2>2 DEF new
    <3> QED
      BY <3>1, <1>5
  <2> QED
    BY <2>1, <2>2, <1>6
<1>8. ASSUME NEW j \in 1..k, stream.packets[j].means # <<>>
      PROVE  \E i \in DOMAIN handled' : handled'[i].upto = stream.packets[j].upto
  <2>1. CASE j = k
    BY <2>1, <1>5, <1>6 DEF new
  <2>2. CASE j \in 1..k - 1
    <3>1. PICK i \in DOMAIN handled : handled[i].upto = stream.packets[j].upto
      BY <1>8, <2>2 DEF HandledBefore, WasHandled
    <3> QED
      BY <3>1, <1>6
  <2> QED
    BY <2>1, <2>2
<1>9. (k + 1) - 1 = k
  OBVIOUS
<1>10. HandledBefore(k + 1)'
  BY <1>1, <1>7, <1>8, <1>9 DEF HandledBefore, WasHandled
<1> QED
  BY <1>2, <1>5, <1>10 DEF new

\* Steps that leave the buffer and the handlers alone.
LEMMA FramingSame ==
    ASSUME Framing, UNCHANGED <<stream, taken, recv_buf, handled>>, Live' => Live, InHandler' <=> InHandler
    PROVE  Framing'
<1>1. \A k : Framed(k) => Framed(k)'
  BY DEF Framed, HandledBefore, WasHandled, Wire, Start
<1> QED
  BY <1>1 DEF Framing

\* Every step keeps Framing.
LEMMA FramingStep == PacketsRead /\ ReadInv /\ Framing /\ [Next]_vars => Framing'
<1> SUFFICES ASSUME PacketsRead, ReadInv, Framing, [Next]_vars PROVE Framing'
  OBVIOUS
<1>t. TypeOK /\ OneReader /\ Buffering /\ Reading
  BY DEF ReadInv
<1>p. Places
  BY <1>t, TypeSplit
<1> USE <1>p, <1>t DEF netvars, Live, InHandler, Places, Held, Free
<1>e. ASSUME UNCHANGED <<stream, taken, recv_buf, handled>>, Live' => Live, InHandler' <=> InHandler
      PROVE  Framing'
  BY <1>e, FramingSame
<1>g. peer' = "gone" => Framing'
  BY DEF Framing
<1>1. ASSUME NEW w \in Workers, Wake(w) PROVE Framing'
  BY <1>1, <1>e DEF Wake, Goto
<1>2. ASSUME NEW w \in Workers, Trigger(w) PROVE Framing'
  <2>1. at[w] = "woken" /\ UNCHANGED <<peer, stream, taken, recv_buf, handled, closingAt>>
    BY <1>2 DEF Trigger
  <2>2. \E place \in {"idle", "loop", "sending"} : at' = [at EXCEPT ![w] = place]
    BY <1>2 DEF Trigger, Return, Goto
  <2>3. InHandler' <=> InHandler
    BY <2>1, <2>2
  <2> QED
    BY <2>1, <2>3, <1>e
<1>3. ASSUME NEW w \in Workers, SendReturns(w) PROVE Framing'
  BY <1>3, <1>e DEF SendReturns, Goto
<1>4. ASSUME NEW w \in Workers, LoopReturns(w) PROVE Framing'
  BY <1>4, <1>e DEF LoopReturns, Return
<1>5. ASSUME NEW w \in Workers, NothingToRead(w) PROVE Framing'
  <2>1. at[w] = "loop" /\ UNCHANGED <<peer, stream, taken, recv_buf, handled, closingAt>>
    BY <1>5 DEF NothingToRead
  <2>2. \E place \in {"idle", "enable"} : at' = [at EXCEPT ![w] = place]
    BY <1>5 DEF NothingToRead, Return, Goto
  <2>3. InHandler' <=> InHandler
    BY <2>1, <2>2
  <2> QED
    BY <2>1, <2>3, <1>e
<1>6. ASSUME NEW w \in Workers, Read(w) PROVE Framing'
  <2>1. at[w] = "loop" /\ (\A v \in Workers : at[v] \notin Active) /\ peer # "gone"
    BY <1>6, <1>t, SoleReader DEF Read, MayRead
  <2>2. InHandler' <=> InHandler
    BY <1>6, <2>1 DEF Read, Claim, Discard, Active
  <2>3. PICK r \in Nat : r > 0 /\ taken' = taken + r /\ taken + r <= arrived
    <3>1. Room \in Nat /\ Readable \in Nat /\ taken \in Nat /\ arrived \in Nat
      BY <1>t, Sizes DEF TypeOK
    <3> QED
      BY <1>6, <3>1 DEF Read, Least, Readable
  <2>4. taken \in Nat /\ closingAt \in Nat /\ closingAt <= taken /\ arrived <= Len(Wire) /\ arrived \in Nat
    BY <1>t, Sizes DEF TypeOK
  <2>5. CASE peer = "closing"
    <3>1. ~Live'
      BY <1>6, <2>3, <2>4, <2>5 DEF Read
    <3> QED
      BY <3>1 DEF Framing
  <2>6. CASE peer = "open"
    <3>1. PICK k \in 1..Len(stream.packets) + 1 : Framed(k)
      BY <2>6 DEF Framing
    <3>2. recv_buf' = recv_buf \o SubSeq(Wire, taken + 1, taken') /\ UNCHANGED <<stream, handled>>
      BY <1>6, <2>6 DEF Read, Discards
    <3>3. Start(stream, k) \in 0..Len(Wire) /\ Wire \in Seq(Nat) /\ Len(Wire) \in Nat
      BY <1>t, StreamFacts
    <3>4. recv_buf = SubSeq(Wire, Start(stream, k) + 1, taken) /\ taken - Len(recv_buf) = Start(stream, k)
      BY <3>1 DEF Framed
    <3>5. Len(recv_buf) \in Nat /\ Start(stream, k) <= taken
      BY <1>t, <3>3, <3>4, Sizes
    <3>6. recv_buf' = SubSeq(Wire, Start(stream, k) + 1, taken')
      <4>1. /\ Start(stream, k) + 1 \in 1..Len(Wire) + 1 /\ taken \in (Start(stream, k) + 1) - 1..Len(Wire)
            /\ taken' \in taken..Len(Wire)
        BY <2>3, <2>4, <3>3, <3>5
      <4> QED
        BY <3>2, <3>3, <3>4, <4>1, ConcatAdjacentSubSeq
    <3>7. Len(recv_buf') = Len(recv_buf) + r
      BY <1>t, <2>3, <3>2, Appended
    <3>8. taken' - Len(recv_buf') = Start(stream, k)
      <4>1. taken - Len(recv_buf) = Start(stream, k)
        BY <3>4
      <4> QED
        BY <2>3, <2>4, <3>3, <3>5, <3>7, <4>1
    <3>9. HandledBefore(IF InHandler THEN k + 1 ELSE k)'
      BY <2>2, <3>1, <3>2 DEF Framed, HandledBefore, WasHandled
    <3>10. Framed(k)'
      BY <3>2, <3>6, <3>8, <3>9 DEF Framed, Wire, Start
    <3> QED
      BY <3>2, <3>10 DEF Framing
  <2> QED
    BY <2>1, <2>5, <2>6 DEF TypeOK
<1>7. ASSUME NEW w \in Workers, ReadEnd(w) PROVE Framing'
  BY <1>7, <1>e DEF ReadEnd, Claim
<1>8. ASSUME NEW w \in Workers, Enable(w) PROVE Framing'
  BY <1>8, <1>e DEF Enable, Return
<1>9. ASSUME NEW w \in Workers, ParseMore(w) PROVE Framing'
  BY <1>9, <1>e DEF ParseMore, Goto
<1>10. ASSUME NEW w \in Workers, ParseBad(w) PROVE Framing'
  BY <1>10, <1>e DEF ParseBad, Goto
<1>11. ASSUME NEW w \in Workers, ParseIgnored(w) PROVE Framing'
  <2>1. Live /\ ~InHandler
    BY <1>11, <1>t, SoleParser, ParserIsLive DEF ParseIgnored
  <2>2. PICK k \in 1..Len(stream.packets) + 1 : Framed(k)
    BY <2>1 DEF Framing
  <2>3. ~Incomplete /\ ~Unusable /\ ~OverSize /\ ~Accepted(Packet0) /\ Shift(FullPacketSize)
    BY <1>11 DEF ParseIgnored, Unusable
  <2>4. UNCHANGED <<stream, taken, handled, at>>
    BY <1>11 DEF ParseIgnored
  <2>5. /\ k + 1 \in 1..Len(stream'.packets) + 1 /\ taken' - Len(recv_buf') = Start(stream', k + 1)
        /\ recv_buf' = SubSeq(Wire', Start(stream', k + 1) + 1, taken')
    BY <1>t, <2>2, <2>3, <2>4, FrameMoves
  <2>6. stream.packets[k].means = <<>>
    BY <1>t, <2>2, <2>3, PacketMeaning
  <2>7. HandledBefore(k)
    BY <2>1, <2>2 DEF Framed
  <2>8. HandledBefore(k + 1)'
    <3>1. k \in Nat /\ (k + 1) - 1 = k /\ \A j \in 1..k : j = k \/ j \in 1..k - 1
      BY <1>t, StreamFacts
    <3>2. 1..k - 1 \subseteq 1..k
      BY <3>1
    <3>3. \A j \in 1..k : stream'.packets[j].means # <<>> => WasHandled(j)'
      BY <2>4, <2>6, <2>7, <3>1 DEF HandledBefore, WasHandled
    <3>4. \A i \in DOMAIN handled' : \E j \in 1..k :
            /\ handled'[i].upto = stream'.packets[j].upto
            /\ stream'.packets[j].means = <<[type |-> handled'[i].type, values |-> handled'[i].values]>>
      BY <2>4, <2>7, <3>2 DEF HandledBefore
    <3> QED
      BY <3>1, <3>3, <3>4 DEF HandledBefore
  <2>9. Framed(k + 1)'
    BY <2>1, <2>4, <2>5, <2>8 DEF Framed
  <2> QED
    BY <2>5, <2>9 DEF Framing
<1>12. ASSUME NEW w \in Workers, ParseHandled(w) PROVE Framing'
  <2>1. Live /\ ~InHandler
    BY <1>12, <1>t, SoleParser, ParserIsLive DEF ParseHandled
  <2>2. PICK k \in 1..Len(stream.packets) + 1 : Framed(k)
    BY <2>1 DEF Framing
  <2>3. HandledBefore(k)
    BY <2>1, <2>2 DEF Framed
  <2>4. HandledBefore(k + 1)'
    BY <1>12, <1>t, <2>2, <2>3, HandledBeforeGrows DEF Reading
  <2>5. UNCHANGED <<stream, taken, recv_buf>> /\ at' = [at EXCEPT ![w] = "handling"]
    BY <1>12 DEF ParseHandled, Goto
  <2>6. InHandler'
    BY <2>5
  <2>7. Framed(k)'
    BY <2>2, <2>4, <2>5, <2>6 DEF Framed, Wire, Start
  <2> QED
    BY <2>5, <2>7 DEF Framing
<1>13. ASSUME NEW w \in Workers, HandlerReturns(w) PROVE Framing'
  <2>1. CASE peer = "gone"
    <3>1. ~Live'
      BY <1>13, <2>1 DEF HandlerReturns
    <3> QED
      BY <3>1 DEF Framing
  <2>2. CASE peer # "gone"
    <3>1. at[w] = "handling" /\ at' = [at EXCEPT ![w] = "parse"] /\ Shift(size[w]) /\ UNCHANGED <<stream, taken, handled>>
      BY <1>13, <2>2 DEF HandlerReturns, Goto
    <3>2. ~Incomplete /\ ~OverSize /\ Shift(FullPacketSize)
      BY <1>t, <2>2, <3>1 DEF Buffering
    <3>3. Live /\ InHandler
      BY <1>t, <2>2, <3>1, ParserIsLive
    <3>4. PICK k \in 1..Len(stream.packets) + 1 : Framed(k)
      BY <3>3 DEF Framing
    <3>5. HandledBefore(k + 1)
      BY <3>3, <3>4 DEF Framed
    <3>6. ~InHandler'
      BY <1>t, <2>2, <3>1 DEF OneReader, Active
    <3>7. /\ k + 1 \in 1..Len(stream'.packets) + 1 /\ taken' - Len(recv_buf') = Start(stream', k + 1)
          /\ recv_buf' = SubSeq(Wire', Start(stream', k + 1) + 1, taken')
      BY <1>t, <3>1, <3>2, <3>4, FrameMoves
    <3>8. HandledBefore(k + 1)'
      BY <3>1, <3>5 DEF HandledBefore, WasHandled
    <3>9. Framed(k + 1)'
      BY <3>6, <3>7, <3>8 DEF Framed
    <3> QED
      BY <3>7, <3>9 DEF Framing
  <2> QED
    BY <2>1, <2>2
<1>14. ASSUME NEW w \in Workers, DestroyFlushes(w) PROVE Framing'
  BY <1>14, <1>e DEF DestroyFlushes, Goto
<1>15. ASSUME NEW w \in Workers, DestroyIndicates(w) PROVE Framing'
  <2>1. CASE Delete
    BY <2>1, <1>g DEF Delete
  <2>2. CASE peer = "open" /\ Closing /\ Goto(w, "indicating") /\ UNCHANGED <<netvars, taken, recv_buf, handled>>
    BY <1>15, <2>2, <1>e DEF DestroyIndicates, Closing, Goto
  <2> QED
    BY <1>15, <2>1, <2>2 DEF DestroyIndicates, Indicate
<1>16. ASSUME NEW w \in Workers, DestroyEnds(w) PROVE Framing'
  BY <1>16, <1>g DEF DestroyEnds, Delete
<1>17. ASSUME NEW w \in Workers, DestroyFinds(w) PROVE Framing'
  BY <1>17, <1>e DEF DestroyFinds, Return
<1>18. ASSUME Arrive PROVE Framing'
  BY <1>18, <1>e DEF Arrive
<1>19. ASSUME NEW how \in {"ended", "reset"}, RemoteEnds(how) PROVE Framing'
  BY <1>19, <1>e DEF RemoteEnds
<1>20. ASSUME Nudge PROVE Framing'
  BY <1>20, <1>e DEF Nudge
<1>21. ASSUME PeerShutdown PROVE Framing'
  BY <1>21, <1>e DEF PeerShutdown, Closing
<1>22. ASSUME OtherIndicates PROVE Framing'
  BY <1>22, <1>e DEF OtherIndicates, Closing
<1>23. ASSUME DestroyedByOther PROVE Framing'
  BY <1>23, <1>g DEF DestroyedByOther, Delete
<1>24. ASSUME UNCHANGED vars PROVE Framing'
  BY <1>24, <1>e DEF vars
<1> HIDE DEF netvars, Live, InHandler, Places, Held, Free
<1> QED
  BY <1>1, <1>2, <1>3, <1>4, <1>5, <1>6, <1>7, <1>8, <1>9, <1>10, <1>11, <1>12, <1>13, <1>14, <1>15, <1>16, <1>17, <1>18, <1>19, <1>20, <1>21, <1>22, <1>23, <1>24 DEF Next, Step, Ended

\* A step that gives a handler a packet keeps InOrder.
LEMMA InOrderHandled ==
    ASSUME PacketsRead, ReadInv, Framing, InOrder, NEW w \in Workers, ParseHandled(w)
    PROVE  InOrder'
<1>1. TypeOK /\ OneReader /\ Reading /\ handled \in Seq(Given) /\ UNCHANGED stream
  BY DEF ReadInv, Reading, ParseHandled, netvars
<1>2. Live /\ ~InHandler
  BY <1>1, SoleParser, ParserIsLive DEF ParseHandled, InHandler
<1>3. PICK k \in 1..Len(stream.packets) + 1 : Framed(k)
  BY <1>2 DEF Framing
<1>4. HandledBefore(k)
  BY <1>2, <1>3 DEF Framed
<1> DEFINE new == handled'[Len(handled) + 1]
<1>5. /\ k \in 1..Len(stream.packets) /\ HandledBefore(k + 1)' /\ new.upto = stream.packets[k].upto
      /\ stream.packets[k].means = <<[type |-> new.type, values |-> new.values]>>
  BY <1>1, <1>3, <1>4, HandledBeforeGrows
<1>6. /\ DOMAIN handled' = 1..Len(handled) + 1 /\ DOMAIN handled = 1..Len(handled) /\ Len(handled) \in Nat
      /\ \A i \in DOMAIN handled : handled'[i] = handled[i]
  <2>1. /\ handled' \in Seq(Given) /\ Len(handled') = Len(handled) + 1
        /\ \A i \in DOMAIN handled : handled'[i] = handled[i]
    BY <1>1, HandledGrows
  <2> QED
    BY <1>1, <2>1, LenProperties
<1>7. /\ DOMAIN stream.packets = 1..Len(stream.packets) /\ Len(stream.packets) \in Nat
      /\ \A j \in 1..Len(stream.packets) : \A i \in 1..j - 1 : stream.packets[i].upto < stream.packets[j].upto
      /\ \A j \in 1..Len(stream.packets) : stream.packets[j].upto \in Nat
  <2>1. /\ \A j \in 1..Len(stream.packets) + 1 : Start(stream, j) \in 0..Len(Wire)
        /\ \A j \in 1..Len(stream.packets) : stream.packets[j].upto = Start(stream, j + 1)
        /\ Len(stream.packets) \in Nat /\ Len(Wire) \in Nat
    BY <1>1, StreamFacts
  <2>2. \A j \in 1..Len(stream.packets) : stream.packets[j].upto \in Nat
    BY <2>1
  <2> QED
    BY <1>1, <2>2, StreamFacts
<1> HIDE DEF new
<1>8. \A i \in DOMAIN handled' : i \in DOMAIN handled \/ handled'[i] = new
  BY <1>6 DEF new
<1>9. ASSUME NEW i \in DOMAIN handled'
      PROVE  \E j \in DOMAIN stream'.packets :
               /\ handled'[i].upto = stream'.packets[j].upto
               /\ stream'.packets[j].means = <<[type |-> handled'[i].type, values |-> handled'[i].values]>>
  <2>1. CASE i \in DOMAIN handled
    BY <2>1, <1>1, <1>6 DEF InOrder
  <2>2. CASE handled'[i] = new
    BY <2>2, <1>1, <1>5, <1>7
  <2> QED
    BY <2>1, <2>2, <1>8
<1>10. ASSUME NEW i \in DOMAIN handled
       PROVE  handled[i].upto \in Nat /\ handled[i].upto < new.upto
  <2>1. PICK j \in 1..k - 1 : handled[i].upto = stream.packets[j].upto
    BY <1>4 DEF HandledBefore
  <2> QED
    BY <2>1, <1>5, <1>7
<1>11. ASSUME NEW i \in DOMAIN handled', NEW j \in DOMAIN handled', i < j
       PROVE  handled'[i].upto < handled'[j].upto
  <2>1. i \in DOMAIN handled
    BY <1>6, <1>11
  <2>2. CASE j \in DOMAIN handled
    BY <2>1, <2>2, <1>6, <1>11 DEF InOrder
  <2>3. CASE handled'[j] = new
    BY <2>1, <2>3, <1>6, <1>10
  <2> QED
    BY <2>2, <2>3, <1>8
<1>12. ASSUME NEW i \in DOMAIN handled', NEW j \in DOMAIN stream'.packets,
              stream'.packets[j].means # <<>>, stream'.packets[j].upto <= handled'[i].upto
       PROVE  WasHandled(j)'
  <2>1. stream.packets[j].upto <= stream.packets[k].upto
    <3>1. CASE i \in DOMAIN handled
      <4>1. stream.packets[j].upto <= handled[i].upto
        BY <3>1, <1>1, <1>6, <1>12
      <4> QED
        BY <4>1, <3>1, <1>1, <1>5, <1>7, <1>10, SMTT(30)
    <3>2. CASE handled'[i] = new
      BY <3>2, <1>1, <1>5, <1>12
    <3> QED
      BY <3>1, <3>2, <1>8
  <2>2. j <= k
    <3>1. ASSUME k < j PROVE FALSE
      <4>1. stream.packets[k].upto < stream.packets[j].upto
        BY <3>1, <1>1, <1>5, <1>7
      <4> QED
        BY <4>1, <2>1, <1>1, <1>5, <1>7
    <3> QED
      BY <3>1, <1>1, <1>5, <1>7
  <2>3. j \in 1..(k + 1) - 1
    BY <2>2, <1>1, <1>5, <1>7
  <2> QED
    BY <2>3, <1>5, <1>12 DEF HandledBefore
<1> QED
  BY <1>9, <1>11, <1>12 DEF InOrder

\* A step keeps InOrder if it does not handle anything.
LEMMA InOrderSame == ASSUME InOrder, UNCHANGED <<stream, handled>> PROVE InOrder'
BY DEF InOrder, WasHandled

\* Nothing but ParseHandled changes what was handled.
LEMMA HandledBy == [Next]_vars => UNCHANGED stream /\ (UNCHANGED handled \/ \E w \in Workers : ParseHandled(w))
<1> SUFFICES ASSUME [Next]_vars PROVE UNCHANGED stream /\ (UNCHANGED handled \/ \E w \in Workers : ParseHandled(w))
  OBVIOUS
<1>1. CASE UNCHANGED vars \/ Ended
  BY <1>1 DEF vars, netvars, Ended
<1>2. CASE \/ Arrive \/ (\E how \in {"ended", "reset"} : RemoteEnds(how)) \/ Nudge
           \/ PeerShutdown \/ OtherIndicates \/ DestroyedByOther
  BY <1>2 DEF Arrive, RemoteEnds, Nudge, PeerShutdown, OtherIndicates, DestroyedByOther, Delete, netvars
<1>3. CASE \E w \in Workers : Step(w)
  BY <1>3 DEF Step, Wake, Trigger, SendReturns, LoopReturns, NothingToRead, Read, ReadEnd, Enable,
      ParseMore, ParseBad, ParseIgnored, ParseHandled, HandlerReturns,
      DestroyFlushes, DestroyIndicates, Indicate, DestroyEnds, Delete, DestroyFinds, netvars
<1> QED
  BY <1>1, <1>2, <1>3 DEF Next

\* A step either gives a handler the next packet or leaves `handled' alone.
LEMMA InOrderStep == PacketsRead /\ ReadInv /\ Framing /\ InOrder /\ [Next]_vars => InOrder'
BY HandledBy, InOrderSame, InOrderHandled

\* Everything in front of a packet that cannot be used was handled.
LEMMA BadIsLast ==
    ASSUME PacketsRead, ReadInv, Framing, NEW w \in Workers, ParseBad(w)
    PROVE  AllHandled /\ \E k \in DOMAIN stream.packets : stream.packets[k].bad
<1>1. TypeOK /\ OneReader /\ Reading /\ ~Incomplete /\ Unusable
  BY DEF ReadInv, ParseBad
<1>2. Live /\ ~InHandler
  BY <1>1, SoleParser, ParserIsLive DEF ParseBad, InHandler
<1>3. PICK k \in 1..Len(stream.packets) + 1 : Framed(k)
  BY <1>2 DEF Framing
<1>4. HandledBefore(k)
  BY <1>2, <1>3 DEF Framed
<1>5. k \in 1..Len(stream.packets) /\ stream.packets[k].bad
  BY <1>1, <1>3, FramedPacket, PacketMeaning
<1>6. /\ k = Len(stream.packets) /\ stream.packets[k].means = <<>> /\ Len(stream.packets) \in Nat
      /\ DOMAIN stream.packets = 1..Len(stream.packets)
  BY <1>1, <1>5, StreamFacts
<1>7. \A j \in DOMAIN stream.packets : j \in 1..k - 1 \/ j = k
  BY <1>5, <1>6
<1>8. AllHandled
  BY <1>4, <1>6, <1>7 DEF AllHandled, HandledBefore
<1> QED
  BY <1>5, <1>6, <1>8

\* What was handled stays handled.
LEMMA AllHandledStays == ReadInv /\ AllHandled /\ [Next]_vars => AllHandled'
<1> SUFFICES ASSUME ReadInv, AllHandled, [Next]_vars PROVE AllHandled'
  OBVIOUS
<1>1. UNCHANGED stream
  BY HandledBy
<1>2. \A i \in DOMAIN handled : i \in DOMAIN handled' /\ handled'[i] = handled[i]
  <2>1. CASE UNCHANGED handled
    BY <2>1
  <2>2. ASSUME NEW w \in Workers, ParseHandled(w)
        PROVE  \A i \in DOMAIN handled : i \in DOMAIN handled' /\ handled'[i] = handled[i]
    BY <2>2, HandledGrows DEF ReadInv, Reading
  <2> QED
    BY <2>1, <2>2, HandledBy
<1> QED
  BY <1>1, <1>2 DEF AllHandled, WasHandled

\* The reasons for which a connection is dropped.
LEMMA DropsStep == PacketsRead /\ ReadInv /\ Framing /\ DropsDeserved /\ [Next]_vars => DropsDeserved'
<1> SUFFICES ASSUME PacketsRead, ReadInv, Framing, DropsDeserved, [Next]_vars PROVE DropsDeserved'
  OBVIOUS
<1>1. /\ UNCHANGED stream
      /\ AllHandled => AllHandled'
      /\ TypeOK /\ OneReader /\ Buffering
  BY HandledBy, AllHandledStays DEF ReadInv
<1>2. ASSUME NEW w \in Workers, ReadEnd(w) PROVE DropsDeserved'
  <2>1. Room > 0
    BY <1>1, <1>2, SoleReader DEF ReadEnd
  <2>2. remote # "open" /\ UNCHANGED remote
    BY <1>2, <2>1, Sizes, <1>1 DEF ReadEnd, AtEnd, netvars
  <2>3. remote \in {"ended", "reset"}
    BY <2>2, <1>1 DEF TypeOK
  <2>4. lostBy' = IF remote = "reset" THEN "error" ELSE "closed"
    BY <1>2, <2>1 DEF ReadEnd
  <2> QED
    BY <2>2, <2>3, <2>4 DEF DropsDeserved
<1>3. ASSUME NEW w \in Workers, ParseBad(w) PROVE DropsDeserved'
  <2>1. AllHandled /\ \E k \in DOMAIN stream.packets : stream.packets[k].bad
    BY <1>3, BadIsLast
  <2>2. lostBy' = "stream"
    BY <1>3 DEF ParseBad
  <2> QED
    BY <1>1, <2>1, <2>2 DEF DropsDeserved
<1>4. ASSUME UNCHANGED lostBy, remote' # remote => remote = "open" PROVE DropsDeserved'
  BY <1>1, <1>4 DEF DropsDeserved
<1>5. \/ UNCHANGED lostBy /\ (remote' # remote => remote = "open")
      \/ \E w \in Workers : ReadEnd(w) \/ ParseBad(w)
  <2>1. CASE UNCHANGED vars \/ Ended
    BY <2>1 DEF vars, netvars, Ended
  <2>2. CASE \/ Arrive \/ (\E how \in {"ended", "reset"} : RemoteEnds(how)) \/ Nudge
             \/ PeerShutdown \/ OtherIndicates \/ DestroyedByOther
    BY <2>2 DEF Arrive, RemoteEnds, Nudge, PeerShutdown, OtherIndicates, DestroyedByOther, Delete, netvars
  <2>3. CASE \E w \in Workers : Step(w)
    BY <2>3 DEF Step, Wake, Trigger, SendReturns, LoopReturns, NothingToRead, Read, Enable,
        ParseMore, ParseIgnored, ParseHandled, HandlerReturns,
        DestroyFlushes, DestroyIndicates, Indicate, DestroyEnds, Delete, DestroyFinds, netvars
  <2> QED
    BY <2>1, <2>2, <2>3 DEF Next
<1> QED
  BY <1>2, <1>3, <1>4, <1>5

\* At first recv_buf is empty and the first packet is the next.
LEMMA FrameInvInit == Init => FrameInv
<1> SUFFICES ASSUME Init PROVE FrameInv
  OBVIOUS
<1>1. ReadInv /\ TypeOK
  BY ReadInvInit DEF ReadInv
<1>2. 1 \in 1..Len(stream.packets) + 1
  BY <1>1, StreamFacts
<1>3. DOMAIN handled = {} /\ ~InHandler /\ taken = 0 /\ Len(recv_buf) = 0 /\ lostBy = None
  BY DEF Init, InHandler
<1>4. Framed(1)
  <2>1. Start(stream, 1) = 0
    BY DEF Start
  <2>2. recv_buf = SubSeq(Wire, 0 + 1, 0)
    BY SubSeqEmpty DEF Init
  <2>3. HandledBefore(1)
    BY <1>3 DEF HandledBefore
  <2> QED
    BY <1>3, <2>1, <2>2, <2>3 DEF Framed
<1>5. Framing /\ InOrder /\ DropsDeserved
  BY <1>2, <1>3, <1>4 DEF Framing, InOrder, DropsDeserved, None
<1> QED
  BY <1>1, <1>5 DEF FrameInv

\* io_peer_recv() follows the boundaries of the packets, however recv() cuts the stream,
\* if the deserialiser reads every packet as it was meant.
THEOREM FrameInvariant == ASSUME PacketsRead PROVE Spec => []FrameInv
<1>1. FrameInv /\ [Next]_vars => FrameInv'
  BY ReadInvStep, FramingStep, InOrderStep, DropsStep DEF FrameInv
<1> QED
  BY <1>1, FrameInvInit, PTL DEF Spec

\* The handlers are given the packets that were sent, in their order, each once, none left out.
THEOREM HandledInOrder == ASSUME PacketsRead PROVE Spec => []InOrder
<1>1. FrameInv => InOrder
  BY DEF FrameInv
<1> QED
  BY <1>1, FrameInvariant, PTL

\* A peer is destroyed by io_peer_recv() only when the connection has ended or the stream is bad,
\* and then everything before the bad packet was handled.
THEOREM DropsAreDeserved == ASSUME PacketsRead PROVE Spec => []DropsDeserved
<1>1. FrameInv => DropsDeserved
  BY DEF FrameInv
<1> QED
  BY <1>1, FrameInvariant, PTL
==============================================================================
