------------------------------- MODULE Receive -------------------------------
(***************************************************************************)
(* The receiving side of one connection: io_peer_triggered() and           *)
(* io_peer_recv() on the workers of the pool, Peer::recv_buf, recv_busy    *)
(* and the events selected on the socket.                                  *)
(*                                                                         *)
(* TCP delivers a stream of units that ends, stays open or is reset.  The  *)
(* units arrive one by one and a recv() takes all that are there, so every *)
(* way to cut the stream into pieces occurs.  DirectPlay8Peer::lock is     *)
(* released while the application handles a message and during the         *)
(* callbacks of io_peer_send() and peer_destroy(); meanwhile other threads *)
(* may shut the peer down or destroy it.                                   *)
(***************************************************************************)
EXTENDS Packet, FiniteSets

CONSTANTS
    Workers,            \* threads of the pool
    Streams,            \* what the other side may send, see StreamsAssumption
    Layouts,            \* Layouts[type]: the kinds of the fields that the type's handler reads
    MAX_PACKET_SIZE,
    Samples, FieldSeqs  \* buffers and sequences of fields for DeserialiserExact

None == "none"

\* What a packet of a stream means to the receiver.  upto: the unit it ends with; means: what its handler
\* is to be given (<<>> if it refuses the packet, otherwise a sequence of one); bad: the stream cannot be
\* followed any further.
Packets ==
    [upto : Nat, means : Seq([type : DOMAIN Layouts, values : Seq(Seq(Nat))]), bad : BOOLEAN]

\* Where packet k of a stream begins, less one.
Start(s, k) == IF k = 1 THEN 0 ELSE s.packets[k - 1].upto

ASSUME ReceiveAssumption ==
    /\ MAX_PACKET_SIZE \in Nat /\ MAX_PACKET_SIZE > HeaderSize
    /\ None \notin Workers

\* A stream is a sequence of units and the packets it consists of: chunks as long as their headers say,
\* one after the other, of which only the last may be bad.
ASSUME StreamsAssumption ==
    \A s \in Streams :
        /\ s.units \in Seq(Nat) /\ s.packets \in Seq(Packets)
        /\ Len(s.units) = Start(s, Len(s.packets) + 1)
        /\ \A k \in DOMAIN s.packets :
              /\ Start(s, k) + HeaderSize <= Len(s.units)
              /\ s.packets[k].upto = Start(s, k) + HeaderSize + s.units[Start(s, k) + 2]
              /\ \A j \in 1..k - 1 : s.packets[j].upto < s.packets[k].upto
              /\ s.packets[k].upto <= Len(s.units)
              /\ s.packets[k].bad => k = Len(s.packets) /\ s.packets[k].means = <<>>
              /\ Len(s.packets[k].means) <= 1

VARIABLES
    stream,     \* the member of Streams that is sent
    arrived,    \* number of its units that have reached this machine
    remote,     \* "open", "ended" (FIN received), "reset"
    taken,      \* number of units recv() has returned
    recv_buf,   \* the first recv_buf_cur units of Peer::recv_buf
    recv_busy,
    selected,   \* FD_READ and FD_CLOSE are in Peer::events
    event,      \* the auto-reset event of the peer is set
    peer,       \* "open", PS_"closing", "gone" (deleted)
    lock,       \* owner of DirectPlay8Peer::lock, or None
    at,         \* at[w]: where worker w is
    claimed,    \* claimed[w]: rb_claimed
    size,       \* size[w]: full_packet_size
    handled,    \* history: what the handlers were given, and where in the stream it ended
    closingAt,  \* history: units taken when the peer began to close
    lostBy      \* history: why io_peer_recv() destroyed the peer

netvars == <<stream, arrived, remote>>
vars == <<netvars, taken, recv_buf, recv_busy, selected, event, peer, lock, at, claimed, size,
          handled, closingAt, lostBy>>

-------------------------------------------------------------------------------
Wire == stream.units

Held(w) == lock = w
Free == lock = None
Readable == arrived - taken

\* What recv() may return at most.
Room == MAX_PACKET_SIZE - Len(recv_buf)

Least(m, n) == IF m < n THEN m ELSE n

Return(w) == at' = [at EXCEPT ![w] = "idle"] /\ claimed' = [claimed EXCEPT ![w] = FALSE] /\ lock' = None
Goto(w, place) == at' = [at EXCEPT ![w] = place] /\ UNCHANGED claimed

-------------------------------------------------------------------------------
\* Winsock: an event is recorded for data that arrives at an empty socket, for what a recv()
\* leaves behind, for the end, and for what is there when events are selected again.
Arrive ==
    /\ remote = "open" /\ peer # "gone" /\ arrived < Len(Wire)
    /\ arrived' = arrived + 1
    /\ event' = (event \/ (selected /\ Readable = 0))
    /\ UNCHANGED <<stream, remote, taken, recv_buf, recv_busy, selected, peer, lock, at, claimed, size,
                   handled, closingAt, lostBy>>

RemoteEnds(how) ==
    /\ remote = "open" /\ peer # "gone"
    /\ how = "ended" => arrived = Len(Wire)
    /\ remote' = how
    /\ arrived' = IF how = "reset" THEN taken ELSE arrived
    /\ event' = (event \/ selected)
    /\ UNCHANGED <<stream, taken, recv_buf, recv_busy, selected, peer, lock, at, claimed, size,
                   handled, closingAt, lostBy>>

\* SendQueue::send() and FD_WRITE set the same event.
Nudge ==
    /\ peer # "gone" /\ ~event
    /\ event' = TRUE
    /\ UNCHANGED <<netvars, taken, recv_buf, recv_busy, selected, peer, lock, at, claimed, size,
                   handled, closingAt, lostBy>>

-------------------------------------------------------------------------------
\* Other threads, while no worker has the lock.

Closing == peer' = "closing" /\ closingAt' = taken

\* The last lines of peer_destroy(): the socket is closed, the Peer and its event are deleted.
Delete ==
    /\ peer' = "gone"
    /\ arrived' = 0 /\ taken' = 0 /\ closingAt' = 0
    /\ recv_buf' = <<>> /\ recv_busy' = FALSE /\ selected' = FALSE /\ event' = FALSE
    /\ UNCHANGED <<stream, remote, size, handled, lostBy>>

PeerShutdown ==
    /\ Free /\ peer = "open"
    /\ Closing /\ event' = TRUE
    /\ UNCHANGED <<netvars, taken, recv_buf, recv_busy, selected, lock, at, claimed, size,
                   handled, lostBy>>

\* peer_destroy() up to DESTROY_PLAYER.
OtherIndicates ==
    /\ Free /\ peer = "open"
    /\ Closing
    /\ UNCHANGED <<netvars, taken, recv_buf, recv_busy, selected, event, lock, at, claimed, size,
                   handled, lostBy>>

DestroyedByOther ==
    /\ Free /\ peer # "gone"
    /\ Delete
    /\ UNCHANGED <<lock, at, claimed>>

-------------------------------------------------------------------------------
\* io_peer_triggered()

Wake(w) ==
    /\ at[w] = "idle" /\ event /\ peer # "gone"
    /\ event' = FALSE
    /\ Goto(w, "woken")
    /\ UNCHANGED <<netvars, taken, recv_buf, recv_busy, selected, peer, lock, size, handled, closingAt, lostBy>>

\* io_peer_send() may run callbacks before io_peer_recv() begins.
Trigger(w) ==
    /\ at[w] = "woken" /\ Free
    /\ IF peer = "gone" THEN Return(w)
       ELSE \/ lock' = w /\ Goto(w, "loop")
            \/ lock' = None /\ Goto(w, "sending")
    /\ UNCHANGED <<netvars, taken, recv_buf, recv_busy, selected, event, peer, size, handled, closingAt, lostBy>>

SendReturns(w) ==
    /\ at[w] = "sending" /\ Free
    /\ lock' = w /\ Goto(w, "loop")
    /\ UNCHANGED <<netvars, taken, recv_buf, recv_busy, selected, event, peer, size, handled, closingAt, lostBy>>

-------------------------------------------------------------------------------
\* io_peer_recv()

\* Fault: the second reader does not stop.
MayReadAlways(w) == peer # "gone"

\* The loop goes on to recv().
MayRead(w) == peer # "gone" /\ (claimed[w] \/ ~recv_busy)

LoopReturns(w) ==
    /\ at[w] = "loop" /\ Held(w) /\ ~MayRead(w)
    /\ Return(w)
    /\ UNCHANGED <<netvars, taken, recv_buf, recv_busy, selected, event, peer, size, handled, closingAt, lostBy>>

\* WSAEWOULDBLOCK
NothingToRead(w) ==
    /\ at[w] = "loop" /\ Held(w) /\ MayRead(w)
    /\ Room > 0 /\ Readable = 0 /\ remote = "open"
    /\ IF claimed[w] THEN Goto(w, "enable") /\ UNCHANGED lock ELSE Return(w)
    /\ UNCHANGED <<netvars, taken, recv_buf, recv_busy, selected, event, peer, size, handled, closingAt, lostBy>>

Claim(w, place) ==
    /\ recv_busy' = TRUE /\ selected' = FALSE
    /\ at' = [at EXCEPT ![w] = place] /\ claimed' = [claimed EXCEPT ![w] = TRUE]

\* Fault: what a closing peer sends is handled as before.
DiscardsNothing == FALSE

Discards == peer = "closing"

\* Fault: does not go on until the end.
DiscardOnce(w) == recv_busy' = TRUE /\ selected' = FALSE /\ Return(w)

Discard(w) == Claim(w, "loop") /\ UNCHANGED lock

\* r > 0
Read(w) ==
    LET r == Least(Room, Readable) IN
    /\ at[w] = "loop" /\ Held(w) /\ MayRead(w)
    /\ r > 0
    /\ taken' = taken + r
    /\ event' = (event \/ (selected /\ r < Readable))
    /\ IF Discards THEN Discard(w) /\ UNCHANGED recv_buf
       ELSE /\ Claim(w, "parse")
            /\ recv_buf' = recv_buf \o SubSeq(Wire, taken + 1, taken + r)
            /\ UNCHANGED lock
    /\ UNCHANGED <<netvars, peer, size, handled, closingAt, lostBy>>

\* Fault: takes WSAEWOULDBLOCK for an error.
AtEndOrEmpty == Room = 0 \/ Readable = 0

\* recv() returns 0, also when it is given no room, or an error.
AtEnd == Room = 0 \/ (Readable = 0 /\ remote # "open")

ReadEnd(w) ==
    /\ at[w] = "loop" /\ Held(w) /\ MayRead(w)
    /\ AtEnd
    /\ lostBy' = IF Room > 0 /\ remote = "reset" THEN "error" ELSE "closed"
    /\ Claim(w, "destroy")
    /\ UNCHANGED <<netvars, taken, recv_buf, event, peer, lock, size, handled, closingAt>>

\* The inner loop

FullPacketSize == HeaderSize + recv_buf[2]

OverSize == FullPacketSize > MAX_PACKET_SIZE

Incomplete ==
    IF Len(recv_buf) < HeaderSize THEN TRUE ELSE ~OverSize /\ Len(recv_buf) < FullPacketSize

ParseMore(w) ==
    /\ at[w] = "parse" /\ Held(w) /\ Incomplete
    /\ Goto(w, "loop")
    /\ UNCHANGED <<netvars, taken, recv_buf, recv_busy, selected, event, peer, lock, size, handled, closingAt, lostBy>>

Packet0 == Deserialise(SubSeq(recv_buf, 1, FullPacketSize))
Unusable == IF OverSize THEN TRUE ELSE Packet0.error # "none"

ParseBad(w) ==
    /\ at[w] = "parse" /\ Held(w) /\ ~Incomplete /\ Unusable
    /\ lostBy' = "stream"
    /\ Goto(w, "destroy")
    /\ UNCHANGED <<netvars, taken, recv_buf, recv_busy, selected, event, peer, lock, size, handled, closingAt>>

\* memmove() and recv_buf_cur -= full_packet_size
Shift(n) == recv_buf' = SubSeq(recv_buf, n + 1, Len(recv_buf))

\* The handler reads its fields; one it does not find, or finds of another type, ends it.
Fields(pd) == [i \in 1..Len(Layouts[pd.type]) |-> Get(pd, i - 1, Layouts[pd.type][i])]
Accepted(pd) == pd.type \in DOMAIN Layouts /\ \A i \in DOMAIN Fields(pd) : Fields(pd)[i].error = "none"
Values(pd) == [i \in DOMAIN Fields(pd) |-> Fields(pd)[i].value]

\* The switch: an unknown type and a packet that its handler refuses are logged.
ParseIgnored(w) ==
    /\ at[w] = "parse" /\ Held(w) /\ ~Incomplete /\ ~Unusable /\ ~Accepted(Packet0)
    /\ Shift(FullPacketSize)
    /\ UNCHANGED <<netvars, taken, recv_busy, selected, event, peer, lock, at, claimed, size, handled, closingAt, lostBy>>

\* The handler calls the application.
ParseHandled(w) ==
    /\ at[w] = "parse" /\ Held(w) /\ ~Incomplete /\ ~Unusable /\ Accepted(Packet0)
    /\ handled' = Append(handled, [type |-> Packet0.type, values |-> Values(Packet0),
                                   upto |-> taken - Len(recv_buf) + FullPacketSize])
    /\ size' = [size EXCEPT ![w] = FullPacketSize]
    /\ Goto(w, "handling") /\ lock' = None
    /\ UNCHANGED <<netvars, taken, recv_buf, recv_busy, selected, event, peer, closingAt, lostBy>>

\* RENEW_PEER_OR_RETURN
HandlerReturns(w) ==
    /\ at[w] = "handling" /\ Free
    /\ IF peer = "gone" THEN Return(w) /\ UNCHANGED recv_buf
       ELSE lock' = w /\ Goto(w, "parse") /\ Shift(size[w])
    /\ size' = [size EXCEPT ![w] = 0]
    /\ UNCHANGED <<netvars, taken, recv_busy, selected, event, peer, handled, closingAt, lostBy>>

\* Fault: the events stay disabled.
EnableNothing(w) ==
    /\ at[w] = "enable" /\ Held(w)
    /\ recv_busy' = FALSE
    /\ Return(w)
    /\ UNCHANGED <<netvars, taken, recv_buf, selected, event, peer, size, handled, closingAt, lostBy>>

Enable(w) ==
    /\ at[w] = "enable" /\ Held(w)
    /\ recv_busy' = FALSE /\ selected' = TRUE
    /\ event' = (event \/ Readable > 0 \/ remote # "open")
    /\ Return(w)
    /\ UNCHANGED <<netvars, taken, recv_buf, peer, size, handled, closingAt, lostBy>>

-------------------------------------------------------------------------------
\* peer_destroy(): callbacks for queued sends and acks, then DESTROY_PLAYER, then the end.

Indicate(w) ==
    \/ /\ peer = "open"
       /\ Closing /\ Goto(w, "indicating") /\ lock' = None
       /\ UNCHANGED <<netvars, taken, recv_buf, recv_busy, selected, event, size, handled, lostBy>>
    \/ /\ peer = "closing"
       /\ Delete /\ Return(w)

DestroyFlushes(w) ==
    /\ at[w] = "destroy" /\ Held(w)
    /\ Goto(w, "flushing") /\ lock' = None
    /\ UNCHANGED <<netvars, taken, recv_buf, recv_busy, selected, event, peer, size, handled, closingAt, lostBy>>

DestroyIndicates(w) ==
    /\ \/ at[w] = "destroy" /\ Held(w)
       \/ at[w] = "flushing" /\ Free
    /\ Indicate(w)

DestroyEnds(w) ==
    /\ at[w] = "indicating" /\ Free /\ peer # "gone"
    /\ Delete /\ Return(w)

\* Another thread has destroyed the peer in the meantime.
DestroyFinds(w) ==
    /\ at[w] \in {"flushing", "indicating"} /\ Free /\ peer = "gone"
    /\ Return(w)
    /\ UNCHANGED <<netvars, taken, recv_buf, recv_busy, selected, event, peer, size, handled, closingAt, lostBy>>

-------------------------------------------------------------------------------
Init ==
    /\ stream \in Streams
    /\ arrived = 0 /\ remote = "open" /\ taken = 0
    /\ recv_buf = <<>> /\ recv_busy = FALSE
    /\ selected = TRUE /\ event = FALSE
    /\ peer = "open" /\ lock = None
    /\ at = [w \in Workers |-> "idle"]
    /\ claimed = [w \in Workers |-> FALSE]
    /\ size = [w \in Workers |-> 0]
    /\ handled = <<>> /\ closingAt = 0 /\ lostBy = None

Step(w) ==
    \/ Wake(w) \/ Trigger(w) \/ SendReturns(w)
    \/ LoopReturns(w) \/ NothingToRead(w) \/ Read(w) \/ ReadEnd(w) \/ Enable(w)
    \/ ParseMore(w) \/ ParseBad(w) \/ ParseIgnored(w) \/ ParseHandled(w) \/ HandlerReturns(w)
    \/ DestroyFlushes(w) \/ DestroyIndicates(w) \/ DestroyEnds(w) \/ DestroyFinds(w)

\* The peer is gone and every worker has noticed.
Ended == peer = "gone" /\ (\A w \in Workers : at[w] = "idle") /\ UNCHANGED vars

Next ==
    \/ \E w \in Workers : Step(w)
    \/ Arrive \/ (\E how \in {"ended", "reset"} : RemoteEnds(how)) \/ Nudge
    \/ PeerShutdown \/ OtherIndicates \/ DestroyedByOther
    \/ Ended

Spec == Init /\ [][Next]_vars

\* What was sent arrives.  A worker that can go on does; one that finds the lock free again and
\* again gets it.
FairSpec == Spec /\ WF_vars(Arrive) /\ \A w \in Workers : SF_vars(Step(w))

-------------------------------------------------------------------------------
\* Packet k was given to its handler; every packet that has one was.
WasHandled(k) == \E i \in DOMAIN handled : handled[i].upto = stream.packets[k].upto
AllHandled == \A k \in DOMAIN stream.packets : stream.packets[k].means # <<>> => WasHandled(k)

\* Type invariant of the receiving side: what is in recv_buf fits, recv_buf_cur counts it.
TypeOK ==
    /\ stream \in Streams /\ arrived \in 0..Len(Wire) /\ remote \in {"open", "ended", "reset"}
    /\ taken \in 0..arrived /\ recv_buf \in Seq(Nat) /\ Len(recv_buf) <= Least(MAX_PACKET_SIZE, taken)
    /\ recv_busy \in BOOLEAN /\ selected \in BOOLEAN /\ event \in BOOLEAN
    /\ peer \in {"open", "closing", "gone"} /\ lock \in Workers \cup {None}
    /\ at \in [Workers -> {"idle", "woken", "sending", "loop", "parse", "handling", "enable",
                         "destroy", "flushing", "indicating"}]
    /\ claimed \in [Workers -> BOOLEAN] /\ size \in [Workers -> 0..MAX_PACKET_SIZE]
    /\ \A w \in Workers : lock = w <=> at[w] \in {"loop", "parse", "enable", "destroy"}
    /\ closingAt \in 0..taken /\ lostBy \in {None, "closed", "error", "stream"}

\* However the stream is cut into pieces and whoever reads them, the handlers of io_peer_recv() are given
\* the packets that were sent, field for field, in their order, each once, and none is left out.
InOrder ==
    /\ \A i \in DOMAIN handled : \E k \in DOMAIN stream.packets :
          /\ handled[i].upto = stream.packets[k].upto
          /\ stream.packets[k].means = <<[type |-> handled[i].type, values |-> handled[i].values]>>
    /\ \A i, j \in DOMAIN handled : i < j => handled[i].upto < handled[j].upto
    /\ \A i \in DOMAIN handled, k \in DOMAIN stream.packets :
          stream.packets[k].means # <<>> /\ stream.packets[k].upto <= handled[i].upto => WasHandled(k)

\* io_peer_recv() destroys a peer only if the other side closed or reset the connection, or after it has
\* handled everything in front of a packet that is malformed or too large.
DropsDeserved ==
    /\ lostBy = "closed" => remote = "ended"
    /\ lostBy = "error" => remote = "reset"
    /\ lostBy = "stream" => AllHandled /\ \E k \in DOMAIN stream.packets : stream.packets[k].bad

\* Nothing that was read after the peer began to close is handled (PS_CLOSING), not even the
\* rest of a packet that had begun before.
LateDiscarded == peer = "closing" => \A i \in DOMAIN handled : handled[i].upto <= closingAt

\* The deserialiser reads every packet of the streams as it was meant.
PacketsRead ==
    \A s \in Streams : \A k \in DOMAIN s.packets :
        LET packet == s.packets[k]
            pd == Deserialise(SubSeq(s.units, Start(s, k) + 1, packet.upto))
        IN  /\ packet.bad <=> packet.upto - Start(s, k) > MAX_PACKET_SIZE \/ pd.error # "none"
            /\ ~packet.bad => packet.means =
                  IF Accepted(pd) THEN <<[type |-> pd.type, values |-> Values(pd)]>> ELSE <<>>

\* The deserialiser undoes the serialiser, for every short buffer (packet.cpp): what comes over the
\* wire is accepted exactly if some packet was written like that, and the packets of the streams are
\* understood.  It does not depend on the state and is evaluated in the initial ones.
DeserialiserExact == Init => InverseOn(Samples, FieldSeqs) /\ PacketsRead

\* Everything sent is handled in the end, unless the peer is closed or the connection reset: no
\* interleaving of readers leaves data behind with the events disabled or recv_busy set.
EverythingHandled == <>(AllHandled \/ peer # "open" \/ remote = "reset")

\* The end of the connection is noticed, also by a peer that is closing, and the peer is destroyed.
EndNoticed == remote # "open" ~> peer = "gone"
==============================================================================
