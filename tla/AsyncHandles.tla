----------------------------- MODULE AsyncHandles -----------------------------
(***************************************************************************)
(* class AsyncHandleAllocator: the DPNHANDLEs of asynchronous operations.  *)
(* A handle is the kind of operation in the high bits, by which            *)
(* CancelAsyncOperation() decides where to look for it, and a serial       *)
(* number of that kind in the rest.  Handles are not tracked: a number is  *)
(* issued again when the counter has gone round.                           *)
(***************************************************************************)
EXTENDS Naturals, Sequences

CONSTANTS
    IdSpan,     \* number of serial numbers: 2^29, the complement of TYPE_MASK plus one
    Kinds       \* the kinds of operation that are started: TYPE_ENUM = 0 ... TYPE_RPGROUP = 7

ASSUME HandlesAssumption == IdSpan \in Nat /\ IdSpan > 2 /\ Kinds \subseteq 0..7

\* A DPNHANDLE with all bits set.
AllOnes == 8 * IdSpan - 1

VARIABLES
    next,       \* next_enum_id, next_connect_id, ...
    recent      \* history: the last handles issued of each kind, oldest first

vars == <<next, recent>>

\* How many handles of a kind may be in use before one could come twice.
Window == IdSpan - 1

\* Faults: the mask is forgotten; the counter goes round one number early.
AdvanceUnmasked(n) == (n + 1) % (8 * IdSpan)
AdvanceEarly(n) == IF n + 1 >= IdSpan - 1 THEN 1 ELSE n + 1

\* new_XXX(): the counter after it has been used.
Advance(n) == IF (n + 1) % IdSpan = 0 THEN 1 ELSE (n + 1) % IdSpan

\* new_XXX(): the handle, a serial number or-ed with a kind (modulo 2^32).
Handle(n, k) == (k * IdSpan + n) % (8 * IdSpan)

\* handle & TYPE_MASK in CancelAsyncOperation().
KindOf(h) == h \div IdSpan

\* new_enum(), new_connect(), ..., new_rpgroup()
New(k) ==
    LET r == Append(recent[k], Handle(next[k], k))
    IN  /\ recent' = [recent EXCEPT ![k] = IF Len(r) > Window THEN Tail(r) ELSE r]
        /\ next' = [next EXCEPT ![k] = Advance(@)]

Init == next = [k \in Kinds |-> 1] /\ recent = [k \in Kinds |-> <<>>]

Next == \E k \in Kinds : New(k)

Spec == Init /\ [][Next]_vars

------------------------------------------------------------------------------
(* Properties                                                               *)

\* Type invariant: a counter is always a serial number that can be issued.
TypeOK ==
    /\ next \in [Kinds -> 1..(IdSpan - 1)]
    /\ recent \in [Kinds -> Seq(Nat)]

Issued(k) == {recent[k][i] : i \in DOMAIN recent[k]}

\* No handle is 0: SendQueue takes the async_handle 0 for an op that cannot be
\* cancelled, and CancelAsyncOperation() a zero handle for "by flags".
NeverZero == \A k \in Kinds : 0 \notin Issued(k)

\* CancelAsyncOperation() recognises every handle as of the kind it was issued
\* for, also after the counters have gone round.
RightKind == \A k \in Kinds : \A h \in Issued(k) : KindOf(h) = k

\* An operation may stay outstanding while Window - 1 others of its kind are
\* started and no two of them have the same handle.
NoConflict ==
    \A k \in Kinds : \A i, j \in DOMAIN recent[k] : recent[k][i] = recent[k][j] => i = j

\* "0x00000000 and 0xFFFFFFFF are both impossible values"
NeverAllOnes == \A k \in Kinds : AllOnes \notin Issued(k)
===============================================================================
