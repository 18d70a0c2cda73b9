---------------------------- MODULE HandlePoolProofs ----------------------------
(***************************************************************************)
(* What HandlePool guarantees for any number of handles, workers, callers  *)
(* and any mix of failures: an inductive invariant made of four parts, one *)
(* lemma per part with one step per action, and the safety properties of   *)
(* HandlePool that follow from it.                                         *)
(***************************************************************************)
EXTENDS HandlePool, FiniteSetTheorems, TLAPS

\* Where a worker and where a caller can be, and that a writer knows its job;
\* callbacks is never the shorter of the two vectors.
Roles ==
    /\ \A c \in Callers : pc[c] \in WriterPC \cup CallerPC
    /\ \A w \in Workers : pc[w] \in WriterPC \cup WorkerPC
    /\ \A t \in Threads : pc[t] \in WriterPC => arg[t] # Null
    /\ Len(handles) <= Len(callbacks)

\* pending_writer_lock is held exactly between announcing and entering, and
\* a pending_writer nobody holds the lock for is the constructor's leftover.
Announcing ==
    /\ \A t \in Threads : pc[t] \in {"signal", "enter"} <=> pending_writer_lock = t
    /\ (pending_writer /\ pending_writer_lock = Null) =>
           \A t \in Threads : pc[t] \in {"unborn", "idle", "announce", "delete", "deleted"}
    /\ \A t \in Threads : pc[t] # "cvwait"

\* wait_lock: its exclusive holder is the thread changing the array, and
\* whoever waits on the array or is on its way out is a shared holder.
WaitLock ==
    /\ \A t \in Threads : pc[t] \in {"add", "remove"} <=> writer = t
    /\ \A t \in Threads : pc[t] \in {"wait", "exit", "join", "dying"} => t \in readers
    /\ writer # Null => readers = {}

\* The life of a worker: active, then the one zombie, then joined; and the
\* destructor comes after the last writer.
Lifecycle ==
    /\ \A w \in Workers : w \in active_workers <=> pc[w] \notin {"unborn", "dying", "dead"}
    /\ \A w \in Workers : pc[w] \in {"dying", "dead"} => join_worker = w
    /\ stopping => \A t \in Threads : pc[t] \notin WriterPC
    /\ \A c \in Callers : pc[c] \in {"delete", "deleted"} => stopping
    /\ (\E c \in Callers : pc[c] = "deleted") => \A w \in Workers : pc[w] = "unborn"

\* The inductive invariant.
PoolInv == TypeOK /\ Roles /\ Announcing /\ WaitLock /\ Lifecycle

\* Every step keeps Announcing.
LEMMA AnnouncingStep == PoolInv /\ [Next]_vars => Announcing'
<1> SUFFICES ASSUME PoolInv, [Next]_vars PROVE Announcing'
  OBVIOUS
<1> USE PoolAssumption DEF PoolInv, TypeOK, Threads, vars, data, sync, pool, Announcing
<1>1. ASSUME NEW t \in Threads, Announce(t) PROVE Announcing'
  BY <1>1 DEF Announce, Goto
<1>2. ASSUME NEW t \in Threads, SignalSpin(t) PROVE Announcing'
  BY <1>2 DEF SignalSpin, Goto
<1>3. ASSUME NEW t \in Threads, Enter(t) PROVE Announcing'
  BY <1>3 DEF Enter, Notified, Roles, WriterPC
<1>4. ASSUME NEW t \in Threads, AddToBlock(t) PROVE Announcing'
  BY <1>4 DEF AddToBlock, Leave, Goto, ReturnTo
<1>5. ASSUME NEW t \in Threads, NEW W \in SUBSET Workers, AddBlock(t, W) PROVE Announcing'
  BY <1>5 DEF AddBlock, Leave, Goto, ReturnTo
<1>6. ASSUME NEW t \in Threads, AddFails(t) PROVE Announcing'
  BY <1>6 DEF AddFails, Leave, Goto, ReturnTo
<1>7. ASSUME NEW t \in Threads, AddFailsLate(t) PROVE Announcing'
  BY <1>7 DEF AddFailsLate, Leave, Goto, ReturnTo
<1>8. ASSUME NEW t \in Threads, RemoveMissing(t) PROVE Announcing'
  BY <1>8 DEF RemoveMissing, Leave, Goto, ReturnTo
<1>9. ASSUME NEW t \in Threads, NEW i \in DOMAIN handles, RemoveFound(t, i) PROVE Announcing'
  BY <1>9 DEF RemoveFound, Leave, Notified, ReturnTo
<1>10. ASSUME NEW t \in Threads, NEW op \in {"add", "remove"}, NEW h \in Handles, Begin(t, op, h) PROVE Announcing'
  BY <1>10 DEF Begin, Goto
<1>11. ASSUME NEW w \in Workers, Top(w) PROVE Announcing'
  BY <1>11 DEF Top, Goto
<1>12. ASSUME NEW w \in Workers, Await(w) PROVE Announcing'
  BY <1>12 DEF Await, Goto
<1>13. ASSUME NEW w \in Workers, LockShared(w) PROVE Announcing'
  BY <1>13 DEF LockShared, Goto
<1>14. ASSUME NEW w \in Workers, WokenBySpin(w) PROVE Announcing'
  <2>1. PICK l \in {"exit", "top"} : pc' = [pc EXCEPT ![w] = l]
    BY <1>14 DEF WokenBySpin, Goto
  <2>2. pc[w] = "wait" /\ UNCHANGED <<pending_writer, pending_writer_lock>>
    BY <1>14 DEF WokenBySpin
  <2> QED BY <2>1, <2>2
<1>15. ASSUME NEW w \in Workers, NEW i \in DOMAIN handles, WokenByHandle(w, i) PROVE Announcing'
  <2>1. PICK l \in {"exit", "callback"} : pc' = [pc EXCEPT ![w] = l]
    BY <1>15 DEF WokenByHandle, Goto
  <2>2. pc[w] = "wait" /\ UNCHANGED <<pending_writer, pending_writer_lock>>
    BY <1>15 DEF WokenByHandle
  <2> QED BY <2>1, <2>2
<1>16. ASSUME NEW w \in Workers, WaitFailed(w) PROVE Announcing'
  BY <1>16 DEF WaitFailed, Goto
<1>17. ASSUME NEW w \in Workers, CallbackReturns(w) PROVE Announcing'
  BY <1>17 DEF CallbackReturns, Goto
<1>18. ASSUME NEW w \in Workers, Exit(w) PROVE Announcing'
  BY <1>18 DEF Exit, Goto
<1>19. ASSUME NEW w \in Workers, JoinPrevious(w) PROVE Announcing'
  <2>1. CASE join_worker = Null BY <1>19, <2>1 DEF JoinPrevious
  <2>2. CASE ~(join_worker = Null) BY <1>19, <2>2 DEF JoinPrevious
  <2> QED BY <2>1, <2>2
<1>20. ASSUME NEW w \in Workers, Die(w) PROVE Announcing'
  BY <1>20 DEF Die, Goto
<1>21. ASSUME NEW c \in Callers, Destroy(c) PROVE Announcing'
  BY <1>21 DEF Destroy, Goto
<1>22. ASSUME NEW c \in Callers, Reap(c) PROVE Announcing'
  <2>1. CASE join_worker = Null BY <1>22, <2>1 DEF Reap
  <2>2. CASE ~(join_worker = Null) BY <1>22, <2>2 DEF Reap
  <2> QED BY <2>1, <2>2
<1>23. ASSUME NEW h \in Handles, Signal(h) PROVE Announcing'
  BY <1>23 DEF Signal
<1>24. CASE UNCHANGED vars
  BY <1>24
<1> HIDE DEF TypeOK, Announcing
<1> QED
  BY <1>1, <1>2, <1>3, <1>4, <1>5, <1>6, <1>7, <1>8, <1>9, <1>10, <1>11, <1>12,
     <1>13, <1>14, <1>15, <1>16, <1>17, <1>18, <1>19, <1>20, <1>21, <1>22, <1>23, <1>24
     DEF Next, Write, Work, Gone

\* Every step keeps WaitLock.
LEMMA WaitLockStep == PoolInv /\ [Next]_vars => WaitLock'
<1> SUFFICES ASSUME PoolInv, [Next]_vars PROVE WaitLock'
  OBVIOUS
<1> USE PoolAssumption DEF PoolInv, TypeOK, Threads, vars, data, sync, pool, WaitLock, Announcing
<1>1. ASSUME NEW t \in Threads, Announce(t) PROVE WaitLock'
  BY <1>1 DEF Announce, Goto
<1>2. ASSUME NEW t \in Threads, SignalSpin(t) PROVE WaitLock'
  BY <1>2 DEF SignalSpin, Goto
<1>3. ASSUME NEW t \in Threads, Enter(t) PROVE WaitLock'
  BY <1>3 DEF Enter, Notified, Roles, WriterPC
<1>4. ASSUME NEW t \in Threads, AddToBlock(t) PROVE WaitLock'
  BY <1>4 DEF AddToBlock, Leave, Goto, ReturnTo
<1>5. ASSUME NEW t \in Threads, NEW W \in SUBSET Workers, AddBlock(t, W) PROVE WaitLock'
  BY <1>5 DEF AddBlock, Leave, Goto, ReturnTo
<1>6. ASSUME NEW t \in Threads, AddFails(t) PROVE WaitLock'
  BY <1>6 DEF AddFails, Leave, Goto, ReturnTo
<1>7. ASSUME NEW t \in Threads, AddFailsLate(t) PROVE WaitLock'
  BY <1>7 DEF AddFailsLate, Leave, Goto, ReturnTo
<1>8. ASSUME NEW t \in Threads, RemoveMissing(t) PROVE WaitLock'
  BY <1>8 DEF RemoveMissing, Leave, Goto, ReturnTo
<1>9. ASSUME NEW t \in Threads, NEW i \in DOMAIN handles, RemoveFound(t, i) PROVE WaitLock'
  BY <1>9 DEF RemoveFound, Leave, Notified, ReturnTo
<1>10. ASSUME NEW t \in Threads, NEW op \in {"add", "remove"}, NEW h \in Handles, Begin(t, op, h) PROVE WaitLock'
  BY <1>10 DEF Begin, Goto
<1>11. ASSUME NEW w \in Workers, Top(w) PROVE WaitLock'
  BY <1>11 DEF Top, Goto
<1>12. ASSUME NEW w \in Workers, Await(w) PROVE WaitLock'
  BY <1>12 DEF Await, Goto
<1>13. ASSUME NEW w \in Workers, LockShared(w) PROVE WaitLock'
  BY <1>13 DEF LockShared, Goto
<1>14. ASSUME NEW w \in Workers, WokenBySpin(w) PROVE WaitLock'
  BY <1>14 DEF WokenBySpin, Goto
<1>15. ASSUME NEW w \in Workers, NEW i \in DOMAIN handles, WokenByHandle(w, i) PROVE WaitLock'
  BY <1>15 DEF WokenByHandle, Goto
<1>16. ASSUME NEW w \in Workers, WaitFailed(w) PROVE WaitLock'
  BY <1>16 DEF WaitFailed, Goto
<1>17. ASSUME NEW w \in Workers, CallbackReturns(w) PROVE WaitLock'
  BY <1>17 DEF CallbackReturns, Goto
<1>18. ASSUME NEW w \in Workers, Exit(w) PROVE WaitLock'
  BY <1>18 DEF Exit, Goto
<1>19. ASSUME NEW w \in Workers, JoinPrevious(w) PROVE WaitLock'
  BY <1>19 DEF JoinPrevious
<1>20. ASSUME NEW w \in Workers, Die(w) PROVE WaitLock'
  BY <1>20 DEF Die, Goto
<1>21. ASSUME NEW c \in Callers, Destroy(c) PROVE WaitLock'
  BY <1>21 DEF Destroy, Goto
<1>22. ASSUME NEW c \in Callers, Reap(c) PROVE WaitLock'
  <2>1. CASE join_worker = Null BY <1>22, <2>1 DEF Reap
  <2>2. CASE ~(join_worker = Null) BY <1>22, <2>2 DEF Reap
  <2> QED BY <2>1, <2>2
<1>23. ASSUME NEW h \in Handles, Signal(h) PROVE WaitLock'
  BY <1>23 DEF Signal
<1>24. CASE UNCHANGED vars
  BY <1>24
<1> HIDE DEF TypeOK, Announcing, WaitLock
<1> QED
  BY <1>1, <1>2, <1>3, <1>4, <1>5, <1>6, <1>7, <1>8, <1>9, <1>10, <1>11, <1>12,
     <1>13, <1>14, <1>15, <1>16, <1>17, <1>18, <1>19, <1>20, <1>21, <1>22, <1>23, <1>24
     DEF Next, Write, Work, Gone

\* Every step keeps Lifecycle.
LEMMA LifecycleStep == PoolInv /\ [Next]_vars => Lifecycle'
<1> SUFFICES ASSUME PoolInv, [Next]_vars PROVE Lifecycle'
  OBVIOUS
<1> USE PoolAssumption DEF PoolInv, TypeOK, Threads, vars, data, sync, pool, Lifecycle, Roles, Announcing, WorkerPC, WriterPC, CallerPC
<1>1. ASSUME NEW t \in Threads, Announce(t) PROVE Lifecycle'
  BY <1>1 DEF Announce, Goto
<1>2. ASSUME NEW t \in Threads, SignalSpin(t) PROVE Lifecycle'
  BY <1>2 DEF SignalSpin, Goto
<1>3. ASSUME NEW t \in Threads, Enter(t) PROVE Lifecycle'
  <2>1. PICK l \in {"add", "remove"} : pc' = [pc EXCEPT ![t] = l]
    <3>1. arg[t].op \in {"add", "remove"} /\ pc \in [Threads -> WorkerPC \cup WriterPC \cup CallerPC]
      BY <1>3 DEF Enter
    <3>2. Notified = pc
      BY <3>1 DEF Notified
    <3> QED BY <1>3, <3>1, <3>2 DEF Enter
  <2>2. pc[t] = "enter" /\ UNCHANGED <<stopping, active_workers, join_worker>>
    BY <1>3 DEF Enter
  <2> QED BY <2>1, <2>2
<1>4. ASSUME NEW t \in Threads, AddToBlock(t) PROVE Lifecycle'
  BY <1>4 DEF AddToBlock, Leave, Goto, ReturnTo
<1>5. ASSUME NEW t \in Threads, NEW W \in SUBSET Workers, AddBlock(t, W) PROVE Lifecycle'
  BY <1>5 DEF AddBlock, Leave, Goto, ReturnTo
<1>6. ASSUME NEW t \in Threads, AddFails(t) PROVE Lifecycle'
  BY <1>6 DEF AddFails, Leave, Goto, ReturnTo
<1>7. ASSUME NEW t \in Threads, AddFailsLate(t) PROVE Lifecycle'
  BY <1>7 DEF AddFailsLate, Leave, Goto, ReturnTo
<1>8. ASSUME NEW t \in Threads, RemoveMissing(t) PROVE Lifecycle'
  BY <1>8 DEF RemoveMissing, Leave, Goto, ReturnTo
<1>9. ASSUME NEW t \in Threads, NEW i \in DOMAIN handles, RemoveFound(t, i) PROVE Lifecycle'
  BY <1>9 DEF RemoveFound, Leave, Notified, ReturnTo
<1>10. ASSUME NEW t \in Threads, NEW op \in {"add", "remove"}, NEW h \in Handles, Begin(t, op, h) PROVE Lifecycle'
  BY <1>10 DEF Begin, Goto
<1>11. ASSUME NEW w \in Workers, Top(w) PROVE Lifecycle'
  BY <1>11 DEF Top, Goto
<1>12. ASSUME NEW w \in Workers, Await(w) PROVE Lifecycle'
  BY <1>12 DEF Await, Goto
<1>13. ASSUME NEW w \in Workers, LockShared(w) PROVE Lifecycle'
  BY <1>13 DEF LockShared, Goto
<1>14. ASSUME NEW w \in Workers, WokenBySpin(w) PROVE Lifecycle'
  BY <1>14 DEF WokenBySpin, Goto
<1>15. ASSUME NEW w \in Workers, NEW i \in DOMAIN handles, WokenByHandle(w, i) PROVE Lifecycle'
  BY <1>15, SMTT(30) DEF WokenByHandle, Goto
<1>16. ASSUME NEW w \in Workers, WaitFailed(w) PROVE Lifecycle'
  BY <1>16 DEF WaitFailed, Goto
<1>17. ASSUME NEW w \in Workers, CallbackReturns(w) PROVE Lifecycle'
  BY <1>17 DEF CallbackReturns, Goto
<1>18. ASSUME NEW w \in Workers, Exit(w) PROVE Lifecycle'
  BY <1>18 DEF Exit, Goto
<1>19. ASSUME NEW w \in Workers, JoinPrevious(w) PROVE Lifecycle'
  BY <1>19 DEF JoinPrevious
<1>20. ASSUME NEW w \in Workers, Die(w) PROVE Lifecycle'
  BY <1>20 DEF Die, Goto
<1>21. ASSUME NEW c \in Callers, Destroy(c) PROVE Lifecycle'
  BY <1>21 DEF Destroy, Goto
<1>22. ASSUME NEW c \in Callers, Reap(c) PROVE Lifecycle'
  BY <1>22 DEF Reap
<1>23. ASSUME NEW h \in Handles, Signal(h) PROVE Lifecycle'
  BY <1>23 DEF Signal
<1>24. CASE UNCHANGED vars
  BY <1>24
<1> HIDE DEF TypeOK, Roles, Announcing, Lifecycle, WorkerPC, WriterPC, CallerPC
<1> QED
  BY <1>1, <1>2, <1>3, <1>4, <1>5, <1>6, <1>7, <1>8, <1>9, <1>10, <1>11, <1>12,
     <1>13, <1>14, <1>15, <1>16, <1>17, <1>18, <1>19, <1>20, <1>21, <1>22, <1>23, <1>24
     DEF Next, Write, Work, Gone

\* A prefix of a vector.
LEMMA PrefixType ==
    ASSUME NEW S, NEW s \in Seq(S), NEW n \in 0..Len(s)
    PROVE  SubSeq(s, 1, n) \in Seq(S) /\ Len(SubSeq(s, 1, n)) = n
  OBVIOUS

\* A vector without its last element.
LEMMA ButLastType ==
    ASSUME NEW S, NEW s \in Seq(S), Len(s) # 0
    PROVE  ButLast(s) \in Seq(S) /\ Len(ButLast(s)) = Len(s) - 1
<1>1. Len(s) - 1 \in 0..Len(s)
  OBVIOUS
<1> QED
  BY <1>1, PrefixType DEF ButLast

\* remove_handle() on one vector: the result is a vector of the same elements,
\* one shorter than it was.
LEMMA SwapRemoveType ==
    ASSUME NEW S, NEW s \in Seq(S), s # <<>>, NEW i \in 1..Len(s)
    PROVE  SwapRemove(s, i) \in Seq(S) /\ Len(SwapRemove(s, i)) = Len(s) - 1
<1> DEFINE e == [s EXCEPT ![i] = s[Len(s)]]
<1>1. e \in Seq(S) /\ Len(e) = Len(s) /\ Len(s) \in Nat \ {0}
  OBVIOUS
<1>2. SubSeq(e, 1, Len(e) - 1) \in Seq(S) /\ Len(SubSeq(e, 1, Len(e) - 1)) = Len(s) - 1
  BY <1>1
<1> QED
  BY <1>1, <1>2 DEF SwapRemove, ButLast

\* Dropping a trailing spin_workers does not lose the index of another handle.
LEMMA TrimmedType ==
    ASSUME TypeOK, Roles, NEW i \in DOMAIN handles, handles[i] \in Handles
    PROVE  /\ Trimmed(handles) \in Seq(Handles \cup {Spin}) /\ Trimmed(callbacks) \in Seq(Handles \cup {Spin})
           /\ i \in 1..Len(Trimmed(handles)) /\ i \in 1..Len(Trimmed(callbacks))
           /\ Len(Trimmed(handles)) <= Len(Trimmed(callbacks))
<1>1. handles \in Seq(Handles \cup {Spin}) /\ callbacks \in Seq(Handles \cup {Spin})
  BY DEF TypeOK
<1>2. i \in 1..Len(handles) /\ Len(handles) <= Len(callbacks) /\ Len(handles) \in Nat /\ Len(callbacks) \in Nat
  BY <1>1 DEF Roles
<1>3. CASE handles[Len(handles)] = Spin
  <2>1. i # Len(handles)
    BY <1>3, PoolAssumption
  <2>2. /\ ButLast(handles) \in Seq(Handles \cup {Spin}) /\ Len(ButLast(handles)) = Len(handles) - 1
        /\ ButLast(callbacks) \in Seq(Handles \cup {Spin}) /\ Len(ButLast(callbacks)) = Len(callbacks) - 1
    BY <1>1, <1>2, ButLastType
  <2> QED
    BY <1>2, <1>3, <2>1, <2>2 DEF Trimmed
<1>4. CASE handles[Len(handles)] # Spin
  BY <1>1, <1>2, <1>4 DEF Trimmed
<1> QED
  BY <1>3, <1>4

\* Every step keeps the types, the roles, and callbacks at least as long as handles.
LEMMA TypeStep == PoolInv /\ [Next]_vars => (TypeOK /\ Roles)'
<1> SUFFICES ASSUME PoolInv, [Next]_vars PROVE (TypeOK /\ Roles)'
  OBVIOUS
<1> USE PoolAssumption DEF PoolInv, TypeOK, Roles, Threads, vars, data, sync, pool, WorkerPC, WriterPC, CallerPC
<1>1. ASSUME NEW t \in Threads, Announce(t) PROVE (TypeOK /\ Roles)'
  BY <1>1 DEF Announce, Goto
<1>2. ASSUME NEW t \in Threads, SignalSpin(t) PROVE (TypeOK /\ Roles)'
  BY <1>2 DEF SignalSpin, Goto
<1>3. ASSUME NEW t \in Threads, Enter(t) PROVE (TypeOK /\ Roles)'
  <2>1. arg[t] \in [op : {"add", "remove"}, h : Handles]
    BY <1>3 DEF Enter
  <2>2. arg[t].op \in {"add", "remove"}
    BY <1>3, <2>1 DEF Enter
  <2>3. TypeOK'
    BY <1>3, <2>1, <2>2 DEF Enter, Notified
  <2>4. UNCHANGED arg
    BY <1>3 DEF Enter
  <2>5. Roles'
    <3>1. /\ \A c \in Callers : pc'[c] \in WriterPC \cup CallerPC
          /\ \A u \in Workers : pc'[u] \in WriterPC \cup WorkerPC
          /\ \A u \in Threads : pc'[u] \in WriterPC => arg'[u] # Null
      BY <1>3, <2>1, <2>4 DEF Enter, Notified
    <3>2. Len(handles') <= Len(callbacks')
      BY <1>3, <2>2 DEF Enter
    <3> HIDE DEF TypeOK, WriterPC, CallerPC, WorkerPC
    <3> QED BY <3>1, <3>2
  <2> QED BY <2>3, <2>5
<1>4. ASSUME NEW t \in Threads, AddToBlock(t) PROVE (TypeOK /\ Roles)'
  <2>1. arg[t] \in [op : {"add", "remove"}, h : Handles]
    BY <1>4 DEF AddToBlock
  <2>2. /\ handles' \in Seq(Handles \cup {Spin}) /\ callbacks' \in Seq(Handles \cup {Spin})
        /\ Len(handles') <= Len(callbacks')
    BY <1>4, <2>1 DEF AddToBlock
  <2>3. TypeOK'
    BY <1>4, <2>1, <2>2 DEF AddToBlock, Leave, Goto, ReturnTo
  <2>4. pc' = [pc EXCEPT ![t] = ReturnTo(t)] /\ arg' = [arg EXCEPT ![t] = Null]
    BY <1>4 DEF AddToBlock, Leave, Goto
  <2>5. Roles'
    <3>1. /\ \A c \in Callers : pc'[c] \in WriterPC \cup CallerPC
          /\ \A u \in Workers : pc'[u] \in WriterPC \cup WorkerPC
          /\ \A u \in Threads : pc'[u] \in WriterPC => arg'[u] # Null
      BY <2>1, <2>4 DEF ReturnTo
    <3>2. Len(handles') <= Len(callbacks')
      BY <2>2
    <3> HIDE DEF TypeOK, WriterPC, CallerPC, WorkerPC
    <3> QED BY <3>1, <3>2
  <2> QED BY <2>3, <2>5
<1>5. ASSUME NEW t \in Threads, NEW W \in SUBSET Workers, AddBlock(t, W) PROVE (TypeOK /\ Roles)'
  <2>1. arg[t] \in [op : {"add", "remove"}, h : Handles]
    BY <1>5 DEF AddBlock
  <2>2. /\ handles' \in Seq(Handles \cup {Spin}) /\ callbacks' \in Seq(Handles \cup {Spin})
        /\ Len(handles') <= Len(callbacks')
    BY <1>5, <2>1 DEF AddBlock
  <2>3. TypeOK'
    BY <1>5, <2>1, <2>2 DEF AddBlock, Leave, Goto, ReturnTo
  <2>4. UNCHANGED join_worker
    BY <1>5 DEF AddBlock, Leave, Goto
  <2>5. Roles'
    <3>1. /\ \A c \in Callers : pc'[c] \in WriterPC \cup CallerPC
          /\ \A u \in Workers : pc'[u] \in WriterPC \cup WorkerPC
          /\ \A u \in Threads : pc'[u] \in WriterPC => arg'[u] # Null
      BY <1>5, <2>1, <2>4 DEF AddBlock, Leave, Goto, ReturnTo
    <3>2. Len(handles') <= Len(callbacks')
      BY <1>5, <2>2
    <3> HIDE DEF TypeOK, WriterPC, CallerPC, WorkerPC
    <3> QED BY <3>1, <3>2
  <2> QED BY <2>3, <2>5
<1>6. ASSUME NEW t \in Threads, AddFails(t) PROVE (TypeOK /\ Roles)'
  <2>1. TypeOK'
    BY <1>6 DEF AddFails, Leave, Goto, ReturnTo
  <2>2. pc' = [pc EXCEPT ![t] = ReturnTo(t)] /\ arg' = [arg EXCEPT ![t] = Null]
    BY <1>6 DEF AddFails, Leave, Goto
  <2>3. UNCHANGED <<handles, callbacks>>
    BY <1>6 DEF AddFails
  <2>4. Roles'
    <3>1. /\ \A c \in Callers : pc'[c] \in WriterPC \cup CallerPC
          /\ \A u \in Workers : pc'[u] \in WriterPC \cup WorkerPC
          /\ \A u \in Threads : pc'[u] \in WriterPC => arg'[u] # Null
      BY <2>2 DEF ReturnTo
    <3>2. Len(handles') <= Len(callbacks')
      BY <2>3
    <3> HIDE DEF TypeOK, WriterPC, CallerPC, WorkerPC
    <3> QED BY <3>1, <3>2
  <2> QED BY <2>1, <2>4
<1>7. ASSUME NEW t \in Threads, AddFailsLate(t) PROVE (TypeOK /\ Roles)'
  <2>1. arg[t] \in [op : {"add", "remove"}, h : Handles]
    BY <1>7 DEF AddFailsLate
  <2>2. /\ handles' \in Seq(Handles \cup {Spin}) /\ callbacks' \in Seq(Handles \cup {Spin})
        /\ Len(handles') <= Len(callbacks')
    BY <1>7, <2>1 DEF AddFailsLate
  <2>3. TypeOK'
    BY <1>7, <2>1, <2>2 DEF AddFailsLate, Leave, Goto, ReturnTo
  <2>4. pc' = [pc EXCEPT ![t] = ReturnTo(t)] /\ arg' = [arg EXCEPT ![t] = Null]
    BY <1>7 DEF AddFailsLate, Leave, Goto
  <2>5. Roles'
    <3>1. /\ \A c \in Callers : pc'[c] \in WriterPC \cup CallerPC
          /\ \A u \in Workers : pc'[u] \in WriterPC \cup WorkerPC
          /\ \A u \in Threads : pc'[u] \in WriterPC => arg'[u] # Null
      BY <2>1, <2>4 DEF ReturnTo
    <3>2. Len(handles') <= Len(callbacks')
      BY <2>2
    <3> HIDE DEF TypeOK, WriterPC, CallerPC, WorkerPC
    <3> QED BY <3>1, <3>2
  <2> QED BY <2>3, <2>5
<1>8. ASSUME NEW t \in Threads, RemoveMissing(t) PROVE (TypeOK /\ Roles)'
  BY <1>8 DEF RemoveMissing, Leave, Goto, ReturnTo
<1>9. ASSUME NEW t \in Threads, NEW i \in DOMAIN handles, RemoveFound(t, i) PROVE (TypeOK /\ Roles)'
  <2>1. arg[t] \in [op : {"add", "remove"}, h : Handles]
    BY <1>9 DEF RemoveFound
  <2>2. handles[i] \in Handles
    BY <1>9, <2>1 DEF RemoveFound
  <2> HIDE DEF TypeOK, Roles
  <2>3. /\ Trimmed(handles) \in Seq(Handles \cup {Spin}) /\ Trimmed(callbacks) \in Seq(Handles \cup {Spin})
        /\ i \in 1..Len(Trimmed(handles)) /\ i \in 1..Len(Trimmed(callbacks))
        /\ Len(Trimmed(handles)) <= Len(Trimmed(callbacks))
    BY <2>2, TrimmedType
  <2>4. /\ handles' \in Seq(Handles \cup {Spin}) /\ callbacks' \in Seq(Handles \cup {Spin})
        /\ Len(handles') <= Len(callbacks')
    BY <1>9, <2>3, SwapRemoveType DEF RemoveFound
  <2> USE DEF TypeOK, Roles
  <2>5. TypeOK'
    BY <1>9, <2>4 DEF RemoveFound, Leave, Notified, ReturnTo
  <2>6. pc' = [Notified EXCEPT ![t] = ReturnTo(t)] /\ arg' = [arg EXCEPT ![t] = Null]
    BY <1>9 DEF RemoveFound, Leave
  <2>7. Roles'
    <3>1. /\ \A c \in Callers : pc'[c] \in WriterPC \cup CallerPC
          /\ \A u \in Workers : pc'[u] \in WriterPC \cup WorkerPC
          /\ \A u \in Threads : pc'[u] \in WriterPC => arg'[u] # Null
      <4> HIDE DEF TypeOK
      <4>1. t \in Threads /\ pc \in [Threads -> WorkerPC \cup WriterPC \cup CallerPC] /\ arg \in [Threads -> [op : {"add", "remove"}, h : Handles] \cup {Null}]
        BY DEF TypeOK
      <4> QED BY <2>6, <4>1 DEF Notified, ReturnTo
    <3>2. Len(handles') <= Len(callbacks')
      BY <2>4
    <3> HIDE DEF TypeOK, WriterPC, CallerPC, WorkerPC
    <3> QED BY <3>1, <3>2
  <2> QED BY <2>5, <2>7
<1>10. ASSUME NEW t \in Threads, NEW op \in {"add", "remove"}, NEW h \in Handles, Begin(t, op, h) PROVE (TypeOK /\ Roles)'
  <2>1. TypeOK'
    BY <1>10 DEF Begin, Goto
  <2>2. /\ pc' = [pc EXCEPT ![t] = "announce"] /\ arg' = [arg EXCEPT ![t] = [op |-> op, h |-> h]]
        /\ [op |-> op, h |-> h] # Null /\ UNCHANGED <<handles, callbacks>>
    BY <1>10 DEF Begin, Goto
  <2>3. Roles'
    BY <2>2
  <2> QED BY <2>1, <2>3
<1>11. ASSUME NEW w \in Workers, Top(w) PROVE (TypeOK /\ Roles)'
  BY <1>11 DEF Top, Goto
<1>12. ASSUME NEW w \in Workers, Await(w) PROVE (TypeOK /\ Roles)'
  BY <1>12 DEF Await, Goto
<1>13. ASSUME NEW w \in Workers, LockShared(w) PROVE (TypeOK /\ Roles)'
  BY <1>13 DEF LockShared, Goto
<1>14. ASSUME NEW w \in Workers, WokenBySpin(w) PROVE (TypeOK /\ Roles)'
  <2>1. PICK l \in {"exit", "top"} : pc' = [pc EXCEPT ![w] = l]
    BY <1>14 DEF WokenBySpin, Goto
  <2>2. /\ readers' \subseteq Workers /\ signalled' \subseteq Handles
        /\ UNCHANGED <<data, spin_workers, stopping, pending_writer, pending_writer_lock, writer, workers_lock, pool, arg>>
    BY <1>14 DEF WokenBySpin, Goto
  <2>3. got' \in [Workers -> [handle : Handles \cup {Spin}, callback : Handles \cup {Spin}] \cup {Null}]
    BY <1>14 DEF WokenBySpin
  <2>4. TypeOK'
    BY <2>1, <2>2, <2>3
  <2>5. Roles'
    BY <2>1, <2>2
  <2> QED BY <2>4, <2>5
<1>15. ASSUME NEW w \in Workers, NEW i \in DOMAIN handles, WokenByHandle(w, i) PROVE (TypeOK /\ Roles)'
  <2>1. PICK l \in {"exit", "callback"} : pc' = [pc EXCEPT ![w] = l]
    BY <1>15 DEF WokenByHandle, Goto
  <2>2. /\ readers' \subseteq Workers /\ signalled' \subseteq Handles
        /\ UNCHANGED <<data, spin_workers, stopping, pending_writer, pending_writer_lock, writer, workers_lock, pool, arg>>
    BY <1>15 DEF WokenByHandle, Goto
  <2>3. got' \in [Workers -> [handle : Handles \cup {Spin}, callback : Handles \cup {Spin}] \cup {Null}]
    <3>1. i \in 1..Len(handles) /\ i \in 1..Len(callbacks)
      OBVIOUS
    <3>2. handles[i] \in Handles \cup {Spin} /\ callbacks[i] \in Handles \cup {Spin}
      BY <3>1
    <3> QED BY <1>15, <3>2 DEF WokenByHandle
  <2>4. TypeOK'
    BY <2>1, <2>2, <2>3
  <2>5. Roles'
    BY <2>1, <2>2
  <2> QED BY <2>4, <2>5
<1>16. ASSUME NEW w \in Workers, WaitFailed(w) PROVE (TypeOK /\ Roles)'
  BY <1>16 DEF WaitFailed, Goto
<1>17. ASSUME NEW w \in Workers, CallbackReturns(w) PROVE (TypeOK /\ Roles)'
  BY <1>17 DEF CallbackReturns, Goto
<1>18. ASSUME NEW w \in Workers, Exit(w) PROVE (TypeOK /\ Roles)'
  BY <1>18 DEF Exit, Goto
<1>19. ASSUME NEW w \in Workers, JoinPrevious(w) PROVE (TypeOK /\ Roles)'
  BY <1>19 DEF JoinPrevious
<1>20. ASSUME NEW w \in Workers, Die(w) PROVE (TypeOK /\ Roles)'
  BY <1>20 DEF Die, Goto
<1>21. ASSUME NEW c \in Callers, Destroy(c) PROVE (TypeOK /\ Roles)'
  BY <1>21 DEF Destroy, Goto
<1>22. ASSUME NEW c \in Callers, Reap(c) PROVE (TypeOK /\ Roles)'
  BY <1>22 DEF Reap
<1>23. ASSUME NEW h \in Handles, Signal(h) PROVE (TypeOK /\ Roles)'
  BY <1>23 DEF Signal
<1>24. CASE UNCHANGED vars
  BY <1>24
<1> HIDE DEF TypeOK, Roles, WorkerPC, WriterPC, CallerPC
<1> QED
  BY <1>1, <1>2, <1>3, <1>4, <1>5, <1>6, <1>7, <1>8, <1>9, <1>10, <1>11, <1>12,
     <1>13, <1>14, <1>15, <1>16, <1>17, <1>18, <1>19, <1>20, <1>21, <1>22, <1>23, <1>24
     DEF Next, Write, Work, Gone

\* The initial state satisfies the invariant, whatever the constructor leaves
\* in pending_writer.
LEMMA InitInv == Init => PoolInv
<1> SUFFICES ASSUME Init PROVE PoolInv
  OBVIOUS
<1> USE PoolAssumption DEF Init, Threads, WorkerPC, WriterPC, CallerPC
<1>1. TypeOK
  <2>1. <<>> \in Seq(Handles \cup {Spin})
    OBVIOUS
  <2>2. /\ base_index \in [Workers -> Nat]
        /\ pc \in [Threads -> WorkerPC \cup WriterPC \cup CallerPC]
        /\ arg \in [Threads -> [op : {"add", "remove"}, h : Handles] \cup {Null}]
        /\ got \in [Workers -> [handle : Handles \cup {Spin}, callback : Handles \cup {Spin}] \cup {Null}]
    OBVIOUS
  <2> QED
    BY <2>1, <2>2 DEF TypeOK
<1>2. Roles
  BY DEF Roles
<1>3. Announcing
  BY DEF Announcing
<1>4. WaitLock
  BY DEF WaitLock
<1>5. Lifecycle
  BY DEF Lifecycle
<1> QED
  BY <1>1, <1>2, <1>3, <1>4, <1>5 DEF PoolInv

\* PoolInv is inductive, hence an invariant of the pool.
THEOREM PoolInvariant == Spec => []PoolInv
<1>1. Init => PoolInv
  BY InitInv
<1>2. PoolInv /\ [Next]_vars => PoolInv'
  BY TypeStep, AnnouncingStep, WaitLockStep, LifecycleStep DEF PoolInv
<1> QED
  BY <1>1, <1>2, PTL DEF Spec

\* HandleHandlingPool's state always has the types of its members.
THEOREM TypeCorrect == Spec => []TypeOK
<1>1. PoolInv => TypeOK
  BY DEF PoolInv
<1> QED
  BY <1>1, PoolInvariant, PTL

\* worker_main() never sleeps on pending_writer_cv, so no notification of
\* add_handle() or remove_handle() can be missed.
THEOREM WorkersNeverPark == Spec => []NeverParked
<1>1. PoolInv => NeverParked
  BY DEF PoolInv, Announcing, NeverParked, Threads
<1> QED
  BY <1>1, PoolInvariant, PTL

\* add_handle() and remove_handle() change the array with no other writer,
\* no worker waiting on it and no worker leaving active_workers.
THEOREM WritersExclude == Spec => []WriterAlone
<1>1. PoolInv => WriterAlone
  <2> SUFFICES ASSUME PoolInv, NEW t \in Threads, pc[t] \in {"add", "remove"},
                      NEW u \in Threads \ {t}
               PROVE  pc[u] \notin {"add", "remove", "wait", "exit", "join", "dying"}
    BY DEF WriterAlone
  <2>1. writer = t /\ t # Null
    BY PoolAssumption DEF PoolInv, WaitLock
  <2>2. readers = {}
    BY <2>1 DEF PoolInv, WaitLock
  <2> QED
    BY <2>1, <2>2 DEF PoolInv, WaitLock
<1> QED
  BY <1>1, PoolInvariant, PTL

\* worker_exit(): at most one thread has left active_workers and is unjoined.
THEOREM AtMostOneZombie == Spec => []OneZombie
<1>1. PoolInv => OneZombie
  BY DEF PoolInv, Lifecycle, OneZombie
<1> QED
  BY <1>1, PoolInvariant, PTL

\* ~HandleHandlingPool() returns with every worker joined.
THEOREM DestructorJoinsAll == Spec => []AllJoined
<1>1. PoolInv => AllJoined
  BY DEF PoolInv, Lifecycle, AllJoined
<1> QED
  BY <1>1, PoolInvariant, PTL

-------------------------------------------------------------------------------
(* What the array looks like, and what a worker takes from it, when the      *)
(* vectors can always grow.  (When `callbacks' can fail to shrink back after *)
(* a std::bad_alloc the two vectors differ from then on.)                    *)

\* spin_workers is the first handle of every block and nothing else.
Laid(s) == \A i \in 1..Len(s) : s[i] = Spin <=> (i - 1) % BlockSize = 0

Layout ==
    /\ callbacks = handles /\ Laid(handles)
    /\ \A w \in Workers : base_index[w] % BlockSize = 0
    /\ RightCallback

\* How many workers a block has at least.
Enough == IF Failures = {} THEN ThreadsPerPool ELSE 1

\* A worker leaves only after its block, every block has its workers, and no
\* block, nor the place where one was, has more.
Staffed ==
    ~stopping =>
        /\ \A w \in Workers : pc[w] \in {"exit", "join"} => Len(handles) <= base_index[w]
        /\ \A b \in Nat : b < Len(handles) /\ b % BlockSize = 0 => Cardinality(Served(b)) >= Enough
        /\ \A b \in Nat : Cardinality(Served(b)) <= ThreadsPerPool

\* The place after the first of a block, and those up to its end, are no starts of blocks.
LEMMA InsideBlock ==
    ASSUME NEW n \in Nat, n % BlockSize = 0, NEW d \in 1..BlockSize - 1
    PROVE  (n + d) % BlockSize # 0
<1>1. BlockSize \in Nat /\ BlockSize > 1
  BY PoolAssumption DEF BlockSize
<1>2. ASSUME NEW B \in Nat, B > 1, NEW m \in Nat, m % B = 0, NEW e \in 1..B - 1
      PROVE  (m + e) % B # 0
  <2>1. PICK q \in Nat, r \in 0..B - 1 : m = B * q + r /\ r = m % B
    BY <1>2
  <2>2. m = B * q
    <3>1. B * q \in Nat /\ r = 0
      BY <1>2, <2>1
    <3>2. \A z \in Nat : z + 0 = z
      OBVIOUS
    <3>3. m = B * q + 0
      BY <2>1, <3>1, Zenon
    <3> QED BY <3>1, <3>2, <3>3, Zenon
  <2>3. (B * q + e) % B = e
    BY <1>2
  <2> QED
    BY <1>2, <2>2, <2>3
<1> QED
  BY <1>1, <1>2

\* add_handle() into a block.
LEMMA LaidAppend ==
    ASSUME NEW s \in Seq(Handles \cup {Spin}), Laid(s), NEW h \in Handles, Len(s) % BlockSize # 0
    PROVE  Laid(Append(s, h))
<1> DEFINE r == Append(s, h)
<1>1. Len(r) = Len(s) + 1 /\ Len(s) \in Nat /\ r[Len(s) + 1] = h /\ \A i \in 1..Len(s) : r[i] = s[i]
  OBVIOUS
<1>2. h # Spin /\ (Len(s) + 1) - 1 = Len(s)
  BY PoolAssumption
<1> HIDE DEF r
<1>3. ASSUME NEW i \in 1..Len(s) + 1 PROVE r[i] = Spin <=> (i - 1) % BlockSize = 0
  <2>1. CASE i = Len(s) + 1
    BY <1>1, <1>2, <2>1
  <2>2. CASE i \in 1..Len(s)
    BY <1>1, <2>2 DEF Laid
  <2> QED BY <1>1, <2>1, <2>2
<1>4. Laid(r)
  BY <1>1, <1>3 DEF Laid
<1> QED
  BY <1>4 DEF r

\* add_handle() with a new block.
LEMMA LaidBlock ==
    ASSUME NEW s \in Seq(Handles \cup {Spin}), Laid(s), NEW h \in Handles, Len(s) % BlockSize = 0
    PROVE  Laid(s \o <<Spin, h>>)
<1> DEFINE r == s \o <<Spin, h>>
           L == Len(s)
<1>1. Len(r) = L + 2 /\ L \in Nat /\ r[L + 1] = Spin /\ r[L + 2] = h /\ \A i \in 1..L : r[i] = s[i]
  OBVIOUS
<1>2. h # Spin /\ (L + 1) - 1 = L /\ (L + 2) - 1 = L + 1
  BY <1>1, PoolAssumption
<1>3. (L + 1) % BlockSize # 0
  <2>1. 1 \in 1..BlockSize - 1
    BY PoolAssumption DEF BlockSize
  <2> QED BY <1>1, <2>1, InsideBlock
<1> HIDE DEF r
<1>4. ASSUME NEW i \in 1..L + 2 PROVE r[i] = Spin <=> (i - 1) % BlockSize = 0
  <2>1. CASE i = L + 1
    BY <1>1, <1>2, <2>1
  <2>2. CASE i = L + 2
    BY <1>1, <1>2, <1>3, <2>2
  <2>3. CASE i \in 1..L
    BY <1>1, <2>3 DEF Laid
  <2> QED BY <1>1, <2>1, <2>2, <2>3
<1>5. Laid(r)
  BY <1>1, <1>4 DEF Laid
<1> QED
  BY <1>5 DEF r

\* remove_handle() moves the last handle into the place of the one that goes.
LEMMA SwapRemoved ==
    ASSUME NEW S, NEW s \in Seq(S), NEW i \in 1..Len(s)
    PROVE  /\ Len(SwapRemove(s, i)) = Len(s) - 1
           /\ \A j \in (1..Len(s) - 1) \ {i} : SwapRemove(s, i)[j] = s[j]
           /\ i <= Len(s) - 1 => SwapRemove(s, i)[i] = s[Len(s)]
<1> DEFINE e == [s EXCEPT ![i] = s[Len(s)]]
           L == Len(s)
<1>1. e \in Seq(S) /\ Len(e) = L /\ L \in Nat \ {0} /\ \A j \in 1..L : e[j] = IF j = i THEN s[L] ELSE s[j]
  OBVIOUS
<1> HIDE DEF e, L
<1>2. Len(SubSeq(e, 1, L - 1)) = L - 1 /\ \A j \in 1..L - 1 : SubSeq(e, 1, L - 1)[j] = e[j]
  BY <1>1
<1>3. SwapRemove(s, i) = SubSeq(e, 1, L - 1)
  BY <1>1 DEF SwapRemove, ButLast, e, L
<1>4. \A j \in 1..L - 1 : j \in 1..L
  BY <1>1
<1>5. /\ Len(SwapRemove(s, i)) = L - 1 /\ \A j \in (1..L - 1) \ {i} : SwapRemove(s, i)[j] = s[j]
      /\ i <= L - 1 => SwapRemove(s, i)[i] = s[L]
  BY <1>1, <1>2, <1>3, <1>4
<1> QED
  BY <1>5 DEF L

\* ... and keeps the blocks as they were: the last handle is never a spin_workers,
\* because a trailing one is dropped first.
LEMMA LaidRemove ==
    ASSUME NEW s \in Seq(Handles \cup {Spin}), Laid(s), NEW i \in 1..Len(s), s[i] \in Handles,
           NEW u, u = IF s[Len(s)] = Spin THEN ButLast(s) ELSE s
    PROVE  Laid(SwapRemove(u, i)) /\ Len(SwapRemove(u, i)) < Len(s)
<1> DEFINE L == Len(u)
<1>0. s[i] # Spin /\ Len(s) \in Nat \ {0} /\ BlockSize \in Nat /\ BlockSize > 1
  BY PoolAssumption DEF BlockSize
<1>1. /\ u \in Seq(Handles \cup {Spin}) /\ i \in 1..L /\ L \in Nat \ {0} /\ L <= Len(s)
      /\ \A j \in 1..L : u[j] = s[j]
  <2>1. CASE s[Len(s)] = Spin
    <3>1. i # Len(s) /\ u = SubSeq(s, 1, Len(s) - 1)
      BY <1>0, <2>1 DEF ButLast
    <3>2. Len(s) - 1 \in 1..Len(s) /\ i \in 1..Len(s) - 1
      BY <1>0, <3>1
    <3> QED BY <3>1, <3>2
  <2>2. CASE s[Len(s)] # Spin
    BY <1>0, <2>2
  <2> QED BY <2>1, <2>2
<1>2. u[L] # Spin
  <2>1. CASE s[Len(s)] = Spin
    <3>1. L = Len(s) - 1
      BY <1>0, <2>1, ButLastType
    <3>2. (Len(s) - 1) % BlockSize = 0
      BY <1>0, <2>1 DEF Laid
    <3>3. (L - 1) % BlockSize # 0
      <4>1. L - 1 \in Nat /\ 1 \in 1..BlockSize - 1 /\ (L - 1) + 1 = Len(s) - 1
        BY <1>0, <1>1, <3>1
      <4> QED BY <3>2, <4>1, InsideBlock
    <3>4. L \in 1..Len(s) /\ u[L] = s[L]
      BY <1>0, <1>1
    <3> QED BY <3>3, <3>4 DEF Laid
  <2>2. CASE s[Len(s)] # Spin
    BY <2>2
  <2> QED BY <2>1, <2>2
<1> DEFINE r == SwapRemove(u, i)
<1>3. Len(r) = L - 1 /\ (\A j \in (1..L - 1) \ {i} : r[j] = u[j]) /\ (i <= L - 1 => r[i] = u[L])
  BY <1>1, SwapRemoved, ZenonT(60)
<1> HIDE DEF r, L
<1>4. ASSUME NEW j \in 1..L - 1 PROVE r[j] = Spin <=> (j - 1) % BlockSize = 0
  <2>1. j \in 1..L /\ j \in 1..Len(s)
    BY <1>0, <1>1
  <2>2. s[j] = Spin <=> (j - 1) % BlockSize = 0
    BY <2>1 DEF Laid
  <2>3. CASE j = i
    BY <1>0, <1>2, <1>3, <2>2, <2>3
  <2>4. CASE j # i
    BY <1>1, <1>3, <2>1, <2>2, <2>4
  <2> QED BY <2>3, <2>4
<1>5. Laid(r)
  BY <1>3, <1>4 DEF Laid
<1>6. Len(r) < Len(s)
  BY <1>0, <1>1, <1>3
<1> QED
  BY <1>5, <1>6 DEF r

\* Every step keeps Layout.
LEMMA LayoutStep ==
    ASSUME "alloc" \notin Failures, PoolInv, Layout, [Next]_vars
    PROVE  Layout'
<1>0. /\ handles \in Seq(Handles \cup {Spin}) /\ Laid(handles) /\ callbacks = handles
      /\ base_index \in [Workers -> Nat] /\ Len(handles) \in Nat /\ DOMAIN handles = 1..Len(handles)
      /\ got \in [Workers -> [handle : Handles \cup {Spin}, callback : Handles \cup {Spin}] \cup {Null}]
  BY DEF PoolInv, TypeOK, Layout
<1>1. ASSUME UNCHANGED <<handles, callbacks, base_index, got>> PROVE Layout'
  BY <1>1 DEF Layout, Laid, RightCallback
<1>2. ASSUME handles' = callbacks', Laid(handles'), UNCHANGED <<base_index, got>> PROVE Layout'
  <2>1. Laid(handles)'
    BY <1>2 DEF Laid
  <2> QED BY <1>2, <2>1 DEF Layout, RightCallback
<1>3. ASSUME NEW t \in Threads, pc[t] \in WriterPC PROVE arg[t].h \in Handles
  BY <1>3 DEF PoolInv, TypeOK, Roles
<1>4. ASSUME NEW t \in Threads, AddToBlock(t) PROVE Layout'
  <2>1. /\ arg[t].h \in Handles /\ handles' = Append(handles, arg[t].h) /\ callbacks' = Append(callbacks, arg[t].h)
        /\ Len(handles) % BlockSize # 0 /\ UNCHANGED <<base_index, got>>
    BY <1>3, <1>4 DEF AddToBlock, WriterPC, Leave, pool
  <2>2. Laid(handles') /\ handles' = callbacks'
    BY <1>0, <2>1, LaidAppend
  <2> QED BY <1>2, <2>1, <2>2
<1>5. ASSUME NEW t \in Threads, NEW W \in SUBSET Workers, AddBlock(t, W) PROVE Layout'
  <2>1. /\ arg[t].h \in Handles /\ handles' = handles \o <<Spin, arg[t].h>> /\ callbacks' = callbacks \o <<Spin, arg[t].h>>
        /\ Len(handles) % BlockSize = 0 /\ UNCHANGED got
        /\ base_index' = [w \in Workers |-> IF w \in W THEN Len(handles) ELSE base_index[w]]
    BY <1>3, <1>5 DEF AddBlock, WriterPC, Leave
  <2>2. Laid(handles') /\ handles' = callbacks'
    BY <1>0, <2>1, LaidBlock
  <2>3. \A w \in Workers : base_index'[w] % BlockSize' = 0
    BY <1>0, <2>1 DEF Layout, BlockSize
  <2>4. Laid(handles)'
    BY <2>2 DEF Laid
  <2> QED
    BY <2>1, <2>2, <2>3, <2>4 DEF Layout, RightCallback
<1>6. ASSUME NEW t \in Threads, NEW i \in DOMAIN handles, RemoveFound(t, i) PROVE Layout'
  <2>1. /\ handles[i] \in Handles /\ i \in 1..Len(handles) /\ UNCHANGED <<base_index, got>>
        /\ handles' = SwapRemove(Trimmed(handles), i) /\ callbacks' = SwapRemove(Trimmed(callbacks), i)
    BY <1>0, <1>3, <1>6 DEF RemoveFound, WriterPC, Leave, pool
  <2>2. Laid(handles')
    BY <1>0, <2>1, LaidRemove DEF Trimmed
  <2>3. handles' = callbacks'
    BY <1>0, <2>1
  <2> QED BY <1>2, <2>1, <2>2, <2>3
<1>7. ASSUME NEW w \in Workers, NEW i \in DOMAIN handles, WokenByHandle(w, i) PROVE Layout'
  <2>1. i \in Nat /\ base_index[w] \in Nat /\ base_index[w] + 1 < i /\ i <= base_index[w] + BlockSize
        /\ base_index[w] % BlockSize = 0 /\ BlockSize \in Nat
    BY <1>0, <1>7, PoolAssumption DEF WokenByHandle, Ready, Waited, Layout, BlockSize
  <2>2. handles[i] # Spin
    <3> DEFINE d == i - 1 - base_index[w]
    <3>1. d \in 1..BlockSize - 1 /\ base_index[w] + d = i - 1
      BY <2>1
    <3>2. (i - 1) % BlockSize # 0
      BY <2>1, <3>1, InsideBlock
    <3> QED BY <1>0, <3>2 DEF Laid
  <2>3. UNCHANGED <<handles, callbacks, base_index>>
    BY <1>7 DEF WokenByHandle, data, pool
  <2>4. \/ got' = got
        \/ got' = [got EXCEPT ![w] = [handle |-> handles[i], callback |-> handles[i]]]
    BY <1>0, <1>7 DEF WokenByHandle
  <2>5. RightCallback'
    <3> SUFFICES ASSUME NEW u \in Workers, got'[u] # Null
                 PROVE  got'[u].callback = got'[u].handle /\ got'[u].callback # Spin
      BY DEF RightCallback
    <3>1. CASE got'[u] = got[u]
      BY <3>1 DEF Layout, RightCallback
    <3>2. CASE got'[u] = [handle |-> handles[i], callback |-> handles[i]]
      BY <2>2, <3>2
    <3> QED BY <1>0, <2>4, <3>1, <3>2
  <2> QED BY <2>3, <2>5 DEF Layout, Laid
<1>8. ASSUME NEW w \in Workers, CallbackReturns(w) PROVE Layout'
  <2>1. UNCHANGED <<handles, callbacks, base_index>> /\ got' = [got EXCEPT ![w] = Null]
    BY <1>8 DEF CallbackReturns, data, pool
  <2>2. RightCallback'
    BY <1>0, <2>1 DEF Layout, RightCallback
  <2> QED BY <2>1, <2>2 DEF Layout, Laid
<1>9. ASSUME NEW t \in Threads, NEW op \in {"add", "remove"}, NEW h \in Handles, Begin(t, op, h) PROVE Layout'
  BY <1>1, <1>9 DEF Begin, data, pool
<1>10. ASSUME NEW t \in Threads, Announce(t) \/ SignalSpin(t) \/ Enter(t) \/ AddFails(t) \/ RemoveMissing(t)
       PROVE  Layout'
  BY <1>1, <1>10 DEF Announce, SignalSpin, Enter, AddFails, RemoveMissing, Leave, data, pool
<1>11. ASSUME NEW t \in Threads, AddFailsLate(t) PROVE FALSE
  BY <1>11 DEF AddFailsLate
<1>12. ASSUME NEW w \in Workers, Top(w) \/ Await(w) \/ LockShared(w) \/ WokenBySpin(w) \/ WaitFailed(w) \/ Exit(w)
                                   \/ JoinPrevious(w) \/ Die(w)
       PROVE  Layout'
  BY <1>1, <1>12 DEF Top, Await, LockShared, WokenBySpin, WaitFailed, Exit, JoinPrevious, Die, data, pool
<1>13. ASSUME NEW c \in Callers, Destroy(c) \/ Reap(c) PROVE Layout'
  BY <1>1, <1>13 DEF Destroy, Reap, data, pool
<1>14. ASSUME NEW h \in Handles, Signal(h) PROVE Layout'
  BY <1>1, <1>14 DEF Signal, data, pool
<1>15. CASE UNCHANGED vars
  BY <1>1, <1>15 DEF vars, data, pool
<1> QED
  BY <1>4, <1>5, <1>6, <1>7, <1>8, <1>9, <1>10, <1>11, <1>12, <1>13, <1>14, <1>15
     DEF Next, Write, Work, Gone

\* worker_main() runs the callback of the handle that woke it, for any number of
\* handles and blocks and in any interleaving with add_handle() and remove_handle(),
\* unless a vector could not grow.
THEOREM CallbacksAreRight ==
    ASSUME "alloc" \notin Failures
    PROVE  Spec => []RightCallback
<1>1. Init => PoolInv /\ Layout
  <2> SUFFICES ASSUME Init PROVE Layout
    BY InitInv
  <2>1. 0 % BlockSize = 0
    BY PoolAssumption DEF BlockSize
  <2> QED
    BY <2>1 DEF Init, Layout, Laid, RightCallback
<1>2. PoolInv /\ Layout /\ [Next]_vars => (PoolInv /\ Layout)'
  BY LayoutStep, TypeStep, AnnouncingStep, WaitLockStep, LifecycleStep DEF PoolInv
<1>3. PoolInv /\ Layout => RightCallback
  BY DEF Layout
<1> QED
  BY <1>1, <1>2, <1>3, PTL DEF Spec

-------------------------------------------------------------------------------
(* Every block has its workers, when neither an allocation nor a wait fails. *)

\* The workers in A whose block starts at b.
Crew(A, base, b) == {w \in A : base[w] = b}

\* Crews are finite.
LEMMA CrewFinite ==
    ASSUME NEW A \in SUBSET Workers, NEW base, NEW b
    PROVE  IsFiniteSet(Crew(A, base, b)) /\ Cardinality(Crew(A, base, b)) \in Nat
<1>1. Crew(A, base, b) \in SUBSET Workers
  BY DEF Crew
<1>2. IsFiniteSet(Crew(A, base, b))
  BY <1>1, WorkersAssumption, FS_Subset
<1> QED
  BY <1>2, FS_CardinalityType

\* New workers join the crew of their block and no other.
LEMMA CrewGrows ==
    ASSUME NEW A \in SUBSET Workers, NEW W \in SUBSET Workers, W \cap A = {}, NEW base \in [Workers -> Nat],
           NEW n \in Nat, NEW b \in Nat, NEW base2,
           base2 = [w \in Workers |-> IF w \in W THEN n ELSE base[w]]
    PROVE  /\ b # n => Crew(A \cup W, base2, b) = Crew(A, base, b)
           /\ Cardinality(Crew(A \cup W, base2, n)) = Cardinality(Crew(A, base, n)) + Cardinality(W)
<1>1. b # n => Crew(A \cup W, base2, b) = Crew(A, base, b)
  BY DEF Crew
<1>2. Crew(A \cup W, base2, n) = Crew(A, base, n) \cup W
  BY DEF Crew
<1>3. IsFiniteSet(W) /\ Crew(A, base, n) \cap W = {}
  BY WorkersAssumption, FS_Subset DEF Crew
<1>4. IsFiniteSet(Crew(A, base, n)) /\ Cardinality(Crew(A, base, n)) \in Nat /\ Cardinality(W) \in Nat
  BY <1>3, CrewFinite, FS_CardinalityType
<1>5. Cardinality(Crew(A, base, n) \cup W)
         = Cardinality(Crew(A, base, n)) + Cardinality(W) - Cardinality(Crew(A, base, n) \cap W)
  BY <1>3, <1>4, FS_Union
<1>6. Cardinality(Crew(A, base, n) \cap W) = 0
  BY <1>3, FS_EmptySet
<1>7. Cardinality(Crew(A, base, n) \cup W) = Cardinality(Crew(A, base, n)) + Cardinality(W)
  BY <1>4, <1>5, <1>6
<1> QED
  BY <1>1, <1>2, <1>7

\* A worker that leaves is missed by its own crew only.
LEMMA CrewShrinks ==
    ASSUME NEW A \in SUBSET Workers, NEW w \in Workers, NEW base, NEW b
    PROVE  /\ base[w] # b => Crew(A \ {w}, base, b) = Crew(A, base, b)
           /\ Cardinality(Crew(A \ {w}, base, b)) <= Cardinality(Crew(A, base, b))
<1>1. Crew(A \ {w}, base, b) \in SUBSET Crew(A, base, b)
  BY DEF Crew
<1>2. IsFiniteSet(Crew(A, base, b))
  BY CrewFinite
<1>3. base[w] # b => Crew(A \ {w}, base, b) = Crew(A, base, b)
  BY DEF Crew
<1> QED
  BY <1>1, <1>2, <1>3, FS_Subset

\* Staffed in terms of crews.
StaffedOf(n, A, base) ==
    /\ \A b \in Nat : b < n /\ b % BlockSize = 0 => Cardinality(Crew(A, base, b)) >= Enough
    /\ \A b \in Nat : Cardinality(Crew(A, base, b)) <= ThreadsPerPool

\* Served(b), now and after a step, is a crew.
LEMMA StaffedCrews ==
    /\ Staffed <=> (~stopping =>
          /\ \A w \in Workers : pc[w] \in {"exit", "join"} => Len(handles) <= base_index[w]
          /\ StaffedOf(Len(handles), active_workers, base_index))
    /\ Staffed' <=> (~stopping' =>
          /\ \A w \in Workers : pc'[w] \in {"exit", "join"} => Len(handles') <= base_index'[w]
          /\ StaffedOf(Len(handles'), active_workers', base_index'))
<1>1. \A b : Served(b) = Crew(active_workers, base_index, b)
  BY DEF Served, Crew
<1>2. \A b : Served(b)' = Crew(active_workers', base_index', b)
  BY DEF Served, Crew
<1>3. Staffed <=> (~stopping =>
          /\ \A w \in Workers : pc[w] \in {"exit", "join"} => Len(handles) <= base_index[w]
          /\ StaffedOf(Len(handles), active_workers, base_index))
  BY <1>1 DEF Staffed, StaffedOf
<1>4. Staffed' <=> (~stopping' =>
          /\ \A w \in Workers : pc'[w] \in {"exit", "join"} => Len(handles') <= base_index'[w]
          /\ StaffedOf(Len(handles'), active_workers', base_index'))
  BY <1>2 DEF Staffed, StaffedOf, BlockSize, Enough
<1> QED BY <1>3, <1>4

\* While a writer changes the array nobody is on the way out.
LEMMA NobodyLeaves ==
    ASSUME PoolInv, NEW t \in Threads, pc[t] \in {"add", "remove"}
    PROVE  \A w \in Workers : pc[w] \notin {"exit", "join"}
<1>1. writer = t /\ t # Null
  BY PoolAssumption DEF PoolInv, WaitLock
<1>2. readers = {}
  BY <1>1 DEF PoolInv, WaitLock
<1> QED
  BY <1>2 DEF PoolInv, WaitLock, Threads

\* Every step keeps Staffed.
LEMMA StaffedStep ==
    ASSUME Failures \subseteq {"spawn"}, PoolInv, Layout, Staffed, [Next]_vars
    PROVE  Staffed'
<1> DEFINE L == Len(handles)
           Leavers(p) == {w \in Workers : p[w] \in {"exit", "join"}}
<1>0. /\ handles \in Seq(Handles \cup {Spin}) /\ L \in Nat /\ active_workers \in SUBSET Workers
      /\ base_index \in [Workers -> Nat] /\ ThreadsPerPool \in Nat \ {0} /\ Enough \in Nat /\ Enough <= ThreadsPerPool
      /\ pc \in [Threads -> WorkerPC \cup WriterPC \cup CallerPC] /\ Workers \subseteq Threads
      /\ BlockSize \in Nat /\ BlockSize > 1
  BY PoolAssumption DEF PoolInv, TypeOK, Enough, BlockSize, Threads
<1>1. ASSUME stopping PROVE Staffed'
  <2>1. stopping'
    BY <1>1 DEF Next, Write, Work, Gone, Begin, Announce, SignalSpin, Enter, AddToBlock, AddBlock, AddFails,
                AddFailsLate, RemoveMissing, RemoveFound, Leave, Top, Await, LockShared, WokenBySpin, WokenByHandle,
                WaitFailed, CallbackReturns, Exit, JoinPrevious, Die, Destroy, Reap, Signal, vars, sync
  <2> QED BY <2>1, StaffedCrews
<1> SUFFICES ASSUME ~stopping PROVE Staffed'
  BY <1>1
<1>2. /\ \A w \in Workers : pc[w] \in {"exit", "join"} => L <= base_index[w]
      /\ StaffedOf(L, active_workers, base_index)
  BY StaffedCrews
<1>3. ASSUME UNCHANGED <<handles, active_workers, base_index>>,
             \A w \in Workers : pc'[w] \in {"exit", "join"} => pc[w] \in {"exit", "join"} \/ L <= base_index[w]
      PROVE  Staffed'
  BY <1>2, <1>3, StaffedCrews
<1>4. ASSUME \A w \in Workers : pc'[w] \notin {"exit", "join"},
             StaffedOf(Len(handles'), active_workers', base_index')
      PROVE  Staffed'
  BY <1>4, StaffedCrews
<1>5. ASSUME NEW t \in Threads, AddToBlock(t) PROVE Staffed'
  <2>1. /\ pc[t] = "add" /\ L % BlockSize # 0 /\ handles' = Append(handles, arg[t].h)
        /\ pc' = [pc EXCEPT ![t] = ReturnTo(t)] /\ UNCHANGED <<active_workers, base_index>>
    BY <1>5 DEF AddToBlock, Goto, pool
  <2>2. Len(handles') = L + 1
    BY <1>0, <1>5, <2>1 DEF PoolInv, TypeOK, Roles, WriterPC
  <2>3. \A b \in Nat : b < L + 1 /\ b % BlockSize = 0 => b < L
    BY <1>0, <2>1
  <2>4. StaffedOf(Len(handles'), active_workers', base_index')
    <3> HIDE DEF L
    <3> QED BY <1>2, <2>1, <2>2, <2>3 DEF StaffedOf
  <2>5. \A w \in Workers : pc'[w] \notin {"exit", "join"}
    BY <1>0, <2>1, NobodyLeaves DEF ReturnTo
  <2> QED BY <1>4, <2>4, <2>5
<1>6. ASSUME NEW t \in Threads, NEW W \in SUBSET Workers, AddBlock(t, W) PROVE Staffed'
  <2>1. /\ pc[t] = "add" /\ L % BlockSize = 0 /\ handles' = handles \o <<Spin, arg[t].h>>
        /\ \A w \in W : pc[w] = "unborn"
        /\ active_workers' = active_workers \cup W
        /\ base_index' = [w \in Workers |-> IF w \in W THEN L ELSE base_index[w]]
        /\ pc' = [u \in Threads |-> IF u \in W THEN "top" ELSE IF u = t THEN ReturnTo(t) ELSE pc[u]]
    BY <1>6 DEF AddBlock
  <2>2. Len(handles') = L + 2
    BY <1>0, <1>6, <2>1 DEF PoolInv, TypeOK, Roles, WriterPC
  <2> DEFINE n == Cardinality(Crew(active_workers, base_index, L))
  <2>3. n \in Nat /\ n <= ThreadsPerPool
    BY <1>0, <1>2, CrewFinite DEF StaffedOf
  <2>4. ThreadsToSpawn = ThreadsPerPool - n
    BY DEF ThreadsToSpawn, Crew
  <2>5. W \cap active_workers = {}
    BY <2>1 DEF PoolInv, Lifecycle
  <2>6. \/ Cardinality(W) = ThreadsPerPool - n
        \/ Failures # {} /\ Cardinality(W) \in 1..ThreadsPerPool - n
    BY <1>6, <2>4 DEF AddBlock
  <2>7. /\ \A b \in Nat \ {L} : Crew(active_workers', base_index', b) = Crew(active_workers, base_index, b)
        /\ Cardinality(Crew(active_workers', base_index', L)) = n + Cardinality(W)
    <3> DEFINE A == active_workers
               base == base_index
               base2 == base_index'
    <3>1. base2 = [w \in Workers |-> IF w \in W THEN L ELSE base[w]]
      BY <2>1
    <3>2. A \in SUBSET Workers /\ base \in [Workers -> Nat] /\ L \in Nat /\ W \cap A = {}
      BY <1>0, <2>5
    <3> HIDE DEF A, base, base2, L
    <3>3. ASSUME NEW b \in Nat
          PROVE  /\ b # L => Crew(A \cup W, base2, b) = Crew(A, base, b)
                 /\ Cardinality(Crew(A \cup W, base2, L)) = Cardinality(Crew(A, base, L)) + Cardinality(W)
      BY <3>1, <3>2, CrewGrows
    <3> QED BY <2>1, <3>2, <3>3 DEF A, base, base2
  <2>8. n + Cardinality(W) >= Enough /\ n + Cardinality(W) <= ThreadsPerPool
    <3> DEFINE m == Cardinality(W)
    <3> HIDE DEF n, m
    <3>1. m \in Nat /\ n + m <= ThreadsPerPool /\ (m = ThreadsPerPool - n \/ (Failures # {} /\ m >= 1))
      BY <1>0, <2>3, <2>6 DEF m
    <3>2. n + m >= Enough
      <4>1. CASE m = ThreadsPerPool - n
        BY <1>0, <2>3, <4>1
      <4>2. CASE Failures # {} /\ m >= 1
        <5>1. Enough = 1
          BY <4>2 DEF Enough
        <5> QED BY <2>3, <3>1, <4>2, <5>1
      <4> QED BY <3>1, <4>1, <4>2
    <3> QED BY <3>1, <3>2 DEF m
  <2>9. \A b \in Nat : b < L + 2 /\ b % BlockSize = 0 => b = L \/ b < L
    <3>1. (L + 1) % BlockSize # 0
      <4>1. 1 \in 1..BlockSize - 1
        BY <1>0
      <4> QED BY <1>0, <2>1, <4>1, InsideBlock
    <3> QED BY <1>0, <3>1
  <2>10. StaffedOf(Len(handles'), active_workers', base_index')
    <3> HIDE DEF L, n
    <3>1. ASSUME NEW b \in Nat, b < L + 2, b % BlockSize = 0
          PROVE  Cardinality(Crew(active_workers', base_index', b)) >= Enough
      BY <1>2, <2>7, <2>8, <2>9, <3>1 DEF StaffedOf
    <3>2. ASSUME NEW b \in Nat
          PROVE  Cardinality(Crew(active_workers', base_index', b)) <= ThreadsPerPool
      BY <1>2, <2>7, <2>8, <3>2 DEF StaffedOf
    <3> QED BY <2>2, <3>1, <3>2 DEF StaffedOf
  <2>11. \A w \in Workers : pc'[w] \notin {"exit", "join"}
    BY <1>0, <2>1, NobodyLeaves DEF ReturnTo
  <2> QED BY <1>4, <2>10, <2>11
<1>7. ASSUME NEW t \in Threads, NEW i \in DOMAIN handles, RemoveFound(t, i) PROVE Staffed'
  <2>1. /\ pc[t] = "remove" /\ handles' = SwapRemove(Trimmed(handles), i) /\ handles[i] = arg[t].h
        /\ pc' = [Notified EXCEPT ![t] = ReturnTo(t)] /\ UNCHANGED <<active_workers, base_index>>
    BY <1>7 DEF RemoveFound, pool
  <2>2. handles[i] \in Handles /\ i \in 1..L
    BY <1>0, <2>1 DEF PoolInv, TypeOK, Roles, WriterPC
  <2>3. Len(handles') < L /\ Len(handles') \in Nat
    <3>1. Len(handles') < L
      BY <1>0, <2>1, <2>2, LaidRemove DEF Layout, Trimmed
    <3>2. handles' \in Seq(Handles \cup {Spin})
      BY TypeStep DEF TypeOK
    <3> QED BY <3>1, <3>2
  <2>4. \A b \in Nat : b < Len(handles') => b < L
    BY <1>0, <2>3
  <2>5. StaffedOf(Len(handles'), active_workers', base_index')
    <3> HIDE DEF L
    <3> QED BY <1>2, <2>1, <2>4 DEF StaffedOf
  <2>6. \A w \in Workers : pc'[w] \notin {"exit", "join"}
    BY <1>0, <2>1, NobodyLeaves DEF ReturnTo, Notified
  <2> QED BY <1>4, <2>5, <2>6
<1>8. ASSUME NEW w \in Workers, JoinPrevious(w) PROVE Staffed'
  <2>1. /\ pc[w] = "join" /\ active_workers' = active_workers \ {w} /\ UNCHANGED <<handles, base_index>>
        /\ \A u \in Workers : pc'[u] \in {"exit", "join"} => pc[u] \in {"exit", "join"}
    BY <1>0, <1>8 DEF JoinPrevious, data
  <2>2. L <= base_index[w]
    BY <1>2, <2>1
  <2>3. StaffedOf(L, active_workers', base_index')
    <3>1. ASSUME NEW b \in Nat, b < L, b % BlockSize = 0
          PROVE  Cardinality(Crew(active_workers', base_index', b)) >= Enough
      <4>1. base_index[w] # b
        BY <1>0, <2>2, <3>1
      <4>2. Crew(active_workers', base_index', b) = Crew(active_workers, base_index, b)
        BY <2>1, <4>1 DEF Crew
      <4> HIDE DEF L
      <4> QED BY <1>2, <3>1, <4>2 DEF StaffedOf
    <3>2. ASSUME NEW b \in Nat
          PROVE  Cardinality(Crew(active_workers', base_index', b)) <= ThreadsPerPool
      <4>1. /\ Cardinality(Crew(active_workers', base_index', b)) <= Cardinality(Crew(active_workers, base_index, b))
            /\ Cardinality(Crew(active_workers, base_index, b)) <= ThreadsPerPool
        BY <1>0, <1>2, <2>1, CrewShrinks DEF StaffedOf
      <4>2. /\ Cardinality(Crew(active_workers', base_index', b)) \in Nat
            /\ Cardinality(Crew(active_workers, base_index, b)) \in Nat
        BY <1>0, <2>1, CrewFinite
      <4> QED BY <1>0, <4>1, <4>2
    <3> QED BY <3>1, <3>2 DEF StaffedOf
  <2> QED BY <1>2, <2>1, <2>3, StaffedCrews
<1>9. ASSUME NEW w \in Workers, LockShared(w) PROVE Staffed'
  BY <1>0, <1>3, <1>9 DEF LockShared, Goto, data, pool
<1>10. ASSUME NEW w \in Workers, WokenBySpin(w) PROVE Staffed'
  BY <1>0, <1>3, <1>10 DEF WokenBySpin, Goto, data, pool
<1>11. ASSUME NEW w \in Workers, NEW i \in DOMAIN handles, WokenByHandle(w, i) PROVE Staffed'
  BY <1>0, <1>3, <1>11 DEF WokenByHandle, Goto, data, pool
<1>12. ASSUME NEW w \in Workers, WaitFailed(w) PROVE FALSE
  BY <1>12 DEF WaitFailed
<1>13. ASSUME NEW t \in Threads, AddFailsLate(t) PROVE FALSE
  BY <1>13 DEF AddFailsLate
<1>14. ASSUME NEW w \in Workers, Exit(w) PROVE Staffed'
  BY <1>0, <1>3, <1>14 DEF Exit, Goto, data, pool
<1>15. ASSUME NEW w \in Workers, Top(w) \/ Await(w) \/ CallbackReturns(w) \/ Die(w) PROVE Staffed'
  <2>1. PICK l \in {"await", "lock", "cvwait", "top", "dead"} : pc' = [pc EXCEPT ![w] = l]
    BY <1>15 DEF Top, Await, CallbackReturns, Die, Goto
  <2>2. UNCHANGED <<handles, active_workers, base_index>>
    BY <1>15 DEF Top, Await, CallbackReturns, Die, data, pool
  <2> QED BY <1>0, <1>3, <2>1, <2>2
<1>16. ASSUME NEW t \in Threads, AddFails(t) \/ RemoveMissing(t) PROVE Staffed'
  <2>1. pc' = [pc EXCEPT ![t] = ReturnTo(t)] /\ ReturnTo(t) \in {"callback", "idle"}
    BY <1>16 DEF AddFails, RemoveMissing, Goto, ReturnTo
  <2>2. UNCHANGED <<handles, active_workers, base_index>>
    BY <1>16 DEF AddFails, RemoveMissing, data, pool
  <2> QED BY <1>0, <1>3, <2>1, <2>2
<1>17. ASSUME NEW t \in Threads, Announce(t) \/ SignalSpin(t) PROVE Staffed'
  <2>1. PICK l \in {"signal", "enter"} : pc' = [pc EXCEPT ![t] = l]
    BY <1>17 DEF Announce, SignalSpin, Goto
  <2>2. UNCHANGED <<handles, active_workers, base_index>>
    BY <1>17 DEF Announce, SignalSpin, data, pool
  <2> QED BY <1>0, <1>3, <2>1, <2>2
<1>18. ASSUME NEW t \in Threads, Enter(t) PROVE Staffed'
  <2>1. arg[t].op \in {"add", "remove"}
    BY <1>18 DEF Enter, PoolInv, TypeOK, Roles, WriterPC
  <2>2. \A w \in Workers : pc'[w] \in {"exit", "join"} => pc[w] \in {"exit", "join"}
    BY <1>0, <1>18, <2>1 DEF Enter, Notified
  <2>3. UNCHANGED <<handles, active_workers, base_index>>
    BY <1>18 DEF Enter, data, pool
  <2> QED BY <1>3, <2>2, <2>3
<1>19. ASSUME NEW t \in Threads, NEW op \in {"add", "remove"}, NEW h \in Handles, Begin(t, op, h) PROVE Staffed'
  BY <1>0, <1>3, <1>19 DEF Begin, Goto, data, pool
<1>20. ASSUME NEW c \in Callers, Destroy(c) PROVE Staffed'
  BY <1>20, StaffedCrews DEF Destroy
<1>21. ASSUME NEW c \in Callers, Reap(c) PROVE FALSE
  BY <1>21 DEF Reap, PoolInv, Lifecycle
<1>22. ASSUME NEW h \in Handles, Signal(h) PROVE Staffed'
  BY <1>3, <1>22 DEF Signal, data, pool
<1>23. CASE UNCHANGED vars
  BY <1>3, <1>23 DEF vars, data, pool
<1> QED
  BY <1>5, <1>6, <1>7, <1>8, <1>9, <1>10, <1>11, <1>12, <1>13, <1>14, <1>15, <1>16, <1>17, <1>18, <1>19, <1>20,
     <1>21, <1>22, <1>23
     DEF Next, Write, Work, Gone

\* Until the pool is destroyed every block has all its workers, or at least one if
\* std::thread may fail, and never too many: for any number of handles and threads,
\* whatever workers of an earlier block are still in a callback (add_handle(),
\* worker_exit()).
THEOREM BlocksAreServed ==
    ASSUME Failures \subseteq {"spawn"}
    PROVE  Spec => []Coverage
<1>1. Init => PoolInv /\ Layout /\ Staffed
  <2> SUFFICES ASSUME Init PROVE Layout /\ Staffed
    BY InitInv
  <2>1. 0 % BlockSize = 0
    BY PoolAssumption DEF BlockSize
  <2>2. Layout
    BY <2>1 DEF Init, Layout, Laid, RightCallback
  <2>3. \A b : Served(b) = {}
    BY DEF Init, Served
  <2>4. Len(handles) = 0 /\ \A w \in Workers : pc[w] = "unborn"
    BY DEF Init, Threads
  <2>5. Staffed
    <3>1. \A b : Cardinality(Served(b)) = 0
      BY <2>3, FS_EmptySet
    <3>2. 0 <= ThreadsPerPool /\ \A b \in Nat : ~(b < 0)
      BY PoolAssumption
    <3> QED BY <2>4, <3>1, <3>2 DEF Staffed
  <2> QED BY <2>2, <2>5
<1>2. PoolInv /\ Layout /\ Staffed /\ [Next]_vars => (PoolInv /\ Layout /\ Staffed)'
  <2>1. "alloc" \notin Failures
    OBVIOUS
  <2> QED
    BY <2>1, LayoutStep, StaffedStep, TypeStep, AnnouncingStep, WaitLockStep, LifecycleStep DEF PoolInv
<1>3. PoolInv /\ Layout /\ Staffed => Coverage
  <2> SUFFICES ASSUME PoolInv, Layout, Staffed, ~stopping
               PROVE  /\ \A i \in DOMAIN handles : handles[i] = Spin =>
                             Cardinality(Served(i - 1)) >= (IF Failures = {} THEN ThreadsPerPool ELSE 1)
                      /\ \A w \in active_workers : Cardinality(Served(base_index[w])) <= ThreadsPerPool
    BY DEF Coverage
  <2>1. ASSUME NEW i \in DOMAIN handles, handles[i] = Spin
        PROVE  Cardinality(Served(i - 1)) >= (IF Failures = {} THEN ThreadsPerPool ELSE 1)
    <3>1. i \in 1..Len(handles) /\ Len(handles) \in Nat
      BY DEF PoolInv, TypeOK
    <3>2. i - 1 \in Nat /\ i - 1 < Len(handles) /\ (i - 1) % BlockSize = 0
      BY <2>1, <3>1 DEF Layout, Laid
    <3> QED BY <3>2 DEF Staffed, Enough
  <2>2. ASSUME NEW w \in active_workers PROVE Cardinality(Served(base_index[w])) <= ThreadsPerPool
    <3>1. base_index[w] \in Nat
      BY DEF PoolInv, TypeOK
    <3> QED BY <3>1 DEF Staffed
  <2> QED BY <2>1, <2>2
<1> QED
  BY <1>1, <1>2, <1>3, PTL DEF Spec
===============================================================================
