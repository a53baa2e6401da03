--------------------------- MODULE AsyncLock_proofs ---------------------------
(***************************************************************************)
(* What the per-key lock returns for every set of tasks: it stays a lock,  *)
(* and the task that enters a free lock or is left in it holds it.         *)
(***************************************************************************)
EXTENDS AsyncLock, SequenceTheorems, TLAPS

\* A free lock is a lock.
LEMMA FreeType == ASSUME NEW Task PROVE Free \in LockType(Task)
  BY DEF Free, LockType

\* `async with lock` keeps the lock well formed, and takes a free one.
LEMMA EnterType ==
  ASSUME NEW Task, NEW l \in LockType(Task), NEW t \in Task
  PROVE  /\ Enter(l, t) \in LockType(Task)
         /\ IsFree(l) => Enter(l, t).holder = t
         /\ ~IsFree(l) => Enter(l, t).holder = l.holder
  BY AppendProperties DEF LockType, Enter, IsFree

\* Leaving hands the lock to a waiter or frees it.
LEMMA LeaveType ==
  ASSUME NEW Task, NEW l \in LockType(Task)
  PROVE  Leave(l) \in LockType(Task)
<1>1. CASE l.waiters = <<>>
  BY <1>1, FreeType DEF Leave
<1>2. CASE l.waiters # <<>>
  <2>1. Head(l.waiters) \in Task /\ Tail(l.waiters) \in Seq(Task)
    BY <1>2, HeadTailProperties DEF LockType
  <2> QED BY <1>2, <2>1 DEF Leave, LockType
<1> QED BY <1>1, <1>2

\* Taking the i-th waiter out leaves a queue of waiters.
LEMMA WithoutType ==
  ASSUME NEW Task, NEW s \in Seq(Task), NEW i \in 1..Len(s)
  PROVE  Without(s, i) \in Seq(Task)
<1>1. SubSeq(s, 1, i - 1) \in Seq(Task)
  BY SubSeqProperties
<1>2. SubSeq(s, i + 1, Len(s)) \in Seq(Task)
  BY SubSeqProperties
<1> QED BY <1>1, <1>2, ConcatProperties DEF Without

\* A withdrawal keeps the lock well formed and does not touch another holder.
LEMMA WithdrawType ==
  ASSUME NEW Task, NEW l \in LockType(Task), NEW t \in Task
  PROVE  /\ Withdraw(l, t) \in LockType(Task)
         /\ l.holder # t => Withdraw(l, t).holder = l.holder
<1> DEFINE waiting == \E i \in 1..Len(l.waiters) : l.waiters[i] = t
<1>1. CASE l.holder = t
  BY <1>1, LeaveType DEF Withdraw
<1>2. CASE l.holder # t /\ ~waiting
  BY <1>2 DEF Withdraw
<1>3. CASE l.holder # t /\ waiting
  <2>1. PlaceOf(l, t) \in 1..Len(l.waiters)
    BY <1>3 DEF PlaceOf
  <2>2. Withdraw(l, t) = [l EXCEPT !.waiters = Without(@, PlaceOf(l, t))]
    BY <1>3 DEF Withdraw
  <2>3. l.waiters \in Seq(Task)
    BY DEF LockType
  <2>4. Without(l.waiters, PlaceOf(l, t)) \in Seq(Task)
    BY <2>1, <2>3, WithoutType
  <2> QED BY <2>2, <2>4 DEF LockType
<1> QED BY <1>1, <1>2, <1>3
=============================================================================
