------------------------------ MODULE AsyncLock ------------------------------
(***************************************************************************)
(* The per-key asyncio.Lock every store of the server hands out: a lock is *)
(* a record of the task inside the critical section and the tasks parked   *)
(* on it, in arrival order.  asyncio serves waiters first come, first      *)
(* served and never lets a newcomer overtake a parked waiter, so handing   *)
(* the lock to the head of the queue on release is exact.  A waiter whose  *)
(* call is cancelled leaves the queue, or passes the lock on when it was   *)
(* just granted.                                                           *)
(***************************************************************************)
EXTENDS Sequences, Integers

CONSTANT Nobody   \* the holder of a free lock

Free == [holder |-> Nobody, waiters |-> <<>>]

LockType(Task) == [holder : Task \cup {Nobody}, waiters : Seq(Task)]

IsFree_Always(l) == TRUE
IsFree(l) == l.holder = Nobody

\* `async with lock`: taken at once when free, else parked at the tail.
Enter(l, t) == IF IsFree(l) THEN [l EXCEPT !.holder = t]
                            ELSE [l EXCEPT !.waiters = Append(@, t)]

Leave_WakesNobody(l) == Free
Leave(l) == IF l.waiters = <<>>
            THEN Free
            ELSE [holder |-> Head(l.waiters), waiters |-> Tail(l.waiters)]

\* A cancelled call gives up its place, whether it holds the lock or waits.
PlaceOf(l, t) == CHOOSE i \in 1..Len(l.waiters) : l.waiters[i] = t
Without(s, i) == SubSeq(s, 1, i - 1) \o SubSeq(s, i + 1, Len(s))

Withdraw_KeepsPlace(l, t) == l
Withdraw(l, t) ==
  IF l.holder = t THEN Leave(l)
  ELSE IF \E i \in 1..Len(l.waiters) : l.waiters[i] = t
       THEN [l EXCEPT !.waiters = Without(@, PlaceOf(l, t))]
       ELSE l
=============================================================================
