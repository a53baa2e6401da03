-------------------------- MODULE SessionsAndReads_proofs --------------------------
(***************************************************************************)
(* Proofs about what every call rests on: the session it acts with, whose  *)
(* that is, how its request is sent, and what the reads answer.            *)
(*                                                                         *)
(* Sessions: for any number of clients, accounts and concurrent calls and  *)
(* any order of rotations, sign-ins, logouts and cancellations.  The       *)
(* argument: a refresh token that was presented is in the store only while *)
(* the call presenting it holds its client's lock, or after that call was  *)
(* cancelled; and tokens are new when they are issued, so none comes back. *)
(*                                                                         *)
(* Reads: ClientIdentity, Transport, Selection and Catalog have no part of *)
(* their state in common with Sessions or with each other, so each has a   *)
(* section of its own below, with an inductive invariant of its own that   *)
(* the steps of the others leave alone.                                    *)
(***************************************************************************)
EXTENDS Sessions, Reads, AsyncLock_proofs, FiniteSetTheorems

-----------------------------------------------------------------------------
(* The inductive invariant.                                                *)

Rotates(t, k) == task[t].pc = "refreshing" /\ task[t].client = k

\* A call that rotates holds its client's lock and had a reason to.
TaskOK(t) ==
  /\ task[t].pc # "idle" => task[t].client \in Clients
  /\ task[t].pc = "refreshing" => /\ lock[task[t].client].holder = t
                                  /\ task[t].held \in Session
                                  /\ task[t].held.aging \/ task[t].held.token \in refused
  /\ task[t].pc = "refreshWait" /\ task[t].forced => task[t].held.token \in refused
  /\ task[t].pc \in {"calling", "replaying"} => task[t].held \in Session
  /\ task[t].pc = "verifying" => task[t].held.user \in Users

\* A stored token that was presented is being presented, or its call was
\* cancelled.
SessionOK(k) ==
  session[k] # NoSession =>
    /\ session[k].token <= issued
    /\ session[k].token \in presented =>
         \/ session[k].token \in abandoned
         \/ \E t \in Tasks : Rotates(t, k) /\ task[t].held.token = session[k].token

\* No two clients hold one token.
Distinct ==
  \A j, k \in Clients :
    session[j] # NoSession /\ session[k] # NoSession /\ session[j].token = session[k].token => j = k

IInv ==
  /\ TypeOK
  /\ \A t \in Tasks : TaskOK(t)
  /\ \A k \in Clients : SessionOK(k)
  /\ Distinct
  /\ \A n \in presented : n <= issued
  /\ repeated \subseteq abandoned

-----------------------------------------------------------------------------
(* Sessions and calls.                                                     *)

\* A session and no session are told apart by the token.
LEMMA SessionTypes ==
  /\ NoSession.token = 0 /\ NoSession \notin Session
  /\ \A s \in Session : s.token \in Tokens /\ s.token \in Nat /\ s.token > 0
  BY SessionsAssumption DEF NoSession, Session, Tokens

\* What a call works with: a session, or the account a sign-in is for.
Held == [user : Users \cup {None}, token : 0..MaxTokens, aging : BOOLEAN]

LEMMA HeldTypes ==
  /\ Session \cup {NoSession} \subseteq Held
  /\ \A u \in Users \cup {None} : [NoSession EXCEPT !.user = u] \in Held
                                  /\ [NoSession EXCEPT !.user = u].user = u
<1>1. Tokens \subseteq 0..MaxTokens /\ 0 \in 0..MaxTokens
  BY SessionsAssumption DEF Tokens
<1>2. NoSession \in Held
  BY <1>1, Zenon DEF NoSession, Held
<1>3. Session \subseteq Held
  <2> SUFFICES ASSUME NEW s \in Session PROVE s \in Held
    OBVIOUS
  <2>1. s = [user |-> s.user, token |-> s.token, aging |-> s.aging]
    BY DEF Session
  <2>2. s.user \in Users \cup {None} /\ s.token \in 0..MaxTokens /\ s.aging \in BOOLEAN
    BY <1>1 DEF Session
  <2> QED BY <2>1, <2>2, Zenon DEF Held
<1>4. ASSUME NEW u \in Users \cup {None}
      PROVE  [NoSession EXCEPT !.user = u] \in Held /\ [NoSession EXCEPT !.user = u].user = u
  <2>1. [NoSession EXCEPT !.user = u] = [user |-> u, token |-> 0, aging |-> FALSE]
    <3>1. ASSUME NEW a, NEW b, NEW c
          PROVE  [[user |-> a, token |-> b, aging |-> c] EXCEPT !.user = u] = [user |-> u, token |-> b, aging |-> c]
      OBVIOUS
    <3> QED BY <3>1, Zenon DEF NoSession
  <2> QED BY <1>1, <2>1, Zenon DEF Held
<1> QED BY <1>2, <1>3, <1>4

LEMMA DoingType ==
  ASSUME NEW phase \in Phases, NEW k \in Clients, NEW held \in Held,
         NEW forced \in BOOLEAN, NEW replay \in BOOLEAN
  PROVE  /\ Doing(phase, k, held, forced, replay) \in Task
         /\ Doing(phase, k, held, forced, replay).pc = phase
         /\ Doing(phase, k, held, forced, replay).client = k
         /\ Doing(phase, k, held, forced, replay).held = held
         /\ Doing(phase, k, held, forced, replay).forced = forced
<1>1. Task = [pc : Phases, client : Clients \cup {None}, held : Held, forced : BOOLEAN, replay : BOOLEAN]
  BY DEF Task, Held
<1> QED BY <1>1, Zenon DEF Doing

LEMMA TaskFields ==
  ASSUME TypeOK, NEW t \in Tasks
  PROVE  /\ task[t].held \in Held /\ task[t].forced \in BOOLEAN /\ task[t].replay \in BOOLEAN
         /\ task[t].client \in Clients \cup {None}
<1>1. Task = [pc : Phases, client : Clients \cup {None}, held : Held, forced : BOOLEAN, replay : BOOLEAN]
  BY DEF Task, Held
<1>2. task[t] \in Task
  BY DEF TypeOK
<1> QED BY <1>1, <1>2, Zenon

LEMMA IdleType == Idle \in Task /\ Idle.pc = "idle"
  BY SessionsAssumption DEF Idle, Doing, Task, NoSession, Phases

\* A call that goes on, or ends.
LEMMA BecomeType ==
  ASSUME TypeOK, NEW t \in Tasks, NEW d \in Task, Become(t, d)
  PROVE  /\ task' \in [Tasks -> Task] /\ task'[t] = d
         /\ \A u \in Tasks : u # t => task'[u] = task[u]
  BY DEF TypeOK, Become

LEMMA FinishType ==
  ASSUME TypeOK, NEW t \in Tasks, Finish(t)
  PROVE  /\ task' \in [Tasks -> Task] /\ task'[t].pc = "idle" /\ TaskOK(t)'
         /\ \A u \in Tasks : u # t => task'[u] = task[u]
<1>1. Become(t, Idle)
  BY DEF Finish
<1>2. /\ task' \in [Tasks -> Task] /\ task'[t] = Idle
      /\ \A u \in Tasks : u # t => task'[u] = task[u]
  BY <1>1, IdleType, BecomeType
<1> QED BY <1>2, IdleType DEF TaskOK

\* The calls that rotate hold their locks.
LEMMA RotatorsHold ==
  ASSUME IInv, NEW u \in Tasks, task[u].pc = "refreshing"
  PROVE  task[u].client \in Clients /\ lock[task[u].client].holder = u
  BY DEF IInv, TaskOK

-----------------------------------------------------------------------------
(* Steps that present no refresh token.                                    *)

\* The session of k is gone, or new.
Replaced(k) == session'[k] = NoSession \/ (issued' = issued + 1 /\ session'[k].token = issued + 1)

\* One session at most changes; calls that do not go on as they were do not
\* rotate, and one that stops rotating leaves no presented token behind unless
\* it was cancelled.
LEMMA QuietStep ==
  ASSUME IInv, TypeOK', NEW k \in Clients,
         presented' = presented, repeated' = repeated,
         abandoned \subseteq abandoned', refused \subseteq refused',
         issued' \in {issued, issued + 1},
         \A j \in Clients : j # k => session'[j] = session[j],
         Replaced(k) \/ session'[k].token = session[k].token,
         \A u \in Tasks :
           \/ task'[u] = task[u] /\ (task[u].pc = "refreshing" => lock'[task[u].client].holder = u)
           \/ /\ task'[u].pc # "refreshing" /\ TaskOK(u)'
              /\ task[u].pc = "refreshing" => /\ task[u].client = k
                                              /\ Replaced(k) \/ task[u].held.token \in abandoned'
  PROVE  IInv'
<1>1. TypeOK /\ issued \in Nat /\ issued' >= issued
  BY DEF IInv, TypeOK
<1>2. ASSUME NEW u \in Tasks PROVE TaskOK(u)'
  <2>1. CASE task'[u] = task[u] /\ (task[u].pc = "refreshing" => lock'[task[u].client].holder = u)
    BY <2>1 DEF IInv, TaskOK
  <2> QED BY <2>1
<1>3. ASSUME NEW j \in Clients, session'[j] # NoSession
      PROVE  session'[j].token \in Nat /\ session'[j].token > 0
  BY <1>3, SessionTypes DEF TypeOK
<1>4. ASSUME NEW j \in Clients, session'[j].token = session[j].token, session'[j] # NoSession
      PROVE  session[j] # NoSession
  BY <1>3, <1>4, SessionTypes
<1>5. ASSUME NEW j \in Clients PROVE SessionOK(j)'
  <2> SUFFICES ASSUME session'[j] # NoSession
               PROVE  /\ session'[j].token <= issued'
                      /\ session'[j].token \in presented =>
                           \/ session'[j].token \in abandoned'
                           \/ \E t \in Tasks : Rotates(t, j)' /\ task'[t].held.token = session'[j].token
    BY DEF SessionOK
  <2>1. CASE session'[j].token = session[j].token /\ (j = k => ~Replaced(k))
    <3>1. session[j] # NoSession
      BY <1>4, <2>1
    <3>2. SessionOK(j) /\ session[j].token \in Nat
      BY <1>3, <2>1 DEF IInv
    <3>3. session'[j].token <= issued'
      BY <1>1, <2>1, <3>1, <3>2 DEF SessionOK
    <3>4. ASSUME NEW t \in Tasks, Rotates(t, j), task[t].held.token = session[j].token
          PROVE  \/ session'[j].token \in abandoned'
                 \/ Rotates(t, j)' /\ task'[t].held.token = session'[j].token
      BY <2>1, <3>4 DEF Rotates
    <3> QED BY <2>1, <3>1, <3>2, <3>3, <3>4 DEF SessionOK
  <2>2. CASE issued' = issued + 1 /\ session'[j].token = issued + 1
    BY <1>1, <2>2 DEF IInv
  <2> QED BY <2>1, <2>2 DEF Replaced
<1>6. Distinct'
  <2> SUFFICES ASSUME NEW i \in Clients, NEW j \in Clients, session'[i] # NoSession, session'[j] # NoSession,
                      session'[i].token = session'[j].token
               PROVE  i = j
    BY DEF Distinct
  <2>1. ASSUME NEW m \in Clients, session'[m] # NoSession
        PROVE  \/ session[m] # NoSession /\ session'[m].token = session[m].token /\ session'[m].token <= issued
               \/ m = k /\ session'[m].token = issued + 1
    <3>1. CASE session'[m].token = session[m].token
      BY <1>4, <2>1, <3>1 DEF IInv, SessionOK
    <3>2. CASE session'[m].token # session[m].token
      BY <2>1, <3>2 DEF Replaced
    <3> QED BY <3>1, <3>2
  <2> QED BY <1>1, <1>3, <2>1 DEF IInv, Distinct
<1>7. \A n \in presented' : n <= issued'
  BY <1>1 DEF IInv, TypeOK, Tokens
<1> QED BY <1>2, <1>5, <1>6, <1>7 DEF IInv

-----------------------------------------------------------------------------
(* Refresh.                                                                *)

\* A step that goes on with the call t, and leaves every other one alone, is
\* quiet unless it presents a token.
LEMMA QuietCall ==
  ASSUME IInv, TypeOK', NEW t \in Tasks, NEW k \in Clients,
         presented' = presented, repeated' = repeated,
         abandoned \subseteq abandoned', refused \subseteq refused',
         issued' \in {issued, issued + 1},
         \A j \in Clients : j # k => session'[j] = session[j],
         Replaced(k) \/ session'[k].token = session[k].token,
         \A u \in Tasks : u # t => task'[u] = task[u],
         \A j \in Clients : lock[j].holder \in Tasks \ {t} => lock'[j].holder = lock[j].holder,
         task'[t].pc # "refreshing", TaskOK(t)',
         task[t].pc = "refreshing" => /\ task[t].client = k
                                      /\ Replaced(k) \/ task[t].held.token \in abandoned'
  PROVE  IInv'
<1>1. ASSUME NEW u \in Tasks, u # t
      PROVE  task'[u] = task[u] /\ (task[u].pc = "refreshing" => lock'[task[u].client].holder = u)
  BY <1>1, RotatorsHold
<1> QED BY <1>1, QuietStep

\* A step that presents the refresh token of k's session, inside the lock.
LEMMA PresentStep ==
  ASSUME IInv, TypeOK', NEW t \in Tasks, NEW k \in Clients,
         task[t].pc # "refreshing", lock[k].holder \in {t, Nobody},
         session[k] # NoSession, session' = session, issued' = issued,
         refused \subseteq refused', Present(session[k]),
         session[k].aging \/ session[k].token \in refused',
         \A u \in Tasks : u # t => task'[u] = task[u],
         task'[t].pc = "refreshing", task'[t].client = k, task'[t].held = session[k],
         lock'[k].holder = t, \A j \in Clients : j # k => lock'[j] = lock[j]
  PROVE  IInv'
<1>1. TypeOK /\ session[k] \in Session /\ session[k].token \in Tokens
  BY SessionTypes DEF IInv, TypeOK
<1>2. session[k].token <= issued /\ SessionOK(k)
  BY DEF IInv, SessionOK
<1>3. ASSUME NEW u \in Tasks, Rotates(u, k) PROVE FALSE
  <2>1. lock[k].holder = u
    BY <1>3, RotatorsHold DEF Rotates
  <2> QED BY <1>3, <2>1, SessionsAssumption DEF Rotates
<1>4. ASSUME NEW u \in Tasks PROVE TaskOK(u)'
  <2>1. CASE u = t
    BY <1>1, <2>1 DEF TaskOK
  <2>2. CASE u # t
    <3>1. task'[u] = task[u] /\ TaskOK(u)
      BY <2>2 DEF IInv
    <3>2. CASE task[u].pc = "refreshing"
      <4>1. task[u].client \in Clients /\ task[u].client # k
        BY <1>3, <3>2, RotatorsHold DEF Rotates
      <4> QED BY <3>1, <3>2, <4>1 DEF TaskOK
    <3>3. CASE task[u].pc # "refreshing"
      BY <3>1, <3>3 DEF TaskOK
    <3> QED BY <3>2, <3>3
  <2> QED BY <2>1, <2>2
<1>5. ASSUME NEW j \in Clients PROVE SessionOK(j)'
  <2>1. CASE j = k
    BY <1>2, <2>1 DEF SessionOK, Rotates
  <2>2. CASE j # k /\ session[j] # NoSession
    <3>1. SessionOK(j) /\ session[j].token # session[k].token
      BY <2>2 DEF IInv, Distinct
    <3>2. ASSUME NEW u \in Tasks, Rotates(u, j), task[u].held.token = session[j].token
          PROVE  Rotates(u, j)' /\ task'[u].held.token = session'[j].token
      BY <3>2 DEF Rotates
    <3> QED BY <2>2, <3>1, <3>2 DEF SessionOK, Present
  <2>3. CASE session[j] = NoSession
    BY <2>3 DEF SessionOK
  <2> QED BY <2>1, <2>2, <2>3
<1>6. Distinct' /\ \A n \in presented' : n <= issued'
  BY <1>2 DEF IInv, Distinct, Present
<1>7. repeated' \subseteq abandoned'
  <2>1. session[k].token \in presented => session[k].token \in abandoned
    BY <1>2, <1>3 DEF SessionOK
  <2> QED BY <2>1 DEF IInv, Present
<1> QED BY <1>4, <1>5, <1>6, <1>7 DEF IInv

\* Inside the lock, l, taken from k's: refresh() goes on to its await.
LEMMA RefreshBodyStep ==
  ASSUME IInv, NEW t \in Tasks, NEW k \in Clients, NEW l \in LockType(Tasks),
         NEW held \in Held, NEW forced \in BOOLEAN, NEW replay \in BOOLEAN,
         task[t].pc # "refreshing", lock[k].holder \in {t, Nobody}, l.holder = t,
         forced => held.token \in refused',
         UNCHANGED <<session, challenge, issued, signedOut>>,
         refused \subseteq refused', refused' \subseteq Tokens,
         RefreshBody(t, k, l, held, forced, replay)
  PROVE  IInv'
<1>1. TypeOK /\ session[k] \in Session \cup {NoSession} /\ session[k] \in Held
  BY HeldTypes DEF IInv, TypeOK
<1>2. /\ Idle \in Task
      /\ \A phase \in Phases : Doing(phase, k, session[k], forced, replay) \in Task
  BY <1>1, IdleType, DoingType
<1>3. Leave(l) \in LockType(Tasks)
  BY LeaveType
<1>4. CASE /\ lock' = [lock EXCEPT ![k] = Leave(l)]
           /\ \/ Finish(t)
              \/ /\ session[k] # NoSession
                 /\ Become(t, Doing(Operation(forced), k, session[k], forced, replay))
           /\ UNCHANGED rotations
  <2>1. Operation(forced) \in {"replaying", "calling"} /\ Operation(forced) \in Phases
    BY DEF Operation, Phases
  <2>2. /\ task' \in [Tasks -> Task] /\ \A u \in Tasks : u # t => task'[u] = task[u]
        /\ task'[t].pc # "refreshing" /\ TaskOK(t)'
    <3>1. CASE Finish(t)
      BY <1>1, <3>1, FinishType
    <3>2. CASE /\ session[k] # NoSession
               /\ Become(t, Doing(Operation(forced), k, session[k], forced, replay))
      <4>1. PICK d \in Task : d = Doing(Operation(forced), k, session[k], forced, replay)
        BY <1>2, <2>1
      <4>2. d.pc \in {"replaying", "calling"} /\ d.client = k /\ d.held = session[k]
        BY <1>1, <2>1, <4>1, DoingType
      <4>3. Become(t, d)
        BY <3>2, <4>1
      <4>4. /\ task' \in [Tasks -> Task] /\ task'[t] = d
            /\ \A u \in Tasks : u # t => task'[u] = task[u]
        BY <1>1, <4>3, BecomeType
      <4>5. d.held \in Session
        BY <1>1, <3>2, <4>2
      <4> QED BY <4>2, <4>4, <4>5 DEF TaskOK
    <3> QED BY <1>4, <3>1, <3>2
  <2>3. TypeOK'
    BY <1>1, <1>3, <1>4, <2>2 DEF TypeOK, rotations
  <2>4. \A j \in Clients : lock[j].holder \in Tasks \ {t} => lock'[j].holder = lock[j].holder
    BY <1>1, <1>4, SessionsAssumption DEF TypeOK
  <2> QED BY <1>4, <2>2, <2>3, <2>4, QuietCall DEF rotations
<1>5. CASE /\ session[k] # NoSession
           /\ ~AlreadyRotated(forced, held, session[k])
           /\ lock' = [lock EXCEPT ![k] = l]
           /\ Become(t, Doing("refreshing", k, session[k], forced, replay))
           /\ Present(session[k])
  <2>1. PICK d \in Task : d = Doing("refreshing", k, session[k], forced, replay)
    BY <1>2 DEF Phases
  <2>2. d.pc = "refreshing" /\ d.client = k /\ d.held = session[k]
    BY <1>1, <2>1, DoingType DEF Phases
  <2>3. Become(t, d)
    BY <1>5, <2>1
  <2>4. /\ task' \in [Tasks -> Task] /\ task'[t] = d
        /\ \A u \in Tasks : u # t => task'[u] = task[u]
    BY <1>1, <2>3, BecomeType
  <2>5. session[k] \in Session /\ session[k].token \in Tokens
    BY <1>1, <1>5, SessionTypes
  <2>6. TypeOK'
    BY <1>1, <1>5, <2>4, <2>5 DEF TypeOK, Present
  <2>7. session[k].aging \/ session[k].token \in refused'
    <3>1. CASE forced
      BY <1>5, <3>1 DEF AlreadyRotated
    <3>2. CASE ~forced
      BY <1>5, <3>2 DEF AlreadyRotated
    <3> QED BY <3>1, <3>2
  <2>8. lock'[k].holder = t /\ \A j \in Clients : j # k => lock'[j] = lock[j]
    BY <1>1, <1>5 DEF TypeOK
  <2> QED BY <1>5, <2>2, <2>4, <2>6, <2>7, <2>8, PresentStep
<1> QED BY <1>4, <1>5 DEF RefreshBody, ReRead

\* Calling refresh(): taking the lock, or waiting for it.
LEMMA RefreshStep ==
  ASSUME IInv, NEW t \in Tasks, NEW k \in Clients,
         NEW held \in Held, NEW forced \in BOOLEAN, NEW replay \in BOOLEAN,
         task[t].pc # "refreshing", forced => held.token \in refused',
         UNCHANGED <<session, challenge, issued, signedOut>>,
         refused \subseteq refused', refused' \subseteq Tokens,
         Refresh(t, k, held, forced, replay)
  PROVE  IInv'
<1>1. TypeOK /\ lock[k] \in LockType(Tasks)
  BY DEF IInv, TypeOK
<1>2. /\ Enter(lock[k], t) \in LockType(Tasks)
      /\ IsFree(lock[k]) => Enter(lock[k], t).holder = t
      /\ ~IsFree(lock[k]) => Enter(lock[k], t).holder = lock[k].holder
  BY <1>1, EnterType
<1>3. CASE IsFree(lock[k]) /\ RefreshBody(t, k, Enter(lock[k], t), held, forced, replay)
  <2>1. lock[k].holder = Nobody
    BY <1>3 DEF IsFree
  <2> QED BY <1>2, <1>3, <2>1, RefreshBodyStep
<1>4. CASE /\ ~IsFree(lock[k])
           /\ lock' = [lock EXCEPT ![k] = Enter(@, t)]
           /\ Become(t, Doing("refreshWait", k, held, forced, replay))
           /\ UNCHANGED rotations
  <2>1. PICK d \in Task : d = Doing("refreshWait", k, held, forced, replay)
    BY DoingType DEF Phases
  <2>2. d.pc = "refreshWait" /\ d.client = k /\ d.held = held /\ d.forced = forced
    BY <2>1, DoingType DEF Phases
  <2>3. Become(t, d)
    BY <1>4, <2>1
  <2>4. /\ task' \in [Tasks -> Task] /\ task'[t] = d
        /\ \A u \in Tasks : u # t => task'[u] = task[u]
    BY <1>1, <2>3, BecomeType
  <2>5. TypeOK'
    BY <1>1, <1>2, <1>4, <2>4 DEF TypeOK, rotations
  <2>6. \A j \in Clients : lock[j].holder \in Tasks \ {t} => lock'[j].holder = lock[j].holder
    BY <1>1, <1>2, <1>4 DEF TypeOK
  <2>7. TaskOK(t)'
    BY <2>2, <2>4 DEF TaskOK
  <2> QED BY <1>4, <2>2, <2>4, <2>5, <2>6, <2>7, QuietCall DEF rotations
<1> QED BY <1>3, <1>4 DEF Refresh

-----------------------------------------------------------------------------
(* What the parts of an action do.                                         *)

LEMMA IssueToFacts ==
  ASSUME TypeOK, NEW k \in Clients, NEW u \in Users, IssueTo(k, u)
  PROVE  /\ issued' = issued + 1 /\ issued' \in 0..MaxTokens
         /\ Fresh(u, issued + 1) \in Session
         /\ session' \in [Clients -> Session \cup {NoSession}]
         /\ Replaced(k) /\ \A j \in Clients : j # k => session'[j] = session[j]
<1>1. issued + 1 \in Tokens /\ issued' = issued + 1 /\ issued' \in 0..MaxTokens
  BY SessionsAssumption DEF TypeOK, IssueTo, Tokens
<1>2. Fresh(u, issued + 1) \in Session
  BY <1>1, Zenon DEF Fresh, Session
<1>3. Fresh(u, issued + 1).token = issued + 1
  BY DEF Fresh
<1> QED BY <1>1, <1>2, <1>3 DEF TypeOK, IssueTo, Replaced

LEMMA InvalidateFacts ==
  ASSUME TypeOK, NEW k \in Clients, session' = [session EXCEPT ![k] = NoSession]
  PROVE  /\ session' \in [Clients -> Session \cup {NoSession}]
         /\ Replaced(k) /\ \A j \in Clients : j # k => session'[j] = session[j]
  BY DEF TypeOK, Replaced

LEMMA ForgetFacts ==
  ASSUME TypeOK, NEW k \in Clients, challenge' = [challenge EXCEPT ![k] = None]
  PROVE  challenge' \in [Clients -> Users \cup {None}]
  BY DEF TypeOK

\* The holder of k's lock leaves it.
LEMMA LeaveFacts ==
  ASSUME TypeOK, NEW t \in Tasks, NEW k \in Clients, lock[k].holder = t,
         lock' = [lock EXCEPT ![k] = Leave(@)]
  PROVE  /\ lock' \in [Clients -> LockType(Tasks)]
         /\ \A j \in Clients : lock[j].holder \in Tasks \ {t} => lock'[j].holder = lock[j].holder
<1>1. Leave(lock[k]) \in LockType(Tasks)
  BY LeaveType DEF TypeOK
<1> QED BY <1>1 DEF TypeOK

\* Doing something new for k, with the lock untouched or about to be taken.
LEMMA StartedCall ==
  ASSUME IInv, NEW t \in Tasks, task[t] = Idle, NEW k \in Clients,
         NEW phase \in Phases \ {"refreshing", "refreshWait"}, NEW held \in Held, NEW replay \in BOOLEAN,
         phase = "verifying" => held.user \in Users, phase = "calling" => held \in Session, phase # "replaying",
         Become(t, Doing(phase, k, held, FALSE, replay)),
         UNCHANGED <<session, challenge, lock, issued, refused, rotations, signedOut>>
  PROVE  IInv'
<1>1. PICK forced \in BOOLEAN : forced = FALSE
  OBVIOUS
<1>2. PICK d \in Task : /\ d = Doing(phase, k, held, FALSE, replay)
                        /\ d.pc = phase /\ d.client = k /\ d.held = held
  <2>1. Doing(phase, k, held, FALSE, replay) = Doing(phase, k, held, forced, replay)
    BY <1>1, Zenon
  <2>2. PICK d \in Task : /\ d = Doing(phase, k, held, forced, replay)
                          /\ d.pc = phase /\ d.client = k /\ d.held = held
    BY DoingType
  <2> QED BY <2>1, <2>2, Zenon
<1>3. TypeOK /\ Become(t, d)
  BY <1>2 DEF IInv
<1>4. /\ task' \in [Tasks -> Task] /\ task'[t] = d
      /\ \A u \in Tasks : u # t => task'[u] = task[u]
  BY <1>3, BecomeType
<1>5. TypeOK'
  BY <1>3, <1>4 DEF TypeOK, rotations
<1>6. TaskOK(t)' /\ task[t].pc # "refreshing"
  BY <1>2, <1>4, IdleType DEF TaskOK
<1> QED BY <1>2, <1>4, <1>5, <1>6, QuietCall DEF rotations

-----------------------------------------------------------------------------
(* Every action.                                                           *)

\* A call that is under way is some client's.
LEMMA ClientOf ==
  ASSUME IInv, NEW t \in Tasks, task[t].pc # "idle"
  PROVE  task[t].client \in Clients /\ TypeOK
  BY DEF IInv, TaskOK

LEMMA LockGrantedStep == ASSUME IInv, NEW t \in Tasks, LockGranted(t) PROVE IInv'
<1>1. /\ task[t].pc = "refreshWait" /\ lock[task[t].client].holder = t
      /\ RefreshBody(t, task[t].client, lock[task[t].client], task[t].held, task[t].forced, task[t].replay)
      /\ UNCHANGED <<session, challenge, issued, refused, signedOut>>
  BY DEF LockGranted
<1>2. task[t].client \in Clients /\ TypeOK
  BY <1>1, ClientOf
<1>3. task[t].forced => task[t].held.token \in refused'
  BY <1>1 DEF IInv, TaskOK
<1>4. lock[task[t].client] \in LockType(Tasks) /\ refused' \subseteq Tokens
  BY <1>1, <1>2 DEF TypeOK
<1> QED BY <1>1, <1>2, <1>3, <1>4, TaskFields, RefreshBodyStep

LEMMA RefreshSucceedsStep == ASSUME IInv, NEW t \in Tasks, RefreshSucceeds(t) PROVE IInv'
<1>1. PICK k \in Clients : k = task[t].client /\ lock[k].holder = t /\ task[t].pc = "refreshing"
  BY RotatorsHold DEF RefreshSucceeds
<1>2. PICK u \in Users : u = task[t].held.user
  BY <1>1 DEF IInv, TaskOK, Session
<1>3. /\ TypeOK /\ IssueTo(k, u) /\ lock' = [lock EXCEPT ![k] = Leave(@)]
      /\ Become(t, Doing(Operation(task[t].forced), k, Fresh(u, issued + 1), task[t].forced, task[t].replay))
      /\ UNCHANGED <<challenge, refused, rotations, signedOut>>
  BY <1>1, <1>2 DEF RefreshSucceeds, IInv
<1>4. /\ issued' = issued + 1 /\ issued' \in 0..MaxTokens
      /\ Fresh(u, issued + 1) \in Session \cap Held
      /\ session' \in [Clients -> Session \cup {NoSession}]
      /\ Replaced(k) /\ \A j \in Clients : j # k => session'[j] = session[j]
  BY <1>3, IssueToFacts, HeldTypes
<1>5. Operation(task[t].forced) \in Phases /\ Operation(task[t].forced) \in {"replaying", "calling"}
  BY DEF Operation, Phases
<1>6. PICK d \in Task :
        /\ d = Doing(Operation(task[t].forced), k, Fresh(u, issued + 1), task[t].forced, task[t].replay)
        /\ d.pc \in {"replaying", "calling"} /\ d.client = k /\ d.held = Fresh(u, issued + 1)
  BY <1>3, <1>4, <1>5, TaskFields, DoingType
<1>7. /\ task' \in [Tasks -> Task] /\ task'[t] = d
      /\ \A v \in Tasks : v # t => task'[v] = task[v]
  BY <1>3, <1>6, BecomeType
<1>8. /\ lock' \in [Clients -> LockType(Tasks)]
      /\ \A j \in Clients : lock[j].holder \in Tasks \ {t} => lock'[j].holder = lock[j].holder
  BY <1>1, <1>3, LeaveFacts
<1>9. TypeOK'
  BY <1>3, <1>4, <1>7, <1>8 DEF TypeOK, rotations
<1>10. TaskOK(t)' /\ task'[t].pc # "refreshing"
  BY <1>4, <1>6, <1>7 DEF TaskOK
<1> QED BY <1>1, <1>3, <1>4, <1>7, <1>8, <1>9, <1>10, QuietCall DEF rotations

LEMMA RefreshFailsStep == ASSUME IInv, NEW t \in Tasks, RefreshFails(t) PROVE IInv'
<1>1. PICK k \in Clients : k = task[t].client /\ lock[k].holder = t /\ task[t].pc = "refreshing"
  BY RotatorsHold DEF RefreshFails
<1>2. /\ TypeOK /\ session' = [session EXCEPT ![k] = NoSession] /\ lock' = [lock EXCEPT ![k] = Leave(@)]
      /\ Finish(t) /\ UNCHANGED <<challenge, issued, refused, rotations, signedOut>>
  BY <1>1 DEF RefreshFails, IInv
<1>3. /\ session' \in [Clients -> Session \cup {NoSession}]
      /\ Replaced(k) /\ \A j \in Clients : j # k => session'[j] = session[j]
  BY <1>2, InvalidateFacts
<1>4. /\ task' \in [Tasks -> Task] /\ task'[t].pc = "idle" /\ TaskOK(t)'
      /\ \A u \in Tasks : u # t => task'[u] = task[u]
  BY <1>2, FinishType
<1>5. /\ lock' \in [Clients -> LockType(Tasks)]
      /\ \A j \in Clients : lock[j].holder \in Tasks \ {t} => lock'[j].holder = lock[j].holder
  BY <1>1, <1>2, LeaveFacts
<1>6. TypeOK'
  BY <1>2, <1>3, <1>4, <1>5 DEF TypeOK, rotations
<1> QED BY <1>1, <1>2, <1>3, <1>4, <1>5, <1>6, QuietCall DEF rotations

LEMMA StartCallStep ==
  ASSUME IInv, NEW t \in Tasks, NEW k \in Clients, NEW replay \in BOOLEAN, StartCall(t, k, replay)
  PROVE  IInv'
<1>1. /\ TypeOK /\ task[t] = Idle /\ session[k] # NoSession
      /\ UNCHANGED <<session, challenge, issued, refused, signedOut>>
  BY DEF StartCall, IInv
<1>2. session[k] \in Held /\ task[t].pc # "refreshing" /\ refused' \subseteq Tokens
  BY <1>1, HeldTypes, IdleType DEF TypeOK
<1>3. CASE Refresh(t, k, session[k], FALSE, replay)
  BY <1>1, <1>2, <1>3, RefreshStep
<1>4. CASE Become(t, Doing("calling", k, session[k], FALSE, replay)) /\ UNCHANGED <<lock, rotations>>
  <2>1. session[k] \in Session /\ "calling" \in Phases \ {"refreshing", "refreshWait"}
    BY <1>1 DEF TypeOK, Phases
  <2> QED BY <1>1, <1>2, <1>4, <2>1, StartedCall
<1> QED BY <1>3, <1>4 DEF StartCall

LEMMA CallRefusedStep == ASSUME IInv, NEW t \in Tasks, CallRefused(t) PROVE IInv'
<1>1. /\ task[t].pc = "calling" /\ refused' = refused \cup {task[t].held.token}
      /\ UNCHANGED <<issued, signedOut>>
  BY DEF CallRefused
<1>2. task[t].client \in Clients /\ TypeOK
  BY <1>1, ClientOf
<1>3. PICK k \in Clients : k = task[t].client
  BY <1>2
<1>4. CASE /\ Refresh(t, k, task[t].held, TRUE, TRUE)
           /\ UNCHANGED <<session, challenge>>
           /\ refused' \subseteq Tokens
  BY <1>1, <1>2, <1>4, TaskFields, RefreshStep
<1>5. CASE /\ Invalidate(k) /\ Finish(t) /\ UNCHANGED <<lock, rotations>>
           /\ refused' \subseteq Tokens
  <2>1. /\ session' \in [Clients -> Session \cup {NoSession}]
        /\ Replaced(k) /\ \A j \in Clients : j # k => session'[j] = session[j]
    BY <1>2, <1>5, InvalidateFacts DEF Invalidate
  <2>2. challenge' \in [Clients -> Users \cup {None}]
    BY <1>2, <1>5, ForgetFacts DEF Invalidate
  <2>3. /\ task' \in [Tasks -> Task] /\ task'[t].pc = "idle" /\ TaskOK(t)'
        /\ \A u \in Tasks : u # t => task'[u] = task[u]
    BY <1>2, <1>5, FinishType
  <2>4. TypeOK'
    BY <1>1, <1>2, <1>5, <2>1, <2>2, <2>3 DEF TypeOK, rotations
  <2> QED BY <1>1, <1>2, <1>5, <2>1, <2>3, <2>4, QuietCall DEF rotations
<1>6. refused' \subseteq Tokens
  BY <1>1, <1>2, SessionTypes DEF IInv, TypeOK, TaskOK
<1> QED BY <1>3, <1>4, <1>5, <1>6 DEF CallRefused

\* A call ends, and its client may lose its session or its challenge.
LEMMA EndedCall ==
  ASSUME IInv, NEW t \in Tasks, NEW k \in Clients, Finish(t),
         task[t].pc = "refreshing" => task[t].held.token \in abandoned' /\ task[t].client = k,
         \/ UNCHANGED <<session, issued>>
         \/ session' = [session EXCEPT ![k] = NoSession] /\ issued' = issued
         \/ \E u \in Users : IssueTo(k, u),
         challenge' \in [Clients -> Users \cup {None}], signedOut' \subseteq Clients,
         lock' \in [Clients -> LockType(Tasks)],
         \A j \in Clients : lock[j].holder \in Tasks \ {t} => lock'[j].holder = lock[j].holder,
         refused \subseteq refused', refused' \subseteq Tokens,
         abandoned \subseteq abandoned', abandoned' \subseteq Tokens, UNCHANGED <<presented, repeated>>
  PROVE  IInv'
<1>1. TypeOK
  BY DEF IInv
<1>2. /\ task' \in [Tasks -> Task] /\ task'[t].pc = "idle" /\ TaskOK(t)'
      /\ \A u \in Tasks : u # t => task'[u] = task[u]
  BY <1>1, FinishType
<1>3. /\ issued' \in {issued, issued + 1} /\ issued' \in 0..MaxTokens
      /\ session' \in [Clients -> Session \cup {NoSession}]
      /\ \A j \in Clients : j # k => session'[j] = session[j]
      /\ Replaced(k) \/ session'[k].token = session[k].token
  <2>1. CASE UNCHANGED <<session, issued>>
    BY <1>1, <2>1 DEF TypeOK
  <2>2. CASE session' = [session EXCEPT ![k] = NoSession] /\ UNCHANGED issued
    BY <1>1, <2>2, InvalidateFacts DEF TypeOK
  <2>3. CASE \E u \in Users : IssueTo(k, u)
    BY <1>1, <2>3, IssueToFacts
  <2> QED BY <2>1, <2>2, <2>3
<1>4. TypeOK'
  BY <1>1, <1>2, <1>3 DEF TypeOK
<1> QED BY <1>2, <1>3, <1>4, QuietCall

\* What a call that ends without touching the lock, or the abandoned tokens,
\* leaves as it was.
LEMMA EndedInPlace ==
  ASSUME IInv, NEW t \in Tasks, NEW k \in Clients, Finish(t), task[t].pc # "refreshing",
         \/ UNCHANGED <<session, issued>>
         \/ session' = [session EXCEPT ![k] = NoSession] /\ issued' = issued
         \/ \E u \in Users : IssueTo(k, u),
         challenge' \in [Clients -> Users \cup {None}], signedOut' \subseteq Clients,
         refused \subseteq refused', refused' \subseteq Tokens, UNCHANGED <<lock, rotations>>
  PROVE  IInv'
  BY EndedCall DEF IInv, TypeOK, rotations

LEMMA CallReturnsStep == ASSUME IInv, NEW t \in Tasks, CallReturns(t) PROVE IInv'
<1>1. task[t].client \in Clients /\ TypeOK
  BY ClientOf DEF CallReturns
<1> QED BY <1>1, EndedInPlace DEF CallReturns, TypeOK

LEMMA ReplayRefusedStep == ASSUME IInv, NEW t \in Tasks, ReplayRefused(t) PROVE IInv'
<1>1. PICK k \in Clients : k = task[t].client /\ TypeOK
  BY ClientOf DEF ReplayRefused
<1>2. /\ task[t].pc = "replaying" /\ refused' = refused \cup {task[t].held.token} /\ Invalidate(k) /\ Finish(t)
      /\ UNCHANGED <<lock, issued, rotations, signedOut>>
  BY <1>1 DEF ReplayRefused
<1>3. challenge' \in [Clients -> Users \cup {None}] /\ session' = [session EXCEPT ![k] = NoSession]
  BY <1>1, <1>2, ForgetFacts DEF Invalidate
<1>4. refused' \subseteq Tokens /\ signedOut' \subseteq Clients
  BY <1>1, <1>2, SessionTypes DEF IInv, TypeOK, TaskOK
<1> QED BY <1>2, <1>3, <1>4, EndedInPlace

LEMMA StartRequestStep ==
  ASSUME IInv, NEW t \in Tasks, NEW k \in Clients, NEW u \in Users, StartRequest(t, k, u)
  PROVE  IInv'
<1>1. [NoSession EXCEPT !.user = u] \in Held /\ "requesting" \in Phases \ {"refreshing", "refreshWait"}
  BY HeldTypes DEF Phases
<1>2. /\ task[t] = Idle /\ Become(t, Doing("requesting", k, [NoSession EXCEPT !.user = u], FALSE, FALSE))
      /\ UNCHANGED <<session, challenge, lock, issued, refused, rotations, signedOut>>
  BY DEF StartRequest
<1>3. PICK b \in BOOLEAN : b = FALSE
  OBVIOUS
<1>4. Become(t, Doing("requesting", k, [NoSession EXCEPT !.user = u], FALSE, b))
  BY <1>2, <1>3, Zenon
<1> QED BY <1>1, <1>2, <1>4, StartedCall

LEMMA StartVerifyStep ==
  ASSUME IInv, NEW t \in Tasks, NEW k \in Clients, NEW u \in Users, StartVerify(t, k, u)
  PROVE  IInv'
<1>1. /\ [NoSession EXCEPT !.user = u] \in Held /\ [NoSession EXCEPT !.user = u].user \in Users
      /\ "verifying" \in Phases \ {"refreshing", "refreshWait"}
  BY HeldTypes DEF Phases
<1>2. /\ task[t] = Idle /\ Become(t, Doing("verifying", k, [NoSession EXCEPT !.user = u], FALSE, FALSE))
      /\ UNCHANGED <<session, challenge, lock, issued, refused, rotations, signedOut>>
  BY DEF StartVerify
<1>3. PICK b \in BOOLEAN : b = FALSE
  OBVIOUS
<1>4. Become(t, Doing("verifying", k, [NoSession EXCEPT !.user = u], FALSE, b))
  BY <1>2, <1>3, Zenon
<1> QED BY <1>1, <1>2, <1>4, StartedCall

LEMMA StartLogoutStep ==
  ASSUME IInv, NEW t \in Tasks, NEW k \in Clients, StartLogout(t, k)
  PROVE  IInv'
<1>1. session[k] \in Held /\ "loggingOut" \in Phases \ {"refreshing", "refreshWait"}
  BY HeldTypes DEF Phases, IInv, TypeOK
<1>2. /\ task[t] = Idle /\ Become(t, Doing("loggingOut", k, session[k], FALSE, FALSE))
      /\ UNCHANGED <<session, challenge, lock, issued, refused, rotations, signedOut>>
  BY DEF StartLogout
<1>3. PICK b \in BOOLEAN : b = FALSE
  OBVIOUS
<1>4. Become(t, Doing("loggingOut", k, session[k], FALSE, b))
  BY <1>2, <1>3, Zenon
<1> QED BY <1>1, <1>2, <1>4, StartedCall

LEMMA CodeSentStep == ASSUME IInv, NEW t \in Tasks, CodeSent(t) PROVE IInv'
<1>1. task[t].client \in Clients /\ TypeOK /\ task[t].held.user \in Users \cup {None}
  BY ClientOf, TaskFields DEF CodeSent, Held
<1>2. challenge' \in [Clients -> Users \cup {None}]
  BY <1>1 DEF CodeSent, TypeOK
<1> QED BY <1>1, <1>2, EndedInPlace DEF CodeSent, TypeOK

LEMMA VerifySucceedsStep == ASSUME IInv, NEW t \in Tasks, VerifySucceeds(t) PROVE IInv'
<1>1. PICK k \in Clients : k = task[t].client /\ TypeOK
  BY ClientOf DEF VerifySucceeds
<1>2. task[t].held.user \in Users /\ IssueTo(k, task[t].held.user)
  BY <1>1 DEF VerifySucceeds, IInv, TaskOK
<1>3. challenge' \in [Clients -> Users \cup {None}]
  BY <1>1, ForgetFacts DEF VerifySucceeds
<1>4. /\ task[t].pc = "verifying" /\ Finish(t) /\ signedOut' \subseteq Clients
      /\ UNCHANGED <<lock, refused, rotations>> /\ refused' \subseteq Tokens
  BY <1>1 DEF VerifySucceeds, TypeOK
<1> QED BY <1>2, <1>3, <1>4, EndedInPlace

LEMMA SignInFailsStep == ASSUME IInv, NEW t \in Tasks, SignInFails(t) PROVE IInv'
<1>1. task[t].client \in Clients /\ TypeOK
  BY ClientOf DEF SignInFails
<1> QED BY <1>1, EndedInPlace DEF SignInFails, TypeOK

LEMMA LogoutReturnsStep == ASSUME IInv, NEW t \in Tasks, LogoutReturns(t) PROVE IInv'
<1>1. PICK k \in Clients : k = task[t].client /\ TypeOK
  BY ClientOf DEF LogoutReturns
<1>2. challenge' \in [Clients -> Users \cup {None}] /\ session' = [session EXCEPT ![k] = NoSession]
  BY <1>1, ForgetFacts DEF LogoutReturns, Invalidate
<1>3. /\ task[t].pc = "loggingOut" /\ Finish(t) /\ signedOut' \subseteq Clients
      /\ UNCHANGED <<lock, issued, refused, rotations>> /\ refused' \subseteq Tokens
  BY <1>1 DEF LogoutReturns, TypeOK
<1> QED BY <1>2, <1>3, EndedInPlace

LEMMA CancelStep == ASSUME IInv, NEW t \in Tasks, Cancel(t) PROVE IInv'
<1>1. PICK k \in Clients : k = task[t].client /\ TypeOK
  BY ClientOf DEF Cancel
<1>2. /\ Withdraw(lock[k], t) \in LockType(Tasks)
      /\ lock[k].holder # t => Withdraw(lock[k], t).holder = lock[k].holder
  BY <1>1, WithdrawType DEF TypeOK
<1>3. /\ lock' \in [Clients -> LockType(Tasks)]
      /\ \A j \in Clients : lock[j].holder \in Tasks \ {t} => lock'[j].holder = lock[j].holder
  <2>1. CASE lock' = [lock EXCEPT ![k] = Withdraw(@, t)]
    BY <1>1, <1>2, <2>1 DEF TypeOK
  <2>2. CASE lock' = lock
    BY <1>1, <2>2 DEF TypeOK
  <2> QED BY <1>1, <2>1, <2>2 DEF Cancel
<1>4. /\ abandoned \subseteq abandoned' /\ abandoned' \subseteq Tokens
      /\ task[t].pc = "refreshing" => task[t].held.token \in abandoned'
  <2>1. task[t].pc = "refreshing" => task[t].held.token \in Tokens
    BY SessionTypes DEF IInv, TaskOK
  <2> QED BY <1>1, <2>1 DEF Cancel, TypeOK
<1> QED BY <1>1, <1>3, <1>4, EndedCall DEF Cancel, TypeOK

LEMMA ChallengeExpiresStep == ASSUME IInv, NEW k \in Clients, ChallengeExpires(k) PROVE IInv'
<1>1. /\ TypeOK /\ challenge' = [challenge EXCEPT ![k] = None]
      /\ UNCHANGED <<session, lock, task, issued, refused, presented, repeated, abandoned, signedOut>>
  BY DEF ChallengeExpires, rotations, IInv
<1>2. TypeOK'
  BY <1>1, ForgetFacts DEF TypeOK
<1> QED BY <1>1, <1>2, RotatorsHold, QuietStep

\* Ageing keeps the account and the token.
LEMMA AgedType ==
  ASSUME NEW s \in Session
  PROVE  [s EXCEPT !.aging = TRUE] \in Session /\ [s EXCEPT !.aging = TRUE].token = s.token
<1>1. s = [user |-> s.user, token |-> s.token, aging |-> s.aging]
  BY Zenon DEF Session
<1>2. ASSUME NEW d PROVE [s EXCEPT !.aging = d] = [user |-> s.user, token |-> s.token, aging |-> d]
  BY <1>1
<1>3. [s EXCEPT !.aging = TRUE] = [user |-> s.user, token |-> s.token, aging |-> TRUE]
  BY <1>2, Zenon
<1>4. s.user \in Users /\ s.token \in Tokens
  BY DEF Session
<1>5. [s EXCEPT !.aging = TRUE] \in Session
  BY <1>3, <1>4, Zenon DEF Session
<1> QED BY <1>3, <1>5

LEMMA TokenAgesStep == ASSUME IInv, NEW k \in Clients, TokenAges(k) PROVE IInv'
<1>1. /\ TypeOK /\ session[k] \in Session
      /\ UNCHANGED <<challenge, lock, task, issued, refused, presented, repeated, abandoned, signedOut>>
  BY DEF TokenAges, rotations, IInv, TypeOK
<1>2. PICK s \in Session : s = [session[k] EXCEPT !.aging = TRUE] /\ s.token = session[k].token
  BY <1>1, AgedType
<1>3. session' = [session EXCEPT ![k] = s]
  BY <1>2 DEF TokenAges
<1>4. TypeOK' /\ session'[k].token = session[k].token /\ \A j \in Clients : j # k => session'[j] = session[j]
  BY <1>1, <1>2, <1>3 DEF TypeOK
<1> QED BY <1>1, <1>4, RotatorsHold, QuietStep

-----------------------------------------------------------------------------
(* The specification.                                                      *)

LEMMA InitInv == Init => IInv
<1> SUFFICES ASSUME Init PROVE IInv
  OBVIOUS
<1>1. NoSession \in Session \cup {NoSession} /\ Free \in LockType(Tasks) /\ Idle \in Task
  BY FreeType, IdleType
<1>2. TypeOK
  BY <1>1, SessionsAssumption DEF Init, TypeOK
<1>3. \A t \in Tasks : TaskOK(t)
  BY IdleType DEF Init, TaskOK
<1> QED BY <1>2, <1>3 DEF Init, IInv, SessionOK, Distinct

LEMMA NextInv == IInv /\ [Next]_vars => IInv'
<1> SUFFICES ASSUME IInv, [Next]_vars PROVE IInv'
  OBVIOUS
<1>1. ASSUME NEW t \in Tasks, Step(t) PROVE IInv'
  BY <1>1, LockGrantedStep, RefreshSucceedsStep, RefreshFailsStep, CallReturnsStep, CallRefusedStep,
     ReplayRefusedStep, CodeSentStep, VerifySucceedsStep, SignInFailsStep, LogoutReturnsStep DEF Step
<1>2. ASSUME NEW t \in Tasks, Cancel(t) PROVE IInv'
  BY <1>2, CancelStep
<1>3. ASSUME NEW t \in Tasks, NEW k \in Clients, Start(t, k) PROVE IInv'
  BY <1>3, StartCallStep, StartRequestStep, StartVerifyStep, StartLogoutStep DEF Start
<1>4. ASSUME NEW k \in Clients, ChallengeExpires(k) \/ TokenAges(k) PROVE IInv'
  BY <1>4, ChallengeExpiresStep, TokenAgesStep
<1>5. CASE UNCHANGED vars
  BY <1>5 DEF vars, rotations, IInv, TypeOK, TaskOK, SessionOK, Rotates, Distinct
<1> QED BY <1>1, <1>2, <1>3, <1>4, <1>5 DEF Next

THEOREM Invariance == Spec => []IInv
<1> QED BY InitInv, NextInv, PTL DEF Spec

-----------------------------------------------------------------------------
(* What it gives.                                                          *)

\* For any number of clients, accounts and concurrent calls, the state of the
\* session store, the locks and the calls keeps its types.
THEOREM TypeCorrect == Spec => []TypeOK
<1>1. IInv => TypeOK
  BY DEF IInv
<1> QED BY <1>1, Invariance, PTL

\* A refresh token reaches the platform twice only when the client cancelled
\* the call that was sending it (session/manager.py, refresh).
THEOREM SentOnce == Spec => []RefreshTokenSentOnce
<1>1. IInv => RefreshTokenSentOnce
  BY DEF IInv, RefreshTokenSentOnce
<1> QED BY <1>1, Invariance, PTL

\* However many calls of a client find its token old, one rotates it at a time.
THEOREM Serial == Spec => []OneRotationAtATime
<1>1. IInv => OneRotationAtATime
  BY RotatorsHold DEF OneRotationAtATime
<1> QED BY <1>1, Invariance, PTL

\* A caller that lost the race to refresh does not rotate the new pair.
THEOREM NeededOnly == Spec => []RotatedOnlyWhenNeeded
<1>1. IInv => RotatedOnlyWhenNeeded
  BY DEF IInv, TaskOK, RotatedOnlyWhenNeeded
<1> QED BY <1>1, Invariance, PTL

-----------------------------------------------------------------------------
(* Steps of the parts of Reads.                                            *)

\* Whatever part a behaviour is about, every part makes a step of its own or
\* none.
LEMMA PartsStep ==
  ASSUME [ReadsNext]_readsVars
  PROVE  /\ [Identity!Next]_(Identity!vars)
         /\ [Http!Next]_(Http!vars)
         /\ [Numbers!Next]_(Numbers!vars)
         /\ [Shop!Next]_(Shop!vars)
BY DEF ReadsNext, readsVars, selectionVars, catalogVars, identityVars, transportVars,
   Identity!vars, Http!vars, Numbers!vars, Shop!vars

-----------------------------------------------------------------------------
(* Whose session a call finds: ClientIdentity.                             *)

\* A stored session belongs to whoever its identity stands for: a principal to
\* its person, a connection to the person it was minted for, a process to its
\* user.  A principal has one just when it is signed in.
AttributionOK ==
  /\ Identity!TypeOK
  /\ \A a \in Apps, p \in People :
       store[<<"principal", <<a, p>>>>] = IF <<a, p>> \in known THEN p ELSE Absent
  /\ \A c \in Connections : store[<<"connection", c>>] \in {Absent, connection[c]}
  /\ \A i \in 0..MaxRestarts : store[<<"process", i>>] \in {Absent, Identity!PipeUser[process]}
  /\ Identity!NobodyElsesSession /\ Identity!ReturningUserIsKnown

\* The identity a call resolves to, by the first of the chain that can tell.
LEMMA Resolves ==
  ASSUME NEW call \in Identity!Call, process \in 0..MaxRestarts
  PROVE  LET id == Identity!Resolve(call) IN
         \/ id = Absent /\ call.token = Absent
         \/ call.token # Absent /\ id = <<"principal", <<call.token, call.person>>>>
         \/ call.token = Absent /\ call.over # Absent /\ id = <<"connection", call.over>>
         \/ call.token = Absent /\ call.over = Absent /\ id = <<"process", process>>
<1> DEFINE chain == <<Identity!Principal(call), Identity!TransportSession(call), Identity!StdioProcess(call)>>
           able == {i \in 1..3 : chain[i] # {}}
           first == CHOOSE i \in able : \A j \in able : i <= j
<1>1. /\ chain[1] = Identity!Principal(call) /\ chain[2] = Identity!TransportSession(call)
      /\ chain[3] = Identity!StdioProcess(call)
  OBVIOUS
<1>2. Identity!Resolve(call) = IF able = {} THEN Absent ELSE CHOOSE id \in chain[first] : TRUE
  BY DEF Identity!Resolve
<1>3. able # {} => first \in able /\ \A j \in able : first <= j
  <2> SUFFICES ASSUME able # {} PROVE \E i \in able : \A j \in able : i <= j
    OBVIOUS
  <2>1. able \subseteq 1..3
    OBVIOUS
  <2>2. CASE 1 \in able
    BY <2>1, <2>2
  <2>3. CASE 1 \notin able /\ 2 \in able
    BY <2>1, <2>3
  <2>4. CASE 1 \notin able /\ 2 \notin able
    BY <2>1, <2>4
  <2> QED BY <2>2, <2>3, <2>4
<1>4. able \subseteq 1..3 /\ \A i \in 1..3 : i \in able <=> chain[i] # {}
  OBVIOUS
<1> HIDE DEF chain, able, first
<1>5. CASE call.token # Absent
  <2>1. chain[1] = {<<"principal", <<call.token, call.person>>>>}
    BY <1>1, <1>5 DEF Identity!Principal, Identity!Verified
  <2>2. 1 \in able
    <3>1. chain[1] # {} /\ 1 \in 1..3
      BY <2>1
    <3> QED BY <1>4, <3>1
  <2>3. able # {} /\ first = 1
    <3>1. first \in 1..3 /\ first <= 1
      BY <1>3, <1>4, <2>2
    <3> QED BY <2>2, <3>1
  <2> QED BY <1>2, <1>5, <2>1, <2>3
<1>6. CASE call.token = Absent
  <2>1. chain[1] = {}
    BY <1>1, <1>6 DEF Identity!Principal, Identity!Verified
  <2>2. CASE call.over # Absent
    <3>1. chain[2] \in {{}, {<<"connection", call.over>>}} /\ chain[3] = {}
      BY <1>1, <2>2 DEF Identity!TransportSession, Identity!StdioProcess, Identity!HasHttpRequest
    <3>2. able \subseteq {2}
      <4>1. 1 \notin able /\ 3 \notin able
        BY <1>4, <2>1, <3>1
      <4> QED BY <1>4, <4>1
    <3>3. able # {} => first = 2 /\ chain[2] = {<<"connection", call.over>>}
      <4>1. able # {} => first = 2
        BY <1>3, <3>2
      <4>2. 2 \in able => chain[2] # {}
        BY <1>4
      <4> QED BY <1>3, <3>1, <4>1, <4>2
    <3> QED BY <1>2, <1>6, <2>2, <3>3
  <2>3. CASE call.over = Absent
    <3>1. chain[2] = {} /\ chain[3] \in {{}, {<<"process", process>>}}
      BY <1>1, <2>3 DEF Identity!TransportSession, Identity!StdioProcess, Identity!HasHttpRequest
    <3>2. able \subseteq {3}
      <4>1. 1 \notin able /\ 2 \notin able
        BY <1>4, <2>1, <3>1
      <4> QED BY <1>4, <4>1
    <3>3. able # {} => first = 3 /\ chain[3] = {<<"process", process>>}
      <4>1. able # {} => first = 3
        BY <1>3, <3>2
      <4>2. 3 \in able => chain[3] # {}
        BY <1>4
      <4> QED BY <1>3, <3>1, <4>1, <4>2
    <3> QED BY <1>2, <1>6, <2>3, <3>3
  <2> QED BY <2>2, <2>3
<1> QED BY <1>5, <1>6

LEMMA IdentityTypes ==
  ASSUME NEW call \in Identity!Call, Identity!TypeOK, Identity!Resolve(call) # Absent
  PROVE  Identity!Resolve(call) \in Identity!Identities
BY Resolves DEF Identity!TypeOK, Identity!Call, Identity!Identities

LEMMA AttributionInit ==
  ASSUME Identity!IdentityAssumption, Identity!Init
  PROVE  AttributionOK
<1>1. Identity!TypeOK
  BY DEF Identity!Init, Identity!TypeOK, Identity!IdentityAssumption, Identity!Nobody
<1>2. \A id \in Identity!Identities : store[id] = Absent
  BY DEF Identity!Init
<1> QED
  BY <1>1, <1>2 DEF Identity!Init, Identity!Identities, AttributionOK, Identity!NobodyElsesSession,
     Identity!ReturningUserIsKnown, Identity!Nobody

\* The SDK mints an identifier it has not used: nothing is stored under it.
LEMMA ConnectOK ==
  ASSUME Identity!IdentityAssumption, AttributionOK, NEW c \in Connections, NEW p \in People,
         Identity!Connect(c, p)
  PROVE  AttributionOK'
<1>1. Identity!TypeOK'
  BY DEF AttributionOK, Identity!TypeOK, Identity!Connect, Identity!Nobody, Identity!Identities
<1>2. \A d \in Connections : connection'[d] = IF d = c THEN p ELSE connection[d]
  BY DEF AttributionOK, Identity!TypeOK, Identity!Connect
<1>3. UNCHANGED <<process, store, known>> /\ served' = Identity!Nobody /\ connection[c] = Absent
  BY DEF Identity!Connect
<1>4. \A d \in Connections : store'[<<"connection", d>>] \in {Absent, connection'[d]}
  BY <1>2, <1>3 DEF AttributionOK
<1>5. Identity!NobodyElsesSession' /\ Identity!ReturningUserIsKnown'
  BY <1>3 DEF Identity!NobodyElsesSession, Identity!ReturningUserIsKnown, Identity!Nobody
<1>6. Identity!PipeUser' = Identity!PipeUser
  BY DEF Identity!PipeUser
<1> QED BY <1>1, <1>3, <1>4, <1>5, <1>6 DEF AttributionOK

\* Whoever makes a call that is not verified is the person its connection was
\* minted for, or the user of the process.
LEMMA Caller ==
  ASSUME NEW call \in Identity!Call, Identity!MayCall(call)
  PROVE  /\ call.person \in People /\ call.over \in Connections \cup {Absent}
         /\ call.over # Absent => connection[call.over] = call.person
         /\ call.over = Absent => call.person = Identity!PipeUser[process]
BY DEF Identity!Call, Identity!MayCall

\* A call that leaves under its own identity its person's session, or none.
LEMMA StoresOK ==
  ASSUME Identity!IdentityAssumption, AttributionOK, NEW call \in Identity!Call, Identity!MayCall(call),
         NEW held \in {call.person, Absent}, Identity!Resolve(call) # Absent,
         store' = [store EXCEPT ![Identity!Resolve(call)] = held],
         known' = IF held = Absent THEN known \ {<<call.token, call.person>>}
                  ELSE IF call.token # Absent THEN known \cup {<<call.token, call.person>>} ELSE known,
         served' = Identity!Nobody, UNCHANGED <<config, process, connection>>
  PROVE  AttributionOK'
<1> PICK me : me = Identity!Resolve(call)
  OBVIOUS
<1>1. /\ Identity!TypeOK /\ process \in 0..MaxRestarts /\ known \subseteq Apps \X People
      /\ store \in [Identity!Identities -> People \cup {Absent}]
  BY DEF AttributionOK, Identity!TypeOK
<1>2. me # Absent /\ store' = [store EXCEPT ![me] = held]
  OBVIOUS
<1>3. me \in Identity!Identities
  BY <1>1, <1>2, IdentityTypes
<1>4. /\ call.person \in People /\ call.over \in Connections \cup {Absent}
      /\ call.over # Absent => connection[call.over] = call.person
      /\ call.over = Absent => call.person = Identity!PipeUser[process]
      /\ call.person # Absent /\ call.token \in Apps \cup {Absent}
  BY Caller DEF Identity!Call, Identity!IdentityAssumption
<1>5. \/ call.token # Absent /\ me = <<"principal", <<call.token, call.person>>>>
      \/ call.token = Absent /\ call.over # Absent /\ me = <<"connection", call.over>>
      \/ call.token = Absent /\ call.over = Absent /\ me = <<"process", process>>
  BY <1>1, <1>2, Resolves
<1>6. \A id \in Identity!Identities : store'[id] = IF id = me THEN held ELSE store[id]
  BY <1>1, <1>2
<1>7. Identity!TypeOK'
  <2>1. known' \subseteq Apps \X People
    BY <1>1, <1>4
  <2>2. store' \in [Identity!Identities -> People \cup {Absent}]
    BY <1>1, <1>2, <1>3, <1>4
  <2> QED BY <1>1, <2>1, <2>2 DEF Identity!TypeOK, Identity!Identities
<1>8. \A a \in Apps, p \in People :
        store'[<<"principal", <<a, p>>>>] = IF <<a, p>> \in known' THEN p ELSE Absent
  <2> TAKE a \in Apps, p \in People
  <2>1. /\ <<"principal", <<a, p>>>> \in Identity!Identities
        /\ store[<<"principal", <<a, p>>>>] = IF <<a, p>> \in known THEN p ELSE Absent
    BY DEF Identity!Identities, AttributionOK
  <2>2. a # Absent
    BY DEF Identity!IdentityAssumption
  <2>3. CASE a = call.token /\ p = call.person
    <3>1. store'[<<"principal", <<a, p>>>>] = held
      BY <1>5, <1>6, <2>1, <2>2, <2>3
    <3>2. <<a, p>> \in known' <=> held # Absent
      BY <2>2, <2>3
    <3> QED BY <1>4, <2>3, <3>1, <3>2
  <2>4. CASE ~(a = call.token /\ p = call.person)
    <3>1. <<"principal", <<a, p>>>> # me
      BY <1>5, <2>4
    <3>2. <<a, p>> \in known' <=> <<a, p>> \in known
      BY <2>4
    <3> QED BY <1>6, <2>1, <3>1, <3>2
  <2> QED BY <2>3, <2>4
<1>9. \A c \in Connections : store'[<<"connection", c>>] \in {Absent, connection'[c]}
  <2> TAKE c \in Connections
  <2>1. <<"connection", c>> \in Identity!Identities /\ store[<<"connection", c>>] \in {Absent, connection[c]}
    BY DEF Identity!Identities, AttributionOK
  <2>2. <<"connection", c>> = me => connection[c] = call.person
    BY <1>4, <1>5
  <2> QED BY <1>6, <2>1, <2>2
<1>10. \A i \in 0..MaxRestarts : store'[<<"process", i>>] \in {Absent, Identity!PipeUser[process']}
  <2> TAKE i \in 0..MaxRestarts
  <2>1. <<"process", i>> \in Identity!Identities /\ store[<<"process", i>>] \in {Absent, Identity!PipeUser[process]}
    BY DEF Identity!Identities, AttributionOK
  <2>2. <<"process", i>> = me => Identity!PipeUser[process] = call.person
    BY <1>4, <1>5
  <2> QED BY <1>6, <2>1, <2>2
<1>11. Identity!NobodyElsesSession' /\ Identity!ReturningUserIsKnown'
  BY DEF Identity!NobodyElsesSession, Identity!ReturningUserIsKnown, Identity!Nobody
<1>12. Identity!PipeUser' = Identity!PipeUser
  BY DEF Identity!PipeUser
<1> QED BY <1>7, <1>8, <1>9, <1>10, <1>11, <1>12 DEF AttributionOK

LEMMA SignsInOK ==
  ASSUME Identity!IdentityAssumption, AttributionOK, NEW call \in Identity!Call, Identity!SignsIn(call)
  PROVE  AttributionOK'
<1>1. call.person # Absent
  BY DEF Identity!Call, Identity!IdentityAssumption
<1>2. /\ Identity!MayCall(call) /\ Identity!Resolve(call) # Absent
      /\ store' = [store EXCEPT ![Identity!Resolve(call)] = call.person]
      /\ known' = (IF call.token # Absent THEN known \cup {<<call.token, call.person>>} ELSE known)
      /\ served' = Identity!Nobody /\ UNCHANGED <<config, process, connection>>
  BY DEF Identity!SignsIn, Identity!Verified
<1> QED BY <1>1, <1>2, StoresOK

LEMMA SignsOutOK ==
  ASSUME Identity!IdentityAssumption, AttributionOK, NEW call \in Identity!Call, Identity!SignsOut(call)
  PROVE  AttributionOK'
<1>1. /\ Identity!MayCall(call) /\ Identity!Resolve(call) # Absent
      /\ store' = [store EXCEPT ![Identity!Resolve(call)] = Absent]
      /\ known' = known \ {<<call.token, call.person>>}
      /\ served' = Identity!Nobody /\ UNCHANGED <<config, process, connection>>
  BY DEF Identity!SignsOut
<1> QED BY <1>1, StoresOK

LEMMA AsksOK ==
  ASSUME Identity!IdentityAssumption, AttributionOK, NEW call \in Identity!Call, Identity!Asks(call)
  PROVE  AttributionOK'
<1> PICK me : me = Identity!Resolve(call)
  OBVIOUS
<1>1. /\ Identity!TypeOK /\ process \in 0..MaxRestarts /\ known \subseteq Apps \X People
      /\ store \in [Identity!Identities -> People \cup {Absent}]
  BY DEF AttributionOK, Identity!TypeOK
<1>2. /\ served' = [person |-> call.person, token |-> call.token,
                    found |-> IF me = Absent THEN Absent ELSE store[me]]
      /\ UNCHANGED <<config, process, connection, store, known>>
      /\ Identity!MayCall(call)
  BY DEF Identity!Asks
<1>3. /\ call.person \in People /\ call.over \in Connections \cup {Absent}
      /\ call.over # Absent => connection[call.over] = call.person
      /\ call.over = Absent => call.person = Identity!PipeUser[process]
      /\ call.person # Absent /\ call.token \in Apps \cup {Absent}
  BY <1>2, Caller DEF Identity!Call, Identity!IdentityAssumption
<1>4. \/ me = Absent /\ call.token = Absent
      \/ call.token # Absent /\ me = <<"principal", <<call.token, call.person>>>>
      \/ call.token = Absent /\ call.over # Absent /\ me = <<"connection", call.over>>
      \/ call.token = Absent /\ call.over = Absent /\ me = <<"process", process>>
  BY <1>1, Resolves
<1>5. me # Absent => me \in Identity!Identities
  BY <1>1, IdentityTypes
<1>6. served'.person = call.person /\ served'.token = call.token
      /\ served'.found = IF me = Absent THEN Absent ELSE store[me]
  BY <1>2
<1>7. call.token # Absent =>
        served'.found = IF <<call.token, call.person>> \in known THEN call.person ELSE Absent
  <2> SUFFICES ASSUME call.token # Absent
               PROVE  served'.found = IF <<call.token, call.person>> \in known THEN call.person ELSE Absent
    OBVIOUS
  <2>1. store[<<"principal", <<call.token, call.person>>>>] =
          IF <<call.token, call.person>> \in known THEN call.person ELSE Absent
    BY <1>3 DEF AttributionOK
  <2>2. me # Absent
    BY <1>3, <1>4 DEF Identity!IdentityAssumption, Identity!Identities
  <2> QED BY <1>4, <1>6, <2>1, <2>2
<1>8. served'.found \in {Absent, call.person}
  <2>1. CASE call.token # Absent
    BY <1>7, <2>1
  <2>2. CASE call.token = Absent
    BY <1>1, <1>3, <1>4, <1>6, <2>2 DEF AttributionOK
  <2> QED BY <2>1, <2>2
<1>9. Identity!TypeOK'
  <2>1. served' \in [person : People, token : Apps \cup {Absent}, found : People \cup {Absent}]
    BY <1>2, <1>3, <1>6, <1>8
  <2> QED BY <1>1, <1>2, <2>1 DEF Identity!TypeOK, Identity!Identities
<1>10. Identity!NobodyElsesSession'
  BY <1>6, <1>8 DEF Identity!NobodyElsesSession
<1>11. Identity!ReturningUserIsKnown'
  BY <1>2, <1>3, <1>6, <1>7 DEF Identity!ReturningUserIsKnown
<1>12. Identity!PipeUser' = Identity!PipeUser
  BY DEF Identity!PipeUser
<1> QED BY <1>2, <1>9, <1>10, <1>11, <1>12 DEF AttributionOK

LEMMA RestartsOK ==
  ASSUME Identity!IdentityAssumption, AttributionOK, Identity!Restarts
  PROVE  AttributionOK'
<1>1. Identity!TypeOK /\ process \in Nat /\ process < MaxRestarts /\ MaxRestarts \in Nat
  BY DEF AttributionOK, Identity!TypeOK, Identity!Restarts, Identity!IdentityAssumption
<1>2. /\ process' = process + 1 /\ connection' = [c \in Connections |-> Absent]
      /\ store' = [id \in Identity!Identities |-> Absent]
      /\ known' = {} /\ served' = Identity!Nobody /\ UNCHANGED config
  BY DEF Identity!Restarts
<1>3. process' \in 0..MaxRestarts
  BY <1>1, <1>2
<1>4. Identity!TypeOK'
  BY <1>1, <1>2, <1>3 DEF Identity!TypeOK, Identity!Identities
<1>5. \A id \in Identity!Identities : store'[id] = Absent
  BY <1>2
<1> QED
  BY <1>2, <1>4, <1>5 DEF Identity!Identities, AttributionOK, Identity!NobodyElsesSession,
     Identity!ReturningUserIsKnown, Identity!Nobody

LEMMA AttributionNext ==
  ASSUME Identity!IdentityAssumption, AttributionOK, [Identity!Next]_(Identity!vars)
  PROVE  AttributionOK'
<1>1. CASE UNCHANGED Identity!vars
  BY <1>1 DEF AttributionOK, Identity!TypeOK, Identity!vars, Identity!PipeUser, Identity!Identities,
     Identity!NobodyElsesSession, Identity!ReturningUserIsKnown
<1>2. ASSUME NEW c \in Connections, NEW p \in People, Identity!Connect(c, p)
      PROVE  AttributionOK'
  BY <1>2, ConnectOK
<1>3. ASSUME NEW call \in Identity!Call, Identity!SignsIn(call) PROVE AttributionOK'
  BY <1>3, SignsInOK
<1>4. ASSUME NEW call \in Identity!Call, Identity!SignsOut(call) PROVE AttributionOK'
  BY <1>4, SignsOutOK
<1>5. ASSUME NEW call \in Identity!Call, Identity!Asks(call) PROVE AttributionOK'
  BY <1>5, AsksOK
<1>6. CASE Identity!Restarts
  BY <1>6, RestartsOK
<1> QED BY <1>1, <1>2, <1>3, <1>4, <1>5, <1>6 DEF Identity!Next

\* For any people, connections and number of restarts, under any configuration
\* that starts: no call acts with another person's session
\* (ResolvingClientIdentityProvider and the session store).
THEOREM Attribution == ReadsSpec => []NobodyElsesSession
<1>1. ReadsInit => AttributionOK
  BY ReadsAssumption, AttributionInit DEF ReadsInit
<1>2. AttributionOK /\ [ReadsNext]_readsVars => AttributionOK'
  BY ReadsAssumption, PartsStep, AttributionNext
<1>3. AttributionOK => NobodyElsesSession
  BY DEF NobodyElsesSession, AttributionOK
<1> QED BY <1>1, <1>2, <1>3, PTL DEF ReadsSpec

\* For any people, OAuth clients, connections and number of restarts: over any
\* connection, a verified call finds its person signed in just when that person
\* signed in, and not out, through the same OAuth client, in this process
\* (AuthenticatedTransportIdentityProvider and the session store).
THEOREM Returning == ReadsSpec => []ReturningUserIsKnown
<1>1. ReadsInit => AttributionOK
  BY ReadsAssumption, AttributionInit DEF ReadsInit
<1>2. AttributionOK /\ [ReadsNext]_readsVars => AttributionOK'
  BY ReadsAssumption, PartsStep, AttributionNext
<1>3. AttributionOK => ReturningUserIsKnown
  BY DEF ReturningUserIsKnown, AttributionOK
<1> QED BY <1>1, <1>2, <1>3, PTL DEF ReadsSpec

-----------------------------------------------------------------------------
(* How often a request is sent, and what the guard lets through: Transport. *)

\* Every attempt of a request in progress is one of the attempts its kind of
\* read has, before the rotation or after it; a call that rotates has not
\* rotated before.
SendingOK ==
  /\ pc \in {"idle", "sending", "rotating"}
  /\ attempt \in Nat /\ replays \in {0, 1} /\ sent \in Nat
  /\ pc = "sending" => /\ attempt + 1 <= Http!Attempts(request)
                       /\ sent <= (IF replays = 0 THEN 0 ELSE Http!Attempts(request)) + attempt + 1
  /\ pc = "rotating" => replays = 0 /\ sent <= Http!Attempts(request)
  /\ pc = "idle" => sent <= (IF replays = 0 THEN 0 ELSE Http!Attempts(request)) + Http!Attempts(request)

LEMMA AttemptsBounded ==
  ASSUME Http!TransportAssumption, NEW r
  PROVE  Http!Attempts(r) \in Nat /\ Http!Attempts(r) >= 1 /\ Http!Attempts(r) <= MaxAttempts
BY DEF Http!TransportAssumption, Http!Attempts

LEMMA SendingNext ==
  ASSUME Http!TransportAssumption, SendingOK, [Http!Next]_(Http!vars)
  PROVE  SendingOK'
<1> DEFINE n == Http!Attempts(request)
<1>1. n \in Nat /\ n >= 1 /\ Http!Attempts(request') \in Nat /\ Http!Attempts(request') >= 1
  BY AttemptsBounded
<1>2. UNCHANGED request => Http!Attempts(request') = n
  OBVIOUS
<1>3. Http!Attempts(request)' = Http!Attempts(request')
  BY DEF Http!Attempts, Http!Retried, Http!PlainReads, Http!CodeReads, Http!ExactReads
<1> HIDE DEF n
<1>4. CASE UNCHANGED Http!vars
  BY <1>1, <1>2, <1>3, <1>4 DEF SendingOK, Http!vars, n
<1>5. ASSUME NEW r, Http!Begin(r) PROVE SendingOK'
  BY <1>1, <1>3, <1>5 DEF SendingOK, Http!Begin
<1>6. ASSUME NEW a, Http!Retries(a) PROVE SendingOK'
  BY <1>1, <1>2, <1>3, <1>6 DEF SendingOK, Http!Retries, Http!SendsAgain, n
<1>7. ASSUME NEW a, Http!Returns(a) PROVE SendingOK'
  BY <1>1, <1>2, <1>3, <1>7 DEF SendingOK, Http!Returns, Http!MayReplay, n
<1>8. CASE Http!Replays
  BY <1>1, <1>2, <1>3, <1>8 DEF SendingOK, Http!Replays, n
<1>9. CASE Http!GivesUp
  BY <1>1, <1>2, <1>3, <1>9 DEF SendingOK, Http!GivesUp, n
<1> QED BY <1>4, <1>5, <1>6, <1>7, <1>8, <1>9 DEF Http!Next

LEMMA SendingBounds ==
  ASSUME Http!TransportAssumption, SendingOK
  PROVE  Http!RequestsBounded
<1> DEFINE n == Http!Attempts(request)
<1>1. n \in Nat /\ n >= 1 /\ n <= MaxAttempts /\ MaxAttempts \in Nat
  BY AttemptsBounded DEF Http!TransportAssumption
<1> HIDE DEF n
<1>2. sent \in Nat /\ sent <= (IF replays = 0 THEN 0 ELSE n) + n
  BY <1>1 DEF SendingOK, n
<1>3. CASE replays = 0
  <2>1. (1 + replays) * n = n
    BY <1>1, <1>3
  <2> QED BY <1>1, <1>2, <1>3, <2>1 DEF Http!RequestsBounded, n
<1>4. CASE replays = 1
  <2>1. (1 + replays) * n = n + n
    BY <1>1, <1>4
  <2> QED BY <1>1, <1>2, <1>4, <2>1 DEF Http!RequestsBounded, n
<1> QED BY <1>3, <1>4 DEF SendingOK

\* For any number of attempts and whatever the platform answers: a request is
\* sent at most so often before the one rotation and so often after it
\* (get_with_read_retry under run_authenticated).
THEOREM SendingBounded == ReadsSpec => []RequestsBounded
<1>1. ReadsInit => SendingOK
  BY ReadsAssumption, AttemptsBounded DEF ReadsInit, Http!Init, SendingOK
<1>2. SendingOK /\ [ReadsNext]_readsVars => SendingOK'
  BY ReadsAssumption, PartsStep, SendingNext
<1>3. SendingOK => RequestsBounded
  BY ReadsAssumption, SendingBounds DEF RequestsBounded
<1> QED BY <1>1, <1>2, <1>3, PTL DEF ReadsSpec

LEMMA AsksFields ==
  ASSUME NEW m, NEW R, NEW n \in 0..2, NEW r \in Http!Asks(m, R, n)
  PROVE  /\ r.method = m /\ r.route \in R
         /\ DOMAIN r.segments = 1..n /\ Len(r.segments) = n
<1>1. r.method = m /\ r.route \in R /\ r.segments \in [1..n -> Http!Segment]
  BY DEF Http!Asks
<1>2. r.segments \in Seq(Http!Segment)
  BY <1>1, SeqDef
<1>3. Len(r.segments) \in Nat /\ DOMAIN r.segments = 1..Len(r.segments)
  BY <1>2, LenProperties
<1> QED BY <1>1, <1>3

\* What the paths spell.
LEMMA ForeignMarked ==
  ASSUME NEW route \in Http!Foreign
  PROVE  Http!Marked(route)
<1> USE DEF Http!Path, Http!Markers
<1>1. CASE route \in {"legacy_assign", "order_otp", "legacy_wallet_topup"}
  <2>1. \/ "bundle/assign" \in Http!Path(route) \cap Http!Markers
        \/ "verify_order_otp" \in Http!Path(route) \cap Http!Markers
        \/ "wallet/top-up" \in Http!Path(route) \cap Http!Markers
    BY <1>1
  <2> QED BY <2>1 DEF Http!Marked
<1>2. CASE route \in {"wallet_by_id", "voucher", "promotion"}
  <2>1. \/ "user_wallet_by_id" \in Http!Path(route) \cap Http!Markers
        \/ "voucher" \in Http!Path(route) \cap Http!Markers
        \/ "promotion" \in Http!Path(route) \cap Http!Markers
    BY <1>2
  <2> QED BY <2>1 DEF Http!Marked
<1>3. CASE route \in {"stripe_callback", "bundle_consumption", "translate_bundle"}
  <2>1. \/ "stripe" \in Http!Path(route) \cap Http!Markers
        \/ "consumption" \in Http!Path(route) \cap Http!Markers
        \/ "translate_bundle" \in Http!Path(route) \cap Http!Markers
    BY <1>3
  <2> QED BY <2>1 DEF Http!Marked
<1> QED BY <1>1, <1>2, <1>3 DEF Http!Foreign

LEMMA TopupMarked == Http!Marked(Http!AssignTopup)
<1>1. "top-up" \in Http!Path(Http!AssignTopup) \cap Http!Markers
  BY DEF Http!Path, Http!Markers, Http!AssignTopup
<1> QED BY <1>1 DEF Http!Marked

LEMMA OwnUnmarked ==
  ASSUME NEW route \in Http!SignInPosts \cup Http!PlainReads \cup Http!CodeReads
  PROVE  ~Http!Marked(route)
<1>1. CASE route \in Http!SignInPosts
  BY <1>1 DEF Http!SignInPosts, Http!Path, Http!Markers, Http!Marked
<1>2. CASE route \in Http!PlainReads
  BY <1>2 DEF Http!PlainReads, Http!Path, Http!Markers, Http!Marked
<1>3. CASE route \in Http!CodeReads
  BY <1>3 DEF Http!CodeReads, Http!Path, Http!Markers, Http!Marked
<1> QED BY <1>1, <1>2, <1>3

\* The guard refuses what no client has, and a malformed reference.
LEMMA ForeignRefused ==
  ASSUME NEW r \in Http!ForeignRequests
  PROVE  ~Http!Permitted(r)
<1> USE DEF Http!Permitted, Http!Mutations, Http!ExactReads, Http!AssignTopup, Http!ReferenceReads
<1>1. CASE \/ r \in Http!Asks("POST", Http!Foreign, 0)
           \/ r \in Http!Asks("GET", Http!Foreign, 0)
           \/ r \in Http!Asks("GET", Http!Foreign, 1)
  <2>1. r.route \in Http!Foreign
    BY <1>1, AsksFields
  <2>2. Http!HasMarker(r)
    BY <2>1, ForeignMarked DEF Http!HasMarker
  <2> QED BY <2>1, <2>2 DEF Http!Foreign
<1>2. CASE r \in Http!Asks("DELETE", Http!Foreign \cup Http!PlainReads, 0)
  <2>1. r.method = "DELETE"
    BY <1>2, AsksFields
  <2> QED BY <2>1
<1>3. CASE r \in Http!Asks("GET", Http!ReferenceReads, 0)
  <2>1. r.method = "GET" /\ r.route \in Http!ReferenceReads /\ Len(r.segments) = 0
    BY <1>3, AsksFields
  <2> QED BY <2>1 DEF Http!References
<1>4. CASE r \in Http!Asks("POST", Http!ReferenceReads, 1)
  <2>1. r.method = "POST" /\ r.route \in Http!ReferenceReads
    BY <1>4, AsksFields
  <2> QED BY <2>1
<1>5. CASE r \in Http!Asks("GET", Http!ReferenceReads, 1) /\ ~Http!Clean(r)
  <2>1. r.method = "GET" /\ r.route \in Http!ReferenceReads
    BY <1>5, AsksFields
  <2> QED BY <1>5, <2>1
<1> QED BY <1>1, <1>2, <1>3, <1>4, <1>5 DEF Http!ForeignRequests

\* What a client asks for with ordinary references and codes is let through, but
\* for a top-up that is not enabled; and it is none of the foreign requests.
LEMMA ClientsPermitted ==
  ASSUME NEW r \in Http!ClientRequests
  PROVE  /\ r \notin Http!ForeignRequests
         /\ Http!Plain(r) => (Http!Permitted(r) <=> ~(r.route = Http!AssignTopup /\ ~topups))
<1>1. Http!Clean(r)
  BY DEF Http!ClientRequests, Http!Checked
<1>2. r \in Http!ForeignRequests =>
        \/ r.route \in Http!Foreign \/ r.method = "DELETE"
        \/ r.route \in Http!ReferenceReads /\ (r.method = "POST" \/ Len(r.segments) = 0)
  <2> SUFFICES ASSUME r \in Http!ForeignRequests
               PROVE  \/ r.route \in Http!Foreign \/ r.method = "DELETE"
                      \/ r.route \in Http!ReferenceReads /\ (r.method = "POST" \/ Len(r.segments) = 0)
    OBVIOUS
  <2>1. \/ r \in Http!Asks("POST", Http!Foreign, 0) \/ r \in Http!Asks("GET", Http!Foreign, 0)
        \/ r \in Http!Asks("GET", Http!Foreign, 1)
        \/ r \in Http!Asks("DELETE", Http!Foreign \cup Http!PlainReads, 0)
        \/ r \in Http!Asks("GET", Http!ReferenceReads, 0) \/ r \in Http!Asks("POST", Http!ReferenceReads, 1)
    BY <1>1 DEF Http!ForeignRequests
  <2> QED BY <2>1, AsksFields
<1>3. r.route \in Http!SignInPosts \cup Http!PlainReads \cup Http!CodeReads /\ Http!Plain(r) => ~Http!HasMarker(r)
  BY OwnUnmarked DEF Http!HasMarker, Http!Plain
<1> USE DEF Http!Permitted, Http!Mutations, Http!ExactReads, Http!AssignTopup, Http!ReferenceReads, Http!Foreign,
            Http!SignInPosts, Http!PlainReads, Http!CodeReads, Http!References
<1>4. CASE r \in Http!Asks("POST", Http!SignInPosts \cup Http!Mutations \cup {Http!AssignTopup}, 0)
  <2>1. /\ r.method = "POST" /\ r.route \in Http!SignInPosts \cup Http!Mutations \cup {Http!AssignTopup}
    BY <1>4, AsksFields
  <2>2. r.route = Http!AssignTopup => Http!HasMarker(r)
    BY TopupMarked DEF Http!HasMarker
  <2> QED BY <1>2, <1>3, <2>1, <2>2
<1>5. CASE r \in Http!Asks("GET", Http!PlainReads \cup Http!ExactReads, 0)
  <2>1. r.method = "GET" /\ r.route \in Http!PlainReads \cup Http!ExactReads
    BY <1>5, AsksFields
  <2> QED BY <1>2, <1>3, <2>1
<1>6. CASE r \in Http!Asks("GET", Http!CodeReads \cup (Http!ReferenceReads \ {"related_topup"}), 1)
  <2>1. /\ r.method = "GET" /\ Len(r.segments) = 1
        /\ r.route \in Http!CodeReads \cup (Http!ReferenceReads \ {"related_topup"})
    BY <1>6, AsksFields
  <2> QED BY <1>1, <1>2, <1>3, <2>1
<1>7. CASE r \in Http!Asks("GET", {"related_topup"}, 2)
  <2>1. r.method = "GET" /\ r.route = "related_topup" /\ Len(r.segments) = 2
    BY <1>7, AsksFields
  <2> QED BY <1>1, <1>2, <2>1
<1> QED BY <1>4, <1>5, <1>6, <1>7 DEF Http!ClientRequests

\* A request that was let through has been sent, one that was not was refused
\* without sending anything.
GuardOK ==
  /\ pc \in {"idle", "sending", "rotating"} /\ sent \in Nat
  /\ request # Http!NoRequest => request \in Http!ClientRequests \cup Http!ForeignRequests
  /\ request # Http!NoRequest =>
       IF Http!Permitted(request) THEN sent >= 1
       ELSE pc = "idle" /\ sent = 0 /\ reply = "forbidden_backend_route"

LEMMA GuardNext ==
  ASSUME GuardOK, [Http!Next]_(Http!vars)
  PROVE  GuardOK'
<1>1. (request' \in Http!ClientRequests \cup Http!ForeignRequests)
      <=> (request \in Http!ClientRequests \cup Http!ForeignRequests)'
  OBVIOUS
<1>2. UNCHANGED <<topups, request>> => (Http!Permitted(request)' <=> Http!Permitted(request))
  BY DEF Http!Permitted, Http!HasMarker, Http!Clean, Http!Marked, Http!Path
<1>3. CASE UNCHANGED Http!vars
  BY <1>1, <1>2, <1>3 DEF GuardOK, Http!vars
<1>4. ASSUME NEW r \in Http!ClientRequests \cup Http!ForeignRequests, Http!Begin(r) PROVE GuardOK'
  <2>1. Http!Permitted(request)' <=> Http!Permitted(r)
    BY <1>4 DEF Http!Begin, Http!Permitted, Http!HasMarker, Http!Clean, Http!Marked, Http!Path
  <2> QED BY <1>1, <1>4, <2>1 DEF GuardOK, Http!Begin
<1>5. ASSUME NEW a, Http!Retries(a) PROVE GuardOK'
  BY <1>1, <1>2, <1>5 DEF GuardOK, Http!Retries
<1>6. ASSUME NEW a, Http!Returns(a) PROVE GuardOK'
  BY <1>1, <1>2, <1>6 DEF GuardOK, Http!Returns
<1>7. CASE Http!Replays
  BY <1>1, <1>2, <1>7 DEF GuardOK, Http!Replays
<1>8. CASE Http!GivesUp
  BY <1>1, <1>2, <1>8 DEF GuardOK, Http!GivesUp
<1> QED BY <1>3, <1>4, <1>5, <1>6, <1>7, <1>8 DEF Http!Next

LEMMA GuardExact ==
  ASSUME GuardOK
  PROVE  Http!GuardIsExact
<1>1. request \in Http!ForeignRequests => ~Http!Permitted(request)
  BY ForeignRefused
<1>2. request.route = Http!AssignTopup /\ ~topups => ~Http!Permitted(request)
  BY TopupMarked DEF Http!Permitted, Http!HasMarker, Http!AssignTopup, Http!Mutations, Http!ExactReads,
     Http!ReferenceReads
<1>3. request \in Http!ClientRequests /\ Http!Plain(request) /\ (request.route = Http!AssignTopup => topups)
      => Http!Permitted(request)
  BY ClientsPermitted
<1> QED BY <1>1, <1>2, <1>3 DEF GuardOK, Http!GuardIsExact

\* The route guard refuses, before anything is sent, every route no client has,
\* a malformed reference and a top-up of an eSIM where it is not enabled, and
\* lets every other call of the clients through that has ordinary references and
\* codes (enforce_route_is_permitted).
THEOREM GuardCorrect == ReadsSpec => []GuardIsExact
<1>1. ReadsInit => GuardOK
  BY DEF ReadsInit, Http!Init, GuardOK
<1>2. GuardOK /\ [ReadsNext]_readsVars => GuardOK'
  BY ReadsAssumption, PartsStep, GuardNext
<1>3. GuardOK => GuardIsExact
  BY GuardExact DEF GuardIsExact
<1> QED BY <1>1, <1>2, <1>3, PTL DEF ReadsSpec

-----------------------------------------------------------------------------
(* What a listed number means: Selection.                                  *)

\* A stored listing is the one its owner was last shown, and a call that will
\* store one knows its owner.
ListingOK ==
  /\ signedIn \in [Keys -> Accounts \cup {Absent}]
  /\ listing = [k \in Keys |-> listing[k]]
  /\ shown = [owner \in Numbers!Owner |-> shown[owner]]
  /\ reader = [t \in Calls |-> reader[t]]
  /\ \A k \in Keys : listing[k].user \in Accounts \cup {Absent}
  /\ \A k \in Keys : listing[k].user # Absent =>
       \A i \in DOMAIN listing[k].entries :
         <<listing[k].entries[i], i>> \in shown[Numbers!OwnerOf(k, listing[k].user)]
  /\ \A t \in Calls : reader[t].pc # "idle" => reader[t].owner \in Numbers!Owner
  /\ Numbers!NumberMeansWhatWasShown

\* A step after which no number is being turned into an eSIM, and which leaves
\* listings alone.
LEMMA QuietReader ==
  ASSUME ListingOK, UNCHANGED <<listing, shown>>, named'.number = 0,
         signedIn' \in [Keys -> Accounts \cup {Absent}], reader' = [t \in Calls |-> reader'[t]],
         \A t \in Calls : reader'[t].pc # "idle" => reader'[t].owner \in Numbers!Owner
  PROVE  ListingOK'
<1>1. Numbers!Owner' = Numbers!Owner /\ \A k, u : Numbers!OwnerOf(k, u)' = Numbers!OwnerOf(k, u)
  BY DEF Numbers!Owner, Numbers!OwnerOf
<1>2. Numbers!NumberMeansWhatWasShown'
  BY DEF Numbers!NumberMeansWhatWasShown
<1>3. \A t \in Calls : reader'[t].pc # "idle" => reader'[t].owner \in Numbers!Owner'
  BY <1>1
<1>4. \A k \in Keys : listing'[k].user # Absent =>
       \A i \in DOMAIN listing'[k].entries :
         <<listing'[k].entries[i], i>> \in shown'[Numbers!OwnerOf(k, listing'[k].user)]
  BY DEF ListingOK
<1>5. shown' = [owner \in Numbers!Owner |-> shown'[owner]]
  BY DEF ListingOK
<1> QED BY <1>2, <1>3, <1>4, <1>5 DEF ListingOK, Numbers!Owner, Numbers!OwnerOf

LEMMA BecomeReader ==
  ASSUME ListingOK, NEW t \in Calls, NEW doing, reader' = [reader EXCEPT ![t] = doing],
         doing.pc # "idle" => doing.owner \in Numbers!Owner
  PROVE  /\ reader' = [s \in Calls |-> reader'[s]]
         /\ \A s \in Calls : reader'[s].pc # "idle" => reader'[s].owner \in Numbers!Owner
<1>1. reader' = [s \in Calls |-> IF s = t THEN doing ELSE reader[s]]
  BY DEF ListingOK
<1> QED BY <1>1 DEF ListingOK

LEMMA NothingIsNamed == Numbers!NothingNamed.number = 0 /\ Numbers!Idle.pc = "idle"
BY DEF Numbers!NothingNamed, Numbers!Named, Numbers!Idle, Numbers!Doing

LEMMA AskByNumberOK ==
  ASSUME Numbers!SelectionAssumption, ListingOK, NEW k \in Keys, NEW n \in 1..MaxEsims,
         Numbers!AskByNumber(k, n)
  PROVE  ListingOK'
<1> DEFINE owner == Numbers!OwnerOf(k, signedIn[k])
<1>1. owner.client = k /\ owner.user = signedIn[k] /\ signedIn[k] # Absent
  BY DEF Numbers!OwnerOf, Numbers!AskByNumber
<1>2. UNCHANGED <<signedIn, listing, shown, reader>>
  BY DEF Numbers!AskByNumber
<1>3. CASE named' = Numbers!NothingNamed
  BY <1>2, <1>3, NothingIsNamed, QuietReader DEF ListingOK
<1>4. CASE \E e \in Numbers!Entries(owner, n) : named' = Numbers!Named(owner, n, e)
  <2> PICK e \in Numbers!Entries(owner, n) : named' = Numbers!Named(owner, n, e)
    BY <1>4
  <2>1. named'.owner = owner /\ named'.number = n /\ named'.esim = e
    BY DEF Numbers!Named
  <2>2. n \in DOMAIN Numbers!StoredFor(owner).entries /\ e = Numbers!StoredFor(owner).entries[n]
    BY DEF Numbers!Entries
  <2>3. listing[k].user = signedIn[k] /\ Numbers!StoredFor(owner) = listing[k]
    <3>1. Numbers!NoListing.entries = << >> /\ DOMAIN << >> = {}
      BY DEF Numbers!NoListing
    <3>2. Numbers!StoredFor(owner) = IF listing[k].user = signedIn[k] THEN listing[k] ELSE Numbers!NoListing
      BY <1>1 DEF Numbers!StoredFor
    <3> QED BY <2>2, <3>1, <3>2
  <2>4. <<e, n>> \in shown[owner]
    BY <1>1, <2>2, <2>3 DEF ListingOK
  <2>5. Numbers!NumberMeansWhatWasShown'
    BY <1>2, <2>1, <2>4 DEF Numbers!NumberMeansWhatWasShown
  <2> HIDE DEF owner
  <2> QED BY <1>2, <2>5 DEF ListingOK, Numbers!Owner, Numbers!OwnerOf
<1> QED BY <1>3, <1>4 DEF Numbers!AskByNumber

\* The numbers of the new listing are what its owner is shown; what another
\* owner was shown, and the listing of another client, stay as they were.
LEMMA ListingReturnsOK ==
  ASSUME Numbers!SelectionAssumption, ListingOK, NEW t \in Calls, Numbers!ListingReturns(t)
  PROVE  ListingOK'
<1> DEFINE me == reader[t]
<1> PICK esims \in Numbers!EsimLists(me.user) :
      LET entries == Numbers!Numbered(esims) IN
      /\ listing' = [listing EXCEPT ![me.owner.client] = [user |-> me.owner.user, entries |-> entries]]
      /\ shown' = [shown EXCEPT ![me.owner] = {<<entries[i], i>> : i \in DOMAIN entries}]
  BY DEF Numbers!ListingReturns
<1> PICK entries : entries = Numbers!Numbered(esims)
  OBVIOUS
<1> PICK k, u, o : k = me.owner.client /\ u = me.owner.user /\ o = me.owner
  OBVIOUS
<1>1. o \in Numbers!Owner /\ k = o.client /\ u = o.user
  BY DEF Numbers!ListingReturns, ListingOK
<1>2. k \in Keys /\ u \in Accounts /\ o = Numbers!OwnerOf(k, u)
  BY <1>1 DEF Numbers!Owner, Numbers!OwnerOf
<1>3. listing' = [j \in Keys |-> IF j = k THEN [user |-> u, entries |-> entries] ELSE listing[j]]
  BY <1>2 DEF ListingOK
<1>4. shown' = [p \in Numbers!Owner |-> IF p = o THEN {<<entries[i], i>> : i \in DOMAIN entries} ELSE shown[p]]
  BY <1>1 DEF ListingOK
<1>5. reader' = [reader EXCEPT ![t] = Numbers!Idle] /\ named' = Numbers!NothingNamed
  BY DEF Numbers!ListingReturns, Numbers!Become
<1>6. /\ reader' = [s \in Calls |-> reader'[s]]
      /\ \A s \in Calls : reader'[s].pc # "idle" => reader'[s].owner \in Numbers!Owner
  BY <1>5, BecomeReader, NothingIsNamed
<1> HIDE DEF me
<1>7. \A j \in Keys : listing'[j].user \in Accounts \cup {Absent}
  BY <1>2, <1>3 DEF ListingOK
<1>8. ASSUME NEW j \in Keys, listing'[j].user # Absent, NEW i \in DOMAIN listing'[j].entries
      PROVE  <<listing'[j].entries[i], i>> \in shown'[Numbers!OwnerOf(j, listing'[j].user)]
  <2>1. CASE j = k
    <3>1. listing'[j].user = u /\ listing'[j].entries = entries
      BY <1>3, <2>1
    <3>2. shown'[o] = {<<entries[h], h>> : h \in DOMAIN entries}
      BY <1>1, <1>4
    <3> QED BY <1>2, <1>8, <2>1, <3>1, <3>2
  <2>2. CASE j # k
    <3>1. listing'[j] = listing[j]
      BY <1>3, <2>2
    <3> DEFINE p == Numbers!OwnerOf(j, listing[j].user)
    <3>2. p \in Numbers!Owner /\ p # o
      BY <1>2, <1>7, <1>8, <2>2, <3>1 DEF Numbers!Owner, Numbers!OwnerOf
    <3>3. shown'[p] = shown[p]
      BY <1>4, <3>2
    <3> QED BY <1>8, <3>1, <3>3 DEF ListingOK
  <2> QED BY <2>1, <2>2
<1>9. Numbers!NumberMeansWhatWasShown'
  BY <1>5, NothingIsNamed DEF Numbers!NumberMeansWhatWasShown
<1>10. /\ listing' = [j \in Keys |-> listing'[j]]
       /\ shown' = [p \in Numbers!Owner |-> shown'[p]]
  BY <1>3, <1>4
<1>11. UNCHANGED signedIn
  BY DEF Numbers!ListingReturns
<1> QED BY <1>6, <1>7, <1>8, <1>9, <1>10, <1>11 DEF ListingOK, Numbers!Owner, Numbers!OwnerOf

LEMMA ListingNext ==
  ASSUME Numbers!SelectionAssumption, ListingOK, [Numbers!Next]_(Numbers!vars)
  PROVE  ListingOK'
<1>1. /\ signedIn \in [Keys -> Accounts \cup {Absent}]
      /\ \A t \in Calls : reader[t].pc # "idle" => reader[t].owner \in Numbers!Owner
  BY DEF ListingOK
<1>2. CASE UNCHANGED Numbers!vars
  BY <1>2 DEF ListingOK, Numbers!vars, Numbers!NumberMeansWhatWasShown, Numbers!Owner, Numbers!OwnerOf
<1>3. ASSUME NEW k \in Keys, NEW u \in Accounts, Numbers!SignIn(k, u) PROVE ListingOK'
  BY <1>1, <1>3, NothingIsNamed, QuietReader DEF Numbers!SignIn, ListingOK
<1>4. ASSUME NEW k \in Keys, Numbers!SessionEnds(k) PROVE ListingOK'
  <2>1. listing' = [j \in Keys |-> IF j = k THEN Numbers!NoListing ELSE listing[j]]
    BY <1>4 DEF Numbers!SessionEnds, ListingOK
  <2>2. UNCHANGED <<reader, shown>> /\ named'.number = 0
    BY <1>4, NothingIsNamed DEF Numbers!SessionEnds
  <2>3. Numbers!NoListing.user = Absent /\ signedIn' \in [Keys -> Accounts \cup {Absent}]
    BY <1>1, <1>4 DEF Numbers!NoListing, Numbers!SessionEnds
  <2>4. \A j \in Keys : listing'[j].user # Absent =>
          \A i \in DOMAIN listing'[j].entries :
            <<listing'[j].entries[i], i>> \in shown'[Numbers!OwnerOf(j, listing'[j].user)]
    BY <2>1, <2>2, <2>3 DEF ListingOK
  <2>5. \A j \in Keys : listing'[j].user \in Accounts \cup {Absent}
    BY <2>1, <2>3 DEF ListingOK
  <2>6. Numbers!NumberMeansWhatWasShown'
    BY <2>2 DEF Numbers!NumberMeansWhatWasShown
  <2>7. listing' = [j \in Keys |-> listing'[j]]
    BY <2>1
  <2> QED BY <2>2, <2>3, <2>4, <2>5, <2>6, <2>7 DEF ListingOK, Numbers!Owner, Numbers!OwnerOf
<1>5. ASSUME NEW k \in Keys, NEW n \in 1..MaxEsims, Numbers!AskByNumber(k, n) PROVE ListingOK'
  BY <1>5, AskByNumberOK
<1>6. ASSUME NEW t \in Calls, NEW k \in Keys, NEW pc_ \in {"listing", "finding"}, Numbers!Starts(t, k, pc_)
      PROVE  ListingOK'
  <2> DEFINE doing == Numbers!Doing(pc_, Numbers!OwnerOf(k, signedIn[k]))
  <2>1. reader' = [reader EXCEPT ![t] = doing] /\ UNCHANGED <<signedIn, listing, shown>> /\ named'.number = 0
    BY <1>6, NothingIsNamed DEF Numbers!Starts, Numbers!Become
  <2>2. signedIn[k] \in Accounts
    BY <1>1, <1>6 DEF Numbers!Starts
  <2>3. doing.owner \in Numbers!Owner
    BY <2>2 DEF Numbers!Doing, Numbers!Owner, Numbers!OwnerOf
  <2> HIDE DEF doing
  <2> QED BY <1>1, <2>1, <2>3, BecomeReader, QuietReader
<1>7. ASSUME NEW t \in Calls, Numbers!Sends(t) PROVE ListingOK'
  <2> DEFINE doing == [reader[t] EXCEPT !.user = signedIn[reader[t].owner.client]]
  <2>1. reader' = [reader EXCEPT ![t] = doing] /\ UNCHANGED <<signedIn, listing, shown>> /\ named'.number = 0
    BY <1>7, NothingIsNamed DEF Numbers!Sends, Numbers!Become
  <2>2. doing.owner = reader[t].owner /\ reader[t].pc # "idle"
    BY <1>7 DEF Numbers!Sends
  <2> HIDE DEF doing
  <2> QED BY <1>1, <2>1, <2>2, BecomeReader, QuietReader
<1>8. ASSUME NEW t \in Calls, Numbers!ListingReturns(t) PROVE ListingOK'
  BY <1>8, ListingReturnsOK
<1>9. ASSUME NEW t \in Calls, Numbers!Finds(t) PROVE ListingOK'
  <2>1. reader' = [reader EXCEPT ![t] = Numbers!Idle] /\ UNCHANGED <<signedIn, listing, shown>>
    BY <1>9 DEF Numbers!Finds, Numbers!Become
  <2>2. named'.number = 0
    BY <1>9, NothingIsNamed DEF Numbers!Finds, Numbers!Named
  <2> QED BY <1>1, <2>1, <2>2, NothingIsNamed, BecomeReader, QuietReader
<1>10. ASSUME NEW t \in Calls, Numbers!Fails(t) PROVE ListingOK'
  <2>1. reader' = [reader EXCEPT ![t] = Numbers!Idle] /\ UNCHANGED <<signedIn, listing, shown>> /\ named'.number = 0
    BY <1>10, NothingIsNamed DEF Numbers!Fails, Numbers!Become
  <2> QED BY <1>1, <2>1, NothingIsNamed, BecomeReader, QuietReader
<1> QED BY <1>2, <1>3, <1>4, <1>5, <1>6, <1>7, <1>8, <1>9, <1>10 DEF Numbers!Next

\* For any clients, accounts and concurrent calls, whatever the platform lists:
\* a number names the eSIM that stood under it in the listing its owner was
\* last shown (selection/).
THEOREM NumbersKeepMeaning == ReadsSpec => []NumberMeansWhatWasShown
<1>1. ReadsInit => ListingOK
  BY ReadsAssumption, NothingIsNamed DEF ReadsInit, Numbers!Init, ListingOK, Numbers!NoListing,
     Numbers!NumberMeansWhatWasShown
<1>2. ListingOK /\ [ReadsNext]_readsVars => ListingOK'
  BY ReadsAssumption, PartsStep, ListingNext
<1>3. ListingOK => NumberMeansWhatWasShown
  BY DEF NumberMeansWhatWasShown, ListingOK
<1> QED BY <1>1, <1>2, <1>3, PTL DEF ReadsSpec

-----------------------------------------------------------------------------
(* Counting things off in an order.                                        *)

\* Natural numbers, if there are any, have a least one.
LEMMA Smallest ==
  ASSUME NEW S, S \subseteq Nat, S # {}
  PROVE  \E i \in S : \A j \in S : i <= j
<1> DEFINE R == OpToRel(<, Nat)
<1>1. IsWellFoundedOn(R, Nat)
  BY NatLessThanWellFounded
<1>2. \A x, y \in Nat : <<y, x>> \in R <=> y < x
  BY DEF OpToRel
<1> HIDE DEF R
<1>3. PICK i \in S : \A j \in S : ~(<<j, i>> \in R)
  BY <1>1, WFMin
<1>4. \A j \in S : i <= j
  <2> TAKE j \in S
  <2>1. i \in Nat /\ j \in Nat
    OBVIOUS
  <2>2. ~(j < i)
    BY <1>2, <1>3, <2>1
  <2> QED BY <2>1, <2>2
<1> QED BY <1>4

\* Things that have different numbers up to their number have all of them: the
\* first n are n, if there are more.
LEMMA Counted ==
  ASSUME NEW M, IsFiniteSet(M), NEW f \in [M -> 1..Cardinality(M)],
         \A i, j \in M : i # j => f[i] # f[j], NEW n \in Nat
  PROVE  LET first == {i \in M : f[i] <= n} IN M \ first # {} => Cardinality(first) = n
<1> DEFINE first == {i \in M : f[i] <= n}
           m == Cardinality(M)
<1>1. m \in Nat
  BY FS_CardinalityType
<1>2. \A k \in 1..m : \E i \in M : f[i] = k
  <2> DEFINE h == [i \in M |-> f[i]]
  <2>1. h \in [M -> 1..m] /\ \A i \in M : h[i] = f[i]
    OBVIOUS
  <2>2. IsFiniteSet(1..m) /\ Cardinality(1..m) = m
    BY <1>1, FS_Interval
  <2> HIDE DEF h
  <2>3. h \in Injection(M, 1..m)
    BY <2>1 DEF Injection, IsInjective
  <2>4. h \in Surjection(M, 1..m)
    BY <2>2, <2>3, FS_Injection
  <2> QED BY <2>1, <2>4 DEF Surjection
<1> SUFFICES ASSUME M \ first # {} PROVE Cardinality(first) = n
  OBVIOUS
<1>3. \A i : i \in first <=> i \in M /\ f[i] <= n
  OBVIOUS
<1>4. n < m
  <2> PICK i \in M : ~(f[i] <= n)
    OBVIOUS
  <2>1. f[i] \in 1..m
    OBVIOUS
  <2> QED BY <1>1, <2>1
<1> PICK g : g = [i \in first |-> f[i]]
  OBVIOUS
<1>5. g \in [first -> 1..n] /\ \A i \in first : g[i] = f[i]
  <2>1. \A i \in first : f[i] \in 1..n
    BY <1>1, <1>3
  <2> HIDE DEF first
  <2> QED BY <2>1
<1> HIDE DEF first, m
<1>6. g \in Injection(first, 1..n)
  BY <1>3, <1>5 DEF Injection, IsInjective
<1>7. \A k \in 1..n : \E i \in first : g[i] = k
  <2> TAKE k \in 1..n
  <2>1. k \in 1..m
    BY <1>1, <1>4
  <2>2. PICK i \in M : f[i] = k
    BY <1>2, <2>1
  <2>3. i \in first
    BY <1>3, <2>2
  <2> QED BY <1>5, <2>2, <2>3
<1>8. g \in Surjection(first, 1..n)
  BY <1>5, <1>7 DEF Surjection
<1>9. IsFiniteSet(1..n) /\ Cardinality(1..n) = n
  BY FS_Interval
<1> QED BY <1>6, <1>8, <1>9, FS_Injection

\* f counts the things of M off in the order R.
CountsOff(f, M, R) ==
  /\ \A i \in M : <<i, i>> \notin R
  /\ \A i, j \in M : i # j => <<i, j>> \in R \/ <<j, i>> \in R
  /\ \A i, j, k \in M : <<i, j>> \in R /\ <<j, k>> \in R => <<i, k>> \in R
  /\ f = [i \in M |-> Cardinality({j \in M : <<j, i>> \in R}) + 1]

LEMMA Ranks ==
  ASSUME NEW M, IsFiniteSet(M), NEW R, NEW f, CountsOff(f, M, R)
  PROVE  /\ f \in [M -> 1..Cardinality(M)]
         /\ \A i, j \in M : <<i, j>> \in R => f[i] < f[j]
         /\ \A i, j \in M : i # j => f[i] # f[j]
<1>1. PICK before : before = [i \in M |-> {j \in M : <<j, i>> \in R}]
  OBVIOUS
<1>2. /\ \A i, j \in M : j \in before[i] <=> <<j, i>> \in R
      /\ \A i \in M : before[i] \subseteq M
  BY <1>1
<1>3. f = [i \in M |-> Cardinality(before[i]) + 1]
  <2>1. f = [i \in M |-> Cardinality({j \in M : <<j, i>> \in R}) + 1]
    BY DEF CountsOff
  <2>2. \A i \in M : before[i] = {j \in M : <<j, i>> \in R}
    BY <1>1
  <2> QED BY <2>1, <2>2
<1> DEFINE m == Cardinality(M)
<1>4. m \in Nat
  BY FS_CardinalityType
<1>5. \A i \in M : f[i] = Cardinality(before[i]) + 1
  BY <1>3
<1>6. \A i \in M : IsFiniteSet(before[i]) /\ Cardinality(before[i]) \in Nat /\ Cardinality(before[i]) < m
  <2> TAKE i \in M
  <2>1. before[i] \subseteq M /\ i \notin before[i]
    BY <1>2 DEF CountsOff
  <2>2. IsFiniteSet(before[i]) /\ Cardinality(before[i]) <= m /\ (m = Cardinality(before[i]) => M = before[i])
    BY <2>1, FS_Subset
  <2>3. Cardinality(before[i]) \in Nat
    BY <2>2, FS_CardinalityType
  <2> QED BY <1>4, <2>1, <2>2, <2>3
<1>7. ASSUME NEW i \in M, NEW j \in M, <<i, j>> \in R PROVE Cardinality(before[i]) < Cardinality(before[j])
  <2>1. before[i] \subseteq before[j] /\ i \in before[j] /\ i \notin before[i]
    BY <1>7, <1>2 DEF CountsOff
  <2>2. IsFiniteSet(before[j]) /\ before[i] # before[j]
    BY <1>6, <2>1
  <2>3. /\ Cardinality(before[i]) <= Cardinality(before[j])
        /\ Cardinality(before[j]) = Cardinality(before[i]) => before[j] = before[i]
    BY <2>1, <2>2, FS_Subset
  <2> QED BY <1>6, <2>2, <2>3
<1> HIDE DEF m
<1>8. f \in [M -> 1..m]
  <2>1. \A i \in M : Cardinality(before[i]) + 1 \in 1..m
    BY <1>4, <1>6
  <2> QED BY <1>3, <2>1
<1>9. \A i, j \in M : <<i, j>> \in R => f[i] < f[j]
  <2> TAKE i, j \in M
  <2>1. f[i] = Cardinality(before[i]) + 1 /\ f[j] = Cardinality(before[j]) + 1
    BY <1>5
  <2>2. Cardinality(before[i]) \in Nat /\ Cardinality(before[j]) \in Nat
    BY <1>6
  <2> QED BY <1>7, <2>1, <2>2
<1>10. \A i, j \in M : i # j => f[i] # f[j]
  <2> TAKE i, j \in M
  <2>1. f[i] \in Int /\ f[j] \in Int
    BY <1>4, <1>8
  <2>2. <<i, j>> \in R => f[i] < f[j]
    BY <1>9
  <2>3. <<j, i>> \in R => f[j] < f[i]
    BY <1>9
  <2> QED BY <2>1, <2>2, <2>3 DEF CountsOff
<1> QED BY <1>8, <1>9, <1>10 DEF m

-----------------------------------------------------------------------------
(* What the catalogue tools say: Catalog.                                  *)

LEMMA SameCardinality == ASSUME NEW S PROVE Shop!Cardinality(S) = Cardinality(S)
BY DEF Shop!Cardinality, Cardinality

\* resolve_in says "not found" when no field matches anything, and goes to a
\* place some field of which matches.
LEMMA Resolution ==
  ASSUME NEW S, list \in Seq(S), NEW levels, levels \subseteq Nat, NEW query
  PROVE  LET said == Shop!Resolved(levels, query) IN
         /\ said.kind = "not_found" <=> \A l \in levels : Shop!Matching(l, query) = {}
         /\ said.kind = "place" => \E l \in levels : said.at \in Shop!Matching(l, query)
<1> DEFINE hits  == {l \in levels : Shop!Matching(l, query) # {}}
           level == CHOOSE l \in hits : \A m \in hits : l <= m
           found == Shop!Matching(level, query)
           first == CHOOSE i \in found : \A j \in found : i <= j
           several == Cardinality({Shop!KeyOf(list[i]) : i \in found}) > 1
<1>1. Shop!Resolved(levels, query) =
        CASE hits = {} -> [kind |-> "not_found", at |-> 0]
          [] hits # {} /\ several -> [kind |-> "ambiguous", at |-> 0]
          [] OTHER -> [kind |-> "place", at |-> first]
  BY DEF Shop!Resolved
<1>2. hits # {} => level \in hits
  <2>1. hits \subseteq Nat
    OBVIOUS
  <2>2. hits # {} => \E l \in hits : \A m \in hits : l <= m
    BY <2>1, Smallest
  <2> QED BY <2>2
<1>3. found # {} => first \in found
  <2>1. found \subseteq Nat
    <3>1. Len(list) \in Nat /\ DOMAIN list = 1..Len(list)
      BY LenProperties
    <3> QED BY <3>1 DEF Shop!Matching
  <2> HIDE DEF found
  <2>2. found # {} => \E i \in found : \A j \in found : i <= j
    BY <2>1, Smallest
  <2> QED BY <2>2
<1>4. level \in hits => level \in levels /\ found # {}
  OBVIOUS
<1>5. hits = {} <=> \A l \in levels : Shop!Matching(l, query) = {}
  OBVIOUS
<1> PICK r : r = Shop!Resolved(levels, query)
  OBVIOUS
<1> HIDE DEF hits, first, several, level
<1>6. CASE hits = {}
  <2>1. r.kind = "not_found"
    BY <1>1, <1>6
  <2> QED BY <1>5, <1>6, <2>1
<1>7. CASE hits # {} /\ several
  <2>1. r.kind = "ambiguous"
    BY <1>1, <1>7
  <2> QED BY <1>5, <1>7, <2>1
<1>8. CASE hits # {} /\ ~several
  <2>1. r.kind = "place" /\ r.at = first
    BY <1>1, <1>8
  <2>2. level \in levels /\ first \in Shop!Matching(level, query)
    BY <1>2, <1>3, <1>4, <1>8
  <2> QED BY <1>5, <1>8, <2>1, <2>2
<1> QED BY <1>6, <1>7, <1>8

LEMMA CountryTrue ==
  ASSUME NEW S, list \in Seq(S), subject = "countries", NEW query
  PROVE  LET said == Shop!CountryAnswer(query) IN
         /\ said.found.kind = "not_found" <=> said.exact = {}
         /\ said.found.kind = "place" => said.found.at \in said.exact
<1> PICK said : said = Shop!CountryAnswer(query)
  OBVIOUS
<1>1. said.found = Shop!Resolved(1..4, query) /\ said.exact = Shop!ExactCountries(query)
  BY DEF Shop!CountryAnswer, Shop!ResolvedCountry
<1>2. \A l \in 1..4 : Shop!Matching(l, query) = {i \in DOMAIN list : Shop!CountryMatches(list[i], l, query)}
  BY DEF Shop!Matching, Shop!Matches
<1>3. /\ said.found.kind = "not_found" <=> \A l \in 1..4 : Shop!Matching(l, query) = {}
      /\ said.found.kind = "place" => \E l \in 1..4 : said.found.at \in Shop!Matching(l, query)
  <2>1. 1..4 \subseteq Nat
    OBVIOUS
  <2> QED BY <1>1, <2>1, Resolution
<1> QED BY <1>1, <1>2, <1>3 DEF Shop!ExactCountries

\* The first field that matches decides, if all it matches are one place.
LEMMA Decides ==
  ASSUME NEW S, list \in Seq(S), NEW levels, levels \subseteq Nat, NEW query,
         NEW l \in levels, Shop!Matching(l, query) # {},
         \A m \in levels : Shop!Matching(m, query) # {} => l <= m,
         NEW key, \A i \in Shop!Matching(l, query) : Shop!KeyOf(list[i]) = key
  PROVE  LET said == Shop!Resolved(levels, query) IN
         said.kind = "place" /\ said.at \in Shop!Matching(l, query)
<1> DEFINE hits  == {n \in levels : Shop!Matching(n, query) # {}}
           level == CHOOSE n \in hits : \A m \in hits : n <= m
           found == Shop!Matching(level, query)
           first == CHOOSE i \in found : \A j \in found : i <= j
           keys == {Shop!KeyOf(list[i]) : i \in found}
<1>1. Shop!Resolved(levels, query) =
        CASE hits = {} -> [kind |-> "not_found", at |-> 0]
          [] hits # {} /\ Cardinality(keys) > 1 -> [kind |-> "ambiguous", at |-> 0]
          [] OTHER -> [kind |-> "place", at |-> first]
  BY SameCardinality DEF Shop!Resolved
<1>2. l \in hits /\ \A m \in hits : l <= m
  OBVIOUS
<1>3. level = l
  <2>1. level \in hits /\ \A m \in hits : level <= m
    BY <1>2
  <2>2. hits \subseteq Nat
    OBVIOUS
  <2> HIDE DEF hits, level
  <2> QED BY <1>2, <2>1, <2>2
<1>4. found = Shop!Matching(l, query)
  BY <1>3
<1>5. first \in found
  <2>1. found \subseteq Nat
    <3>1. Len(list) \in Nat /\ DOMAIN list = 1..Len(list)
      BY LenProperties
    <3> QED BY <3>1 DEF Shop!Matching
  <2>2. found # {}
    BY <1>4
  <2> HIDE DEF found
  <2>3. \E i \in found : \A j \in found : i <= j
    BY <2>1, <2>2, Smallest
  <2> QED BY <2>3
<1>6. Cardinality(keys) = 1
  <2>1. keys = {key}
    BY <1>4, <1>5
  <2> QED BY <2>1, FS_Singleton
<1> HIDE DEF hits, level, found, first, keys
<1>7. Shop!Resolved(levels, query) = [kind |-> "place", at |-> first]
  <2>1. ~(Cardinality(keys) > 1) /\ hits # {}
    BY <1>2, <1>6
  <2> QED BY <1>1, <2>1
<1> QED BY <1>4, <1>5, <1>7

LEMMA RegionTrue ==
  ASSUME NEW S, list \in Seq(S), subject = "regions", NEW query
  PROVE  LET said == Shop!RegionAnswer(query)
             coded == {i \in DOMAIN list : Shop!CodeIs(list[i], query)} IN
         /\ said.found.kind = "not_found" <=> said.exact = {}
         /\ said.found.kind = "place" => said.found.at \in said.exact
         /\ coded # {} => said.found.kind = "place" /\ said.found.at \in coded
         /\ \A i \in DOMAIN list :
              said.found.kind = "place" /\ Shop!HasCode(list[i]) /\ list[i].code = said.asked =>
                Shop!RegionKey(list[i]) = Shop!RegionKey(list[said.found.at])
<1> PICK said : said = Shop!RegionAnswer(query)
  OBVIOUS
<1>1. said.found = Shop!Resolved(1..2, query) /\ said.exact = Shop!ExactRegions(query)
  BY DEF Shop!RegionAnswer, Shop!ResolvedRegion
<1>2. /\ Shop!Matching(1, query) = {i \in DOMAIN list : Shop!CodeIs(list[i], query)}
      /\ Shop!Matching(2, query) = {i \in DOMAIN list : Shop!NameIs(list[i], query)}
  BY DEF Shop!Matching, Shop!Matches, Shop!RegionMatches
<1>3. Shop!ExactRegions(query) = Shop!Matching(1, query) \cup Shop!Matching(2, query)
  BY <1>2 DEF Shop!ExactRegions
<1>4. /\ 1..2 \subseteq Nat /\ 1 \in 1..2 /\ \A l \in 1..2 : 1 <= l
      /\ \A l \in 1..2 : l = 1 \/ l = 2
  OBVIOUS
<1>5. /\ said.found.kind = "not_found" <=> \A l \in 1..2 : Shop!Matching(l, query) = {}
      /\ said.found.kind = "place" => \E l \in 1..2 : said.found.at \in Shop!Matching(l, query)
  BY <1>1, <1>4, Resolution
<1>6. Shop!Matching(1, query) # {} =>
        said.found.kind = "place" /\ said.found.at \in Shop!Matching(1, query)
  <2>1. \A i \in Shop!Matching(1, query) : Shop!KeyOf(list[i]) = <<query, "UPPER">>
    <3> TAKE i \in Shop!Matching(1, query)
    <3>1. Shop!CodeIs(list[i], query)
      BY <1>2
    <3>2. Shop!HasCode(list[i]) /\ Shop!RegionCode(list[i]) = <<query, "UPPER">>
      BY <3>1 DEF Shop!CodeIs, Shop!RegionCode, Shop!Upper
    <3> QED BY <3>2 DEF Shop!KeyOf, Shop!RegionKey
  <2> SUFFICES ASSUME Shop!Matching(1, query) # {}
               PROVE  said.found.kind = "place" /\ said.found.at \in Shop!Matching(1, query)
    OBVIOUS
  <2>2. \A m \in 1..2 : Shop!Matching(m, query) # {} => 1 <= m
    BY <1>4
  <2>3. LET found == Shop!Resolved(1..2, query) IN found.kind = "place" /\ found.at \in Shop!Matching(1, query)
    BY <1>4, <2>1, <2>2, Decides, Zenon
  <2> QED BY <1>1, <2>3
<1>7. 2 \in 1..2
  OBVIOUS
<1>8. ASSUME NEW i \in DOMAIN list, said.found.kind = "place",
             Shop!HasCode(list[i]), list[i].code = said.asked
      PROVE  Shop!RegionKey(list[i]) = Shop!RegionKey(list[said.found.at])
  <2>1. said.asked = Shop!AskedFor(list[said.found.at])
    BY <1>8 DEF Shop!RegionAnswer
  <2>2. Shop!HasCode(list[said.found.at]) /\ said.asked[1] = list[said.found.at].code[1]
    BY <1>8, <2>1 DEF Shop!AskedFor, Shop!HasCode
  <2>3. list[i].code[1] = list[said.found.at].code[1]
    BY <1>8, <2>2
  <2> QED BY <1>8, <2>2, <2>3 DEF Shop!RegionKey, Shop!RegionCode
<1> QED BY <1>1, <1>2, <1>3, <1>4, <1>5, <1>6, <1>7, <1>8

\* A wish of the user in plain words.
Meets(p, c) ==
  /\ c.unlimited => p.data = Shop!Unlimited
  /\ c.price # Absent => p.price \in 0..c.price
  /\ c.data # Absent => p.data = Shop!Unlimited \/ (p.data \in Nat /\ p.data >= c.data)
  /\ c.days # Absent => p.days \in Nat /\ p.days >= c.days

LEMMA QualifiesIsMeets ==
  ASSUME Shop!CatalogAssumption, NEW p \in Shop!Plan, NEW c \in Shop!Criterion
  PROVE  Shop!Qualifies(p, c) <=> Meets(p, c)
<1> USE DEF Shop!CatalogAssumption, Shop!Unlimited
<1>1. /\ p.price \in Nat \cup {Absent} /\ p.data \in Nat \cup {-1, Absent} /\ p.days \in Nat \cup {Absent}
      /\ c.price \in Nat \cup {Absent} /\ c.data \in Nat \cup {Absent} /\ c.days \in Nat \cup {Absent}
  BY DEF Shop!Plan, Shop!Criterion
<1>2. (c.price # Absent => p.price # Absent /\ p.price <= c.price) <=> (c.price # Absent => p.price \in 0..c.price)
  BY <1>1
<1>3. Shop!AtLeast(p.data, c.data) <=> (c.data # Absent => p.data = -1 \/ (p.data \in Nat /\ p.data >= c.data))
  BY <1>1 DEF Shop!AtLeast
<1>4. Shop!AtLeast(p.days, c.days) <=> (c.days # Absent => p.days \in Nat /\ p.days >= c.days)
  BY <1>1 DEF Shop!AtLeast
<1> QED BY <1>2, <1>3, <1>4 DEF Shop!Qualifies, Meets

\* What a plan is sorted by is a pair of numbers, and a better plan's is smaller.
LEMMA KeyType ==
  ASSUME Shop!CatalogAssumption, NEW p \in Shop!Plan, NEW sort
  PROVE  /\ Shop!SortsBy(p, sort) \in Int \X Int
BY DEF Shop!CatalogAssumption, Shop!Plan, Shop!SortsBy, Shop!Unlimited

LEMMA BetterFirst ==
  ASSUME Shop!CatalogAssumption, NEW p \in Shop!Plan, NEW q \in Shop!Plan, NEW sort,
         Shop!BetterBy(sort, p, q)
  PROVE  Shop!Before(Shop!SortsBy(p, sort), Shop!SortsBy(q, sort))
<1> USE DEF Shop!CatalogAssumption, Shop!BetterBy, Shop!Before, Shop!SortsBy, Shop!Unlimited, Shop!Plan
<1>1. CASE sort = "price"
  BY <1>1
<1>2. CASE sort = "data"
  BY <1>2 DEF Shop!MoreThan
<1>3. CASE sort = "validity"
  BY <1>3 DEF Shop!MoreThan
<1> QED BY <1>1, <1>2, <1>3

\* The plans that are ahead of each other are in a strict order.
LEMMA AheadOrder ==
  ASSUME Shop!CatalogAssumption, list \in Seq(Shop!Plan), NEW M \in SUBSET DOMAIN list, NEW sort
  PROVE  /\ \A i \in M : ~Shop!Ahead(sort, i, i)
         /\ \A i, j \in M : i # j => Shop!Ahead(sort, i, j) \/ Shop!Ahead(sort, j, i)
         /\ \A i, j, k \in M : Shop!Ahead(sort, i, j) /\ Shop!Ahead(sort, j, k) => Shop!Ahead(sort, i, k)
<1>1. PICK key : key = [i \in M |-> Shop!SortsBy(list[i], sort)]
  OBVIOUS
<1>2. \A i \in M : i \in Nat /\ key[i] = Shop!SortsBy(list[i], sort) /\ key[i] \in Int \X Int
  <2> TAKE i \in M
  <2>1. DOMAIN list = 1..Len(list) /\ Len(list) \in Nat
    BY LenProperties
  <2>2. list[i] \in Shop!Plan
    BY <2>1, ElementOfSeq
  <2> QED BY <1>1, <2>1, <2>2, KeyType
<1>3. \A i \in M : key[i] = <<key[i][1], key[i][2]>> /\ key[i][1] \in Int /\ key[i][2] \in Int
  BY <1>2
<1>4. \A i, j \in M : Shop!Ahead(sort, i, j) <=>
        \/ key[i][1] < key[j][1] \/ (key[i][1] = key[j][1] /\ key[i][2] < key[j][2])
        \/ key[i][1] = key[j][1] /\ key[i][2] = key[j][2] /\ i < j
  <2> TAKE i, j \in M
  <2>1. key[i] = key[j] <=> key[i][1] = key[j][1] /\ key[i][2] = key[j][2]
    BY <1>3
  <2> QED BY <1>2, <2>1 DEF Shop!Ahead, Shop!Before
<1>5. PICK a, b : a = [i \in M |-> key[i][1]] /\ b = [i \in M |-> key[i][2]]
  OBVIOUS
<1>6. /\ \A i \in M : i \in Nat /\ a[i] \in Int /\ b[i] \in Int
      /\ \A i, j \in M : Shop!Ahead(sort, i, j) <=>
           \/ a[i] < a[j] \/ (a[i] = a[j] /\ b[i] < b[j])
           \/ a[i] = a[j] /\ b[i] = b[j] /\ i < j
  BY <1>2, <1>3, <1>4, <1>5
<1>7. \A i \in M : ~Shop!Ahead(sort, i, i)
  BY <1>6
<1>8. \A i, j \in M : i # j => Shop!Ahead(sort, i, j) \/ Shop!Ahead(sort, j, i)
  BY <1>6
<1>9. \A i, j, k \in M : Shop!Ahead(sort, i, j) /\ Shop!Ahead(sort, j, k) => Shop!Ahead(sort, i, k)
  <2> TAKE i, j, k \in M
  <2>1. /\ a[i] \in Int /\ a[j] \in Int /\ a[k] \in Int /\ b[i] \in Int /\ b[j] \in Int /\ b[k] \in Int
        /\ i \in Nat /\ j \in Nat /\ k \in Nat
    BY <1>6
  <2>2. Shop!Ahead(sort, i, j) => \/ a[i] < a[j] \/ (a[i] = a[j] /\ b[i] < b[j])
                                  \/ a[i] = a[j] /\ b[i] = b[j] /\ i < j
    BY <1>6
  <2>3. Shop!Ahead(sort, j, k) => \/ a[j] < a[k] \/ (a[j] = a[k] /\ b[j] < b[k])
                                  \/ a[j] = a[k] /\ b[j] = b[k] /\ j < k
    BY <1>6
  <2>4. (\/ a[i] < a[k] \/ (a[i] = a[k] /\ b[i] < b[k])
         \/ a[i] = a[k] /\ b[i] = b[k] /\ i < k) => Shop!Ahead(sort, i, k)
    BY <1>6
  <2> QED BY <2>1, <2>2, <2>3, <2>4
<1> QED BY <1>7, <1>8, <1>9

\* Of the plans that match, the first n are n, if there are more, and none of
\* the others is ahead of them.
LEMMA ShownFirst ==
  ASSUME Shop!CatalogAssumption, list \in Seq(Shop!Plan), NEW M \in SUBSET DOMAIN list, NEW sort, NEW n \in Nat
  PROVE  LET first == {i \in M : Shop!Rank(sort, M, i) <= n}
         IN /\ M \ first # {} => Cardinality(first) = n
            /\ \A i \in M \ first, j \in first : ~Shop!Ahead(sort, i, j)
<1> DEFINE R == {x \in M \X M : Shop!Ahead(sort, x[1], x[2])}
           rank == [i \in M |-> Cardinality({j \in M : <<j, i>> \in R}) + 1]
           first == {i \in M : rank[i] <= n}
<1>1. \A i, j \in M : <<i, j>> \in R <=> Shop!Ahead(sort, i, j)
  OBVIOUS
<1>2. \A i \in M : Shop!Rank(sort, M, i) = rank[i]
  <2> TAKE i \in M
  <2>1. {j \in M : <<j, i>> \in R} = {j \in M : Shop!Ahead(sort, j, i)}
    BY <1>1
  <2>2. Shop!Rank(sort, M, i) = Cardinality({j \in M : Shop!Ahead(sort, j, i)}) + 1
    BY SameCardinality DEF Shop!Rank
  <2> HIDE DEF R
  <2>3. rank[i] = Cardinality({j \in M : <<j, i>> \in R}) + 1
    OBVIOUS
  <2> QED BY <2>1, <2>2, <2>3
<1>3. IsFiniteSet(M)
  <2>1. Len(list) \in Nat /\ DOMAIN list = 1..Len(list)
    BY LenProperties
  <2>2. IsFiniteSet(1..Len(list))
    BY <2>1, FS_Interval
  <2>3. M \in SUBSET (1..Len(list))
    BY <2>1
  <2> QED BY <2>2, <2>3, FS_Subset
<1>4. /\ \A i \in M : <<i, i>> \notin R
      /\ \A i, j \in M : i # j => <<i, j>> \in R \/ <<j, i>> \in R
      /\ \A i, j, k \in M : <<i, j>> \in R /\ <<j, k>> \in R => <<i, k>> \in R
  BY <1>1, AheadOrder
<1> HIDE DEF R
<1>5. CountsOff(rank, M, R)
  BY <1>4 DEF CountsOff
<1> HIDE DEF rank
<1>6. /\ rank \in [M -> 1..Cardinality(M)]
      /\ \A i, j \in M : <<i, j>> \in R => rank[i] < rank[j]
      /\ \A i, j \in M : i # j => rank[i] # rank[j]
  BY <1>3, <1>5, Ranks
<1>7. M \ first # {} => Cardinality(first) = n
  BY <1>3, <1>6, Counted
<1>8. \A i \in M \ first, j \in first : ~Shop!Ahead(sort, i, j)
  <2> SUFFICES ASSUME NEW i \in M, NEW j \in M, rank[j] <= n, Shop!Ahead(sort, i, j) PROVE rank[i] <= n
    OBVIOUS
  <2>1. Cardinality(M) \in Nat
    BY <1>3, FS_CardinalityType
  <2>2. rank[i] \in Nat /\ rank[j] \in Nat
    BY <1>6, <2>1
  <2>3. rank[i] < rank[j]
    BY <1>1, <1>6
  <2> QED BY <2>2, <2>3
<1>9. first = {i \in M : Shop!Rank(sort, M, i) <= n}
  BY <1>2
<1> QED BY <1>7, <1>8, <1>9

\* What is said of the plans of a place.
LEMMA PlansTrue ==
  ASSUME Shop!CatalogAssumption, list \in Seq(Shop!Plan), NEW c \in Shop!Criterion, NEW limit \in Int \cup {Absent},
         NEW where, ~Shop!Fails(where)
  PROVE  LET said == Shop!Bundles(where, c, limit)
             good == {i \in Shop!Offered : Meets(list[i], c)}
         IN /\ said.shown \subseteq good
            /\ said.kind = "none_sold" => Shop!Offered = {}
            /\ said.kind # "plans" => good = {}
            /\ good \ said.shown # {} => Cardinality(said.shown) = Shop!Size(limit)
            /\ \A i \in good \ said.shown, j \in said.shown : ~Shop!BetterBy(c.sort, list[i], list[j])
<1> DEFINE matched == {i \in Shop!Offered : Shop!Qualifies(list[i], c)}
           good == {i \in Shop!Offered : Meets(list[i], c)}
           first == {i \in matched : Shop!Rank(c.sort, matched, i) <= Shop!Size(limit)}
<1>1. Len(list) \in Nat /\ DOMAIN list = 1..Len(list)
  BY LenProperties
<1>2. \A i \in Shop!Offered : i \in DOMAIN list /\ list[i] \in Shop!Plan
  BY <1>1, ElementOfSeq DEF Shop!Offered
<1>3. matched = good
  BY <1>2, QualifiesIsMeets
<1> PICK said : said = Shop!Bundles(where, c, limit)
  OBVIOUS
<1>4. /\ matched # {} => said.kind = "plans" /\ said.shown = first
      /\ matched = {} => /\ said.shown = {}
                         /\ said.kind = "none_sold" => Shop!Offered = {} \/ Shop!IsEmpty(c)
  <2> PICK m, f : m = matched /\ f = first
    OBVIOUS
  <2>1. Shop!Bundles(where, c, limit) =
          IF m # {} THEN [kind |-> "plans", shown |-> f]
          ELSE [kind |-> IF Shop!Offered # {} /\ ~Shop!IsEmpty(c) THEN "nothing_matches" ELSE "none_sold",
                shown |-> {}]
    BY DEF Shop!Bundles
  <2> HIDE DEF matched, first
  <2> QED BY <2>1
<1>5. Shop!IsEmpty(c) => matched = Shop!Offered
  <2> SUFFICES ASSUME Shop!IsEmpty(c), NEW i \in Shop!Offered PROVE Shop!Qualifies(list[i], c)
    OBVIOUS
  <2> QED BY DEF Shop!IsEmpty, Shop!Qualifies, Shop!AtLeast
<1>6. Shop!Size(limit) \in Nat
  BY DEF Shop!Size, Shop!Least, Shop!CatalogAssumption
<1>7. matched \in SUBSET DOMAIN list
  BY <1>2
<1>8. /\ matched \ first # {} => Cardinality(first) = Shop!Size(limit)
      /\ \A i \in matched \ first, j \in first : ~Shop!Ahead(c.sort, i, j)
  <2> HIDE DEF matched
  <2> QED BY <1>6, <1>7, ShownFirst
<1>9. first \subseteq matched /\ matched \subseteq Shop!Offered
  OBVIOUS
<1> HIDE DEF matched, first, good
<1>10. CASE matched = {}
  BY <1>3, <1>4, <1>5, <1>10 DEF good
<1>11. CASE matched # {}
  <2>1. said.kind = "plans" /\ said.shown = first
    BY <1>4, <1>11
  <2>2. ASSUME NEW i \in good \ first, NEW j \in first PROVE ~Shop!BetterBy(c.sort, list[i], list[j])
    <3>1. list[i] \in Shop!Plan /\ list[j] \in Shop!Plan /\ ~Shop!Ahead(c.sort, i, j)
      BY <1>2, <1>3, <1>8, <1>9
    <3> QED BY <3>1, BetterFirst DEF Shop!Ahead
  <2> QED BY <1>3, <1>8, <1>9, <2>1, <2>2 DEF good
<1> QED BY <1>10, <1>11

\* A place, the platform's list of it and an answer that was true when given.
CatalogOK ==
  /\ subject \in {"countries", "regions", "plans"}
  /\ list \in Seq(Shop!Records[subject])
  /\ Shop!ToolsAgreeOnCountry /\ Shop!ToolsAgreeOnRegion /\ Shop!PlansAnswerIsTrue

LEMMA Said ==
  /\ Shop!Silent.by = "nobody"
  /\ \A query : Shop!CountryAnswer(query).by = "country" /\ Shop!RegionAnswer(query).by = "region"
  /\ \A where, c, limit :
       LET said == Shop!PlansAnswer(where, c, limit) IN
       /\ said.by = "bundles" /\ said.where = where /\ said.criterion = c /\ said.limit = limit
       /\ said.result = Shop!Bundles(where, c, limit)
BY DEF Shop!Silent, Shop!CountryAnswer, Shop!RegionAnswer, Shop!PlansAnswer

\* What was not asked for is not answered wrongly.
LEMMA OtherAnswer ==
  /\ answer.by # "country" => Shop!ToolsAgreeOnCountry
  /\ answer.by # "region" => Shop!ToolsAgreeOnRegion
  /\ answer.by # "bundles" => Shop!PlansAnswerIsTrue
BY DEF Shop!ToolsAgreeOnCountry, Shop!ToolsAgreeOnRegion, Shop!PlansAnswerIsTrue

LEMMA CatalogNext ==
  ASSUME Shop!CatalogAssumption, CatalogOK, [Shop!Next]_(Shop!vars)
  PROVE  CatalogOK'
<1> USE DEF Shop!ToolsAgreeOnCountry, Shop!ToolsAgreeOnRegion
<1>1. CASE UNCHANGED Shop!vars
  BY <1>1 DEF CatalogOK, Shop!vars, Shop!Records, Shop!PlansAnswerIsTrue, Shop!Offered, Shop!Fails,
     Shop!CodeIs, Shop!HasCode, Shop!RegionCode, Shop!Upper
<1>2. ASSUME NEW record \in Shop!Records[subject], Shop!Lists(record) PROVE CatalogOK'
  <2>1. list' \in Seq(Shop!Records[subject]) /\ UNCHANGED subject /\ answer'.by = "nobody"
    BY <1>2, Said, AppendProperties DEF CatalogOK, Shop!Lists
  <2> QED BY <2>1 DEF CatalogOK, Shop!Records, Shop!PlansAnswerIsTrue
<1>3. ASSUME NEW query, Shop!AsksCountry(query) PROVE CatalogOK'
  <2>1. subject = "countries" /\ answer' = Shop!CountryAnswer(query) /\ UNCHANGED <<subject, list>>
    BY <1>3 DEF Shop!AsksCountry, Shop!Answers
  <2>2. answer'.by = "country"
    BY <2>1, Said
  <2>3. /\ answer'.found.kind = "not_found" <=> answer'.exact = {}
        /\ answer'.found.kind = "place" => answer'.found.at \in answer'.exact
    BY <2>1, CountryTrue DEF CatalogOK
  <2> QED BY <2>1, <2>2, <2>3 DEF CatalogOK, Shop!Records, Shop!PlansAnswerIsTrue
<1>4. ASSUME NEW query, Shop!AsksRegion(query) PROVE CatalogOK'
  <2>1. subject = "regions" /\ answer' = Shop!RegionAnswer(query) /\ UNCHANGED <<subject, list>>
    BY <1>4 DEF Shop!AsksRegion, Shop!Answers
  <2>2. answer'.by = "region"
    BY <2>1, Said
  <2> PICK coded : coded = {i \in DOMAIN list : Shop!CodeIs(list[i], query)}
    OBVIOUS
  <2>3. /\ answer'.query = query
        /\ answer'.found.kind = "not_found" <=> answer'.exact = {}
        /\ answer'.found.kind = "place" => answer'.found.at \in answer'.exact
        /\ coded # {} => answer'.found.kind = "place" /\ answer'.found.at \in coded
        /\ \A i \in DOMAIN list :
             answer'.found.kind = "place" /\ Shop!HasCode(list[i]) /\ list[i].code = answer'.asked =>
               Shop!RegionKey(list[i]) = Shop!RegionKey(list[answer'.found.at])
    BY <2>1, RegionTrue DEF CatalogOK, Shop!RegionAnswer
  <2>4. Shop!ToolsAgreeOnRegion'
    BY <2>1, <2>3 DEF Shop!CodeIs, Shop!HasCode, Shop!RegionCode, Shop!Upper, Shop!RegionKey, Shop!RegionName,
                      Shop!Nameless
  <2> QED BY <2>1, <2>2, <2>4 DEF CatalogOK, Shop!Records, Shop!PlansAnswerIsTrue
<1>5. ASSUME NEW where, NEW c \in Criteria, NEW limit \in Limits, Shop!AsksPlans(where, c, limit) PROVE CatalogOK'
  <2>1. subject = "plans" /\ answer' = Shop!PlansAnswer(where, c, limit) /\ UNCHANGED <<subject, list>>
    BY <1>5 DEF Shop!AsksPlans, Shop!Answers
  <2>2. /\ answer'.by = "bundles" /\ answer'.where = where /\ answer'.criterion = c /\ answer'.limit = limit
        /\ answer'.result = Shop!Bundles(where, c, limit)
    BY <2>1, Said
  <2>3. list \in Seq(Shop!Plan)
    <3>1. list \in Seq(Plans) /\ Plans \subseteq Shop!Plan
      BY <2>1 DEF CatalogOK, Shop!Records, Shop!CatalogAssumption
    <3> QED BY <3>1, SeqMonotonic
  <2>4. c \in Shop!Criterion /\ limit \in Int \cup {Absent}
    BY DEF Shop!CatalogAssumption
  <2> PICK said : said = Shop!Bundles(where, c, limit)
    OBVIOUS
  <2>5. ~Shop!Fails(where) =>
        LET good == {i \in Shop!Offered : Meets(list[i], c)}
        IN /\ said.shown \subseteq good
           /\ said.kind = "none_sold" => Shop!Offered = {}
           /\ said.kind # "plans" => good = {}
           /\ good \ said.shown # {} => Cardinality(said.shown) = Shop!Size(limit)
           /\ \A i \in good \ said.shown, j \in said.shown : ~Shop!BetterBy(c.sort, list[i], list[j])
    BY <2>3, <2>4, PlansTrue
  <2>6. answer'.result = said
    BY <2>2
  <2>7. Shop!PlansAnswerIsTrue'
    BY <2>1, <2>2, <2>5, <2>6, SameCardinality
    DEF Shop!PlansAnswerIsTrue, Shop!Fails, Shop!Offered, Meets, Shop!Size, Shop!BetterBy, Shop!MoreThan,
        Shop!Unlimited, Shop!Least
  <2> QED BY <2>1, <2>2, <2>7 DEF CatalogOK, Shop!Records
<1>6. CASE Shop!Heard
  <2>1. answer'.by = "nobody" /\ UNCHANGED <<subject, list>>
    BY <1>6, Said DEF Shop!Heard
  <2> QED BY <2>1 DEF CatalogOK, Shop!Records, Shop!PlansAnswerIsTrue
<1> QED BY <1>1, <1>2, <1>3, <1>4, <1>5, <1>6 DEF Shop!Next

LEMMA CatalogInit == ASSUME Shop!Init PROVE CatalogOK
<1>1. answer.by = "nobody" /\ list = << >> /\ subject \in {"countries", "regions", "plans"}
  BY Said DEF Shop!Init, Shop!Records
<1>2. list \in Seq(Shop!Records[subject])
  BY <1>1
<1> QED BY <1>1, <1>2, OtherAnswer DEF CatalogOK

\* For any records the platform may list and any question: what list_countries
\* shows as an exact match is never said not to exist by
\* find_bundles_by_country, which goes to a country of that list.
THEOREM CountryAgreed == ReadsSpec => []ToolsAgreeOnCountry
<1>1. ReadsInit => CatalogOK
  BY CatalogInit DEF ReadsInit
<1>2. CatalogOK /\ [ReadsNext]_readsVars => CatalogOK'
  BY ReadsAssumption, PartsStep, CatalogNext
<1>3. CatalogOK => ToolsAgreeOnCountry
  BY DEF ToolsAgreeOnCountry, CatalogOK
<1> QED BY <1>1, <1>2, <1>3, PTL DEF ReadsSpec

\* For any regions the platform may list and any question: list_regions and
\* find_bundles_by_region agree, and a code from the list decides, for the region
\* that has it, whatever the names are (RegionResolver.resolve_in).
THEOREM RegionAgreed == ReadsSpec => []ToolsAgreeOnRegion
<1>1. ReadsInit => CatalogOK
  BY CatalogInit DEF ReadsInit
<1>2. CatalogOK /\ [ReadsNext]_readsVars => CatalogOK'
  BY ReadsAssumption, PartsStep, CatalogNext
<1>3. CatalogOK => ToolsAgreeOnRegion
  BY DEF ToolsAgreeOnRegion, CatalogOK
<1> QED BY <1>1, <1>2, <1>3, PTL DEF ReadsSpec

\* What is said of plans that can be read is true, however many there are and
\* whatever is asked (filter_bundles, sort_bundles, clamp_limit): those shown
\* are sold and meet the wishes; one that is left out is no better than any of
\* them, and only left out of a full answer; "none is sold" means just that.
THEOREM PlansAnswered == ReadsSpec => []PlansAnswerIsTrue
<1>1. ReadsInit => CatalogOK
  BY CatalogInit DEF ReadsInit
<1>2. CatalogOK /\ [ReadsNext]_readsVars => CatalogOK'
  BY ReadsAssumption, PartsStep, CatalogNext
<1>3. CatalogOK => PlansAnswerIsTrue
  BY DEF PlansAnswerIsTrue, CatalogOK
<1> QED BY <1>1, <1>2, <1>3, PTL DEF ReadsSpec
=============================================================================
