------------------------------- MODULE Sessions -------------------------------
(***************************************************************************)
(* SessionManager (session/manager.py) over InMemorySessionStore: the one  *)
(* session each MCP client may hold, its pending login challenge, token    *)
(* rotation under the per-session lock, authenticated calls with their     *)
(* single refresh-and-replay, OTP sign-in and logout.                      *)
(*                                                                         *)
(* The server is one asyncio process.  No store suspends while it holds    *)
(* its guard, so a task runs from one backend await (or one wait for a     *)
(* contended lock) to the next without interference: each action below is  *)
(* such a stretch.  Tokens are numbered as the platform issues them; the   *)
(* platform may refuse any token at any time.                              *)
(***************************************************************************)
EXTENDS AsyncLock, Naturals

CONSTANTS Clients,      \* MCP clients: the session keys
          Users,        \* eSIM accounts
          Tasks,        \* concurrent tool calls
          None,         \* absent user or client
          MaxTokens     \* bound: token pairs the platform issues in a behaviour

ASSUME SessionsAssumption ==
  /\ None \notin Users \cup Clients
  /\ Nobody \notin Tasks
  /\ MaxTokens \in Nat \ {0}

VARIABLES
  session,     \* client -> stored UserSession
  challenge,   \* client -> user a login code was requested for, or None
  lock,        \* client -> the per-session refresh lock
  task,        \* tool calls in progress
  issued,      \* number of token pairs issued so far
  refused,     \* history: tokens a call was refused with (401)
  presented,   \* history: tokens whose refresh token was sent to the platform
  repeated,    \* history: tokens whose refresh token was sent more than once
  abandoned,   \* history: tokens whose refresh request was cancelled by the client
  signedOut    \* history: clients whose last completed sign-in or sign-out was a sign-out

rotations == <<presented, repeated, abandoned>>
vars == <<session, challenge, lock, task, issued, refused, rotations, signedOut>>

Tokens == 1..MaxTokens

\* A session as far as it matters here: whose it is, which token pair it holds
\* and whether that token is inside the refresh window (needs_refresh).
Session == [user : Users, token : Tokens, aging : BOOLEAN]
NoSession == [user |-> None, token |-> 0, aging |-> FALSE]

\* A new token pair; a rotation keeps the account of the session it rotates.
Fresh(u, token) == [user |-> u, token |-> token, aging |-> FALSE]

Phases == {"idle", "refreshWait", "refreshing", "calling", "replaying",
           "loggingOut", "requesting", "verifying"}

\* held: the session copy the task works with (its token is refresh's
\* stale_token), or just the account a sign-in is for; forced: refresh's force;
\* replay: run_authenticated's allow_refresh_replay.
Task == [pc : Phases, client : Clients \cup {None},
         held : [user : Users \cup {None}, token : 0..MaxTokens, aging : BOOLEAN],
         forced : BOOLEAN, replay : BOOLEAN]

Doing(pc, k, held, forced, replay) ==
  [pc |-> pc, client |-> k, held |-> held, forced |-> forced, replay |-> replay]
Idle == Doing("idle", None, NoSession, FALSE, FALSE)

TypeOK ==
  /\ session \in [Clients -> Session \cup {NoSession}]
  /\ challenge \in [Clients -> Users \cup {None}]
  /\ lock \in [Clients -> LockType(Tasks)]
  /\ task \in [Tasks -> Task]
  /\ issued \in 0..MaxTokens
  /\ refused \subseteq Tokens /\ presented \subseteq Tokens
  /\ repeated \subseteq Tokens /\ abandoned \subseteq Tokens
  /\ signedOut \subseteq Clients

Init ==
  /\ session = [k \in Clients |-> NoSession]
  /\ challenge = [k \in Clients |-> None]
  /\ lock = [k \in Clients |-> Free]
  /\ task = [t \in Tasks |-> Idle]
  /\ issued = 0
  /\ refused = {} /\ presented = {} /\ repeated = {} /\ abandoned = {} /\ signedOut = {}

Become(t, doing) == task' = [task EXCEPT ![t] = doing]
Finish(t) == Become(t, Idle)

\* The platform issues a token pair, saved as the client's session.
IssueTo(k, u) ==
  /\ issued < MaxTokens
  /\ issued' = issued + 1
  /\ session' = [session EXCEPT ![k] = Fresh(u, issued + 1)]

-----------------------------------------------------------------------------
(* Refresh.                                                                *)

\* Inside the lock the session is looked up again ...
ReRead_StaleCopy(k, held) == held
ReRead(k, held) == session[k]

\* ... and left alone when another caller already rotated the token this one
\* was refused with, or when a window refresh finds it fresh.
AlreadyRotated_Unchecked(forced, held, s) == FALSE
AlreadyRotated(forced, held, s) ==
  IF forced THEN s.token # held.token ELSE ~s.aging

\* A forced refresh only ever precedes the replay.
Operation(forced) == IF forced THEN "replaying" ELSE "calling"

\* The refresh token of s goes to the platform.
Present(s) ==
  /\ presented' = presented \cup {s.token}
  /\ repeated' = repeated \cup ({s.token} \cap presented)
  /\ UNCHANGED abandoned

\* The body of refresh() up to its await, inside the lock (l, with t the holder).
RefreshBody(t, k, l, held, forced, replay) ==
  LET s == ReRead(k, held) IN
  \/ /\ s = NoSession                            \* AuthenticationRequiredError
     /\ lock' = [lock EXCEPT ![k] = Leave(l)]
     /\ Finish(t)
     /\ UNCHANGED rotations
  \/ /\ s # NoSession
     /\ AlreadyRotated(forced, held, s)
     /\ lock' = [lock EXCEPT ![k] = Leave(l)]
     /\ Become(t, Doing(Operation(forced), k, s, forced, replay))
     /\ UNCHANGED rotations
  \/ /\ s # NoSession
     /\ ~AlreadyRotated(forced, held, s)
     /\ lock' = [lock EXCEPT ![k] = l]
     /\ Become(t, Doing("refreshing", k, s, forced, replay))
     /\ Present(s)

\* Calling refresh(): straight in when the lock is free, else parked on it.
Refresh(t, k, held, forced, replay) ==
  \/ /\ IsFree(lock[k])
     /\ RefreshBody(t, k, Enter(lock[k], t), held, forced, replay)
  \/ /\ ~IsFree(lock[k])
     /\ lock' = [lock EXCEPT ![k] = Enter(@, t)]
     /\ Become(t, Doing("refreshWait", k, held, forced, replay))
     /\ UNCHANGED rotations

LockGranted(t) ==
  LET me == task[t] IN
  /\ me.pc = "refreshWait"
  /\ lock[me.client].holder = t
  /\ RefreshBody(t, me.client, lock[me.client], me.held, me.forced, me.replay)
  /\ UNCHANGED <<session, challenge, issued, refused, signedOut>>

\* The copy read before the await is saved with the new pair, whatever the
\* store holds by now; the operation runs with it.
RefreshSucceeds(t) ==
  LET me == task[t] IN
  /\ me.pc = "refreshing"
  /\ IssueTo(me.client, me.held.user)
  /\ lock' = [lock EXCEPT ![me.client] = Leave(@)]
  /\ Become(t, Doing(Operation(me.forced), me.client, Fresh(me.held.user, issued + 1), me.forced, me.replay))
  /\ UNCHANGED <<challenge, refused, rotations, signedOut>>

\* A refused or failed rotation deletes the session (but not the challenge).
RefreshFails(t) ==
  LET me == task[t] IN
  /\ me.pc = "refreshing"
  /\ session' = [session EXCEPT ![me.client] = NoSession]
  /\ lock' = [lock EXCEPT ![me.client] = Leave(@)]
  /\ Finish(t)
  /\ UNCHANGED <<challenge, issued, refused, rotations, signedOut>>

-----------------------------------------------------------------------------
(* Authenticated calls: run_authenticated.                                 *)

\* ensure_fresh_session, then the operation.
StartCall(t, k, replay) ==
  /\ task[t] = Idle
  /\ session[k] # NoSession
  /\ \/ /\ session[k].aging
        /\ Refresh(t, k, session[k], FALSE, replay)
     \/ /\ ~session[k].aging
        /\ Become(t, Doing("calling", k, session[k], FALSE, replay))
        /\ UNCHANGED <<lock, rotations>>
  /\ UNCHANGED <<session, challenge, issued, refused, signedOut>>

\* Any outcome but 401 ends the call.
CallReturns(t) ==
  /\ task[t].pc \in {"calling", "replaying"}
  /\ Finish(t)
  /\ UNCHANGED <<session, challenge, lock, issued, refused, rotations, signedOut>>

\* invalidate(): session and challenge go (the listeners' state is elsewhere).
Invalidate(k) ==
  /\ session' = [session EXCEPT ![k] = NoSession]
  /\ challenge' = [challenge EXCEPT ![k] = None]

\* First 401: refresh by force and replay once, or give the session up.
CallRefused(t) ==
  LET me == task[t] IN
  /\ me.pc = "calling"
  /\ refused' = refused \cup {me.held.token}
  /\ \/ /\ me.replay
        /\ Refresh(t, me.client, me.held, TRUE, TRUE)
        /\ UNCHANGED <<session, challenge>>
     \/ /\ ~me.replay
        /\ Invalidate(me.client)
        /\ Finish(t)
        /\ UNCHANGED <<lock, rotations>>
  /\ UNCHANGED <<issued, signedOut>>

\* Second 401: the session is given up, never refreshed a second time.
ReplayRefused(t) ==
  LET me == task[t] IN
  /\ me.pc = "replaying"
  /\ refused' = refused \cup {me.held.token}
  /\ Invalidate(me.client)
  /\ Finish(t)
  /\ UNCHANGED <<lock, issued, rotations, signedOut>>

-----------------------------------------------------------------------------
(* Sign-in and logout.                                                     *)

\* request_login_otp sends a code; resend_login_otp only for the account of
\* the pending challenge.  Both store a challenge once the platform accepted.
StartRequest(t, k, u) ==
  /\ task[t] = Idle
  /\ Become(t, Doing("requesting", k, [NoSession EXCEPT !.user = u], FALSE, FALSE))
  /\ UNCHANGED <<session, challenge, lock, issued, refused, rotations, signedOut>>

CodeSent(t) ==
  LET me == task[t] IN
  /\ me.pc = "requesting"
  /\ challenge' = [challenge EXCEPT ![me.client] = me.held.user]
  /\ Finish(t)
  /\ UNCHANGED <<session, lock, issued, refused, rotations, signedOut>>

\* get_challenge drops a challenge past its TTL when it is next read.
ChallengeExpires(k) ==
  /\ challenge[k] # None
  /\ challenge' = [challenge EXCEPT ![k] = None]
  /\ UNCHANGED <<session, lock, task, issued, refused, rotations, signedOut>>

\* verify_login_otp: a pending challenge must be for the account named; none is
\* required (the code itself is checked by the platform).
StartVerify(t, k, u) ==
  /\ task[t] = Idle
  /\ challenge[k] \in {u, None}
  /\ Become(t, Doing("verifying", k, [NoSession EXCEPT !.user = u], FALSE, FALSE))
  /\ UNCHANGED <<session, challenge, lock, issued, refused, rotations, signedOut>>

\* create_session: saved over whatever session the client had, without the lock
\* and without invalidating it.
VerifySucceeds(t) ==
  LET me == task[t] IN
  /\ me.pc = "verifying"
  /\ IssueTo(me.client, me.held.user)
  /\ challenge' = [challenge EXCEPT ![me.client] = None]
  /\ signedOut' = signedOut \ {me.client}
  /\ Finish(t)
  /\ UNCHANGED <<lock, refused, rotations>>

SignInFails(t) ==
  /\ task[t].pc \in {"requesting", "verifying"}
  /\ Finish(t)
  /\ UNCHANGED <<session, challenge, lock, issued, refused, rotations, signedOut>>

StartLogout(t, k) ==
  /\ task[t] = Idle
  /\ session[k] # NoSession
  /\ Become(t, Doing("loggingOut", k, session[k], FALSE, FALSE))
  /\ UNCHANGED <<session, challenge, lock, issued, refused, rotations, signedOut>>

\* `finally`: the local session goes whatever the platform answered, and also
\* when the call is cancelled.
LogoutReturns(t) ==
  LET me == task[t] IN
  /\ me.pc = "loggingOut"
  /\ Invalidate(me.client)
  /\ signedOut' = signedOut \cup {me.client}
  /\ Finish(t)
  /\ UNCHANGED <<lock, issued, refused, rotations>>

-----------------------------------------------------------------------------
(* Time and cancellation.                                                  *)

\* The access token enters the refresh window.
TokenAges(k) ==
  /\ session[k] # NoSession
  /\ ~session[k].aging
  /\ session' = [session EXCEPT ![k].aging = TRUE]
  /\ UNCHANGED <<challenge, lock, task, issued, refused, rotations, signedOut>>

\* The client cancels the call: CancelledError unwinds it at its await.  It is
\* not an EsimMcpError, so refresh() leaves the session in place.
Cancel(t) ==
  LET me == task[t] IN
  /\ me.pc \notin {"idle", "loggingOut"}
  /\ lock' = IF me.pc \in {"refreshWait", "refreshing"}
             THEN [lock EXCEPT ![me.client] = Withdraw(@, t)] ELSE lock
  /\ abandoned' = IF me.pc = "refreshing" THEN abandoned \cup {me.held.token} ELSE abandoned
  /\ Finish(t)
  /\ UNCHANGED <<session, challenge, issued, refused, presented, repeated, signedOut>>

-----------------------------------------------------------------------------
Step(t) ==
  \/ LockGranted(t) \/ RefreshSucceeds(t) \/ RefreshFails(t)
  \/ CallReturns(t) \/ CallRefused(t) \/ ReplayRefused(t)
  \/ CodeSent(t) \/ VerifySucceeds(t) \/ SignInFails(t) \/ LogoutReturns(t)

Start(t, k) ==
  \/ \E replay \in BOOLEAN : StartCall(t, k, replay)
  \/ \E u \in Users : StartRequest(t, k, u) \/ StartVerify(t, k, u)
  \/ StartLogout(t, k)

Next ==
  \/ \E t \in Tasks : Step(t) \/ Cancel(t)
  \/ \E t \in Tasks, k \in Clients : Start(t, k)
  \/ \E k \in Clients : ChallengeExpires(k) \/ TokenAges(k)

Spec == Init /\ [][Next]_vars

\* Every backend request is answered, refused or timed out by the HTTP client,
\* and the event loop runs every task that is ready.
FairSpec == Spec /\ \A t \in Tasks : WF_vars(Step(t))

-----------------------------------------------------------------------------
(* Properties.                                                             *)

\* Concurrent callers produce a single rotation request per client: the lock
\* spans the backend await in refresh().
OneRotationAtATime ==
  \A t, u \in Tasks :
    task[t].pc = "refreshing" /\ task[u].pc = "refreshing" /\ task[t].client = task[u].client => t = u

\* A refresh token is sent to the platform once, except after the client
\* cancelled the call that was sending it: waiters re-read the session inside
\* the lock, and a rotated or failed pair never comes back.
RefreshTokenSentOnce == repeated \subseteq abandoned

\* Only a token that entered its window, or that the platform refused, is
\* rotated: a caller that lost the race to refresh finds the new pair.
RotatedOnlyWhenNeeded ==
  \A t \in Tasks : task[t].pc = "refreshing" => task[t].held.aging \/ task[t].held.token \in refused

\* Every tool call ends: no caller waits for ever behind a rotation.
EveryCallReturns == \A t \in Tasks : task[t] # Idle ~> task[t] = Idle

\* "Best-effort backend logout, then unconditional local removal"
\* (manager.py:253): once a logout returned, the client holds no session until
\* somebody signs in again.
SignedOutStaysOut == \A k \in signedOut : session[k] = NoSession
=============================================================================
