--------------------------- MODULE PurchaseExecution ---------------------------
(***************************************************************************)
(* confirm_purchase (tools/purchase_execution.py) with the execution       *)
(* records of purchase/execution.py, the quotes it consumes, the sessions  *)
(* it pays with, and the platform it pays at.                              *)
(*                                                                         *)
(* A confirmation fixes its owner, takes the quote's lock, decides, counts *)
(* an attempt, makes the session fresh and sends ONE request; it suspends  *)
(* only on a contended lock, on the token rotation and on the request.     *)
(* Everything between two suspensions is one action.  Signing in, logging  *)
(* out, cancelling and preparing run at any suspension.                    *)
(***************************************************************************)
EXTENDS AsyncLock, QuoteStore, PurchaseOutcomes

CONSTANTS Tasks,         \* concurrent confirm_purchase calls
          MaxAttempts,   \* MAX_EXECUTION_ATTEMPTS
          MaxKeys,       \* bound: idempotency keys minted for one quote
          Answers        \* the answers the platform may give

ASSUME PurchaseExecutionAssumption ==
  /\ None \notin Clients \cup Users \cup Plans
  /\ Nobody \notin Tasks
  /\ MaxActive \in Nat \ {0} /\ MaxAttempts \in Nat \ {0} /\ MaxKeys \in Nat \ {0}
  /\ Answers \subseteq AllAnswers

VARIABLES
  session,       \* client -> signed-in user and whether the token needs rotation
  sessionLock,   \* client -> the session manager's lock
  quote,         \* quote id -> stored quote
  execution,     \* quote id -> stored PurchaseExecution
  quoteLock,     \* quote id -> the execution store's lock
  task,          \* confirm_purchase calls in progress
  minted,        \* quote id -> number of idempotency keys generated for it
  ledger,        \* the platform: quote id -> key -> what became of that purchase
  pending,       \* the platform: purchases it may still execute though nobody waits for them
  posts,         \* history: what was sent for each quote
  reply          \* what a gate or a replay just told its caller

vars == <<session, sessionLock, quote, execution, quoteLock, task, minted,
          ledger, pending, posts, reply>>

Keys == 1..MaxKeys   \* keys are random and never repeat: numbered per quote

-----------------------------------------------------------------------------
(* State.                                                                  *)

Session == [user : Users \cup {None}, aging : BOOLEAN]
NoSession == [user |-> None, aging |-> FALSE]

Execution == [owner : Owner, key : Keys, attempts : 0..MaxAttempts,
              status : {"pending", "succeeded", "failed", "unresolved", "escalated"}, code : Codes]
NoExecution == [owner |-> NoOwner, key |-> 0, attempts |-> 0, status |-> "none", code |-> "none"]

NewExecution(owner, key) ==
  [owner |-> owner, key |-> key, attempts |-> 0, status |-> "pending", code |-> "none"]

\* ExecutionStatus.is_terminal
IsTerminal_NotEscalated(status) == status \in {"succeeded", "failed"}
IsTerminal(status) == status \in {"succeeded", "failed", "escalated"}

\* exec: the record copy the call works with; payer: the account whose token
\* it presents (or rotates).
Task == [pc : {"idle", "waiting", "ensuring", "refreshing", "posting"},
         owner : Owner \cup {NoOwner}, quote : Quotes \cup {None},
         exec : Execution \cup {NoExecution}, payer : Users \cup {None}]
Doing(pc, owner, q, exec, payer) ==
  [pc |-> pc, owner |-> owner, quote |-> q, exec |-> exec, payer |-> payer]
Idle == Doing("idle", NoOwner, None, NoExecution, None)

Fates == {"none", "charged", "refused", "stuck"}

Says(by, q, code) == [by |-> by, quote |-> q, code |-> code]
Silent == Says("none", None, "none")

TypeOK ==
  /\ session \in [Clients -> Session]
  /\ sessionLock \in [Clients -> LockType(Tasks)]
  /\ quote \in [Quotes -> Quote \cup {NoQuote}]
  /\ execution \in [Quotes -> Execution \cup {NoExecution}]
  /\ quoteLock \in [Quotes -> LockType(Tasks)]
  /\ task \in [Tasks -> Task]
  /\ minted \in [Quotes -> 0..MaxKeys]
  /\ ledger \in [Quotes -> [Keys -> Fates]]
  /\ pending \in SUBSET (Quotes \X Keys)
  /\ posts \in [Quotes -> [keys : SUBSET Keys, payers : SUBSET (Users \cup {None}),
                           count : Nat, settled : BOOLEAN]]

Init ==
  /\ session = [k \in Clients |-> NoSession]
  /\ sessionLock = [k \in Clients |-> Free]
  /\ quote = [q \in Quotes |-> NoQuote]
  /\ execution = [q \in Quotes |-> NoExecution]
  /\ quoteLock = [q \in Quotes |-> Free]
  /\ task = [t \in Tasks |-> Idle]
  /\ minted = [q \in Quotes |-> 0]
  /\ ledger = [q \in Quotes |-> [key \in Keys |-> "none"]]
  /\ pending = {}
  /\ posts = [q \in Quotes |-> [keys |-> {}, payers |-> {}, count |-> 0, settled |-> FALSE]]
  /\ reply = Silent

InFlight == {"ensuring", "refreshing", "posting"}

Become(t, doing) == task' = [task EXCEPT ![t] = doing]
Finish(t) == Become(t, Idle)

-----------------------------------------------------------------------------
(* Sessions and quotes, as far as a confirmation meets them.               *)

\* create_session: saved over whatever the client had.
SignIn(k, u) ==
  /\ session' = [session EXCEPT ![k] = [user |-> u, aging |-> FALSE]]
  /\ reply' = Silent
  /\ UNCHANGED <<sessionLock, quote, execution, quoteLock, task, minted, ledger, pending, posts>>

TokenAges(k) ==
  /\ session[k].user # None
  /\ session' = [session EXCEPT ![k].aging = TRUE]
  /\ reply' = Silent
  /\ UNCHANGED <<sessionLock, quote, execution, quoteLock, task, minted, ledger, pending, posts>>

\* The invalidation listeners of quotes and of execution records.
Records(k) == {q \in Quotes : execution[q].owner.client = k}
Invalidate(k) ==
  /\ \A q \in Records(k) : execution[q].key < MaxKeys   \* the bound: one more key is left
  /\ session' = [session EXCEPT ![k] = NoSession]
  /\ quote' = Invalidated(quote, k)
  /\ execution' = [q \in Quotes |-> IF q \in Records(k) THEN NoExecution ELSE execution[q]]

\* Logout, or another call's failed rotation or second 401.
SessionEnds(k) ==
  /\ Invalidate(k)
  /\ reply' = Silent
  /\ UNCHANGED <<sessionLock, quoteLock, task, minted, ledger, pending, posts>>

\* prepare_purchase, in one piece: PurchaseQuotes has its steps.
Prepare(k, q, plan, funded) ==
  /\ session[k].user # None
  /\ quote[q] = NoQuote
  /\ quote' = Created(quote, q, OwnerOf(k, session[k].user), plan, funded)
  /\ reply' = Silent
  /\ UNCHANGED <<session, sessionLock, execution, quoteLock, task, minted, ledger, pending, posts>>

\* expires_at passes; it makes no difference to a quote that is not active.
Lapses(q) ==
  /\ IsUsable(quote[q])
  /\ quote' = [quote EXCEPT ![q].lapsed = TRUE]
  /\ reply' = Silent
  /\ UNCHANGED <<session, sessionLock, execution, quoteLock, task, minted, ledger, pending, posts>>

\* cancel_prepared_purchase, whatever the quote's status and its purchase's.
CancelPrepared(k, q) ==
  /\ session[k].user # None
  /\ Owned(quote, OwnerOf(k, session[k].user), q)
  /\ quote' = Cancelled(quote, OwnerOf(k, session[k].user), q)
  /\ reply' = Silent
  /\ UNCHANGED <<session, sessionLock, execution, quoteLock, task, minted, ledger, pending, posts>>

-----------------------------------------------------------------------------
(* The decision inside the quote's lock.                                   *)

\* acquire(): the owner's record, or a new one with a new key.
Acquired_AlwaysFresh(owner, q) == NewExecution(owner, minted[q] + 1)
Acquired(owner, q) ==
  IF execution[q].owner = owner THEN execution[q] ELSE NewExecution(owner, minted[q] + 1)

\* require_attempts_remaining
AttemptsSpent_OffByOne(exec) == exec.attempts > MaxAttempts
AttemptsSpent(exec) == exec.attempts >= MaxAttempts

\* require_usable_quote, require_confirmable_quote and require_attempts_remaining,
\* in that order: the error each one raises.
Gate(r, exec) ==
  CASE r.status = "cancelled"            -> "quote_cancelled"
    [] r.status = "consumed"             -> "quote_consumed"
    [] r.status = "active" /\ r.lapsed   -> "quote_expired"
    [] IsUsable(r) /\ ~r.funded          -> "insufficient_wallet_balance"
    [] IsUsable(r) /\ r.funded /\ AttemptsSpent(exec) -> "purchase_attempt_limit_reached"
    [] OTHER                             -> "open"

\* A confirmation ends: it leaves its quote's lock (l) and answers.
Ends(t, q, l, says) ==
  /\ quoteLock' = [quoteLock EXCEPT ![q] = Leave(l)]
  /\ Finish(t)
  /\ reply' = says

\* The one request of this call goes out with u's token.
Post(t, owner, q, exec, u) ==
  /\ Become(t, Doing("posting", owner, q, exec, u))
  /\ posts' = [posts EXCEPT ![q] = [keys |-> @.keys \cup {exec.key}, payers |-> @.payers \cup {u},
                                    count |-> @.count + 1, settled |-> @.settled]]
  /\ reply' = Silent

\* refresh() inside the session lock (l), up to its await.
RefreshBody(t, owner, q, exec, l) ==
  LET k == owner.client IN
  \/ /\ session[k].user = None
     /\ sessionLock' = [sessionLock EXCEPT ![k] = Leave(l)]
     /\ Ends(t, q, quoteLock[q], Silent)
     /\ UNCHANGED posts
  \/ /\ session[k].user # None /\ ~session[k].aging
     /\ sessionLock' = [sessionLock EXCEPT ![k] = Leave(l)]
     /\ Post(t, owner, q, exec, session[k].user)
     /\ UNCHANGED quoteLock
  \/ /\ session[k].user # None /\ session[k].aging
     /\ sessionLock' = [sessionLock EXCEPT ![k] = l]
     /\ Become(t, Doing("refreshing", owner, q, exec, session[k].user))
     /\ reply' = Silent
     /\ UNCHANGED <<quoteLock, posts>>

\* ensure_fresh_session, then the request, while t is in the quote's lock (l).
EnsureFresh(t, owner, q, exec, l) ==
  LET k == owner.client IN
  \/ /\ session[k].user = None
     /\ Ends(t, q, l, Silent)
     /\ UNCHANGED <<sessionLock, posts>>
  \/ /\ session[k].user # None /\ ~session[k].aging
     /\ quoteLock' = [quoteLock EXCEPT ![q] = l]
     /\ Post(t, owner, q, exec, session[k].user)
     /\ UNCHANGED sessionLock
  \/ /\ session[k].user # None /\ session[k].aging
     /\ quoteLock' = [quoteLock EXCEPT ![q] = l]
     /\ sessionLock' = [sessionLock EXCEPT ![k] = Enter(@, t)]
     /\ Become(t, IF IsFree(sessionLock[k])
                  THEN Doing("refreshing", owner, q, exec, session[k].user)
                  ELSE Doing("ensuring", owner, q, exec, None))
     /\ reply' = Silent
     /\ UNCHANGED posts

\* The whole decision, with t the holder of the quote's lock (l).
Decide(t, owner, q, l) ==
  LET exec == Acquired(owner, q)
      counted == [exec EXCEPT !.attempts = @ + 1]
      Store(record) == /\ execution' = [execution EXCEPT ![q] = record]
                       /\ minted' = [minted EXCEPT ![q] = record.key]
  IN \/ /\ ~Owned(quote, owner, q)
        /\ Ends(t, q, l, Says("gate", q, "quote_not_found"))
        /\ UNCHANGED <<sessionLock, execution, minted, posts>>
     \/ /\ Owned(quote, owner, q) /\ IsTerminal(exec.status)
        /\ Ends(t, q, l, Says("replay", q, IF exec.status = "succeeded" THEN "none" ELSE ReplayError(exec.code)))
        /\ Store(exec)
        /\ UNCHANGED <<sessionLock, posts>>
     \/ /\ Owned(quote, owner, q) /\ ~IsTerminal(exec.status) /\ Gate(quote[q], exec) # "open"
        /\ Ends(t, q, l, Says("gate", q, Gate(quote[q], exec)))
        /\ Store(exec)
        /\ UNCHANGED <<sessionLock, posts>>
     \/ /\ Owned(quote, owner, q) /\ ~IsTerminal(exec.status) /\ Gate(quote[q], exec) = "open"
        /\ Store(counted)
        /\ EnsureFresh(t, owner, q, counted, l)

-----------------------------------------------------------------------------
(* The steps of a confirmation.                                            *)

\* The caller must be signed in; its identity is fixed here.
Confirm(t, k, q) ==
  LET owner == OwnerOf(k, session[k].user) IN
  /\ task[t] = Idle
  /\ session[k].user # None
  /\ \/ /\ IsFree(quoteLock[q])
        /\ Decide(t, owner, q, Enter(quoteLock[q], t))
     \/ /\ ~IsFree(quoteLock[q])
        /\ quoteLock' = [quoteLock EXCEPT ![q] = Enter(@, t)]
        /\ Become(t, Doing("waiting", owner, q, NoExecution, None))
        /\ reply' = Silent
        /\ UNCHANGED <<sessionLock, execution, minted, posts>>
  /\ UNCHANGED <<session, quote, ledger, pending>>

QuoteLockGranted(t) ==
  LET me == task[t] IN
  /\ me.pc = "waiting"
  /\ quoteLock[me.quote].holder = t
  /\ Decide(t, me.owner, me.quote, quoteLock[me.quote])
  /\ UNCHANGED <<session, quote, ledger, pending>>

SessionLockGranted(t) ==
  LET me == task[t] IN
  /\ me.pc = "ensuring"
  /\ sessionLock[me.owner.client].holder = t
  /\ RefreshBody(t, me.owner, me.quote, me.exec, sessionLock[me.owner.client])
  /\ UNCHANGED <<session, quote, execution, minted, ledger, pending>>

\* The session read before the rotation is saved whatever the store holds by
\* now, and the purchase goes out with it.
RefreshSucceeds(t) ==
  LET me == task[t] IN
  /\ me.pc = "refreshing"
  /\ session' = [session EXCEPT ![me.owner.client] = [user |-> me.payer, aging |-> FALSE]]
  /\ sessionLock' = [sessionLock EXCEPT ![me.owner.client] = Leave(@)]
  /\ Post(t, me.owner, me.quote, me.exec, me.payer)
  /\ UNCHANGED <<quote, execution, quoteLock, minted, ledger, pending>>

RefreshFails(t) ==
  LET me == task[t] IN
  /\ me.pc = "refreshing"
  /\ Invalidate(me.owner.client)
  /\ sessionLock' = [sessionLock EXCEPT ![me.owner.client] = Leave(@)]
  /\ Ends(t, me.quote, quoteLock[me.quote], Silent)
  /\ UNCHANGED <<minted, ledger, pending, posts>>

-----------------------------------------------------------------------------
(* The platform: one purchase per key, executed at most once.              *)

\* Answers that refuse a request without looking at the purchase itself.
IsTransient(a) == ~a.success /\ a.status \in {401, 403, 404, 429, 503}
\* Answers after which the purchase may still be running.
IsVague(a) == \/ a = NoAnswer \/ a = Incomplete
              \/ a.status >= 500 /\ a.status # 503
              \/ a.status = 409 /\ a.label = "in_progress"
              \/ a.status \in 200..299 /\ ~a.parsed

\* What the platform may answer about a purchase that came to this fate; early:
\* an earlier request for it went unanswered, and may be the one that ran.
Consistent(a, fate, early) ==
  \/ IsTransient(a) /\ (fate = "none" \/ early)
  \/ IsVague(a) /\ (fate # "refused" \/ a.status = 0 \/ a.status >= 500)
  \/ a = Completed /\ fate = "charged"
  \/ a.status = 424 /\ fate = "stuck"
  \/ ~IsTransient(a) /\ ~IsVague(a) /\ a # Completed /\ a.status # 424 /\ fate = "refused"

\* The platform executes a purchase it has received.
PlatformDecides(q, key, fate) ==
  /\ ledger[q][key] = "none"
  /\ \/ <<q, key>> \in pending
     \/ \E t \in Tasks : task[t].pc = "posting" /\ task[t].quote = q /\ task[t].exec.key = key
  /\ fate # "none"
  /\ ledger' = [ledger EXCEPT ![q][key] = fate]
  /\ reply' = Silent
  /\ UNCHANGED <<session, sessionLock, quote, execution, quoteLock, task, minted, pending, posts>>

\* The answer, or the lack of one, is classified and remembered by saving the
\* call's own copy of the record; a completed purchase also consumes the quote.
PostReturns(t, a) ==
  LET me == task[t]
      q == me.quote
      verdict == Classify(a)
  IN
  /\ me.pc = "posting"
  /\ Consistent(a, ledger[q][me.exec.key], <<q, me.exec.key>> \in pending)
  /\ execution' = IF verdict.disposition = "retryable" THEN execution
                  ELSE [execution EXCEPT ![q] = [me.exec EXCEPT !.status = verdict.disposition,
                                                                !.code = verdict.code]]
  /\ quote' = IF verdict.disposition = "succeeded" THEN Consumed(quote, me.owner, q) ELSE quote
  /\ posts' = [posts EXCEPT ![q].settled = @ \/ verdict.disposition \in {"succeeded", "failed", "escalated"}]
  /\ pending' = IF IsVague(a) THEN pending \cup {<<q, me.exec.key>>} ELSE pending
  /\ Ends(t, q, quoteLock[q], Silent)
  /\ UNCHANGED <<session, sessionLock, minted, ledger>>

\* The client cancels the call at its await: both locks are given up, nothing
\* is recorded, and the platform may still execute what was sent.
Cancel(t) ==
  LET me == task[t] IN
  /\ me.pc # "idle"
  /\ quoteLock' = [quoteLock EXCEPT ![me.quote] = Withdraw(@, t)]
  /\ sessionLock' = IF me.pc \in {"ensuring", "refreshing"}
                    THEN [sessionLock EXCEPT ![me.owner.client] = Withdraw(@, t)] ELSE sessionLock
  /\ pending' = IF me.pc = "posting" THEN pending \cup {<<me.quote, me.exec.key>>} ELSE pending
  /\ Finish(t)
  /\ reply' = Silent
  /\ UNCHANGED <<session, quote, execution, minted, ledger, posts>>

-----------------------------------------------------------------------------
Step(t) ==
  \/ QuoteLockGranted(t) \/ SessionLockGranted(t)
  \/ RefreshSucceeds(t) \/ RefreshFails(t)
  \/ \E a \in Answers : PostReturns(t, a)

Next ==
  \/ \E t \in Tasks : Step(t) \/ Cancel(t)
  \/ \E t \in Tasks, k \in Clients, q \in Quotes : Confirm(t, k, q)
  \/ \E k \in Clients, u \in Users : SignIn(k, u)
  \/ \E k \in Clients : TokenAges(k) \/ SessionEnds(k)
  \/ \E k \in Clients, q \in Quotes, plan \in Plans, funded \in BOOLEAN : Prepare(k, q, plan, funded)
  \/ \E q \in Quotes : Lapses(q)
  \/ \E k \in Clients, q \in Quotes : CancelPrepared(k, q)
  \/ \E q \in Quotes, key \in Keys, fate \in Fates : PlatformDecides(q, key, fate)

Spec == Init /\ [][Next]_vars

\* The HTTP client bounds every request with a timeout and the event loop runs
\* every task that is ready.
FairSpec == Spec /\ \A t \in Tasks : WF_vars(Step(t))

-----------------------------------------------------------------------------
(* Properties.                                                             *)

\* However often a quote is confirmed, and whatever sessions end meanwhile,
\* every request for it carries the same idempotency key.
OneKeyPerQuote == \A q \in Quotes : \A key1, key2 \in posts[q].keys : key1 = key2

\* The wallet is never debited twice for one quote.
NeverChargedTwice ==
  \A q \in Quotes : \A key1, key2 \in Keys :
    ledger[q][key1] = "charged" /\ ledger[q][key2] = "charged" => key1 = key2

\* A quote is sent at most MAX_EXECUTION_ATTEMPTS times, a cancelled or
\* timed-out attempt included: the attempt is stored before it is made.
AttemptsBounded == \A q \in Quotes : posts[q].count <= MaxAttempts

\* Two confirmations of one quote never both reach the platform at a time.
OneInFlightPerQuote ==
  \A t, u \in Tasks :
    task[t].pc = "posting" /\ task[u].pc = "posting" /\ task[t].quote = task[u].quote => t = u

\* Seen from its requests alone, confirm_purchase keeps the promise of
\* PurchasePromise: no interleaving of confirmations, cancellations, sign-ins
\* and logouts adds a key, a request or an answer to what it allows.
Promise == INSTANCE PurchasePromise WITH
  keys <- [q \in Quotes |-> posts[q].keys],
  count <- [q \in Quotes |-> posts[q].count],
  open <- {q \in Quotes : \E t \in Tasks : task[t].pc = "posting" /\ task[t].quote = q},
  closed <- {q \in Quotes : posts[q].settled}
KeepsPromise == Promise!Spec

\* Once the platform gave a final answer about a quote (bought, refused,
\* needs support), nothing is ever sent for it again -- not even after the
\* record of that answer went with its session.
SettledNeverResent == [][\A q \in Quotes : posts[q].settled => posts'[q].count = posts[q].count]_vars

\* A purchase recorded as failed was not charged, now or later, whatever earlier
\* request of the same quote the platform may still have been working on.
FailedMeansNotCharged ==
  \A q \in Quotes : execution[q].status = "failed" => ledger[q][execution[q].key] \notin {"charged", "stuck"}

\* A consumed quote was paid for, and a purchase recorded as succeeded has
\* consumed its quote: the two stores never disagree.
ConsumedMeansBought ==
  \A q \in Quotes :
    /\ quote[q].status = "consumed" => \E key \in posts[q].keys : ledger[q][key] = "charged"
    /\ execution[q].status = "succeeded" => quote[q].status = "consumed"

Charged(q) == \E key \in Keys : ledger[q][key] = "charged"

\* What a repeated confirmation is told out of the record is true at the
\* platform: "bought" only of a quote the wallet was debited for, and a refusal
\* only when every request ever sent for the quote was refused for good, those
\* that were cancelled, timed out or outlived their record included.
ReplayTellsTheTruth ==
  reply.by = "replay" =>
    /\ reply.code = "none" => Charged(reply.quote)
    /\ reply.code \in DeniesPurchase =>
         \A key \in posts[reply.quote].keys : ledger[reply.quote][key] = "refused"

\* Every confirmation is answered, though nobody else lets go of a lock early.
EveryConfirmationReturns == \A t \in Tasks : task[t] # Idle ~> task[t] = Idle

-----------------------------------------------------------------------------
(* What the documentation says and the code does not keep.                 *)

\* "a quote prepared by one client-and-user pair can only ever be confirmed by
\* that same pair" (tools/purchase_execution.py:146-147): the token sent with a
\* purchase is the token of the quote's owner.
PaidByItsOwner == \A q \in Quotes : posts[q].payers \subseteq {quote[q].owner.user}

\* "these gates can never reject a purchase that already happened"
\* (tools/purchase_execution.py:170-171): a gate that says nothing was charged
\* does not say it of a quote the wallet was debited for.
GateNeverRejectsAPurchase ==
  reply.by = "gate" /\ reply.code \in DeniesCharge => ~Charged(reply.quote)
=============================================================================
