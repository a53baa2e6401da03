----------------------------- MODULE CardCheckout -----------------------------
(***************************************************************************)
(* create_card_checkout and check_card_payment_status                      *)
(* (tools/card_checkout.py) over the checkout records of purchase/card.py. *)
(* One record per quote, written under two locks: the quote's while a page *)
(* is opened and the payment's while its status is read.  The record each  *)
(* call works with is a copy, and saving it is the last thing a call does. *)
(*                                                                         *)
(* The platform opens at most one page per request, then or later, and may *)
(* answer a repeated request with a page it already opened; only the user  *)
(* who was shown a link can pay.  Token rotation is one await of           *)
(* ensure_fresh_session here: Sessions has its steps.                      *)
(***************************************************************************)
EXTENDS AsyncLock, QuoteStore, CardOutcomes

CONSTANTS Tasks,         \* concurrent calls of the two tools
          Pages,         \* payment pages, which are their payment references
          CardPlans,     \* plans to be paid by card
          MaxAttempts,   \* MAX_CHECKOUT_ATTEMPTS
          MaxChecks,     \* MAX_STATUS_CHECKS
          MaxKeys,       \* bound: idempotency keys minted for one quote
          Answers        \* the answers the platform may give to a checkout

ASSUME CardCheckoutAssumption ==
  /\ None \notin Clients \cup Users \cup Plans \cup Quotes \cup Pages
  /\ Nobody \notin Tasks
  /\ Quotes \cap Pages = {}
  /\ CardPlans \subseteq Plans
  /\ MaxActive \in Nat \ {0} /\ MaxAttempts \in Nat \ {0}
  /\ MaxChecks \in Nat \ {0} /\ MaxKeys \in Nat \ {0}
  /\ Answers \subseteq AllCardAnswers

VARIABLES
  session,    \* client -> signed-in user
  quote,      \* quote id -> stored quote
  checkout,   \* quote id -> stored CardCheckout
  lock,       \* the checkout store's locks: by quote, and by payment
  task,       \* calls in progress
  minted,     \* quote id -> number of idempotency keys generated for it
  page,       \* the platform: payment pages and what became of each
  posts,      \* history: checkout requests sent for each quote
  reads,      \* history: status reads sent for each payment
  shown       \* history: quote id -> pages whose link the user was given

vars == <<session, quote, checkout, lock, task, minted, page, posts, reads, shown>>

Keys == 1..MaxKeys

-----------------------------------------------------------------------------
(* State.                                                                  *)

\* settled: the terminal status in payment_result.
Checkout == [owner : Owner, key : Keys, attempts : 0..MaxAttempts, checks : 0..MaxChecks,
             status : {"pending", "open", "failed", "unresolved"}, code : CardCodes,
             page : Pages \cup {None}, settled : {"none", "completed", "failed"}]
NewCheckout(owner, key) ==
  [owner |-> owner, key |-> key, attempts |-> 0, checks |-> 0, status |-> "pending",
   code |-> "none", page |-> None, settled |-> "none"]
NoCheckout == [NewCheckout(NoOwner, 0) EXCEPT !.status = "none"]

\* CheckoutStatus.is_terminal
IsTerminal_OnlyFailed(status) == status = "failed"
IsTerminal(status) == status \in {"open", "failed"}

\* on: the lock the call works under -- a quote for create_card_checkout, a
\* payment for check_card_payment_status; user: whose session it set out with.
Task == [pc : {"idle", "waiting", "ensuring", "asking"}, owner : Owner \cup {NoOwner},
         on : Quotes \cup Pages \cup {None}, copy : Checkout \cup {NoCheckout},
         user : Users \cup {None}]
Doing(pc, owner, on, copy, u) == [pc |-> pc, owner |-> owner, on |-> on, copy |-> copy, user |-> u]
Idle == Doing("idle", NoOwner, None, NoCheckout, None)

NoPage == [quote |-> None, state |-> "none"]
PagesOf(q) == {p \in Pages : page[p].quote = q}

TypeOK ==
  /\ session \in [Clients -> Users \cup {None}]
  /\ quote \in [Quotes -> Quote \cup {NoQuote}]
  /\ checkout \in [Quotes -> Checkout \cup {NoCheckout}]
  /\ lock \in [Quotes \cup Pages -> LockType(Tasks)]
  /\ task \in [Tasks -> Task]
  /\ minted \in [Quotes -> 0..MaxKeys]
  /\ page \in [Pages -> [quote : Quotes, state : PaymentStates] \cup {NoPage}]
  /\ posts \in [Quotes -> [keys : SUBSET Keys, count : Nat, settled : BOOLEAN]]
  /\ reads \in [Pages -> Nat]
  /\ shown \in [Quotes -> SUBSET Pages]

Init ==
  /\ session = [k \in Clients |-> None]
  /\ quote = [q \in Quotes |-> NoQuote]
  /\ checkout = [q \in Quotes |-> NoCheckout]
  /\ lock = [x \in Quotes \cup Pages |-> Free]
  /\ task = [t \in Tasks |-> Idle]
  /\ minted = [q \in Quotes |-> 0]
  /\ page = [p \in Pages |-> NoPage]
  /\ posts = [q \in Quotes |-> [keys |-> {}, count |-> 0, settled |-> FALSE]]
  /\ reads = [p \in Pages |-> 0]
  /\ shown = [q \in Quotes |-> {}]

platform == <<page, shown>>
sent == <<posts, reads>>

Become(t, doing) == task' = [task EXCEPT ![t] = doing]

\* A call ends: it leaves its lock (l).
Ends(t, on, l) ==
  /\ lock' = [lock EXCEPT ![on] = Leave(l)]
  /\ Become(t, Idle)

-----------------------------------------------------------------------------
(* Sessions and quotes, as far as the card tools meet them.                *)

SignIn(k, u) ==
  /\ session' = [session EXCEPT ![k] = u]
  /\ UNCHANGED <<quote, checkout, lock, task, minted, platform, sent>>

\* The invalidation listeners of quotes and of checkout records.
Records(k) == {q \in Quotes : checkout[q].owner.client = k}
Invalidate(k) ==
  /\ \A q \in Records(k) : minted[q] < MaxKeys   \* the bound: one more key is left
  /\ session' = [session EXCEPT ![k] = None]
  /\ quote' = Invalidated(quote, k)
  /\ checkout' = [q \in Quotes |-> IF q \in Records(k) THEN NoCheckout ELSE checkout[q]]

SessionEnds(k) ==
  /\ session[k] # None
  /\ Invalidate(k)
  /\ UNCHANGED <<lock, task, minted, platform, sent>>

\* prepare_purchase, in one piece: PurchaseQuotes has its steps.
Prepare(k, q, plan) ==
  /\ session[k] # None
  /\ quote[q] = NoQuote
  /\ quote' = Created(quote, q, OwnerOf(k, session[k]), plan, FALSE)
  /\ UNCHANGED <<session, checkout, lock, task, minted, platform, sent>>

Lapses(q) ==
  /\ IsUsable(quote[q])
  /\ quote' = [quote EXCEPT ![q].lapsed = TRUE]
  /\ UNCHANGED <<session, checkout, lock, task, minted, platform, sent>>

\* cancel_prepared_purchase, which answers alike for every status.
CancelPrepared(k, q) ==
  LET owner == OwnerOf(k, session[k]) IN
  /\ session[k] # None
  /\ Owned(quote, owner, q)
  /\ quote' = Cancelled(quote, owner, q)
  /\ UNCHANGED <<session, checkout, lock, task, minted, platform, sent>>

-----------------------------------------------------------------------------
(* The decisions inside a lock.                                            *)

\* The request goes out: a checkout, or a status read.
Ask(t, owner, on, copy, u) ==
  /\ Become(t, Doing("asking", owner, on, copy, u))
  /\ IF on \in Quotes
     THEN /\ posts' = [posts EXCEPT ![on] = [keys |-> @.keys \cup {copy.key}, count |-> @.count + 1,
                                             settled |-> @.settled]]
          /\ UNCHANGED reads
     ELSE /\ reads' = [reads EXCEPT ![on] = @ + 1]
          /\ UNCHANGED posts

\* ensure_fresh_session in lock l: no session, a fresh one, or an await.
EnsureFresh(t, owner, on, copy, l) ==
  LET u == session[owner.client] IN
  \/ /\ u = None
     /\ Ends(t, on, l)
     /\ UNCHANGED sent
  \/ /\ u # None
     /\ lock' = [lock EXCEPT ![on] = l]
     /\ \/ Ask(t, owner, on, copy, u)
        \/ /\ Become(t, Doing("ensuring", owner, on, copy, u))
           /\ UNCHANGED sent

\* acquire(): the owner's record, or a new one with a new key.
Acquired_AlwaysFresh(owner, q) == NewCheckout(owner, minted[q] + 1)
Acquired(owner, q) ==
  IF checkout[q].owner = owner THEN checkout[q] ELSE NewCheckout(owner, minted[q] + 1)

\* require_usable_quote, require_card_quote and require_attempts_remaining.
MayOpen(q, record) ==
  /\ IsUsable(quote[q])
  /\ quote[q].plan \in CardPlans
  /\ record.attempts < MaxAttempts

\* create_card_checkout inside the quote's lock (l): replay what is final,
\* refuse what a gate refuses, else count the attempt and send it.
DecideCreate(t, owner, q, l) ==
  LET record  == Acquired(owner, q)
      counted == [record EXCEPT !.attempts = @ + 1]
      Store(r) == /\ checkout' = [checkout EXCEPT ![q] = r]
                  /\ minted' = [minted EXCEPT ![q] = IF r.key > @ THEN r.key ELSE @]
  IN \/ /\ ~Owned(quote, owner, q)
        /\ Ends(t, q, l)
        /\ UNCHANGED <<checkout, minted, sent>>
     \/ /\ Owned(quote, owner, q)
        /\ IsTerminal(record.status) \/ ~MayOpen(q, record)
        /\ Store(record)
        /\ Ends(t, q, l)
        /\ UNCHANGED sent
     \/ /\ Owned(quote, owner, q)
        /\ ~IsTerminal(record.status) /\ MayOpen(q, record)
        /\ Store(counted)
        /\ EnsureFresh(t, owner, q, counted, l)

\* get_by_reference
Found(owner, p) == {q \in Quotes : checkout[q].page = p /\ checkout[q].owner = owner}

\* require_checks_remaining
ChecksSpent_OffByOne(record) == record.checks > MaxChecks
ChecksSpent(record) == record.checks >= MaxChecks

\* check_card_payment_status inside the payment's lock (l).
DecideCheck(t, owner, p, l) ==
  \/ /\ \A q \in Found(owner, p) :
          \/ checkout[q].settled # "none" \/ checkout[q].code = "card_payment_ambiguous"
          \/ ChecksSpent(checkout[q])
     /\ Ends(t, p, l)
     /\ UNCHANGED <<checkout, minted, sent>>
  \/ \E q \in Found(owner, p) :
       LET counted == [checkout[q] EXCEPT !.checks = @ + 1] IN
       /\ checkout[q].settled = "none" /\ checkout[q].code # "card_payment_ambiguous"
       /\ ~ChecksSpent(checkout[q])
       /\ checkout' = [checkout EXCEPT ![q] = counted]
       /\ EnsureFresh(t, owner, p, counted, l)
       /\ UNCHANGED minted

Decide(t, owner, on, l) ==
  IF on \in Quotes THEN DecideCreate(t, owner, on, l) ELSE DecideCheck(t, owner, on, l)

-----------------------------------------------------------------------------
(* The steps of a call.                                                    *)

\* The caller must be signed in; its identity is fixed before the lock.
Call(t, k, on) ==
  LET owner == OwnerOf(k, session[k]) IN
  /\ task[t] = Idle
  /\ session[k] # None
  /\ \/ /\ IsFree(lock[on])
        /\ Decide(t, owner, on, Enter(lock[on], t))
     \/ /\ ~IsFree(lock[on])
        /\ lock' = [lock EXCEPT ![on] = Enter(@, t)]
        /\ Become(t, Doing("waiting", owner, on, NoCheckout, None))
        /\ UNCHANGED <<checkout, minted, sent>>
  /\ UNCHANGED <<session, quote, platform>>

LockGranted(t) ==
  LET me == task[t] IN
  /\ me.pc = "waiting"
  /\ lock[me.on].holder = t
  /\ Decide(t, me.owner, me.on, lock[me.on])
  /\ UNCHANGED <<session, quote, platform>>

\* refresh() looks the session up again once its lock is granted.
SessionIsReadAgain(t) ==
  LET me == task[t] IN
  /\ me.pc = "ensuring"
  /\ session[me.owner.client] \notin {None, me.user}
  /\ Become(t, Doing(me.pc, me.owner, me.on, me.copy, session[me.owner.client]))
  /\ UNCHANGED <<session, quote, checkout, lock, minted, platform, sent>>

\* This call rotated the token (and saved the session it had read), or another
\* call did.
SessionIsFresh(t) ==
  LET me == task[t]
      k == me.owner.client
  IN
  /\ me.pc = "ensuring"
  /\ \/ session' = [session EXCEPT ![k] = me.user]
     \/ session[k] # None /\ UNCHANGED session
  /\ Ask(t, me.owner, me.on, me.copy, session'[k])
  /\ UNCHANGED <<quote, checkout, lock, minted, platform>>

\* The session was gone when the rotation's lock was granted, or its rotation
\* failed and ended it.
SessionIsLost(t) ==
  LET me == task[t] IN
  /\ me.pc = "ensuring"
  /\ \/ Invalidate(me.owner.client)
     \/ /\ session[me.owner.client] = None
        /\ UNCHANGED <<session, quote, checkout>>
  /\ Ends(t, me.on, lock[me.on])
  /\ UNCHANGED <<minted, platform, sent>>

\* The answer to a checkout is classified and remembered by saving the call's
\* copy; only a good page is shown.
CheckoutReturns(t, a, p) ==
  LET me == task[t]
      q == me.on
      verdict == ClassifyCheckout(a)
      updated == [me.copy EXCEPT !.status = verdict.disposition, !.code = verdict.code,
                                 !.page = IF verdict.disposition = "open" THEN p ELSE @]
  IN
  /\ me.pc = "asking" /\ q \in Quotes
  /\ IF verdict.disposition = "open" THEN p \in PagesOf(q) ELSE p = None
  /\ checkout' = IF verdict.disposition = "retryable" THEN checkout
                 ELSE [checkout EXCEPT ![q] = updated]
  /\ posts' = [posts EXCEPT ![q].settled = @ \/ IsTerminal(verdict.disposition)]
  /\ shown' = IF verdict.disposition = "open" THEN [shown EXCEPT ![q] = @ \cup {p}] ELSE shown
  /\ Ends(t, q, lock[q])
  /\ UNCHANGED <<session, quote, minted, page, reads>>

\* _on_status: a final status is remembered, and a completed payment consumes
\* its quote first.
Recorded(copy, s) ==
  IF s = "ambiguous" THEN [copy EXCEPT !.status = "failed", !.code = "card_payment_ambiguous"]
                     ELSE [copy EXCEPT !.settled = s]

Consumes_WhenPaid(s) == MoneyArrived(s)
Consumes(s) == s = "completed"

\* The status the payment has, or had when it was read; or no usable answer.
StatusReturns(t, s) ==
  LET me == task[t]
      p == me.on
      q == page[p].quote
  IN
  /\ me.pc = "asking" /\ p \in Pages
  /\ \/ s \in {"unknown", "pending", page[p].state}
     \/ s = "paid" /\ page[p].state = "completed"
  /\ checkout' = IF IsFinal(s) THEN [checkout EXCEPT ![q] = Recorded(me.copy, s)] ELSE checkout
  /\ quote' = IF Consumes(s) THEN Consumed(quote, me.owner, q) ELSE quote
  /\ Ends(t, p, lock[p])
  /\ UNCHANGED <<session, minted, platform, sent>>

\* The client cancels the call at its await: its lock is given up, nothing more
\* is recorded.
Cancel(t) ==
  LET me == task[t] IN
  /\ me.pc # "idle"
  /\ lock' = [lock EXCEPT ![me.on] = Withdraw(@, t)]
  /\ Become(t, Idle)
  /\ UNCHANGED <<session, quote, checkout, minted, platform, sent>>

-----------------------------------------------------------------------------
(* The platform.                                                           *)

\* A request opens a page, whether or not anyone still waits for the answer.
PageOpens(q, p) ==
  /\ page[p] = NoPage
  /\ Cardinality(PagesOf(q)) < posts[q].count
  /\ page' = [page EXCEPT ![p] = [quote |-> q, state |-> "pending"]]
  /\ UNCHANGED <<session, quote, checkout, lock, task, minted, shown, sent>>

\* The user pays, or does not, or nobody can tell.
PaymentMoves(p, s) ==
  /\ \/ /\ page[p].state = "pending"
        /\ s \in {"failed"} \cup (IF p \in shown[page[p].quote] THEN {"paid", "ambiguous"} ELSE {})
     \/ page[p].state = "paid" /\ s \in {"completed", "ambiguous"}
  /\ page' = [page EXCEPT ![p].state = s]
  /\ UNCHANGED <<session, quote, checkout, lock, task, minted, shown, sent>>

-----------------------------------------------------------------------------
Step(t) ==
  \/ LockGranted(t) \/ SessionIsReadAgain(t) \/ SessionIsFresh(t) \/ SessionIsLost(t)
  \/ \E a \in Answers, p \in Pages \cup {None} : CheckoutReturns(t, a, p)
  \/ \E s \in PaymentStates \cup {"unknown"} : StatusReturns(t, s)

Next ==
  \/ \E t \in Tasks : Step(t) \/ Cancel(t)
  \/ \E t \in Tasks, k \in Clients, on \in Quotes \cup Pages : Call(t, k, on)
  \/ \E k \in Clients, u \in Users : SignIn(k, u)
  \/ \E k \in Clients : SessionEnds(k)
  \/ \E k \in Clients, q \in Quotes, plan \in Plans : Prepare(k, q, plan)
  \/ \E q \in Quotes : Lapses(q)
  \/ \E k \in Clients, q \in Quotes : CancelPrepared(k, q)
  \/ \E q \in Quotes, p \in Pages : PageOpens(q, p)
  \/ \E p \in Pages, s \in PaymentStates : PaymentMoves(p, s)

Spec == Init /\ [][Next]_vars

-----------------------------------------------------------------------------
(* Properties.                                                             *)

\* Seen from its requests, create_card_checkout keeps the promise of
\* PurchasePromise too: one key per quote, one request at a time, a bounded
\* number of them, and none once a link was shown or a refusal was final --
\* though sessions end, records vanish and calls are cancelled in between.
Promise == INSTANCE PurchasePromise WITH
  keys <- [q \in Quotes |-> posts[q].keys],
  count <- [q \in Quotes |-> posts[q].count],
  open <- {q \in Quotes : \E t \in Tasks : task[t].pc = "asking" /\ task[t].on = q},
  closed <- {q \in Quotes : posts[q].settled}
KeepsCardPromise == Promise!Spec

\* However many pages the platform opened for unanswered requests, the user is
\* given the link of one of them only: nobody pays one plan on two pages.
OneLinkPerQuote == \A q \in Quotes : Cardinality(shown[q]) <= 1

\* A payment is read at most MAX_STATUS_CHECKS times, cancelled and failed
\* reads included, whatever happens to the record in the meantime.
CardReadsBounded == \A p \in Pages : reads[p] <= MaxChecks

\* The status that later checks replay instead of asking is the status the
\* platform will always give: a late answer never freezes a passing one.
ReplayedStatusIsTrue ==
  \A q \in Quotes : checkout[q].settled # "none" => page[checkout[q].page].state = checkout[q].settled

\* A quote is consumed by a completed payment only, and a payment remembered as
\* completed has consumed its quote: the two stores never disagree.
ConsumedMeansPaid ==
  \A q \in Quotes :
    /\ quote[q].status = "consumed" => \E p \in shown[q] : page[p].state = "completed"
    /\ checkout[q].settled = "completed" => quote[q].status = "consumed"

\* Two locks guard one record: still no call puts back an older copy of it.
\* Its page, its final status and its counts stay for as long as the record
\* (its key) does.
RecordNeverRegresses ==
  [][\A q \in Quotes :
       LET old == checkout[q]  new == checkout'[q] IN
       old.key # 0 /\ new.key = old.key =>
         /\ new.attempts >= old.attempts /\ new.checks >= old.checks
         /\ old.page # None => new.page = old.page
         /\ old.settled # "none" => new.settled = old.settled
         /\ old.status = "failed" => new.status = "failed" /\ new.code = old.code]_vars
=============================================================================
