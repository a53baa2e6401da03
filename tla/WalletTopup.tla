----------------------------- MODULE WalletTopup -----------------------------
(***************************************************************************)
(* prepare_wallet_topup, create_wallet_topup_checkout and                  *)
(* get_wallet_topup_status (tools/wallet_topup.py) over the quotes and     *)
(* checkout records of topup/service.py.  As with card payments a record   *)
(* is written under two locks, its quote's and its payment's, by saving    *)
(* the call's own copy.  Unlike them it carries no key: the platform       *)
(* recognises a repeated top-up of a user by the page that is still        *)
(* pending for it, so two quotes may be given one page, and a payment is   *)
(* found by the first record that has its reference.                       *)
(*                                                                         *)
(* A page that nobody was shown cannot be paid and is the one the next     *)
(* request gets, so a request nobody waits for any longer needs no step of *)
(* its own.  A rotation that stores its session again is SignIn of that    *)
(* account: Sessions has its steps.                                        *)
(***************************************************************************)
EXTENDS AsyncLock, TopupQuotes, WalletOutcomes

CONSTANTS Tasks,         \* concurrent calls of the two tools
          Pages,         \* bound: payment pages, which are their references
          MaxAttempts,   \* MAX_TOPUP_CHECKOUT_ATTEMPTS
          MaxChecks,     \* MAX_TOPUP_STATUS_CHECKS
          Limits,        \* what the platform may say of a user's top-ups
          Answers        \* the answers the platform may give to a checkout

ASSUME WalletTopupAssumption ==
  /\ None \notin Clients \cup Users \cup Items \cup Quotes \cup Pages
  /\ Nobody \notin Tasks
  /\ Quotes \cap Pages = {}
  /\ Items \subseteq Nat /\ Limits \subseteq Options
  /\ MaxActive \in Nat \ {0} /\ MaxAttempts \in Nat \ {0} /\ MaxChecks \in Nat \ {0}
  /\ Answers \subseteq AllCardAnswers

VARIABLES
  session,     \* client -> signed-in user
  preparing,   \* owners with a preparation in flight
  quote,       \* quote id -> stored WalletTopupQuote
  checkout,    \* quote id -> stored WalletTopupCheckout
  older,       \* pairs of stored records, the one inserted first and the later one
  lock,        \* the checkout store's locks: by quote, and by payment
  task,        \* calls in progress
  page,        \* the platform: payment pages and what became of each
  reads,       \* history: status reads sent on each record
  shown        \* history: quote id -> pages whose link the user was given

vars == <<session, preparing, quote, checkout, older, lock, task, page, reads, shown>>

-----------------------------------------------------------------------------
(* State.                                                                  *)

\* settled: the terminal status in payment_result.
Checkout == [owner : Owner, attempts : 0..MaxAttempts, checks : 0..MaxChecks,
             status : {"pending", "open", "failed", "unresolved"}, code : WalletCodes,
             page : Pages \cup {None}, settled : {"none", "paid", "failed"}]
NewCheckout(owner) == [owner |-> owner, attempts |-> 0, checks |-> 0, status |-> "pending",
                       code |-> "none", page |-> None, settled |-> "none"]
NoCheckout == [NewCheckout(NoOwner) EXCEPT !.status = "none"]

\* TopupStatus.is_terminal
IsTerminal_OnlyFailed(status) == status = "failed"
IsTerminal(status) == status \in {"open", "failed"}

\* on: the lock the call works under; record: whose record copy is; user: whose
\* token its request carries; got: the page the platform has for it.
Task == [pc : {"idle", "waiting", "ensuring", "asking"}, owner : Owner \cup {NoOwner},
         on : Quotes \cup Pages \cup {None}, record : Quotes \cup {None},
         copy : Checkout \cup {NoCheckout}, user : Users \cup {None}, got : Pages \cup {None}]
Doing(pc, owner, on, q, copy, u) ==
  [pc |-> pc, owner |-> owner, on |-> on, record |-> q, copy |-> copy, user |-> u, got |-> None]
Idle == Doing("idle", NoOwner, None, None, NoCheckout, None)

Page == [user : Users, item : Items, state : TopupStates]
NoPage == [user |-> None, item |-> None, state |-> "none"]

TypeOK ==
  /\ session \in [Clients -> Users \cup {None}]
  /\ preparing \in SUBSET Owner
  /\ quote \in [Quotes -> Quote \cup {NoQuote}]
  /\ checkout \in [Quotes -> Checkout \cup {NoCheckout}]
  /\ older \in SUBSET (Quotes \X Quotes)
  /\ lock \in [Quotes \cup Pages -> LockType(Tasks)]
  /\ task \in [Tasks -> Task]
  /\ page \in [Pages -> Page \cup {NoPage}]
  /\ reads \in [Quotes -> Nat]
  /\ shown \in [Quotes -> SUBSET Pages]

Init ==
  /\ session = [k \in Clients |-> None]
  /\ preparing = {}
  /\ quote = [q \in Quotes |-> NoQuote]
  /\ checkout = [q \in Quotes |-> NoCheckout]
  /\ older = {}
  /\ lock = [x \in Quotes \cup Pages |-> Free]
  /\ task = [t \in Tasks |-> Idle]
  /\ page = [p \in Pages |-> NoPage]
  /\ reads = [q \in Quotes |-> 0]
  /\ shown = [q \in Quotes |-> {}]

store == <<checkout, older>>
calls == <<lock, task>>
platform == <<page, shown>>

Become(t, doing) == task' = [task EXCEPT ![t] = doing]

\* A call ends: it leaves its lock (l).
Ends(t, on, l) ==
  /\ lock' = [lock EXCEPT ![on] = Leave(l)]
  /\ Become(t, Idle)

\* InMemoryWalletTopupCheckoutStore.save: a new record goes last.
Save(q, record) ==
  /\ checkout' = [checkout EXCEPT ![q] = record]
  /\ older' = IF checkout[q] = NoCheckout
              THEN older \cup ({r \in Quotes : checkout[r] # NoCheckout} \X {q}) ELSE older

-----------------------------------------------------------------------------
(* Sessions and quotes.                                                    *)

SignIn(k, u) ==
  /\ session' = [session EXCEPT ![k] = u]
  /\ UNCHANGED <<preparing, quote, store, calls, platform, reads>>

\* The listeners of wallet quotes and of checkout records run with the end of
\* a session.
Invalidate(k) ==
  LET kept == {q \in Quotes : checkout[q].owner.client # k} IN
  /\ session' = [session EXCEPT ![k] = None]
  /\ quote' = Invalidated(quote, k)
  /\ checkout' = [q \in Quotes |-> IF q \in kept THEN checkout[q] ELSE NoCheckout]
  /\ older' = older \cap (kept \X kept)

SessionEnds(k) ==
  /\ session[k] # None
  /\ Invalidate(k)
  /\ UNCHANGED <<preparing, calls, platform, reads>>

\* prepare_wallet_topup fixes its owner, then reads the platform's options ...
PrepareStarts(k) ==
  /\ session[k] # None
  /\ preparing' = preparing \cup {OwnerOf(k, session[k])}
  /\ UNCHANGED <<session, quote, store, calls, platform, reads>>

\* ... and creates the quote, whoever is signed in by then.
Prepares(owner, q, amount, options) ==
  /\ owner \in preparing
  /\ Acceptable(amount, options)
  /\ quote[q] = NoQuote
  /\ quote' = Created(quote, q, owner, amount)
  /\ preparing' = preparing \ {owner}
  /\ UNCHANGED <<session, store, calls, platform, reads>>

\* The read fails, or the amount is not acceptable.
PrepareFails(owner) ==
  /\ owner \in preparing
  /\ preparing' = preparing \ {owner}
  /\ UNCHANGED <<session, quote, store, calls, platform, reads>>

Lapses(q) ==
  /\ Effective(quote[q]) = "active"
  /\ quote' = [quote EXCEPT ![q].lapsed = TRUE]
  /\ UNCHANGED <<session, preparing, store, calls, platform, reads>>

-----------------------------------------------------------------------------
(* The decisions inside a lock.                                            *)

\* The request goes out: a checkout, or a status read.
Ask(t, doing, u) ==
  /\ Become(t, [doing EXCEPT !.pc = "asking", !.user = u])
  /\ reads' = IF doing.on \in Pages THEN [reads EXCEPT ![doing.record] = @ + 1] ELSE reads

\* ensure_fresh_session in lock l: no session, a fresh one, or an await.
EnsureFresh(t, doing, l) ==
  LET u == session[doing.owner.client] IN
  \/ /\ u = None
     /\ Ends(t, doing.on, l)
     /\ UNCHANGED reads
  \/ /\ u # None
     /\ lock' = [lock EXCEPT ![doing.on] = l]
     /\ \/ Ask(t, doing, u)
        \/ Become(t, doing) /\ UNCHANGED reads

\* acquire(): the owner's record, or a new one.
Acquired(owner, q) == IF checkout[q].owner = owner THEN checkout[q] ELSE NewCheckout(owner)

\* require_usable_topup_quote and require_attempts_remaining.
MayOpen(q, record) == Effective(quote[q]) = "active" /\ record.attempts < MaxAttempts

\* create_wallet_topup_checkout inside the quote's lock (l): replay what is
\* final, refuse what a gate refuses, else count the attempt and send it.
DecideCreate(t, owner, q, l) ==
  LET record  == Acquired(owner, q)
      counted == [record EXCEPT !.attempts = @ + 1]
  IN \/ /\ ~Owned(quote, owner, q)
        /\ Ends(t, q, l)
        /\ UNCHANGED <<store, reads>>
     \/ /\ Owned(quote, owner, q)
        /\ IsTerminal(record.status) \/ ~MayOpen(q, record)
        /\ Save(q, record)
        /\ Ends(t, q, l)
        /\ UNCHANGED reads
     \/ /\ Owned(quote, owner, q)
        /\ ~IsTerminal(record.status) /\ MayOpen(q, record)
        /\ Save(q, counted)
        /\ EnsureFresh(t, Doing("ensuring", owner, q, q, counted, None), l)

\* get_by_reference: the first record with the reference, if it is the owner's.
WithPage(p) == {q \in Quotes : checkout[q].page = p}
First(qs) == {q \in qs : \A r \in qs \ {q} : <<q, r>> \in older}
Found(owner, p) == {q \in First(WithPage(p)) : checkout[q].owner = owner}

\* require_checks_remaining
ChecksSpent_OffByOne(record) == record.checks > MaxChecks
ChecksSpent(record) == record.checks >= MaxChecks

\* get_wallet_topup_status inside the payment's lock (l).
DecideCheck(t, owner, p, l) ==
  \/ /\ \A q \in Found(owner, p) : checkout[q].settled # "none" \/ ChecksSpent(checkout[q])
     /\ Ends(t, p, l)
     /\ UNCHANGED <<store, reads>>
  \/ \E q \in Found(owner, p) :
       LET counted == [checkout[q] EXCEPT !.checks = @ + 1] IN
       /\ checkout[q].settled = "none" /\ ~ChecksSpent(checkout[q])
       /\ Save(q, counted)
       /\ EnsureFresh(t, Doing("ensuring", owner, p, q, counted, None), l)

Decide(t, owner, on, l) ==
  IF on \in Quotes THEN DecideCreate(t, owner, on, l) ELSE DecideCheck(t, owner, on, l)

-----------------------------------------------------------------------------
(* The steps of a call.                                                    *)

\* The caller must be signed in; its identity is fixed before the lock.
Call(t, k, on) ==
  LET owner == OwnerOf(k, session[k]) IN
  /\ task[t] = Idle
  /\ session[k] # None
  /\ \/ /\ IsFree(lock[on])
        /\ Decide(t, owner, on, Enter(lock[on], t))
     \/ /\ ~IsFree(lock[on])
        /\ lock' = [lock EXCEPT ![on] = Enter(@, t)]
        /\ Become(t, Doing("waiting", owner, on, None, NoCheckout, None))
        /\ UNCHANGED <<store, reads>>
  /\ UNCHANGED <<session, preparing, quote, platform>>

LockGranted(t) ==
  LET me == task[t] IN
  /\ me.pc = "waiting"
  /\ lock[me.on].holder = t
  /\ Decide(t, me.owner, me.on, lock[me.on])
  /\ UNCHANGED <<session, preparing, quote, platform>>

SessionIsFresh(t) ==
  LET u == session[task[t].owner.client] IN
  /\ task[t].pc = "ensuring"
  /\ u # None
  /\ Ask(t, task[t], u)
  /\ UNCHANGED <<session, preparing, quote, store, lock, platform>>

\* The rotation fails, which ends the session, or it had ended before.
SessionIsLost(t) ==
  LET me == task[t] IN
  /\ me.pc = "ensuring"
  /\ \/ Invalidate(me.owner.client)
     \/ session[me.owner.client] = None /\ UNCHANGED <<session, quote, store>>
  /\ Ends(t, me.on, lock[me.on])
  /\ UNCHANGED <<preparing, platform, reads>>

\* The answer to a checkout is classified and remembered by saving the call's
\* copy; only a good page is shown.
CheckoutReturns(t, a) ==
  LET me == task[t]
      q == me.on
      verdict == ClassifyTopupPage(a)
      updated == [me.copy EXCEPT !.status = verdict.disposition, !.code = verdict.code,
                                 !.page = IF verdict.disposition = "open" THEN me.got ELSE @]
  IN
  /\ me.pc = "asking" /\ q \in Quotes
  /\ verdict.disposition = "open" => me.got # None
  /\ IF verdict.disposition = "retryable" THEN UNCHANGED store ELSE Save(q, updated)
  /\ shown' = IF verdict.disposition = "open" THEN [shown EXCEPT ![q] = @ \cup {me.got}] ELSE shown
  /\ Ends(t, q, lock[q])
  /\ UNCHANGED <<session, preparing, quote, page, reads>>

\* _on_status: a paid top-up consumes its quote; a terminal status is stored by
\* saving the call's copy.  The platform tells its user the status the payment
\* has, or had when it was read, and nobody else.
StatusReturns(t, s) ==
  LET me == task[t]
      p == me.on
  IN
  /\ me.pc = "asking" /\ p \in Pages
  /\ s \in {"unknown"} \cup (IF me.user = page[p].user THEN {"pending", page[p].state} ELSE {})
  /\ IF IsSettled(s) THEN Save(me.record, [me.copy EXCEPT !.settled = s]) ELSE UNCHANGED store
  /\ quote' = IF Credits(s) THEN Consumed(quote, me.owner, me.record) ELSE quote
  /\ Ends(t, p, lock[p])
  /\ UNCHANGED <<session, preparing, platform, reads>>

\* The client cancels the call at its await: its lock is given up, nothing more
\* is recorded.
Cancel(t) ==
  LET me == task[t] IN
  /\ me.pc # "idle"
  /\ lock' = [lock EXCEPT ![me.on] = Withdraw(@, t)]
  /\ Become(t, Idle)
  /\ UNCHANGED <<session, preparing, quote, store, platform, reads>>

-----------------------------------------------------------------------------
(* The platform.                                                           *)

\* A checkout request arrives: the user's page that is still pending for the
\* amount, or a new one.
PendingFor(u, item) == {p \in Pages : page[p] = [user |-> u, item |-> item, state |-> "pending"]}
PageOpens(t, p) ==
  LET me == task[t]
      item == quote[me.on].item
      pending == PendingFor(me.user, item)
  IN
  /\ me.pc = "asking" /\ me.on \in Quotes /\ me.got = None
  /\ IF pending # {} THEN p \in pending ELSE page[p] = NoPage
  /\ page' = [page EXCEPT ![p] = [user |-> me.user, item |-> item, state |-> "pending"]]
  /\ Become(t, [me EXCEPT !.got = p])
  /\ UNCHANGED <<session, preparing, quote, store, lock, shown, reads>>

\* A user who has a link pays, or does not.
PaymentMoves(p, s) ==
  /\ page[p].state = "pending"
  /\ s = "paid" => \E q \in Quotes : p \in shown[q]
  /\ s # "pending"
  /\ page' = [page EXCEPT ![p].state = s]
  /\ UNCHANGED <<session, preparing, quote, store, calls, shown, reads>>

-----------------------------------------------------------------------------
Step(t) ==
  \/ LockGranted(t) \/ SessionIsFresh(t) \/ SessionIsLost(t)
  \/ \E a \in Answers : CheckoutReturns(t, a)
  \/ \E s \in TopupStates \cup {"unknown"} : StatusReturns(t, s)

Next ==
  \/ \E t \in Tasks : Step(t) \/ Cancel(t)
  \/ \E t \in Tasks, k \in Clients, on \in Quotes \cup Pages : Call(t, k, on)
  \/ \E k \in Clients, u \in Users : SignIn(k, u)
  \/ \E k \in Clients : SessionEnds(k) \/ PrepareStarts(k)
  \/ \E owner \in Owner, q \in Quotes, amount \in Items, o \in Limits : Prepares(owner, q, amount, o)
  \/ \E owner \in Owner : PrepareFails(owner)
  \/ \E q \in Quotes : Lapses(q)
  \/ \E t \in Tasks, p \in Pages : PageOpens(t, p)
  \/ \E p \in Pages, s \in TopupStates : PaymentMoves(p, s)

Spec == Init /\ [][Next]_vars

-----------------------------------------------------------------------------
(* Properties.                                                             *)

\* The user is given one link per prepared top-up, though answers are lost, the
\* platform opens further pages once one is settled, and records disappear.
OneTopupLinkPerQuote == \A q \in Quotes : Cardinality(shown[q]) <= 1

\* A top-up is remembered and replayed as paid, and its quote is consumed, only
\* when the platform has the payment of a page the user was given; what is
\* remembered as failed can no longer be paid; and the two stores agree.
SettledMeansSettled ==
  \A q \in Quotes :
    /\ checkout[q].settled # "none" => page[checkout[q].page].state = checkout[q].settled
    /\ checkout[q].settled = "paid" => quote[q].status = "consumed"
    /\ quote[q].status = "consumed" => \E p \in shown[q] : page[p].state = "paid"

\* A top-up is read at most MAX_TOPUP_STATUS_CHECKS times, also when reads are
\* cancelled, fail, or outlive their session.
PageReadsBounded == \A q \in Quotes : reads[q] <= MaxChecks

\* Records are saved as copies under two locks, and one page may belong to two
\* records: still no call puts back an older copy of a record.
TopupRecordNeverRegresses ==
  [][\A q \in Quotes :
       LET old == checkout[q]  new == checkout'[q] IN
       old.status # "none" /\ new.status # "none" =>
         /\ new.attempts >= old.attempts /\ new.checks >= old.checks
         /\ old.page # None => new.page = old.page
         /\ old.settled # "none" => new.settled = old.settled]_vars
=============================================================================
