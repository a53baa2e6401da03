------------------------------ MODULE EsimTopup ------------------------------
(***************************************************************************)
(* prepare_esim_topup, get_prepared_esim_topup, confirm_esim_topup and     *)
(* cancel_prepared_esim_topup (tools/esim_topup.py) over the quotes and    *)
(* execution records of topup/service.py, and the platform they top up at. *)
(*                                                                         *)
(* The platform's route has no idempotency key: every request is another   *)
(* top-up.  A confirmation takes its quote's lock, reads three things      *)
(* again (the user's eSIMs, the plans they may get, the wallet), counts    *)
(* its attempt, makes the session fresh and sends one request.  Each of    *)
(* these waits, and anything else the server does runs meanwhile.  A read  *)
(* may fail for any reason; a rotation that stores its session again is    *)
(* SignIn of that account (Sessions has its steps).  The deployment has    *)
(* execution_enabled: without it no confirmation gets this far.            *)
(***************************************************************************)
EXTENDS AsyncLock, TopupQuotes, TopupOutcomes

CONSTANTS Tasks,      \* concurrent confirm_esim_topup calls
          Answers     \* the answers the platform may give

ASSUME EsimTopupAssumption ==
  /\ None \notin Clients \cup Users \cup Items \cup Quotes
  /\ Nobody \notin Tasks
  /\ MaxActive \in Nat \ {0}
  /\ Answers \subseteq AllAnswers

VARIABLES
  session,     \* client -> signed-in user
  preparing,   \* owners with a preparation in flight
  quote,       \* quote id -> stored EsimTopupQuote
  execution,   \* quote id -> stored EsimTopupExecution
  lock,        \* quote id -> the execution store's lock
  task,        \* confirm_esim_topup calls in progress
  offered,     \* the platform: quotes whose plan it offers at the quoted price
  late,        \* the platform: quote id -> requests it may still carry out, unwatched
  topups,      \* the platform: quote id -> top-ups carried out
  sent,        \* history: quote id -> requests sent
  reply        \* what a tool just said about a quote

vars == <<session, preparing, quote, execution, lock, task, offered, late, topups, sent, reply>>

-----------------------------------------------------------------------------
(* State.                                                                  *)

Execution == [owner : Owner, attempts : Nat,
              status : {"pending", "succeeded", "failed", "unresolved"}, code : TopupCodes]
NewExecution(owner) == [owner |-> owner, attempts |-> 0, status |-> "pending", code |-> "none"]
NoExecution == [owner |-> NoOwner, attempts |-> 0, status |-> "none", code |-> "none"]

\* A call reads in this order before it may send.
Reads == {"esims", "plans", "balance"}
Sending == {"ensuring", "posting"}

\* exec: the record copy the call works with; stood: the platform offered the
\* quote's terms at some moment of this confirmation; done: the platform has
\* carried out the request this call waits for.
Task == [pc : {"idle", "waiting"} \cup Reads \cup Sending, owner : Owner \cup {NoOwner},
         quote : Quotes \cup {None}, exec : Execution \cup {NoExecution},
         stood : BOOLEAN, done : BOOLEAN]
Doing(pc, owner, q, exec, stood) ==
  [pc |-> pc, owner |-> owner, quote |-> q, exec |-> exec, stood |-> stood, done |-> FALSE]
Idle == Doing("idle", NoOwner, None, NoExecution, FALSE)

Says(by, q, claim) == [by |-> by, quote |-> q, claim |-> claim]
Silent == Says("nobody", None, "none")
Reply == [by : {"readback", "cancel", "gate", "replay", "answer"}, quote : Quotes, claim : Claims]

TypeOK ==
  /\ session \in [Clients -> Users \cup {None}]
  /\ preparing \in SUBSET Owner
  /\ quote \in [Quotes -> Quote \cup {NoQuote}]
  /\ execution \in [Quotes -> Execution \cup {NoExecution}]
  /\ lock \in [Quotes -> LockType(Tasks)]
  /\ task \in [Tasks -> Task]
  /\ offered \in SUBSET Quotes
  /\ late \in [Quotes -> Nat] /\ topups \in [Quotes -> Nat] /\ sent \in [Quotes -> Nat]
  /\ reply \in Reply \cup {Silent}

Init ==
  /\ session = [k \in Clients |-> None]
  /\ preparing = {}
  /\ quote = [q \in Quotes |-> NoQuote]
  /\ execution = [q \in Quotes |-> NoExecution]
  /\ lock = [q \in Quotes |-> Free]
  /\ task = [t \in Tasks |-> Idle]
  /\ offered = Quotes
  /\ late = [q \in Quotes |-> 0] /\ topups = [q \in Quotes |-> 0] /\ sent = [q \in Quotes |-> 0]
  /\ reply = Silent

stores == <<preparing, quote, execution>>
calls == <<lock, task>>
platform == <<offered, late, topups>>

Become(t, doing) == task' = [task EXCEPT ![t] = doing]

\* A confirmation ends: it leaves its quote's lock (l) and answers.
Ends(t, q, l, says) ==
  /\ lock' = [lock EXCEPT ![q] = Leave(l)]
  /\ Become(t, Idle)
  /\ reply' = says

-----------------------------------------------------------------------------
(* Sessions.                                                               *)

SignIn(k, u) ==
  /\ session' = [session EXCEPT ![k] = u]
  /\ reply' = Silent
  /\ UNCHANGED <<stores, calls, platform, sent>>

\* Logout, a failed rotation or a second 401; the listeners of quotes and of
\* execution records run with it.
Invalidate(k) ==
  /\ session' = [session EXCEPT ![k] = None]
  /\ quote' = Invalidated(quote, k)
  /\ execution' = [q \in Quotes |-> IF execution[q].owner.client = k THEN NoExecution ELSE execution[q]]

SessionEnds(k) ==
  /\ Invalidate(k)
  /\ reply' = Silent
  /\ UNCHANGED <<preparing, calls, platform, sent>>

-----------------------------------------------------------------------------
(* Quotes.                                                                 *)

\* prepare_esim_topup fixes its owner, then reads eSIMs, plans and balance ...
PrepareStarts(k) ==
  /\ session[k] # None
  /\ preparing' = preparing \cup {OwnerOf(k, session[k])}
  /\ reply' = Silent
  /\ UNCHANGED <<session, quote, execution, calls, platform, sent>>

\* ... and creates the quote, whoever is signed in by then, at a price that
\* may have moved since it was read.
Prepares(owner, q, item) ==
  /\ owner \in preparing
  /\ quote[q] = NoQuote
  /\ quote' = Created(quote, q, owner, item)
  /\ preparing' = preparing \ {owner}
  /\ offered' \in {offered, offered \ {q}}
  /\ reply' = Silent
  /\ UNCHANGED <<session, execution, calls, late, topups, sent>>

\* A read fails, or the platform does not offer what was asked for.
PrepareFails(owner) ==
  /\ owner \in preparing
  /\ preparing' = preparing \ {owner}
  /\ reply' = Silent
  /\ UNCHANGED <<session, quote, execution, calls, platform, sent>>

Lapses(q) ==
  /\ Effective(quote[q]) = "active"
  /\ quote' = [quote EXCEPT ![q].lapsed = TRUE]
  /\ reply' = Silent
  /\ UNCHANGED <<session, preparing, execution, calls, platform, sent>>

\* get_prepared_esim_topup: every status that is not "prepared" is reported
\* with NOTHING_HAPPENED, and so is that one.
ReadBackClaim(r) == "nothing"
ReadBack(k, q) ==
  /\ session[k] # None
  /\ Owned(quote, OwnerOf(k, session[k]), q)
  /\ reply' = Says("readback", q, ReadBackClaim(quote[q]))
  /\ UNCHANGED <<session, stores, calls, platform, sent>>

\* cancel_prepared_esim_topup takes no lock and answers the same whatever the
\* quote's status.
CancelPrepared(k, q) ==
  /\ session[k] # None
  /\ Owned(quote, OwnerOf(k, session[k]), q)
  /\ quote' = Cancelled(quote, q)
  /\ reply' = Says("cancel", q, "nothing")
  /\ UNCHANGED <<session, preparing, execution, calls, platform, sent>>

-----------------------------------------------------------------------------
(* The decision inside the quote's lock.                                   *)

\* acquire(): the owner's record, or a new one in its place.
Acquired(owner, q) == IF execution[q].owner = owner THEN execution[q] ELSE NewExecution(owner)

\* EsimTopupExecutionStatus.is_terminal
IsTerminal(status) == status # "pending"

\* _replay_if_attempted, which require_never_attempted repeats: was_sent, or
\* an outcome is known.
Attempted_TerminalOnly(exec) == IsTerminal(exec.status)
Attempted(exec) == IsTerminal(exec.status) \/ exec.attempts > 0

ReplayClaim_DiedMeansRefused(exec) ==
  CASE exec.status = "succeeded" -> "charged"
    [] IsTerminal(exec.status) /\ exec.status # "succeeded" -> ClaimOf(ReplayTopupError(exec.code))
    [] OTHER -> "nothing"
ReplayClaim(exec) ==
  CASE exec.status = "succeeded" -> "charged"
    [] IsTerminal(exec.status) /\ exec.status # "succeeded" -> ClaimOf(ReplayTopupError(exec.code))
    [] OTHER -> "unknown"

\* The first await of _revalidate; without a session the call ends there.
StartReading(t, owner, q, exec, l) ==
  \/ /\ session[owner.client] = None
     /\ Ends(t, q, l, Silent)
  \/ /\ session[owner.client] # None
     /\ lock' = [lock EXCEPT ![q] = l]
     /\ Become(t, Doing("esims", owner, q, exec, q \in offered))
     /\ reply' = Silent

\* With t the holder of the lock (l): an unknown quote, a replay, a gate
\* (status, or an amount that is not the quote's), or on to the reads.
Decide(t, owner, q, l) ==
  LET exec == Acquired(owner, q)
      Store == execution' = [execution EXCEPT ![q] = exec]
  IN \/ /\ ~Owned(quote, owner, q)
        /\ Ends(t, q, l, Silent)
        /\ UNCHANGED execution
     \/ /\ Owned(quote, owner, q) /\ Attempted(exec)
        /\ Store
        /\ Ends(t, q, l, Says("replay", q, ReplayClaim(exec)))
     \/ /\ Owned(quote, owner, q) /\ ~Attempted(exec)
        /\ Store
        /\ Ends(t, q, l, Says("gate", q, "nothing"))
     \/ /\ Owned(quote, owner, q) /\ ~Attempted(exec)
        /\ Effective(quote[q]) = "active"
        /\ Store
        /\ StartReading(t, owner, q, exec, l)

\* The caller must be signed in; its identity is fixed here.
Confirm(t, k, q) ==
  LET owner == OwnerOf(k, session[k]) IN
  /\ task[t] = Idle
  /\ session[k] # None
  /\ \/ /\ IsFree(lock[q])
        /\ Decide(t, owner, q, Enter(lock[q], t))
     \/ /\ ~IsFree(lock[q])
        /\ lock' = [lock EXCEPT ![q] = Enter(@, t)]
        /\ Become(t, Doing("waiting", owner, q, NoExecution, FALSE))
        /\ reply' = Silent
        /\ UNCHANGED execution
  /\ UNCHANGED <<session, preparing, quote, platform, sent>>

LockGranted(t) ==
  LET me == task[t] IN
  /\ me.pc = "waiting"
  /\ lock[me.quote].holder = t
  /\ Decide(t, me.owner, me.quote, lock[me.quote])
  /\ UNCHANGED <<session, preparing, quote, platform, sent>>

-----------------------------------------------------------------------------
(* Revalidation.                                                           *)

EsimsRead(t) ==
  LET me == task[t] IN
  /\ me.pc = "esims"
  /\ session[me.owner.client] # None
  /\ Become(t, [me EXCEPT !.pc = "plans"])
  /\ reply' = Silent
  /\ UNCHANGED <<session, stores, lock, platform, sent>>

\* The plan is still offered for this eSIM, at the price the quote states.
StillOffered_AsQuoted(q) == TRUE
StillOffered(q) == q \in offered
PlansRead(t) ==
  LET me == task[t] IN
  /\ me.pc = "plans"
  /\ StillOffered(me.quote)
  /\ session[me.owner.client] # None
  /\ Become(t, [me EXCEPT !.pc = "balance"])
  /\ reply' = Silent
  /\ UNCHANGED <<session, stores, lock, platform, sent>>

\* A read fails or disagrees with the quote: refused, and nothing was sent.
ReadFails(t) ==
  LET me == task[t] IN
  /\ me.pc \in Reads
  /\ Ends(t, me.quote, lock[me.quote], Says("answer", me.quote, "nothing"))
  /\ UNCHANGED <<session, stores, platform, sent>>

\* The one request of this call, ever.
Post(t, me) ==
  /\ Become(t, [me EXCEPT !.pc = "posting"])
  /\ sent' = [sent EXCEPT ![me.quote] = @ + 1]
  /\ reply' = Silent

\* The balance covers the price: the attempt is counted and stored, then
\* ensure_fresh_session finds no session, finds it fresh, or rotates it.
BalanceRead(t) ==
  LET counted == [task[t].exec EXCEPT !.attempts = @ + 1]
      me == [task[t] EXCEPT !.exec = counted]
  IN /\ me.pc = "balance"
     /\ execution' = [execution EXCEPT ![me.quote] = counted]
     /\ \/ /\ session[me.owner.client] = None
           /\ Ends(t, me.quote, lock[me.quote], Silent)
           /\ UNCHANGED sent
        \/ /\ session[me.owner.client] # None
           /\ Post(t, me)
           /\ UNCHANGED lock
        \/ /\ session[me.owner.client] # None
           /\ Become(t, [me EXCEPT !.pc = "ensuring"])
           /\ reply' = Silent
           /\ UNCHANGED <<lock, sent>>
     /\ UNCHANGED <<session, preparing, quote, platform>>

SessionIsFresh(t) ==
  /\ task[t].pc = "ensuring"
  /\ session[task[t].owner.client] # None
  /\ Post(t, task[t])
  /\ UNCHANGED <<session, stores, lock, platform>>

\* The rotation fails, which ends the session, or it had ended before.
SessionIsLost(t) ==
  LET me == task[t] IN
  /\ me.pc = "ensuring"
  /\ \/ Invalidate(me.owner.client)
     \/ session[me.owner.client] = None /\ UNCHANGED <<session, quote, execution>>
  /\ Ends(t, me.quote, lock[me.quote], Silent)
  /\ UNCHANGED <<preparing, platform, sent>>

-----------------------------------------------------------------------------
(* The platform: a request is a top-up, at once, late or never.            *)

OfferMoves(q) ==
  /\ quote[q] # NoQuote
  /\ offered' = (offered \cup {q}) \ (offered \cap {q})
  /\ task' = [t \in Tasks |-> IF task[t].quote = q /\ task[t].pc \in Reads \cup Sending
                              THEN [task[t] EXCEPT !.stood = TRUE] ELSE task[t]]
  /\ reply' = Silent
  /\ UNCHANGED <<session, stores, lock, late, topups, sent>>

TopsUp(t) ==
  LET me == task[t] IN
  /\ me.pc = "posting" /\ ~me.done
  /\ Become(t, [me EXCEPT !.done = TRUE])
  /\ topups' = [topups EXCEPT ![me.quote] = @ + 1]
  /\ reply' = Silent
  /\ UNCHANGED <<session, stores, lock, offered, late, sent>>

TopsUpLate(q) ==
  /\ late[q] > 0
  /\ late' = [late EXCEPT ![q] = @ - 1]
  /\ topups' = [topups EXCEPT ![q] = @ + 1]
  /\ reply' = Silent
  /\ UNCHANGED <<session, stores, calls, offered, sent>>

\* A refusal the platform gives a reason for means that it did nothing.
IsRefusal(a) == \/ a.status \in {401, 403, 404, 429}
                \/ a.status \in {400, 409, 422} /\ a.parsed
Consistent(a, done) == /\ IsRefusal(a) => ~done
                       /\ a.completed => done

\* What nobody waits for any longer may still be carried out.
Abandoned(me) == IF me.done THEN late ELSE [late EXCEPT ![me.quote] = @ + 1]

-----------------------------------------------------------------------------
(* The answer.                                                             *)

\* Classified, and remembered by saving the call's own copy of the record; a
\* completed top-up also consumes its quote.
Returns(t, a) ==
  LET me == task[t]
      q == me.quote
      verdict == ClassifyTopup(a)
  IN
  /\ me.pc = "posting"
  /\ Consistent(a, me.done)
  /\ execution' = [execution EXCEPT ![q] = [me.exec EXCEPT !.status = verdict.disposition,
                                                           !.code = verdict.code]]
  /\ quote' = IF verdict.disposition = "succeeded" THEN Consumed(quote, me.owner, q) ELSE quote
  /\ late' = IF IsRefusal(a) THEN late ELSE Abandoned(me)
  /\ Ends(t, q, lock[q], Says("answer", q, ClaimOf(verdict.code)))
  /\ UNCHANGED <<session, preparing, offered, topups, sent>>

\* The client cancels the call at its await: the lock is given up, nothing is
\* recorded, and the platform may still carry out what was sent.
Cancel(t) ==
  LET me == task[t] IN
  /\ me.pc # "idle"
  /\ lock' = [lock EXCEPT ![me.quote] = Withdraw(@, t)]
  /\ late' = IF me.pc = "posting" THEN Abandoned(me) ELSE late
  /\ Become(t, Idle)
  /\ reply' = Silent
  /\ UNCHANGED <<session, stores, offered, topups, sent>>

-----------------------------------------------------------------------------
Step(t) ==
  \/ LockGranted(t)
  \/ EsimsRead(t) \/ PlansRead(t) \/ BalanceRead(t) \/ ReadFails(t)
  \/ SessionIsFresh(t) \/ SessionIsLost(t)
  \/ \E a \in Answers : Returns(t, a)

Next ==
  \/ \E t \in Tasks : Step(t) \/ Cancel(t) \/ TopsUp(t)
  \/ \E t \in Tasks, k \in Clients, q \in Quotes : Confirm(t, k, q)
  \/ \E k \in Clients, u \in Users : SignIn(k, u)
  \/ \E k \in Clients : SessionEnds(k) \/ PrepareStarts(k)
  \/ \E owner \in Owner, q \in Quotes, item \in Items : Prepares(owner, q, item)
  \/ \E owner \in Owner : PrepareFails(owner)
  \/ \E k \in Clients, q \in Quotes : ReadBack(k, q) \/ CancelPrepared(k, q)
  \/ \E q \in Quotes : Lapses(q) \/ OfferMoves(q) \/ TopsUpLate(q)

Spec == Init /\ [][Next]_vars

-----------------------------------------------------------------------------
(* Properties.                                                             *)

\* "one quote, one attempt, ever" (topup/service.py:295): whatever sessions
\* end, records are dropped and calls are cancelled, one quote never makes the
\* platform run two top-ups, because it never gets two requests.
OneRequestPerQuote == \A q \in Quotes : sent[q] <= 1

\* A record that says failed is about a top-up that was not and will not be
\* carried out; one that says succeeded is about one that was, and its quote
\* is consumed; and no quote is consumed for anything less.
RecordTellsTheTruth ==
  \A q \in Quotes :
    /\ execution[q].status = "failed" => topups[q] = 0 /\ late[q] = 0
    /\ execution[q].status = "succeeded" => topups[q] > 0 /\ quote[q].status = "consumed"
    /\ quote[q].status = "consumed" => topups[q] > 0

\* A confirmation that was answered by the platform, refused by a read or
\* replayed from the record never says "nothing was charged" of a top-up that
\* ran or may still run, and never "charged" of one that did not run.
AnswerTellsTheTruth ==
  reply.by \in {"answer", "replay"} =>
    /\ reply.claim = "nothing" => topups[reply.quote] = 0 /\ late[reply.quote] = 0
    /\ reply.claim = "charged" => topups[reply.quote] > 0

\* "any disagreement refuses the top-up rather than charging an amount or a
\* plan the user never agreed to" (tools/esim_topup.py:725-726), as far as a
\* server can keep it: nothing is sent for a quote whose plan or price was
\* gone during the whole confirmation.  It may be gone again by the time the
\* request arrives, which carries no amount.
NeverSentOnOldTerms == \A t \in Tasks : task[t].pc \in Sending => task[t].stood

-----------------------------------------------------------------------------
(* What the documentation says and the code does not keep.                 *)

\* "for an eSIM top-up nothing in this version can reach it, because nothing
\* in this version executes one" (topup/models.py:63-64, of CONSUMED): reading
\* back a quote whose top-up the server recorded as done does not say that
\* nothing was charged.
ReadBackKnowsTheTopup ==
  reply.by = "readback" /\ execution[reply.quote].status = "succeeded" => reply.claim # "nothing"
=============================================================================
