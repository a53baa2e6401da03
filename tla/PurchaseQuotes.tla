---------------------------- MODULE PurchaseQuotes ----------------------------
(***************************************************************************)
(* prepare_purchase and cancel_prepared_purchase                           *)
(* (tools/purchase_preparation.py) over PurchaseQuoteService.  Preparing   *)
(* fixes the owner first and then reads the plan, the wallet balance and   *)
(* the destination from the platform; other calls, sign-ins and logouts    *)
(* run between those reads, and the quote is created for the owner fixed   *)
(* at the start.  create() itself runs under the owner's store lock and    *)
(* never suspends, so it is part of the last action of a preparation.      *)
(***************************************************************************)
EXTENDS QuoteStore

CONSTANTS Tasks,        \* concurrent prepare_purchase calls
          WalletPlans   \* plans to be paid from the wallet

ASSUME PurchaseQuotesAssumption ==
  /\ None \notin Clients \cup Users \cup Plans
  /\ WalletPlans \subseteq Plans
  /\ MaxActive \in Nat \ {0}

VARIABLES
  session,   \* client -> signed-in user, or None
  quote,     \* quote id -> stored quote
  task,      \* prepare_purchase calls in progress
  verdict    \* the last reply: prepared, refused at the limit or cancelled, and for what

vars == <<session, quote, task, verdict>>

Task == [pc : {"idle", "plan", "balance", "context"}, owner : Owner \cup {NoOwner},
         plan : Plans \cup {None}, funded : BOOLEAN]
Idle == [pc |-> "idle", owner |-> NoOwner, plan |-> None, funded |-> FALSE]

Quiet == [kind |-> "none", owner |-> NoOwner, plan |-> None]
Replied(kind, owner, plan) == [kind |-> kind, owner |-> owner, plan |-> plan]

TypeOK ==
  /\ session \in [Clients -> Users \cup {None}]
  /\ quote \in [Quotes -> Quote \cup {NoQuote}]
  /\ task \in [Tasks -> Task]
  /\ verdict.kind \in {"none", "prepared", "limit", "cancelled"}

Init ==
  /\ session = [k \in Clients |-> None]
  /\ quote = [q \in Quotes |-> NoQuote]
  /\ task = [t \in Tasks |-> Idle]
  /\ verdict = Quiet

-----------------------------------------------------------------------------
(* Sessions, as far as quotes see them.                                    *)

\* Signing in stores a session over whatever the client had: no listener runs.
SignIn(k, u) ==
  /\ session[k] # u
  /\ session' = [session EXCEPT ![k] = u]
  /\ UNCHANGED <<quote, task>>
  /\ verdict' = Quiet

\* Logout, a failed rotation or a second 401: the session goes and the listener
\* cancels the client's active quotes.
SessionEnds(k) ==
  /\ session' = [session EXCEPT ![k] = None]
  /\ quote' = Invalidated(quote, k)
  /\ UNCHANGED task
  /\ verdict' = Quiet

-----------------------------------------------------------------------------
(* prepare_purchase.                                                       *)

PrepareStarts(t, k, plan) ==
  /\ task[t] = Idle
  /\ session[k] # None
  /\ task' = [task EXCEPT ![t] = [pc |-> "plan", owner |-> OwnerOf(k, session[k]),
                                  plan |-> plan, funded |-> FALSE]]
  /\ UNCHANGED <<session, quote>>
  /\ verdict' = Quiet

\* The plan is offered at a price: a wallet purchase goes on to the balance,
\* read with whatever session the client holds by now.
PlanRead(t) ==
  /\ task[t].pc = "plan"
  /\ \/ /\ task[t].plan \in WalletPlans
        /\ session[task[t].owner.client] # None
        /\ task' = [task EXCEPT ![t].pc = "balance"]
     \/ /\ task[t].plan \notin WalletPlans
        /\ task' = [task EXCEPT ![t].pc = "context"]
  /\ UNCHANGED <<session, quote>>
  /\ verdict' = Quiet

BalanceRead(t) ==
  /\ task[t].pc = "balance"
  /\ \E covers \in BOOLEAN :
       task' = [task EXCEPT ![t].pc = "context", ![t].funded = covers]
  /\ UNCHANGED <<session, quote>>
  /\ verdict' = Quiet

\* The destination is resolved or given up, and the quote is created.
Creates(t, q) ==
  LET me == task[t] IN
  /\ me.pc = "context"
  /\ quote[q] = NoQuote
  /\ quote' = Created(quote, q, me.owner, me.plan, me.funded)
  /\ verdict' = Replied(IF AtLimit(quote, me.owner, me.plan) THEN "limit" ELSE "prepared",
                        me.owner, me.plan)
  /\ task' = [task EXCEPT ![t] = Idle]
  /\ UNCHANGED session

\* An unavailable plan, a failed read, no session left for the balance, or a
\* call cancelled by its client: nothing was stored.
PrepareFails(t) ==
  /\ task[t] # Idle
  /\ task' = [task EXCEPT ![t] = Idle]
  /\ UNCHANGED <<session, quote>>
  /\ verdict' = Quiet

-----------------------------------------------------------------------------
CancelPrepared(k, q) ==
  /\ session[k] # None
  /\ Owned(quote, OwnerOf(k, session[k]), q)
  /\ quote' = Cancelled(quote, OwnerOf(k, session[k]), q)
  /\ verdict' = Replied("cancelled", OwnerOf(k, session[k]), quote[q].plan)
  /\ UNCHANGED <<session, task>>

\* expires_at passes; it makes no difference to a quote that is not active.
Lapses(q) ==
  /\ IsUsable(quote[q])
  /\ quote' = [quote EXCEPT ![q].lapsed = TRUE]
  /\ UNCHANGED <<session, task>>
  /\ verdict' = Quiet

Next ==
  \/ \E k \in Clients, u \in Users : SignIn(k, u)
  \/ \E k \in Clients : SessionEnds(k)
  \/ \E t \in Tasks, k \in Clients, plan \in Plans : PrepareStarts(t, k, plan)
  \/ \E t \in Tasks : PlanRead(t) \/ BalanceRead(t) \/ PrepareFails(t)
  \/ \E t \in Tasks, q \in Quotes : Creates(t, q)
  \/ \E k \in Clients, q \in Quotes : CancelPrepared(k, q)
  \/ \E q \in Quotes : Lapses(q)

Spec == Init /\ [][Next]_vars

-----------------------------------------------------------------------------
(* Properties.                                                             *)

\* However many preparations run at once, an owner never holds two usable
\* quotes for one plan and payment method: the user cannot confirm both.
OneUsableQuotePerChoice ==
  \A q, r \in Quotes :
    /\ IsUsable(quote[q]) /\ IsUsable(quote[r])
    /\ quote[q].owner = quote[r].owner /\ quote[q].plan = quote[r].plan
    => q = r

\* Concurrent preparations never take an owner past max_active_quotes_per_user.
UsableWithinLimit ==
  \A k \in Clients, u \in Users : Cardinality(ListActive(quote, OwnerOf(k, u))) <= MaxActive

\* "re-preparing an existing choice never trips" the limit (service.py:86-87):
\* an owner who still holds a usable quote for the plan is not refused.
RePrepareNeverRefused ==
  [][verdict'.kind = "limit" => Superseded(quote, verdict'.owner, verdict'.plan) = {}]_vars

\* A quote only leaves the usable state by its owner's cancellation, its own
\* expiry, its replacement for the same plan or the end of its client's session,
\* so another client or account can never take a prepared purchase away.
OnlyOwnerLosesQuote ==
  [][\A q \in Quotes :
       IsUsable(quote[q]) /\ ~IsUsable(quote'[q]) =>
         \/ quote'[q].lapsed
         \/ session'[quote[q].owner.client] = None
         \/ verdict'.owner = quote[q].owner /\ verdict'.plan = quote[q].plan]_vars
=============================================================================
