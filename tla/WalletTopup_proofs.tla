-------------------------- MODULE WalletTopup_proofs --------------------------
(***************************************************************************)
(* Proofs about the wallet top-up tools, for any number of clients,        *)
(* accounts, quotes, pages, calls, attempts and checks and any platform    *)
(* answers and limits.  One record is written under two locks, and a page  *)
(* may belong to the records of several quotes.  The argument: a call that *)
(* opens a page works on a quote no page of which the user was shown, a    *)
(* call that reads a payment on one whose only link the user has, so the   *)
(* two never meet on a record; and a record is only ever lost, and begun   *)
(* anew, for a quote that can no longer be used.                           *)
(***************************************************************************)
EXTENDS WalletTopup, AsyncLock_proofs, FiniteSetTheorems

-----------------------------------------------------------------------------
(* The inductive invariant.                                                *)

InFlight == {"ensuring", "asking"}

\* A call past its gates that opens a page: nothing final was answered for the
\* quote yet, and its record is the call's copy, or gone.
OpensOK(t) ==
  LET q == task[t].on  c == task[t].copy IN
  /\ task[t].record = q
  /\ c.status \in {"pending", "unresolved"} /\ c.page = None
  /\ checkout[q] \in {c, NoCheckout}
  /\ shown[q] = {}

\* A call past its gates that reads a payment: the user was given its link for
\* the record's quote, and the read is counted in the call's copy.
ChecksOK(t) ==
  LET q == task[t].record  c == task[t].copy IN
  /\ task[t].on \in Pages /\ task[t].on \in shown[q]
  /\ c.page = task[t].on /\ c.status = "open"
  /\ reads[q] <= c.checks
  /\ task[t].pc = "ensuring" => reads[q] < c.checks

\* Either holds its lock and owns its quote; its copy is the stored record, or
\* that of a quote which cannot be used any more and whose record began anew.
FlightOK(t) ==
  LET q == task[t].record  c == task[t].copy IN
  /\ lock[task[t].on].holder = t
  /\ q \in Quotes /\ quote[q].status # "none" /\ task[t].owner = quote[q].owner
  /\ c \in Checkout /\ c.owner = quote[q].owner /\ c.settled = "none"
  /\ \/ checkout[q] = c
     \/ /\ quote[q].status # "active" /\ checkout[q].page = None
        /\ checkout[q].attempts = 0 /\ checkout[q].checks = 0
  /\ task[t].pc = "asking" => task[t].user \in Users
  /\ IF task[t].on \in Quotes THEN OpensOK(t) ELSE ChecksOK(t)

CallOK(t) ==
  /\ task[t].pc # "idle" => task[t].on \in Quotes \cup Pages /\ task[t].owner \in Owner
  /\ task[t].pc \in InFlight => FlightOK(t)

\* A stored record is its quote's owner's, and tells what the platform has.
RecordOK(q) ==
  LET r == checkout[q] IN
  /\ r # NoCheckout => quote[q].status # "none" /\ r.owner = quote[q].owner
  /\ r.page = None => r.status # "open" /\ r.settled = "none"
  /\ r.page # None => r.status = "open" /\ r.page \in shown[q] /\ reads[q] <= r.checks
  /\ r.settled # "none" => page[r.page].state = r.settled
  /\ r.settled = "paid" => quote[q].status = "consumed"

\* One link, shown with the last answer: no request follows while the quote is
\* active, and no payment is read before.
LinkOK(q) ==
  /\ quote[q].status = "active" /\ shown[q] # {} => IsTerminal(checkout[q].status)
  /\ quote[q].status = "none" => shown[q] = {}
  /\ quote[q].status = "consumed" => \E p \in shown[q] : page[p].state = "paid"
  /\ \A p1, p2 \in shown[q] : p1 = p2
  /\ reads[q] <= MaxChecks
  /\ reads[q] > 0 => shown[q] # {}

QuoteOK(q) == RecordOK(q) /\ LinkOK(q)

IInv ==
  /\ TypeOK
  /\ \A t \in Tasks : CallOK(t)
  /\ \A q \in Quotes : QuoteOK(q)

-----------------------------------------------------------------------------
(* What a step must do.                                                    *)

\* TopupRecordNeverRegresses, of one quote.
NoRegress(q) ==
  LET old == checkout[q]  new == checkout'[q] IN
  old.status # "none" /\ new.status # "none" =>
    /\ new.attempts >= old.attempts /\ new.checks >= old.checks
    /\ old.page # None => new.page = old.page
    /\ old.settled # "none" => new.settled = old.settled

StepOK == IInv' /\ \A q \in Quotes : NoRegress(q)

\* A call goes on as it was, in the lock it holds; the page the platform has
\* for it by now makes no difference.
GoesOn(t) ==
  /\ task'[t].pc = task[t].pc /\ task'[t].owner = task[t].owner /\ task'[t].on = task[t].on
  /\ task'[t].record = task[t].record /\ task'[t].copy = task[t].copy /\ task'[t].user = task[t].user
  /\ task[t].pc \in InFlight => lock'[task[t].on].holder = t

-----------------------------------------------------------------------------
(* Quotes.                                                                 *)

QuoteMap == [Quotes -> Quote \cup {NoQuote}]

\* What may happen to quotes outside a completed top-up: they are created, or
\* cancelled, or lapse.
Moves(old, new) ==
  /\ new \in QuoteMap
  /\ \A r \in Quotes :
       \/ new[r].status = old[r].status /\ new[r].owner = old[r].owner
       \/ old[r].status = "active" /\ new[r].status = "cancelled" /\ new[r].owner = old[r].owner
       \/ old[r].status = "none" /\ new[r].status = "active"

\* Cancelling active quotes moves them as Moves allows.
LEMMA CancellingMoves ==
  ASSUME NEW quotes \in QuoteMap, NEW qs,
         \A r \in qs : r \in Quotes /\ quotes[r].status = "active"
  PROVE  Moves(quotes, Marked(quotes, qs, "cancelled"))
<1> DEFINE new == Marked(quotes, qs, "cancelled")
<1>1. ASSUME NEW r \in Quotes, r \in qs
      PROVE  /\ new[r] \in Quote
             /\ quotes[r].status = "active" /\ new[r].status = "cancelled" /\ new[r].owner = quotes[r].owner
  <2>1. quotes[r] \in Quote
    BY <1>1 DEF QuoteMap, Quote, NoQuote
  <2>2. new[r] = [quotes[r] EXCEPT !.status = "cancelled"]
    BY <1>1 DEF Marked
  <2> QED BY <1>1, <2>1, <2>2 DEF Quote, QuoteStates
<1>2. ASSUME NEW r \in Quotes, r \notin qs
      PROVE  new[r] = quotes[r]
  BY <1>2 DEF Marked
<1>3. new = [r \in Quotes |-> new[r]]
  BY DEF Marked
<1> HIDE DEF new
<1>4. new \in QuoteMap
  BY <1>1, <1>2, <1>3 DEF QuoteMap
<1> QED BY <1>1, <1>2, <1>4 DEF Moves, new

\* Nothing moves.
LEMMA SameMoves ==
  ASSUME NEW quotes \in QuoteMap
  PROVE  Moves(quotes, quotes)
  BY DEF Moves

\* create() and invalidate_session() only move quotes that way.
LEMMA CreatedMoves ==
  ASSUME NEW quotes \in QuoteMap, NEW q \in Quotes, quotes[q] = NoQuote,
         NEW owner \in Owner, NEW item \in Items
  PROVE  Moves(quotes, Created(quotes, q, owner, item))
<1> DEFINE kept == Marked(quotes, Superseded(quotes, owner, item), "cancelled")
<1>1. Moves(quotes, kept)
  BY CancellingMoves DEF Superseded, ListActive, Effective
<1> HIDE DEF kept
<1>2. Prepared(owner, item) \in Quote /\ Prepared(owner, item).status = "active"
  BY DEF Prepared, Quote, QuoteStates
<1>3. quotes[q].status = "none"
  BY DEF NoQuote
<1>4. Moves(quotes, [kept EXCEPT ![q] = Prepared(owner, item)])
  BY <1>1, <1>2, <1>3 DEF Moves, QuoteMap
<1> QED BY <1>1, <1>4 DEF Created, kept

LEMMA InvalidatedMoves ==
  ASSUME NEW quotes \in QuoteMap, NEW k \in Clients
  PROVE  /\ Moves(quotes, Invalidated(quotes, k))
         /\ \A r \in Quotes : Invalidated(quotes, k)[r].status = "active" => quotes[r].owner.client # k
<1>1. Moves(quotes, Invalidated(quotes, k))
  BY CancellingMoves DEF Invalidated, Held
<1>2. ASSUME NEW r \in Quotes, Invalidated(quotes, k)[r].status = "active"
      PROVE  quotes[r].owner.client # k
  <2>1. CASE quotes[r] = NoQuote
    BY <1>2, <2>1 DEF Invalidated, Held, Marked, NoQuote
  <2>2. CASE quotes[r] \in Quote
    BY <1>2, <2>2 DEF Invalidated, Held, Marked, Quote
  <2> QED BY <2>1, <2>2 DEF QuoteMap
<1> QED BY <1>1, <1>2

-----------------------------------------------------------------------------
(* Records.                                                                *)

LEMMA NoCheckoutFacts ==
  /\ NoCheckout.page = None /\ NoCheckout.settled = "none" /\ NoCheckout.status = "none"
  /\ NoCheckout.owner = NoOwner /\ NoCheckout.attempts = 0 /\ NoCheckout.checks = 0
  BY DEF NoCheckout, NewCheckout

LEMMA CheckoutFacts ==
  ASSUME NEW r \in Checkout
  PROVE  /\ r # NoCheckout /\ r.status # "none" /\ r.owner \in Owner
         /\ r.attempts \in Nat /\ r.checks \in Nat /\ r.checks <= MaxChecks
  BY NoCheckoutFacts, WalletTopupAssumption DEF Checkout

LEMMA RecordType ==
  ASSUME IInv, NEW q \in Quotes
  PROVE  /\ checkout[q] \in Checkout \cup {NoCheckout}
         /\ checkout[q].attempts \in Nat /\ checkout[q].checks \in Nat
         /\ checkout[q].settled \in {"none", "paid", "failed"}
         /\ reads[q] \in Nat /\ shown[q] \in SUBSET Pages
<1>1. TypeOK
  BY DEF IInv
<1>2. checkout[q] \in Checkout \cup {NoCheckout} /\ reads[q] \in Nat /\ shown[q] \in SUBSET Pages
  BY <1>1 DEF TypeOK
<1>3. CASE checkout[q] = NoCheckout
  BY <1>2, <1>3, NoCheckoutFacts
<1>4. CASE checkout[q] \in Checkout
  <2>1. checkout[q].settled \in {"none", "paid", "failed"}
    BY <1>4 DEF Checkout
  <2> QED BY <1>2, <1>4, <2>1, CheckoutFacts
<1> QED BY <1>2, <1>3, <1>4

\* A record that is not written does not regress.
LEMMA SameRecord == ASSUME IInv, NEW q \in Quotes, checkout'[q] = checkout[q] PROVE NoRegress(q)
  BY RecordType DEF NoRegress

\* A call that is past its gates, and the record it works with.
LEMMA FlightFacts ==
  ASSUME IInv, NEW t \in Tasks, task[t].pc \in InFlight
  PROVE  /\ TypeOK /\ FlightOK(t) /\ task[t].record \in Quotes /\ QuoteOK(task[t].record)
         /\ task[t] \in Task /\ task[t].on \in Quotes \cup Pages /\ task[t].owner \in Owner
         /\ task[t].copy \in Checkout
         /\ task[t].on \notin Quotes => task[t].on \in Pages
         /\ lock[task[t].on] \in LockType(Tasks)
  BY DEF IInv, CallOK, FlightOK, ChecksOK, InFlight, TypeOK

\* While no link of a quote was shown, its record is the business of the holder
\* of its lock.
LEMMA NobodyOpens ==
  ASSUME IInv, NEW t, NEW q \in Quotes, shown[q] = {}, lock[q].holder \in {t, Nobody},
         NEW u \in Tasks, u # t, task[u].pc \in InFlight
  PROVE  task[u].record # q
<1> SUFFICES ASSUME task[u].record = q PROVE FALSE
  OBVIOUS
<1>1. FlightOK(u)
  BY FlightFacts
<1>2. CASE task[u].on \in Quotes
  BY <1>1, <1>2, WalletTopupAssumption DEF FlightOK, OpensOK
<1>3. CASE task[u].on \notin Quotes
  BY <1>1, <1>3 DEF FlightOK, ChecksOK
<1> QED BY <1>2, <1>3

\* A link that was shown is the business of the holder of its payment's lock.
LEMMA NobodyChecks ==
  ASSUME IInv, NEW t, NEW q \in Quotes, NEW p \in shown[q], lock[p].holder \in {t, Nobody},
         NEW u \in Tasks, u # t, task[u].pc \in InFlight
  PROVE  task[u].record # q
<1> SUFFICES ASSUME task[u].record = q PROVE FALSE
  OBVIOUS
<1>1. FlightOK(u) /\ QuoteOK(q)
  BY FlightFacts
<1>2. \A p1 \in shown[q] : p1 = p
  BY <1>1 DEF QuoteOK, LinkOK
<1>3. CASE task[u].on \in Quotes
  BY <1>1, <1>2, <1>3 DEF FlightOK, OpensOK
<1>4. CASE task[u].on \notin Quotes
  BY <1>1, <1>2, <1>4, WalletTopupAssumption DEF FlightOK, ChecksOK
<1> QED BY <1>3, <1>4

-----------------------------------------------------------------------------
(* Steps outside the two tools.                                            *)

\* A payment that was made, or can no longer be made, stays that way.
PagesMove == \A p \in Pages : page'[p] = page[p] \/ page[p].state \notin {"paid", "failed"}

\* Quotes move as Moves allows, a record goes only with its quote's activity,
\* and a call goes on as it was, or ends, or starts to wait.
LEMMA EnvStep ==
  ASSUME IInv, TypeOK', Moves(quote, quote'), PagesMove,
         UNCHANGED <<reads, shown>>,
         \A q \in Quotes : \/ checkout'[q] = checkout[q]
                           \/ checkout'[q] = NoCheckout /\ quote'[q].status # "active",
         \A t \in Tasks : \/ GoesOn(t)
                          \/ task'[t].pc = "idle"
                          \/ task'[t].pc = "waiting" /\ task'[t].on \in Quotes \cup Pages /\ task'[t].owner \in Owner
  PROVE  StepOK
<1>1. ASSUME NEW q \in Quotes
      PROVE  \/ quote'[q].status = quote[q].status /\ quote'[q].owner = quote[q].owner
             \/ quote[q].status = "active" /\ quote'[q].status = "cancelled" /\ quote'[q].owner = quote[q].owner
             \/ quote[q].status = "none" /\ quote'[q].status = "active"
  BY DEF Moves
<1>2. ASSUME NEW q \in Quotes, NEW p \in shown[q]
      PROVE  page[p].state \in {"paid", "failed"} => page'[p].state = page[p].state
  BY RecordType DEF PagesMove
<1>3. ASSUME NEW q \in Quotes PROVE QuoteOK(q)'
  <2>1. RecordOK(q) /\ LinkOK(q)
    BY DEF IInv, QuoteOK
  <2>2. RecordOK(q)'
    <3>1. CASE checkout'[q] = checkout[q]
      <4>1. checkout[q].settled # "none" => page'[checkout[q].page].state = checkout[q].settled
        BY <1>2, <2>1, RecordType DEF RecordOK
      <4> QED BY <1>1, <2>1, <3>1, <4>1 DEF RecordOK
    <3>2. CASE checkout'[q] = NoCheckout
      BY <3>2, NoCheckoutFacts DEF RecordOK
    <3> QED BY <3>1, <3>2
  <2>3. LinkOK(q)'
    <3>1. CASE quote[q].status = "none"
      BY <1>1, <2>1, <3>1 DEF LinkOK
    <3>2. CASE quote[q].status # "none"
      BY <1>1, <1>2, <2>1, <3>2 DEF LinkOK
    <3> QED BY <3>1, <3>2
  <2> QED BY <2>2, <2>3 DEF QuoteOK
<1>4. ASSUME NEW t \in Tasks, task'[t].pc \in InFlight PROVE FlightOK(t)'
  <2>1. GoesOn(t) /\ lock'[task[t].on].holder = t /\ task[t].pc \in InFlight
    BY <1>4 DEF InFlight, GoesOn
  <2>2. FlightOK(t)
    BY <2>1, FlightFacts
  <2>3. PICK q \in Quotes : q = task[t].record /\ q = task'[t].record
    BY <2>1, <2>2 DEF FlightOK, GoesOn
  <2>4. quote'[q].status # "none" /\ quote'[q].owner = quote[q].owner
        /\ (quote[q].status # "active" => quote'[q].status # "active")
    BY <1>1, <2>2, <2>3 DEF FlightOK
  <2>5. PICK c \in Checkout : c = task[t].copy /\ c = task'[t].copy
    BY <2>1, <2>2 DEF FlightOK, GoesOn
  <2>6. \/ checkout'[q] = c
        \/ /\ quote'[q].status # "active" /\ checkout'[q].page = None
           /\ checkout'[q].attempts = 0 /\ checkout'[q].checks = 0
    BY <2>2, <2>3, <2>4, <2>5, NoCheckoutFacts DEF FlightOK
  <2>7. IF task[t].on \in Quotes THEN OpensOK(t)' ELSE ChecksOK(t)'
    BY <2>1, <2>2, <2>3, <2>5 DEF FlightOK, GoesOn, OpensOK, ChecksOK
  <2> QED BY <2>1, <2>2, <2>3, <2>4, <2>5, <2>6, <2>7 DEF FlightOK, GoesOn
<1>5. ASSUME NEW t \in Tasks PROVE CallOK(t)'
  <2>1. task'[t].pc # "idle" => task'[t].on \in Quotes \cup Pages /\ task'[t].owner \in Owner
    BY DEF IInv, CallOK, GoesOn
  <2> QED BY <2>1, <1>4 DEF CallOK
<1>6. ASSUME NEW q \in Quotes PROVE NoRegress(q)
  <2>1. CASE checkout'[q] = checkout[q]
    BY <2>1, SameRecord
  <2>2. CASE checkout'[q] = NoCheckout
    BY <2>2, NoCheckoutFacts DEF NoRegress
  <2> QED BY <2>1, <2>2
<1> QED BY <1>3, <1>5, <1>6 DEF IInv, StepOK

\* The calls and their locks as they were.
LEMMA CallsGoOn ==
  ASSUME IInv, UNCHANGED <<lock, task>>
  PROVE  \A t \in Tasks : GoesOn(t)
  BY FlightFacts DEF FlightOK, GoesOn

\* A step outside the tools: only quotes and pages move.
LEMMA OutsideStep ==
  ASSUME IInv, TypeOK', Moves(quote, quote'), PagesMove,
         UNCHANGED <<checkout, lock, task, reads, shown>>
  PROVE  StepOK
  BY EnvStep, CallsGoOn

\* Who is signed in, and what is being prepared, is no business of a call.
LEMMA AsideStep ==
  ASSUME IInv, session' \in [Clients -> Users \cup {None}], preparing' \in SUBSET Owner,
         UNCHANGED <<quote, store, calls, platform, reads>>
  PROVE  StepOK
<1>1. TypeOK'
  BY DEF IInv, TypeOK, store, calls, platform
<1>2. Moves(quote, quote') /\ PagesMove
  BY SameMoves DEF IInv, TypeOK, QuoteMap, PagesMove, platform
<1> QED BY <1>1, <1>2, OutsideStep DEF store, calls, platform

LEMMA SignInStep == ASSUME IInv, NEW k \in Clients, NEW u \in Users, SignIn(k, u) PROVE StepOK
<1>1. session' \in [Clients -> Users \cup {None}] /\ preparing' \in SUBSET Owner
  BY DEF IInv, TypeOK, SignIn
<1> QED BY <1>1, AsideStep DEF SignIn

LEMMA PrepareStartsStep == ASSUME IInv, NEW k \in Clients, PrepareStarts(k) PROVE StepOK
<1>1. OwnerOf(k, session[k]) \in Owner
  BY DEF IInv, TypeOK, PrepareStarts, OwnerOf, Owner
<1>2. session' \in [Clients -> Users \cup {None}] /\ preparing' \in SUBSET Owner
  BY <1>1 DEF IInv, TypeOK, PrepareStarts
<1> QED BY <1>2, AsideStep DEF PrepareStarts

LEMMA PrepareFailsStep == ASSUME IInv, NEW owner \in Owner, PrepareFails(owner) PROVE StepOK
<1>1. session' \in [Clients -> Users \cup {None}] /\ preparing' \in SUBSET Owner
  BY DEF IInv, TypeOK, PrepareFails
<1> QED BY <1>1, AsideStep DEF PrepareFails

LEMMA PreparesStep ==
  ASSUME IInv, NEW owner \in Owner, NEW q \in Quotes, NEW amount \in Items, NEW o \in Limits,
         Prepares(owner, q, amount, o)
  PROVE  StepOK
<1>1. Moves(quote, quote')
  BY CreatedMoves DEF IInv, TypeOK, Prepares, QuoteMap
<1>2. TypeOK'
  BY <1>1 DEF IInv, TypeOK, Prepares, Moves, QuoteMap, store, calls, platform
<1> QED BY <1>1, <1>2, OutsideStep DEF Prepares, PagesMove, store, calls, platform

LEMMA LapsesStep == ASSUME IInv, NEW q \in Quotes, Lapses(q) PROVE StepOK
<1>1. quote[q] \in Quote
  BY DEF IInv, TypeOK, Lapses, Effective, Quote, NoQuote
<1>2. Moves(quote, quote')
  BY <1>1 DEF IInv, TypeOK, Lapses, Moves, QuoteMap, Quote
<1>3. TypeOK'
  BY <1>2 DEF IInv, TypeOK, Lapses, Moves, QuoteMap, store, calls, platform
<1> QED BY <1>2, <1>3, OutsideStep DEF Lapses, PagesMove, store, calls, platform

LEMMA PaymentMovesStep ==
  ASSUME IInv, NEW p \in Pages, NEW s \in TopupStates, PaymentMoves(p, s) PROVE StepOK
<1>1. page[p] # NoPage /\ page[p].state \notin {"paid", "failed"}
  BY DEF PaymentMoves, NoPage
<1>2. page[p] \in Page
  BY <1>1 DEF IInv, TypeOK
<1>3. [page[p] EXCEPT !.state = s] \in Page
  BY <1>2 DEF Page
<1>4. page' = [page EXCEPT ![p].state = s]
  BY DEF PaymentMoves
<1>5. TypeOK'
  BY <1>3, <1>4 DEF IInv, TypeOK, PaymentMoves, store, calls
<1>6. PagesMove
  BY <1>1, <1>4 DEF IInv, TypeOK, PagesMove
<1>7. Moves(quote, quote')
  BY SameMoves DEF IInv, TypeOK, PaymentMoves, QuoteMap
<1> QED BY <1>5, <1>6, <1>7, OutsideStep DEF PaymentMoves, store, calls

\* The platform finds or makes a page for the request of a call.
LEMMA PageOpensStep == ASSUME IInv, NEW t \in Tasks, NEW p \in Pages, PageOpens(t, p) PROVE StepOK
<1>1. /\ task[t].pc = "asking" /\ task[t].on \in Quotes
      /\ UNCHANGED <<session, preparing, quote, checkout, older, lock, shown, reads>>
  BY DEF PageOpens, store
<1>2. TypeOK /\ FlightOK(t) /\ task[t] \in Task
  BY <1>1, FlightFacts DEF InFlight
<1>3. PICK new : new = [user |-> task[t].user, item |-> quote[task[t].on].item, state |-> "pending"]
  OBVIOUS
<1>4. /\ IF PendingFor(task[t].user, quote[task[t].on].item) # {}
         THEN p \in PendingFor(task[t].user, quote[task[t].on].item) ELSE page[p] = NoPage
      /\ page' = [page EXCEPT ![p] = new]
      /\ Become(t, [task[t] EXCEPT !.got = p])
  BY <1>3 DEF PageOpens
<1>5. page[p] = new \/ page[p] = NoPage
  BY <1>3, <1>4 DEF PendingFor
<1>6. PagesMove
  BY <1>2, <1>4, <1>5 DEF PagesMove, TypeOK, NoPage
<1>7. new \in Page
  <2>1. task[t].user \in Users /\ quote[task[t].on].status # "none"
    BY <1>1, <1>2 DEF FlightOK, OpensOK
  <2>2. quote[task[t].on] \in Quote
    BY <1>1, <1>2, <2>1 DEF TypeOK, NoQuote
  <2> QED BY <1>3, <2>1, <2>2 DEF Page, Quote, TopupStates
<1>8. PICK d \in Task : d = [task[t] EXCEPT !.got = p]
  BY <1>2 DEF Task
<1>9. /\ task' \in [Tasks -> Task] /\ task'[t] = d
      /\ \A u \in Tasks : u # t => task'[u] = task[u]
  BY <1>2, <1>4, <1>8 DEF TypeOK, Become
<1>10. /\ d.pc = task[t].pc /\ d.owner = task[t].owner /\ d.on = task[t].on
       /\ d.record = task[t].record /\ d.copy = task[t].copy /\ d.user = task[t].user
  BY <1>2, <1>8 DEF Task
<1>11. TypeOK'
  BY <1>1, <1>2, <1>4, <1>7, <1>9 DEF TypeOK
<1>12. \A u \in Tasks : GoesOn(u)
  BY <1>1, <1>9, <1>10, FlightFacts DEF GoesOn, FlightOK
<1>13. Moves(quote, quote')
  BY <1>1, <1>2, SameMoves DEF TypeOK, QuoteMap
<1> QED BY <1>1, <1>6, <1>11, <1>12, <1>13, EnvStep

\* The end of a session drops a record only with its quote's activity.
LEMMA InvalidateFacts ==
  ASSUME IInv, NEW k \in Clients, Invalidate(k)
  PROVE  /\ session' \in [Clients -> Users \cup {None}]
         /\ Moves(quote, quote')
         /\ checkout' \in [Quotes -> Checkout \cup {NoCheckout}]
         /\ older' \in SUBSET (Quotes \X Quotes)
         /\ \A q \in Quotes : \/ checkout'[q] = checkout[q]
                              \/ checkout'[q] = NoCheckout /\ quote'[q].status # "active"
<1>1. Moves(quote, quote') /\ \A q \in Quotes : quote'[q].status = "active" => quote[q].owner.client # k
  BY InvalidatedMoves DEF IInv, TypeOK, Invalidate, QuoteMap
<1>2. ASSUME NEW q \in Quotes
      PROVE  \/ checkout'[q] = checkout[q]
             \/ checkout'[q] = NoCheckout /\ quote'[q].status # "active"
  <2>1. CASE checkout[q].owner.client = k
    <3>1. checkout[q] # NoCheckout
      BY <2>1, NoCheckoutFacts, WalletTopupAssumption DEF NoOwner
    <3>2. quote[q].owner.client = k
      BY <2>1, <3>1 DEF IInv, QuoteOK, RecordOK
    <3> QED BY <1>1, <2>1, <3>2 DEF Invalidate
  <2>2. CASE checkout[q].owner.client # k
    BY <2>2 DEF Invalidate
  <2> QED BY <2>1, <2>2
<1>3. session' \in [Clients -> Users \cup {None}]
  BY DEF IInv, TypeOK, Invalidate
<1>4. checkout' \in [Quotes -> Checkout \cup {NoCheckout}] /\ older' \in SUBSET (Quotes \X Quotes)
  BY DEF IInv, TypeOK, Invalidate
<1> QED BY <1>1, <1>2, <1>3, <1>4

LEMMA SessionEndsStep == ASSUME IInv, NEW k \in Clients, SessionEnds(k) PROVE StepOK
<1>1. Invalidate(k) /\ UNCHANGED <<preparing, lock, task, reads, shown, page>>
  BY DEF SessionEnds, calls, platform
<1>2. TypeOK'
  BY <1>1, InvalidateFacts DEF IInv, TypeOK, Moves, QuoteMap
<1> QED BY <1>1, <1>2, InvalidateFacts, EnvStep, CallsGoOn DEF PagesMove

-----------------------------------------------------------------------------
(* Calls that end with nothing recorded, or start to wait.                 *)

LEMMA IdleType == Idle \in Task /\ Idle.pc = "idle"
  BY DEF Idle, Doing, Task

LEMMA BecomeType ==
  ASSUME TypeOK, NEW t \in Tasks, NEW d \in Task, Become(t, d)
  PROVE  /\ task' \in [Tasks -> Task] /\ task'[t] = d
         /\ \A u \in Tasks : u # t => task'[u] = task[u]
  BY DEF TypeOK, Become

\* Of the locks and the calls, only x and t may change, to what they may be.
OneMoves(t, x) ==
  /\ lock' \in [Quotes \cup Pages -> LockType(Tasks)]
  /\ \A y \in Quotes \cup Pages : y # x => lock'[y] = lock[y]
  /\ task' \in [Tasks -> Task]
  /\ \A u \in Tasks : u # t => task'[u] = task[u]

LEMMA EndsType ==
  ASSUME TypeOK, NEW t \in Tasks, NEW x \in Quotes \cup Pages, NEW l \in LockType(Tasks), Ends(t, x, l)
  PROVE  OneMoves(t, x) /\ task'[t].pc = "idle"
<1>1. Leave(l) \in LockType(Tasks)
  BY LeaveType
<1>2. lock' = [lock EXCEPT ![x] = Leave(l)] /\ Become(t, Idle)
  BY DEF Ends
<1>3. /\ lock' \in [Quotes \cup Pages -> LockType(Tasks)]
      /\ \A y \in Quotes \cup Pages : y # x => lock'[y] = lock[y]
  BY <1>1, <1>2 DEF TypeOK
<1> QED BY <1>2, <1>3, IdleType, BecomeType DEF OneMoves

\* The calls past their gates keep their locks when t takes or leaves its own.
LEMMA OthersGoOn ==
  ASSUME IInv, NEW t \in Tasks, NEW x \in Quotes \cup Pages, OneMoves(t, x),
         lock[x].holder \in {t, Nobody} \/ lock'[x].holder = lock[x].holder
  PROVE  \A u \in Tasks : u # t => GoesOn(u)
<1> SUFFICES ASSUME NEW u \in Tasks, u # t PROVE GoesOn(u)
  OBVIOUS
<1>1. task'[u] = task[u]
  BY DEF OneMoves
<1>2. ASSUME task[u].pc \in InFlight PROVE lock'[task[u].on].holder = u
  <2>1. lock[task[u].on].holder = u /\ task[u].on \in Quotes \cup Pages
    BY <1>2, FlightFacts DEF FlightOK
  <2> QED BY <2>1, WalletTopupAssumption DEF OneMoves
<1> QED BY <1>1, <1>2 DEF GoesOn

\* A call ends or starts to wait, with no record changed.
LEMMA AsideCallStep ==
  ASSUME IInv, NEW t \in Tasks, NEW x \in Quotes \cup Pages, OneMoves(t, x),
         lock[x].holder \in {t, Nobody} \/ lock'[x].holder = lock[x].holder,
         task'[t].pc = "waiting" => task'[t].on = x /\ task'[t].owner \in Owner,
         task'[t].pc \in {"idle", "waiting"},
         UNCHANGED <<session, preparing, quote, store, platform, reads>>
  PROVE  StepOK
<1>1. TypeOK
  BY DEF IInv
<1>2. TypeOK'
  BY <1>1 DEF TypeOK, OneMoves, store, platform
<1>3. Moves(quote, quote') /\ PagesMove
  BY <1>1, SameMoves DEF TypeOK, QuoteMap, PagesMove, platform
<1>4. \A u \in Tasks : u # t => GoesOn(u)
  BY OthersGoOn
<1> QED BY <1>2, <1>3, <1>4, EnvStep DEF store, platform

\* A call leaves its lock.
LEMMA LeavesStep ==
  ASSUME IInv, NEW t \in Tasks, NEW x \in Quotes \cup Pages, NEW l \in LockType(Tasks),
         lock[x].holder \in {t, Nobody}, Ends(t, x, l),
         UNCHANGED <<session, preparing, quote, store, platform, reads>>
  PROVE  StepOK
<1>1. OneMoves(t, x) /\ task'[t].pc = "idle"
  BY EndsType DEF IInv
<1> QED BY <1>1, AsideCallStep

\* The client cancels a call.
LEMMA CancelStep == ASSUME IInv, NEW t \in Tasks, Cancel(t) PROVE StepOK
<1>1. /\ TypeOK /\ task[t].pc # "idle" /\ Become(t, Idle)
      /\ UNCHANGED <<session, preparing, quote, store, platform, reads>>
  BY DEF IInv, Cancel
<1>2. PICK x \in Quotes \cup Pages : x = task[t].on
  BY <1>1 DEF IInv, CallOK
<1>3. lock' = [lock EXCEPT ![x] = Withdraw(@, t)] /\ lock[x] \in LockType(Tasks)
  BY <1>1, <1>2 DEF Cancel, TypeOK
<1>4. /\ Withdraw(lock[x], t) \in LockType(Tasks)
      /\ lock[x].holder # t => Withdraw(lock[x], t).holder = lock[x].holder
  BY <1>3, WithdrawType
<1>5. /\ lock' \in [Quotes \cup Pages -> LockType(Tasks)]
      /\ \A y \in Quotes \cup Pages : y # x => lock'[y] = lock[y]
      /\ lock[x].holder \in {t, Nobody} \/ lock'[x].holder = lock[x].holder
  BY <1>1, <1>3, <1>4 DEF TypeOK
<1>6. OneMoves(t, x) /\ task'[t].pc = "idle"
  BY <1>1, <1>5, IdleType, BecomeType DEF OneMoves
<1> QED BY <1>1, <1>5, <1>6, AsideCallStep

\* The session was lost while the call ensured it.
LEMMA SessionIsLostStep == ASSUME IInv, NEW t \in Tasks, SessionIsLost(t) PROVE StepOK
<1>1. /\ task[t].pc = "ensuring" /\ Ends(t, task[t].on, lock[task[t].on])
      /\ UNCHANGED <<preparing, page, shown, reads>>
  BY DEF SessionIsLost, platform
<1>2. /\ TypeOK /\ task[t].owner \in Owner /\ lock[task[t].on] \in LockType(Tasks) /\ FlightOK(t)
      /\ task[t].on \in Quotes \cup Pages
  BY <1>1, FlightFacts DEF InFlight
<1>3. PICK x \in Quotes \cup Pages : x = task[t].on /\ lock[x].holder = t
  BY <1>2 DEF FlightOK
<1>4. OneMoves(t, x) /\ task'[t].pc = "idle"
  BY <1>1, <1>2, <1>3, EndsType
<1>5. /\ session' \in [Clients -> Users \cup {None}]
      /\ Moves(quote, quote')
      /\ checkout' \in [Quotes -> Checkout \cup {NoCheckout}]
      /\ older' \in SUBSET (Quotes \X Quotes)
      /\ \A q \in Quotes : \/ checkout'[q] = checkout[q]
                           \/ checkout'[q] = NoCheckout /\ quote'[q].status # "active"
  <2>1. task[t].owner.client \in Clients
    BY <1>2 DEF Owner
  <2>2. CASE Invalidate(task[t].owner.client)
    BY <2>1, <2>2, InvalidateFacts
  <2>3. CASE UNCHANGED <<session, quote, store>>
    BY <1>2, <2>3, SameMoves DEF TypeOK, QuoteMap, store
  <2> QED BY <2>2, <2>3 DEF SessionIsLost
<1>6. TypeOK'
  BY <1>1, <1>2, <1>4, <1>5 DEF TypeOK, Moves, QuoteMap, OneMoves
<1>7. \A u \in Tasks : u # t => GoesOn(u)
  BY <1>3, <1>4, OthersGoOn
<1> QED BY <1>1, <1>4, <1>5, <1>6, <1>7, EnvStep DEF PagesMove

-----------------------------------------------------------------------------
(* Steps of the call that holds a lock.                                    *)

\* A step of the call t under the lock x, about the quote q.
OnlyTouches(t, x, q) ==
  /\ lock[x].holder \in {t, Nobody}
  /\ OneMoves(t, x)
  /\ \A r \in Quotes : r # q => /\ quote'[r] = quote[r] /\ checkout'[r] = checkout[r]
                                /\ shown'[r] = shown[r] /\ reads'[r] = reads[r]
  /\ page' = page

\* Such a step keeps the invariant when it does so for its own quote and call.
LEMMA HolderStep ==
  ASSUME IInv, TypeOK', NEW t \in Tasks, NEW x \in Quotes \cup Pages, NEW q \in Quotes, OnlyTouches(t, x, q),
         \A u \in Tasks : u # t /\ task[u].pc \in InFlight => task[u].record # q \/ FlightOK(u)',
         CallOK(t)', QuoteOK(q)', NoRegress(q)
  PROVE  StepOK
<1>1. ASSUME NEW u \in Tasks PROVE CallOK(u)'
  <2>1. CASE u = t
    BY <2>1
  <2>2. CASE u # t /\ task[u].pc \notin InFlight
    BY <2>2 DEF OnlyTouches, OneMoves, IInv, CallOK
  <2>3. CASE u # t /\ task[u].pc \in InFlight
    <3>1. task'[u] = task[u] /\ CallOK(u)
      BY <2>3 DEF OnlyTouches, OneMoves, IInv
    <3>2. CASE task[u].record # q
      <4>1. FlightOK(u) /\ task[u].on \in Quotes \cup Pages
        BY <2>3, FlightFacts
      <4>2. task[u].on # x
        BY <2>3, <4>1, WalletTopupAssumption DEF OnlyTouches, FlightOK
      <4>3. PICK r \in Quotes : r = task[u].record /\ r # q
        BY <3>2, <4>1 DEF FlightOK
      <4>4. lock'[task[u].on] = lock[task[u].on]
        BY <4>1, <4>2 DEF OnlyTouches, OneMoves
      <4>5. /\ quote'[r] = quote[r] /\ checkout'[r] = checkout[r]
            /\ shown'[r] = shown[r] /\ reads'[r] = reads[r]
        BY <4>3 DEF OnlyTouches
      <4>6. CASE task[u].on \in Quotes
        <5>1. OpensOK(u)'
          BY <3>1, <4>1, <4>3, <4>5, <4>6 DEF FlightOK, OpensOK
        <5> QED BY <3>1, <4>1, <4>3, <4>4, <4>5, <4>6, <5>1 DEF FlightOK, CallOK
      <4>7. CASE task[u].on \notin Quotes
        <5>1. ChecksOK(u)'
          BY <3>1, <4>1, <4>3, <4>5, <4>7 DEF FlightOK, ChecksOK
        <5> QED BY <3>1, <4>1, <4>3, <4>4, <4>5, <4>7, <5>1 DEF FlightOK, CallOK
      <4> QED BY <4>6, <4>7
    <3>3. CASE task[u].record = q
      BY <2>3, <3>1, <3>3 DEF CallOK
    <3> QED BY <3>2, <3>3
  <2> QED BY <2>1, <2>2, <2>3
<1>2. ASSUME NEW r \in Quotes, r # q PROVE QuoteOK(r)' /\ NoRegress(r)
  <2>1. /\ quote'[r] = quote[r] /\ checkout'[r] = checkout[r]
        /\ shown'[r] = shown[r] /\ reads'[r] = reads[r] /\ page' = page
    BY <1>2 DEF OnlyTouches
  <2>2. QuoteOK(r)
    BY DEF IInv
  <2>3. RecordOK(r)'
    BY <2>1, <2>2 DEF QuoteOK, RecordOK
  <2>4. LinkOK(r)'
    BY <2>1, <2>2 DEF QuoteOK, LinkOK
  <2>5. NoRegress(r)
    BY <2>1, SameRecord
  <2> QED BY <2>3, <2>4, <2>5 DEF QuoteOK
<1> QED BY <1>1, <1>2 DEF IInv, StepOK

\* What save() leaves in the store.
LEMMA SaveType ==
  ASSUME TypeOK, NEW q \in Quotes, NEW r \in Checkout, Save(q, r)
  PROVE  /\ checkout' \in [Quotes -> Checkout \cup {NoCheckout}] /\ checkout'[q] = r
         /\ \A s \in Quotes : s # q => checkout'[s] = checkout[s]
         /\ older' \in SUBSET (Quotes \X Quotes)
<1>1. checkout' = [checkout EXCEPT ![q] = r]
  BY DEF Save
<1>2. older' \in SUBSET (Quotes \X Quotes)
  BY DEF Save, TypeOK
<1> QED BY <1>1, <1>2 DEF TypeOK

LEMMA DoingType ==
  ASSUME NEW pc \in {"waiting", "ensuring"}, NEW owner \in Owner, NEW x \in Quotes \cup Pages,
         NEW q \in Quotes \cup {None}, NEW c \in Checkout \cup {NoCheckout}
  PROVE  LET d == Doing(pc, owner, x, q, c, None) IN
         d \in Task /\ d.pc = pc /\ d.owner = owner /\ d.on = x /\ d.record = q /\ d.copy = c
  BY DEF Doing, Task

\* A request goes out: of the records, a read counts on its own.
LEMMA AskMoves ==
  ASSUME TypeOK, NEW t \in Tasks, NEW d \in Task, d.on \in Quotes \cup Pages, d.record \in Quotes,
         NEW u \in Users, Ask(t, d, u)
  PROVE  /\ task' \in [Tasks -> Task] /\ \A v \in Tasks : v # t => task'[v] = task[v]
         /\ task'[t].pc = "asking" /\ task'[t].owner = d.owner /\ task'[t].on = d.on
         /\ task'[t].record = d.record /\ task'[t].copy = d.copy /\ task'[t].user = u
         /\ reads' \in [Quotes -> Nat]
         /\ \A r \in Quotes : r # d.record => reads'[r] = reads[r]
         /\ reads'[d.record] = IF d.on \in Quotes THEN reads[d.record] ELSE reads[d.record] + 1
<1>1. PICK e \in Task : e = [d EXCEPT !.pc = "asking", !.user = u]
  BY DEF Task
<1>2. e.pc = "asking" /\ e.owner = d.owner /\ e.on = d.on /\ e.record = d.record /\ e.copy = d.copy /\ e.user = u
  BY <1>1 DEF Task
<1>3. Become(t, e) /\ reads' = IF d.on \in Pages THEN [reads EXCEPT ![d.record] = @ + 1] ELSE reads
  BY <1>1 DEF Ask
<1>4. task' \in [Tasks -> Task] /\ task'[t] = e /\ \A v \in Tasks : v # t => task'[v] = task[v]
  BY <1>3, BecomeType
<1>5. /\ reads' \in [Quotes -> Nat]
      /\ \A r \in Quotes : r # d.record => reads'[r] = reads[r]
      /\ reads'[d.record] = IF d.on \in Quotes THEN reads[d.record] ELSE reads[d.record] + 1
  BY <1>3, WalletTopupAssumption DEF TypeOK
<1> QED BY <1>2, <1>4, <1>5

\* What ensure_fresh_session leaves of a call under the lock x with the copy c
\* of the record of q: it ended, or is past its gates.
LEMMA EnsureFreshMoves ==
  ASSUME TypeOK, NEW t \in Tasks, NEW owner \in Owner, NEW x \in Quotes \cup Pages, NEW q \in Quotes,
         NEW c \in Checkout, NEW l \in LockType(Tasks), l.holder = t,
         EnsureFresh(t, Doing("ensuring", owner, x, q, c, None), l)
  PROVE  /\ OneMoves(t, x)
         /\ reads' \in [Quotes -> Nat] /\ \A r \in Quotes : r # q => reads'[r] = reads[r]
         /\ reads'[q] \in {reads[q], reads[q] + 1} /\ (x \in Quotes => reads'[q] = reads[q])
         /\ \/ task'[t].pc = "idle"
            \/ /\ task'[t].pc \in InFlight /\ task'[t].owner = owner /\ task'[t].on = x
               /\ task'[t].record = q /\ task'[t].copy = c /\ lock'[x].holder = t
               /\ task'[t].pc = "ensuring" => reads'[q] = reads[q]
               /\ task'[t].pc = "asking" => task'[t].user \in Users
<1>1. PICK d \in Task : /\ d = Doing("ensuring", owner, x, q, c, None) /\ d.pc = "ensuring" /\ d.owner = owner
                        /\ d.on = x /\ d.record = q /\ d.copy = c
  BY DoingType
<1>2. EnsureFresh(t, d, l) /\ reads \in [Quotes -> Nat]
  BY <1>1 DEF TypeOK
<1>3. CASE Ends(t, x, l) /\ UNCHANGED reads
  BY <1>2, <1>3, EndsType
<1>4. ASSUME lock' = [lock EXCEPT ![x] = l]
      PROVE  /\ lock' \in [Quotes \cup Pages -> LockType(Tasks)] /\ lock'[x].holder = t
             /\ \A y \in Quotes \cup Pages : y # x => lock'[y] = lock[y]
  BY <1>4 DEF TypeOK
<1>5. CASE lock' = [lock EXCEPT ![x] = l] /\ \E u \in Users : Ask(t, d, u)
  BY <1>1, <1>2, <1>4, <1>5, AskMoves DEF OneMoves, InFlight
<1>6. CASE lock' = [lock EXCEPT ![x] = l] /\ Become(t, d) /\ UNCHANGED reads
  BY <1>1, <1>2, <1>4, <1>6, BecomeType DEF OneMoves, InFlight
<1>7. session[owner.client] # None => session[owner.client] \in Users
  BY DEF TypeOK, Owner
<1> QED BY <1>1, <1>2, <1>3, <1>5, <1>6, <1>7 DEF EnsureFresh

-----------------------------------------------------------------------------
(* What a call decides under a quote's lock.                               *)

\* acquire() returns the record of the quote's owner, or begins one.
LEMMA AcquiredOK ==
  ASSUME IInv, NEW q \in Quotes, NEW owner \in Owner, Owned(quote, owner, q)
  PROVE  /\ quote[q].status # "none" /\ quote[q].owner = owner
         /\ Acquired(owner, q) \in Checkout /\ Acquired(owner, q).owner = owner
         /\ \/ Acquired(owner, q) = checkout[q]
            \/ checkout[q] = NoCheckout /\ Acquired(owner, q) = NewCheckout(owner)
<1>1. quote[q].status # "none" /\ quote[q].owner = owner /\ RecordOK(q)
  BY DEF Owned, IInv, QuoteOK
<1>2. owner # NoOwner
  BY WalletTopupAssumption DEF Owner, NoOwner
<1>3. CASE checkout[q].owner = owner
  <2>1. checkout[q] \in Checkout
    BY <1>2, <1>3, NoCheckoutFacts DEF IInv, TypeOK
  <2> QED BY <1>1, <1>3, <2>1 DEF Acquired
<1>4. CASE checkout[q].owner # owner
  <2>1. checkout[q] = NoCheckout
    BY <1>1, <1>4 DEF RecordOK
  <2>2. NewCheckout(owner) \in Checkout
    BY WalletTopupAssumption DEF NewCheckout, Checkout, WalletCodes
  <2>3. NewCheckout(owner).owner = owner
    BY DEF NewCheckout
  <2> QED BY <1>1, <1>4, <2>1, <2>2, <2>3 DEF Acquired
<1> QED BY <1>3, <1>4

\* A new record has nothing on it.
LEMMA NewFacts ==
  ASSUME NEW owner
  PROVE  /\ NewCheckout(owner).status = "pending" /\ NewCheckout(owner).page = None
         /\ NewCheckout(owner).settled = "none" /\ NewCheckout(owner).attempts = 0
         /\ NewCheckout(owner).checks = 0
  BY DEF NewCheckout

\* A record with one more attempt.
Counted(r) == [r EXCEPT !.attempts = @ + 1]

\* Storing it, with or without one more attempt, keeps its quote's invariants.
LEMMA StoredOK ==
  ASSUME IInv, NEW q \in Quotes, NEW r \in Checkout, NEW s \in Checkout,
         s = r \/ s = Counted(r),
         quote[q].status # "none", r.owner = quote[q].owner,
         r = checkout[q] \/ (checkout[q] = NoCheckout /\ r = NewCheckout(quote[q].owner)),
         checkout'[q] = s, quote' = quote, page' = page, shown' = shown, reads'[q] = reads[q]
  PROVE  QuoteOK(q)' /\ NoRegress(q)
<1>1. RecordOK(q) /\ LinkOK(q)
  BY DEF IInv, QuoteOK
<1>2. /\ s.owner = r.owner /\ s.checks = r.checks /\ s.status = r.status
      /\ s.page = r.page /\ s.settled = r.settled
      /\ s.attempts \in Nat /\ r.attempts \in Nat /\ s.attempts >= r.attempts
  <2>1. CASE s = r
    BY <2>1, CheckoutFacts
  <2>2. CASE s = Counted(r)
    BY <2>2, CheckoutFacts DEF Checkout, Counted
  <2> QED BY <2>1, <2>2
<1>3. s # NoCheckout /\ s.checks \in Nat
  BY CheckoutFacts
<1>4. CASE r = checkout[q]
  <2>1. RecordOK(q)'
    BY <1>1, <1>2, <1>3, <1>4 DEF RecordOK
  <2>2. LinkOK(q)'
    BY <1>1, <1>2, <1>4 DEF LinkOK
  <2>3. NoRegress(q)
    BY <1>2, <1>3, <1>4 DEF NoRegress
  <2> QED BY <2>1, <2>2, <2>3 DEF QuoteOK
<1>5. CASE checkout[q] = NoCheckout /\ r = NewCheckout(quote[q].owner)
  <2>1. RecordOK(q)'
    BY <1>2, <1>3, <1>5, NewFacts DEF RecordOK
  <2>2. LinkOK(q)'
    BY <1>1, <1>5, NoCheckoutFacts DEF LinkOK, IsTerminal
  <2>3. NoRegress(q)
    BY <1>5, NoCheckoutFacts DEF NoRegress
  <2> QED BY <2>1, <2>2, <2>3 DEF QuoteOK
<1> QED BY <1>4, <1>5

\* The attempt that is counted: no link of the quote was shown.
LEMMA CountedOK ==
  ASSUME IInv, NEW q \in Quotes, NEW r \in Checkout, quote[q].status = "active",
         r = checkout[q] \/ (checkout[q] = NoCheckout /\ r = NewCheckout(quote[q].owner)),
         ~IsTerminal(r.status), r.attempts < MaxAttempts,
         NEW c, c = Counted(r)
  PROVE  /\ c \in Checkout /\ c.owner = r.owner
         /\ c.status \in {"pending", "unresolved"} /\ c.page = None /\ c.settled = "none"
         /\ shown[q] = {}
<1>1. RecordOK(q) /\ LinkOK(q)
  BY DEF IInv, QuoteOK
<1>2. /\ c \in Checkout /\ c.owner = r.owner /\ c.status = r.status /\ c.page = r.page
      /\ c.settled = r.settled
  BY WalletTopupAssumption DEF Checkout, Counted
<1>3. r.status \in {"pending", "unresolved"}
  BY DEF Checkout, IsTerminal
<1>4. CASE r = checkout[q]
  BY <1>1, <1>2, <1>3, <1>4 DEF RecordOK, LinkOK
<1>5. CASE checkout[q] = NoCheckout /\ r = NewCheckout(quote[q].owner)
  <2>1. shown[q] = {}
    BY <1>1, <1>5, NoCheckoutFacts DEF LinkOK, IsTerminal
  <2> QED BY <1>2, <1>3, <1>5, <2>1, NewFacts
<1> QED BY <1>4, <1>5

\* A refused call, or one that replays a final record: the record is stored as
\* it is, and a call that reads a payment of it goes on.
LEMMA StoresAndLeaves ==
  ASSUME IInv, NEW t \in Tasks, NEW q \in Quotes, NEW l \in LockType(Tasks), lock[q].holder \in {t, Nobody},
         Ends(t, q, l), NEW r \in Checkout, quote[q].status # "none", r.owner = quote[q].owner,
         r = checkout[q] \/ (checkout[q] = NoCheckout /\ r = NewCheckout(quote[q].owner)),
         Save(q, r), UNCHANGED <<session, preparing, quote, page, shown, reads>>
  PROVE  StepOK
<1>1. TypeOK
  BY DEF IInv
<1>2. OneMoves(t, q) /\ task'[t].pc = "idle"
  BY <1>1, EndsType
<1>3. /\ checkout' \in [Quotes -> Checkout \cup {NoCheckout}] /\ checkout'[q] = r
      /\ \A s \in Quotes : s # q => checkout'[s] = checkout[s]
      /\ older' \in SUBSET (Quotes \X Quotes)
  BY <1>1, SaveType
<1>4. TypeOK'
  BY <1>1, <1>2, <1>3 DEF TypeOK, OneMoves
<1>5. QuoteOK(q)' /\ NoRegress(q)
  BY <1>3, StoredOK
<1>6. OnlyTouches(t, q, q)
  BY <1>2, <1>3 DEF OnlyTouches
<1>7. ASSUME NEW u \in Tasks, u # t, task[u].pc \in InFlight, task[u].record = q PROVE FlightOK(u)'
  <2>1. FlightOK(u) /\ task[u].on \in Quotes \cup Pages
    BY <1>7, FlightFacts
  <2>2. task[u].on # q
    BY <1>7, <2>1, WalletTopupAssumption DEF FlightOK
  <2>3. task[u].on \in Pages /\ task[u].on \notin Quotes /\ ChecksOK(u)
    BY <1>7, <2>1, <2>2 DEF FlightOK, OpensOK
  <2>4. task'[u] = task[u] /\ lock'[task[u].on] = lock[task[u].on]
    BY <1>2, <1>7, <2>1, <2>2 DEF OneMoves
  <2>5. task[u].copy \in Checkout
    BY <2>1 DEF FlightOK
  <2>6. \/ checkout'[q] = task[u].copy
        \/ /\ quote[q].status # "active" /\ checkout'[q].page = None
           /\ checkout'[q].attempts = 0 /\ checkout'[q].checks = 0
    <3>1. CASE r = checkout[q]
      BY <1>3, <1>7, <2>1, <3>1 DEF FlightOK
    <3>2. CASE checkout[q] = NoCheckout /\ r = NewCheckout(quote[q].owner)
      <4>1. quote[q].status # "active"
        BY <1>7, <2>1, <2>5, <3>2, CheckoutFacts DEF FlightOK
      <4> QED BY <1>3, <3>2, <4>1, NewFacts
    <3> QED BY <3>1, <3>2
  <2>7. ChecksOK(u)'
    BY <1>7, <2>3, <2>4 DEF ChecksOK
  <2> QED BY <1>7, <2>1, <2>3, <2>4, <2>6, <2>7 DEF FlightOK
<1>8. CallOK(t)'
  BY <1>2 DEF CallOK, InFlight
<1> QED BY <1>4, <1>5, <1>6, <1>7, <1>8, HolderStep

\* The attempt is counted and stored; the request goes out, or waits for the
\* session.
LEMMA CountsAndAsks ==
  ASSUME IInv, NEW t \in Tasks, NEW q \in Quotes, NEW l \in LockType(Tasks), l.holder = t,
         lock[q].holder \in {t, Nobody},
         NEW owner \in Owner, quote[q].status = "active", owner = quote[q].owner,
         NEW r \in Checkout, r.owner = owner,
         r = checkout[q] \/ (checkout[q] = NoCheckout /\ r = NewCheckout(quote[q].owner)),
         ~IsTerminal(r.status), r.attempts < MaxAttempts,
         NEW c, c = Counted(r), Save(q, c),
         EnsureFresh(t, Doing("ensuring", owner, q, q, c, None), l),
         UNCHANGED <<session, preparing, quote, page, shown>>
  PROVE  StepOK
<1>1. TypeOK
  BY DEF IInv
<1>2. /\ c \in Checkout /\ c.owner = r.owner
      /\ c.status \in {"pending", "unresolved"} /\ c.page = None /\ c.settled = "none"
      /\ shown[q] = {}
  BY CountedOK
<1>3. /\ checkout' \in [Quotes -> Checkout \cup {NoCheckout}] /\ checkout'[q] = c
      /\ \A s \in Quotes : s # q => checkout'[s] = checkout[s]
      /\ older' \in SUBSET (Quotes \X Quotes)
  BY <1>1, <1>2, SaveType
<1>4. /\ OneMoves(t, q) /\ reads' \in [Quotes -> Nat] /\ \A s \in Quotes : reads'[s] = reads[s]
      /\ \/ task'[t].pc = "idle"
         \/ /\ task'[t].pc \in InFlight /\ task'[t].owner = owner /\ task'[t].on = q
            /\ task'[t].record = q /\ task'[t].copy = c /\ lock'[q].holder = t
            /\ task'[t].pc = "asking" => task'[t].user \in Users
  BY <1>1, <1>2, EnsureFreshMoves
<1>5. TypeOK'
  BY <1>1, <1>3, <1>4 DEF TypeOK, OneMoves
<1>6. QuoteOK(q)' /\ NoRegress(q)
  BY <1>2, <1>3, <1>4, StoredOK
<1>7. OnlyTouches(t, q, q)
  BY <1>3, <1>4 DEF OnlyTouches
<1>8. \A u \in Tasks : u # t /\ task[u].pc \in InFlight => task[u].record # q
  BY <1>2, NobodyOpens
<1>9. CallOK(t)'
  <2>1. CASE task'[t].pc = "idle"
    BY <2>1 DEF CallOK, InFlight
  <2>2. CASE task'[t].pc # "idle"
    <3>1. OpensOK(t)'
      BY <1>2, <1>3, <1>4, <2>2 DEF OpensOK
    <3>2. FlightOK(t)'
      BY <1>2, <1>3, <1>4, <2>2, <3>1 DEF FlightOK
    <3> QED BY <1>4, <2>2, <3>2 DEF CallOK
  <2> QED BY <2>1, <2>2
<1> QED BY <1>5, <1>6, <1>7, <1>8, <1>9, HolderStep

\* create_wallet_topup_checkout inside the quote's lock.
LEMMA DecideCreateStep ==
  ASSUME IInv, NEW t \in Tasks, NEW owner \in Owner, NEW q \in Quotes, NEW l \in LockType(Tasks),
         l.holder = t, lock[q].holder \in {t, Nobody},
         DecideCreate(t, owner, q, l), UNCHANGED <<session, preparing, quote, platform>>
  PROVE  StepOK
<1> DEFINE record == Acquired(owner, q)
           counted == [record EXCEPT !.attempts = @ + 1]
<1>1. CASE ~Owned(quote, owner, q)
  <2>1. Ends(t, q, l) /\ UNCHANGED <<store, reads>>
    BY <1>1 DEF DecideCreate
  <2> QED BY <2>1, LeavesStep
<1>2. CASE Owned(quote, owner, q) /\ (IsTerminal(record.status) \/ ~MayOpen(q, record))
  <2>1. Save(q, record) /\ Ends(t, q, l) /\ UNCHANGED reads
    BY <1>2 DEF DecideCreate
  <2>2. PICK r \in Checkout : r = record
    BY <1>2, AcquiredOK
  <2>3. /\ quote[q].status # "none" /\ r.owner = quote[q].owner
        /\ r = checkout[q] \/ (checkout[q] = NoCheckout /\ r = NewCheckout(quote[q].owner))
    BY <1>2, <2>2, AcquiredOK
  <2> HIDE DEF record
  <2> QED BY <2>1, <2>2, <2>3, StoresAndLeaves DEF platform
<1>3. CASE Owned(quote, owner, q) /\ ~IsTerminal(record.status) /\ MayOpen(q, record)
  <2>1. Save(q, counted) /\ EnsureFresh(t, Doing("ensuring", owner, q, q, counted, None), l)
    BY <1>3 DEF DecideCreate
  <2>2. PICK r \in Checkout : r = record
    BY <1>3, AcquiredOK
  <2>3. PICK c : c = Counted(r) /\ c = counted
    BY <2>2 DEF Counted
  <2>4. /\ quote[q].owner = owner /\ r.owner = owner
        /\ r = checkout[q] \/ (checkout[q] = NoCheckout /\ r = NewCheckout(quote[q].owner))
    BY <1>3, <2>2, AcquiredOK
  <2>5. quote[q].status = "active" /\ r.attempts < MaxAttempts /\ ~IsTerminal(r.status)
    BY <1>3, <2>2 DEF MayOpen, Effective
  <2> HIDE DEF record, counted
  <2> QED BY <2>1, <2>2, <2>3, <2>4, <2>5, CountsAndAsks DEF platform
<1> QED BY <1>1, <1>2, <1>3 DEF DecideCreate

-----------------------------------------------------------------------------
(* What a call decides under a payment's lock.                             *)

\* A record with one more status check.
Checked(r) == [r EXCEPT !.checks = @ + 1]

\* The record a payment may be read for: its link was shown, it is not settled.
LEMMA FoundOK ==
  ASSUME IInv, NEW owner \in Owner, NEW p \in Pages, NEW q \in Found(owner, p),
         checkout[q].settled = "none", ~ChecksSpent(checkout[q]),
         NEW c, c = Checked(checkout[q])
  PROVE  /\ q \in Quotes /\ checkout[q] \in Checkout /\ checkout[q].status = "open"
         /\ checkout[q].page = p /\ p \in shown[q] /\ quote[q].status # "none" /\ owner = quote[q].owner
         /\ c \in Checkout /\ c.owner = owner /\ c.page = p /\ c.status = "open" /\ c.settled = "none"
         /\ c.attempts = checkout[q].attempts /\ c.checks = checkout[q].checks + 1
         /\ reads[q] \in Nat /\ reads[q] < c.checks /\ reads[q] < MaxChecks
<1>1. q \in Quotes /\ checkout[q].page = p /\ checkout[q].owner = owner /\ p # None
  BY WalletTopupAssumption DEF Found, First, WithPage
<1>2. checkout[q] \in Checkout /\ RecordOK(q)
  BY <1>1, NoCheckoutFacts DEF IInv, TypeOK, QuoteOK
<1>3. PICK r \in Checkout : r = checkout[q]
  BY <1>2
<1>4. r # NoCheckout /\ r.checks < MaxChecks /\ r.checks \in Nat /\ reads[q] \in Nat /\ reads[q] <= r.checks
  BY <1>1, <1>2, <1>3, CheckoutFacts, WalletTopupAssumption DEF ChecksSpent, RecordOK, IInv, TypeOK
<1>5. r.status = "open" /\ p \in shown[q] /\ quote[q].status # "none" /\ r.owner = quote[q].owner
  BY <1>1, <1>2, <1>3, <1>4 DEF RecordOK
<1>6. /\ c \in Checkout /\ c.owner = r.owner /\ c.page = r.page /\ c.status = r.status
      /\ c.settled = r.settled /\ c.attempts = r.attempts /\ c.checks = r.checks + 1
  BY <1>3, <1>4, WalletTopupAssumption DEF Checked, Checkout
<1> QED BY <1>1, <1>2, <1>3, <1>4, <1>5, <1>6, WalletTopupAssumption

\* Storing a record with one more check, before or while the payment is read.
LEMMA CheckedOK ==
  ASSUME IInv, NEW owner \in Owner, NEW p \in Pages, NEW q \in Found(owner, p),
         checkout[q].settled = "none", ~ChecksSpent(checkout[q]),
         NEW c, c = Checked(checkout[q]), checkout'[q] = c,
         reads'[q] \in {reads[q], reads[q] + 1},
         quote' = quote, page' = page, shown' = shown
  PROVE  QuoteOK(q)' /\ NoRegress(q)
<1>1. /\ q \in Quotes /\ checkout[q] \in Checkout /\ checkout[q].status = "open"
      /\ checkout[q].page = p /\ p \in shown[q] /\ quote[q].status # "none" /\ owner = quote[q].owner
      /\ c \in Checkout /\ c.owner = owner /\ c.page = p /\ c.status = "open" /\ c.settled = "none"
      /\ c.attempts = checkout[q].attempts /\ c.checks = checkout[q].checks + 1
      /\ reads[q] \in Nat /\ reads[q] < c.checks /\ reads[q] < MaxChecks
  BY FoundOK
<1>2. QuoteOK(q)
  BY <1>1 DEF IInv
<1>3. /\ c.checks \in Nat /\ checkout[q].checks \in Nat /\ checkout[q].attempts \in Nat
      /\ reads'[q] \in Nat /\ reads'[q] <= c.checks /\ reads'[q] <= MaxChecks /\ p # None
  BY <1>1, CheckoutFacts, WalletTopupAssumption
<1>4. RecordOK(q)'
  BY <1>1, <1>2, <1>3 DEF QuoteOK, RecordOK
<1>5. LinkOK(q)'
  BY <1>1, <1>2, <1>3 DEF QuoteOK, LinkOK
<1>6. NoRegress(q)
  BY <1>1, <1>3 DEF NoRegress
<1> QED BY <1>4, <1>5, <1>6 DEF QuoteOK

\* The check is counted and stored; the read goes out, or waits for the session.
LEMMA ChecksAndAsks ==
  ASSUME IInv, NEW t \in Tasks, NEW owner \in Owner, NEW p \in Pages, NEW l \in LockType(Tasks), l.holder = t,
         lock[p].holder \in {t, Nobody}, NEW q \in Found(owner, p),
         checkout[q].settled = "none", ~ChecksSpent(checkout[q]),
         NEW c, c = Checked(checkout[q]), Save(q, c),
         EnsureFresh(t, Doing("ensuring", owner, p, q, c, None), l),
         UNCHANGED <<session, preparing, quote, page, shown>>
  PROVE  StepOK
<1>1. /\ q \in Quotes
      /\ p \in shown[q] /\ quote[q].status # "none" /\ owner = quote[q].owner
      /\ c \in Checkout /\ c.owner = owner /\ c.page = p /\ c.status = "open" /\ c.settled = "none"
      /\ reads[q] \in Nat /\ reads[q] < c.checks
  BY FoundOK
<1>2. TypeOK /\ p \notin Quotes /\ c.checks \in Nat
  BY <1>1, CheckoutFacts, WalletTopupAssumption DEF IInv
<1>3. /\ checkout' \in [Quotes -> Checkout \cup {NoCheckout}] /\ checkout'[q] = c
      /\ \A s \in Quotes : s # q => checkout'[s] = checkout[s]
      /\ older' \in SUBSET (Quotes \X Quotes)
  BY <1>1, <1>2, SaveType
<1>4. /\ OneMoves(t, p)
      /\ reads' \in [Quotes -> Nat] /\ \A r \in Quotes : r # q => reads'[r] = reads[r]
      /\ reads'[q] \in {reads[q], reads[q] + 1}
      /\ \/ task'[t].pc = "idle"
         \/ /\ task'[t].pc \in InFlight /\ task'[t].owner = owner /\ task'[t].on = p
            /\ task'[t].record = q /\ task'[t].copy = c /\ lock'[p].holder = t
            /\ task'[t].pc = "ensuring" => reads'[q] = reads[q]
            /\ task'[t].pc = "asking" => task'[t].user \in Users
  BY <1>1, <1>2, EnsureFreshMoves
<1>5. TypeOK'
  BY <1>2, <1>3, <1>4 DEF TypeOK, OneMoves
<1>6. QuoteOK(q)' /\ NoRegress(q)
  BY <1>3, <1>4, CheckedOK
<1>7. OnlyTouches(t, p, q)
  BY <1>3, <1>4 DEF OnlyTouches
<1>8. \A v \in Tasks : v # t /\ task[v].pc \in InFlight => task[v].record # q
  BY <1>1, NobodyChecks
<1>9. CallOK(t)'
  <2>1. CASE task'[t].pc = "idle"
    BY <2>1 DEF CallOK, InFlight
  <2>2. CASE task'[t].pc # "idle"
    <3>1. reads'[q] <= c.checks
      BY <1>1, <1>2, <1>4
    <3>2. ChecksOK(t)'
      BY <1>1, <1>4, <2>2, <3>1 DEF ChecksOK
    <3>3. FlightOK(t)'
      BY <1>1, <1>2, <1>3, <1>4, <2>2, <3>2 DEF FlightOK
    <3> QED BY <1>4, <2>2, <3>3 DEF CallOK
  <2> QED BY <2>1, <2>2
<1> QED BY <1>1, <1>5, <1>6, <1>7, <1>8, <1>9, HolderStep

\* get_wallet_topup_status inside the payment's lock.
LEMMA DecideCheckStep ==
  ASSUME IInv, NEW t \in Tasks, NEW owner \in Owner, NEW p \in Pages, NEW l \in LockType(Tasks),
         l.holder = t, lock[p].holder \in {t, Nobody},
         DecideCheck(t, owner, p, l), UNCHANGED <<session, preparing, quote, platform>>
  PROVE  StepOK
<1>1. CASE Ends(t, p, l) /\ UNCHANGED <<store, reads>>
  BY <1>1, LeavesStep
<1>2. CASE ~(Ends(t, p, l) /\ UNCHANGED <<store, reads>>)
  <2>1. PICK q \in Found(owner, p) :
          /\ checkout[q].settled = "none" /\ ~ChecksSpent(checkout[q])
          /\ Save(q, Checked(checkout[q]))
          /\ EnsureFresh(t, Doing("ensuring", owner, p, q, Checked(checkout[q]), None), l)
    BY <1>2 DEF DecideCheck, Checked
  <2>2. PICK c : c = Checked(checkout[q])
    OBVIOUS
  <2> QED BY <2>1, <2>2, ChecksAndAsks DEF platform
<1> QED BY <1>1, <1>2

-----------------------------------------------------------------------------
(* The steps of a call.                                                    *)

LEMMA DecideStep ==
  ASSUME IInv, NEW t \in Tasks, NEW owner \in Owner, NEW x \in Quotes \cup Pages, NEW l \in LockType(Tasks),
         l.holder = t, lock[x].holder \in {t, Nobody},
         Decide(t, owner, x, l), UNCHANGED <<session, preparing, quote, platform>>
  PROVE  StepOK
  BY DecideCreateStep, DecideCheckStep DEF Decide

\* A call parks itself behind the holder of the lock.
LEMMA WaitsStep ==
  ASSUME IInv, NEW t \in Tasks, NEW owner \in Owner, NEW x \in Quotes \cup Pages, ~IsFree(lock[x]),
         lock' = [lock EXCEPT ![x] = Enter(@, t)],
         Become(t, Doing("waiting", owner, x, None, NoCheckout, None)),
         UNCHANGED <<session, preparing, quote, store, platform, reads>>
  PROVE  StepOK
<1>1. TypeOK
  BY DEF IInv
<1>2. /\ lock' \in [Quotes \cup Pages -> LockType(Tasks)] /\ lock'[x].holder = lock[x].holder
      /\ \A y \in Quotes \cup Pages : y # x => lock'[y] = lock[y]
  BY <1>1, EnterType DEF TypeOK
<1>3. PICK d \in Task : /\ d = Doing("waiting", owner, x, None, NoCheckout, None)
                        /\ d.pc = "waiting" /\ d.owner = owner /\ d.on = x
  BY DoingType
<1>4. OneMoves(t, x) /\ task'[t] = d
  BY <1>1, <1>2, <1>3, BecomeType DEF OneMoves
<1> QED BY <1>2, <1>3, <1>4, AsideCallStep

LEMMA CallStep ==
  ASSUME IInv, NEW t \in Tasks, NEW k \in Clients, NEW x \in Quotes \cup Pages, Call(t, k, x) PROVE StepOK
<1>1. PICK owner \in Owner : owner = OwnerOf(k, session[k])
  BY DEF IInv, TypeOK, Call, OwnerOf, Owner
<1>2. lock[x] \in LockType(Tasks) /\ UNCHANGED <<session, preparing, quote, platform>>
  BY DEF IInv, TypeOK, Call
<1>3. CASE IsFree(lock[x])
  <2>1. PICK l \in LockType(Tasks) : l = Enter(lock[x], t) /\ l.holder = t
    BY <1>2, <1>3, EnterType
  <2>2. Decide(t, owner, x, l) /\ lock[x].holder = Nobody
    BY <1>1, <1>3, <2>1 DEF Call, IsFree
  <2> QED BY <1>2, <2>1, <2>2, DecideStep
<1>4. CASE ~IsFree(lock[x])
  BY <1>1, <1>2, <1>4, WaitsStep DEF Call
<1> QED BY <1>3, <1>4

LEMMA LockGrantedStep == ASSUME IInv, NEW t \in Tasks, LockGranted(t) PROVE StepOK
<1>1. task[t].pc = "waiting" /\ lock[task[t].on].holder = t /\ UNCHANGED <<session, preparing, quote, platform>>
  BY DEF LockGranted
<1>2. PICK x \in Quotes \cup Pages : x = task[t].on
  BY <1>1 DEF IInv, CallOK
<1>3. PICK owner \in Owner : owner = task[t].owner
  BY <1>1 DEF IInv, CallOK
<1>4. lock[x] \in LockType(Tasks) /\ Decide(t, owner, x, lock[x])
  BY <1>2, <1>3 DEF IInv, TypeOK, LockGranted
<1> QED BY <1>1, <1>2, <1>4, DecideStep

\* The request goes out with a session that is fresh now.
LEMMA SessionIsFreshStep == ASSUME IInv, NEW t \in Tasks, SessionIsFresh(t) PROVE StepOK
<1>1. /\ task[t].pc = "ensuring"
      /\ UNCHANGED <<session, preparing, quote, checkout, older, lock, page, shown>>
      /\ session[task[t].owner.client] # None /\ Ask(t, task[t], session[task[t].owner.client])
  BY DEF SessionIsFresh, platform, store
<1>2. /\ TypeOK /\ FlightOK(t) /\ task[t] \in Task /\ task[t].on \in Quotes \cup Pages
      /\ task[t].owner \in Owner /\ task[t].copy \in Checkout
  BY <1>1, FlightFacts DEF InFlight
<1>3. PICK q \in Quotes : q = task[t].record
  BY <1>2 DEF FlightOK
<1>4. PICK x \in Quotes \cup Pages : x = task[t].on
  BY <1>2
<1>5. PICK c \in Checkout : c = task[t].copy
  BY <1>2
<1>6. PICK u \in Users : u = session[task[t].owner.client]
  BY <1>1, <1>2 DEF TypeOK, Owner
<1>7. /\ task' \in [Tasks -> Task] /\ \A v \in Tasks : v # t => task'[v] = task[v]
      /\ task'[t].pc = "asking" /\ task'[t].owner = task[t].owner /\ task'[t].on = x
      /\ task'[t].record = q /\ task'[t].copy = c /\ task'[t].user = u
      /\ reads' \in [Quotes -> Nat]
      /\ \A r \in Quotes : r # q => reads'[r] = reads[r]
      /\ reads'[q] = IF x \in Quotes THEN reads[q] ELSE reads[q] + 1
  BY <1>1, <1>2, <1>3, <1>4, <1>5, <1>6, AskMoves
<1>8. /\ lock[x].holder = t /\ quote[q].status # "none" /\ task[t].owner = quote[q].owner
      /\ c.owner = quote[q].owner /\ c.settled = "none"
      /\ \/ checkout[q] = c
         \/ /\ quote[q].status # "active" /\ checkout[q].page = None
            /\ checkout[q].attempts = 0 /\ checkout[q].checks = 0
      /\ x \in Quotes => OpensOK(t)
      /\ x \notin Quotes => ChecksOK(t)
  BY <1>2, <1>3, <1>4, <1>5 DEF FlightOK
<1>9. x \notin Quotes =>
        /\ x \in Pages /\ x \in shown[q] /\ c.page = x /\ c.status = "open"
        /\ reads[q] < c.checks /\ reads[q] \in Nat /\ c.checks \in Nat /\ c.checks <= MaxChecks
  BY <1>1, <1>2, <1>3, <1>4, <1>5, <1>8, CheckoutFacts DEF ChecksOK, TypeOK
<1>10. x \notin Quotes => reads'[q] <= c.checks /\ reads'[q] <= MaxChecks
  BY <1>7, <1>9, WalletTopupAssumption
<1>11. TypeOK' /\ OneMoves(t, x)
  BY <1>1, <1>2, <1>7 DEF TypeOK, OneMoves
<1>12. OnlyTouches(t, x, q)
  BY <1>1, <1>7, <1>8, <1>11 DEF OnlyTouches
<1>13. \A v \in Tasks : v # t /\ task[v].pc \in InFlight => task[v].record # q
  <2>1. CASE x \in Quotes
    <3>1. x = q /\ shown[q] = {}
      BY <1>3, <1>4, <1>8, <2>1 DEF OpensOK
    <3> QED BY <1>8, <3>1, NobodyOpens
  <2>2. CASE x \notin Quotes
    BY <1>8, <1>9, <2>2, NobodyChecks
  <2> QED BY <2>1, <2>2
<1>14. QuoteOK(q)'
  <2>1. RecordOK(q) /\ LinkOK(q)
    BY DEF IInv, QuoteOK
  <2>2. CASE x \in Quotes
    BY <1>1, <1>7, <2>1, <2>2 DEF QuoteOK, RecordOK, LinkOK
  <2>3. CASE x \notin Quotes
    <3>1. RecordOK(q)'
      BY <1>1, <1>8, <1>10, <2>1, <2>3 DEF RecordOK
    <3>2. LinkOK(q)'
      BY <1>1, <1>9, <1>10, <2>1, <2>3 DEF LinkOK
    <3> QED BY <3>1, <3>2 DEF QuoteOK
  <2> QED BY <2>2, <2>3
<1>15. NoRegress(q)
  BY <1>1, SameRecord
<1>16. CallOK(t)'
  <2>1. x \in Quotes => OpensOK(t)'
    BY <1>1, <1>3, <1>4, <1>5, <1>7, <1>8 DEF OpensOK
  <2>2. x \notin Quotes => ChecksOK(t)'
    BY <1>1, <1>7, <1>9, <1>10 DEF ChecksOK
  <2>3. FlightOK(t)'
    BY <1>1, <1>7, <1>8, <2>1, <2>2 DEF FlightOK
  <2> QED BY <1>2, <1>7, <2>3 DEF CallOK
<1> QED BY <1>11, <1>12, <1>13, <1>14, <1>15, <1>16, HolderStep

-----------------------------------------------------------------------------
(* Answers.                                                                *)

\* Only a page is an opened checkout; every other answer leaves or fails it.
LEMMA VerdictOK ==
  ASSUME NEW a \in AllCardAnswers
  PROVE  /\ ClassifyTopupPage(a).disposition \in {"open", "failed", "unresolved", "retryable"}
         /\ ClassifyTopupPage(a).code \in WalletCodes
<1>1. WalletUnknown.disposition = "unresolved" /\ WalletUnknown.code \in WalletCodes
  BY DEF WalletUnknown, Verdict, WalletCodes
<1>2. CASE a \in {NoAnswer, PageAnswer, NoData, UnsafeLink, BadReference}
  <2>1. ClassifyTopupPage(a) \in {WalletUnknown, Verdict("open", "none"), Rejected("unsafe_checkout_link"),
                                  Rejected("wallet_topup_rejected")}
    BY <1>2 DEF ClassifyTopupPage, NoAnswer, PageAnswer, NoData, UnsafeLink, BadReference, Answer
  <2> QED BY <1>1, <2>1 DEF Rejected, Verdict, WalletCodes
<1>3. CASE a \notin {NoAnswer, PageAnswer, NoData, UnsafeLink, BadReference}
  <2>1. ClassifyTopupPage(a) = ClassifyWalletFailure(a)
    BY <1>3 DEF ClassifyTopupPage
  <2>2. a.status \in Statuses
    BY <1>3 DEF AllCardAnswers, Refusal, Unreadable, Answer
  <2>3. WalletBusinessError(a.label) \in WalletCodes
    BY DEF WalletBusinessError, WalletCodes
  <2>4. ClassifyWalletFailure(a).disposition \in {"failed", "unresolved", "retryable"}
    BY <1>1, <2>2 DEF ClassifyWalletFailure, Rejected, Passing, Verdict, Statuses
  <2>5. ClassifyWalletFailure(a).code \in WalletCodes
    BY <1>1, <2>2, <2>3 DEF ClassifyWalletFailure, Rejected, Passing, Verdict, Statuses, WalletCodes
  <2> QED BY <2>1, <2>4, <2>5
<1> QED BY <1>2, <1>3

\* The call's copy with the verdict on its answer.
Answered(c, v, p) ==
  [c EXCEPT !.status = v.disposition, !.code = v.code, !.page = IF v.disposition = "open" THEN p ELSE @]

LEMMA AnsweredOK ==
  ASSUME NEW c \in Checkout, NEW v, v.disposition \in {"open", "failed", "unresolved"}, v.code \in WalletCodes,
         c.page = None, c.settled = "none",
         NEW p, v.disposition = "open" => p \in Pages,
         NEW n, n = Answered(c, v, p)
  PROVE  /\ n \in Checkout /\ n.owner = c.owner /\ n.attempts = c.attempts
         /\ n.checks = c.checks /\ n.settled = "none" /\ n.status = v.disposition
         /\ n.page = IF v.disposition = "open" THEN p ELSE None
  BY DEF Answered, Checkout

\* The answer to a checkout: the first page of the quote is shown, or none.
LEMMA CheckoutReturnsStep == ASSUME IInv, NEW t \in Tasks, NEW a \in Answers, CheckoutReturns(t, a) PROVE StepOK
<1>1. PICK v : v = ClassifyTopupPage(a)
  OBVIOUS
<1>2. v.disposition \in {"open", "failed", "unresolved", "retryable"} /\ v.code \in WalletCodes
  BY <1>1, VerdictOK, WalletTopupAssumption
<1>3. PICK q \in Quotes : q = task[t].on
  BY DEF CheckoutReturns
<1>4. PICK p : p = task[t].got
  OBVIOUS
<1>5. /\ task[t].pc = "asking" /\ UNCHANGED <<session, preparing, quote, page, reads>>
      /\ v.disposition = "open" => p # None
      /\ IF v.disposition = "retryable" THEN UNCHANGED store ELSE Save(q, Answered(task[t].copy, v, p))
      /\ shown' = IF v.disposition = "open" THEN [shown EXCEPT ![q] = @ \cup {p}] ELSE shown
      /\ Ends(t, q, lock[q])
  BY <1>1, <1>3, <1>4 DEF CheckoutReturns, Answered
<1>6. /\ TypeOK /\ FlightOK(t) /\ lock[q] \in LockType(Tasks) /\ task[t] \in Task
      /\ RecordOK(q) /\ LinkOK(q)
  BY <1>3, <1>5, FlightFacts DEF InFlight, IInv, QuoteOK
<1>7. PICK c \in Checkout : c = task[t].copy
  BY <1>6 DEF FlightOK
<1>8. /\ task[t].record = q /\ quote[q].status # "none" /\ c.owner = quote[q].owner
      /\ c.settled = "none" /\ lock[q].holder = t
      /\ checkout[q] = c \/ quote[q].status # "active"
      /\ c.status \in {"pending", "unresolved"} /\ c.page = None /\ checkout[q] \in {c, NoCheckout}
      /\ shown[q] = {}
  BY <1>3, <1>6, <1>7 DEF FlightOK, OpensOK
<1>9. v.disposition = "open" => p \in Pages /\ p # None
  BY <1>4, <1>5, <1>6 DEF Task
<1>10. reads[q] = 0
  BY <1>6, <1>8 DEF TypeOK, LinkOK
<1>11. /\ shown'[q] = (IF v.disposition = "open" THEN {p} ELSE {})
       /\ \A r \in Quotes : r # q => shown'[r] = shown[r]
       /\ shown' \in [Quotes -> SUBSET Pages]
  BY <1>5, <1>6, <1>8, <1>9 DEF TypeOK
<1>12. PICK n : n = Answered(c, v, p)
  OBVIOUS
<1>13. v.disposition # "retryable" =>
         /\ n \in Checkout /\ n.owner = c.owner /\ n.attempts = c.attempts
         /\ n.checks = c.checks /\ n.settled = "none" /\ n.status = v.disposition
         /\ n.page = IF v.disposition = "open" THEN p ELSE None
  BY <1>2, <1>8, <1>9, <1>12, AnsweredOK
<1>14. /\ v.disposition = "retryable" => checkout' = checkout
       /\ v.disposition # "retryable" => checkout'[q] = n
       /\ \A r \in Quotes : r # q => checkout'[r] = checkout[r]
       /\ checkout' \in [Quotes -> Checkout \cup {NoCheckout}]
       /\ older' \in SUBSET (Quotes \X Quotes)
  <2>1. CASE v.disposition = "retryable"
    BY <1>5, <1>6, <2>1 DEF store, TypeOK
  <2>2. CASE v.disposition # "retryable"
    <3>1. Save(q, n) /\ n \in Checkout
      BY <1>5, <1>7, <1>12, <1>13, <2>2
    <3> QED BY <1>6, <2>2, <3>1, SaveType
  <2> QED BY <2>1, <2>2
<1>15. OneMoves(t, q) /\ task'[t].pc = "idle"
  BY <1>5, <1>6, EndsType
<1>16. TypeOK'
  BY <1>5, <1>6, <1>11, <1>14, <1>15 DEF TypeOK, OneMoves
<1>17. c.attempts \in Nat /\ c.checks \in Nat /\ c # NoCheckout
  BY CheckoutFacts
<1>18. QuoteOK(q)' /\ NoRegress(q)
  <2>1. CASE v.disposition = "retryable"
    <3>1. checkout' = checkout /\ shown'[q] = shown[q] /\ quote' = quote /\ page' = page /\ reads' = reads
      BY <1>5, <1>8, <1>11, <1>14, <2>1
    <3>2. RecordOK(q)' /\ LinkOK(q)'
      BY <1>6, <3>1 DEF RecordOK, LinkOK
    <3> QED BY <3>1, <3>2, SameRecord DEF QuoteOK
  <2>2. CASE v.disposition # "retryable"
    <3>1. /\ n \in Checkout /\ n.owner = c.owner /\ n.attempts = c.attempts
          /\ n.checks = c.checks /\ n.settled = "none" /\ n.status = v.disposition
          /\ n.page = IF v.disposition = "open" THEN p ELSE None
          /\ checkout'[q] = n /\ quote' = quote /\ page' = page /\ reads' = reads
      BY <1>5, <1>13, <1>14, <2>2
    <3>2. n # NoCheckout
      BY <3>1, CheckoutFacts
    <3>3. reads[q] <= n.checks
      BY <1>10, <1>17, <3>1
    <3>4. RecordOK(q)'
      BY <1>8, <1>9, <1>11, <3>1, <3>2, <3>3 DEF RecordOK
    <3>5. LinkOK(q)'
      <4>1. quote[q].status # "consumed"
        BY <1>6, <1>8 DEF LinkOK
      <4> QED BY <1>6, <1>8, <1>10, <1>11, <3>1, <4>1 DEF LinkOK, IsTerminal
    <3>6. NoRegress(q)
      BY <1>8, <1>17, <3>1, NoCheckoutFacts DEF NoRegress
    <3> QED BY <3>4, <3>5, <3>6 DEF QuoteOK
  <2> QED BY <2>1, <2>2
<1>19. OnlyTouches(t, q, q)
  BY <1>5, <1>8, <1>11, <1>14, <1>15 DEF OnlyTouches
<1>20. \A u \in Tasks : u # t /\ task[u].pc \in InFlight => task[u].record # q
  BY <1>8, NobodyOpens
<1>21. CallOK(t)'
  BY <1>15 DEF CallOK, InFlight
<1> QED BY <1>16, <1>18, <1>19, <1>20, <1>21, HolderStep

\* The call's copy with a terminal status.
Settled(c, s) == [c EXCEPT !.settled = s]

LEMMA SettledOK ==
  ASSUME NEW c \in Checkout, NEW s \in {"paid", "failed"}, NEW n, n = Settled(c, s)
  PROVE  /\ n \in Checkout /\ n.owner = c.owner /\ n.attempts = c.attempts
         /\ n.checks = c.checks /\ n.page = c.page /\ n.status = c.status /\ n.settled = s
  BY DEF Settled, Checkout

\* consume() of a call's own quote.
LEMMA ConsumedFacts ==
  ASSUME TypeOK, NEW q \in Quotes, quote[q].status # "none",
         quote' = Consumed(quote, quote[q].owner, q)
  PROVE  /\ quote' \in [Quotes -> Quote \cup {NoQuote}]
         /\ \A r \in Quotes : r # q => quote'[r] = quote[r]
         /\ quote'[q].owner = quote[q].owner /\ quote'[q].status = "consumed"
<1>1. quote' = [r \in Quotes |-> IF r \in {q} THEN [quote[r] EXCEPT !.status = "consumed"] ELSE quote[r]]
  BY DEF Consumed, Owned, Marked
<1>2. PICK r \in Quote : r = quote[q]
  BY DEF TypeOK, NoQuote
<1>3. PICK e \in Quote : e = [r EXCEPT !.status = "consumed"]
  BY DEF Quote, QuoteStates
<1>4. e.status = "consumed" /\ e.owner = r.owner
  BY <1>3 DEF Quote
<1>5. quote' = [s \in Quotes |-> IF s \in {q} THEN e ELSE quote[s]]
  BY <1>1, <1>2, <1>3
<1> QED BY <1>2, <1>4, <1>5 DEF TypeOK

\* The answer to a status read: what is settled is stored, a payment consumes
\* the quote.
LEMMA StatusReturnsStep == ASSUME IInv, NEW t \in Tasks, NEW s, StatusReturns(t, s) PROVE StepOK
<1>1. PICK p \in Pages : p = task[t].on
  BY DEF StatusReturns
<1>2. /\ task[t].pc = "asking" /\ UNCHANGED <<session, preparing, page, shown, reads>>
      /\ s \in {"unknown", "pending", page[p].state}
      /\ IF IsSettled(s) THEN Save(task[t].record, Settled(task[t].copy, s)) ELSE UNCHANGED store
      /\ quote' = IF Credits(s) THEN Consumed(quote, task[t].owner, task[t].record) ELSE quote
      /\ Ends(t, p, lock[p])
  BY <1>1 DEF StatusReturns, platform, Settled
<1>3. /\ TypeOK /\ FlightOK(t) /\ p \notin Quotes /\ lock[p] \in LockType(Tasks)
  BY <1>1, <1>2, FlightFacts, WalletTopupAssumption DEF InFlight
<1>4. PICK q \in Quotes : q = task[t].record
  BY <1>3 DEF FlightOK
<1>5. PICK c \in Checkout : c = task[t].copy
  BY <1>3 DEF FlightOK
<1>6. /\ quote[q].status # "none" /\ task[t].owner = quote[q].owner /\ c.owner = quote[q].owner
      /\ c.settled = "none" /\ lock[p].holder = t
      /\ \/ checkout[q] = c
         \/ /\ quote[q].status # "active" /\ checkout[q].page = None
            /\ checkout[q].attempts = 0 /\ checkout[q].checks = 0
      /\ p \in shown[q] /\ c.page = p /\ c.status = "open" /\ reads[q] <= c.checks
  BY <1>1, <1>3, <1>4, <1>5 DEF FlightOK, ChecksOK
<1>7. RecordOK(q) /\ LinkOK(q)
  BY DEF IInv, QuoteOK
<1>8. IsSettled(s) => s \in {"paid", "failed"} /\ page[p].state = s
  BY <1>2 DEF IsSettled
<1>9. PICK n : n = Settled(c, s)
  OBVIOUS
<1>10. IsSettled(s) =>
         /\ n \in Checkout /\ n.owner = c.owner /\ n.attempts = c.attempts
         /\ n.checks = c.checks /\ n.page = c.page /\ n.status = c.status /\ n.settled = s
  BY <1>8, <1>9, SettledOK
<1>11. /\ ~IsSettled(s) => checkout' = checkout
       /\ IsSettled(s) => checkout'[q] = n
       /\ \A r \in Quotes : r # q => checkout'[r] = checkout[r]
       /\ checkout' \in [Quotes -> Checkout \cup {NoCheckout}]
       /\ older' \in SUBSET (Quotes \X Quotes)
  <2>1. CASE ~IsSettled(s)
    BY <1>2, <1>3, <2>1 DEF store, TypeOK
  <2>2. CASE IsSettled(s)
    <3>1. Save(q, n) /\ n \in Checkout
      BY <1>2, <1>4, <1>5, <1>9, <1>10, <2>2
    <3> QED BY <1>3, <2>2, <3>1, SaveType
  <2> QED BY <2>1, <2>2
<1>12. /\ quote' \in [Quotes -> Quote \cup {NoQuote}]
       /\ \A r \in Quotes : r # q => quote'[r] = quote[r]
       /\ quote'[q].owner = quote[q].owner
       /\ s = "paid" => quote'[q].status = "consumed"
       /\ s # "paid" => quote' = quote
  <2>1. CASE s = "paid"
    <3>1. quote' = Consumed(quote, quote[q].owner, q)
      BY <1>2, <1>4, <1>6, <2>1 DEF Credits
    <3> QED BY <1>3, <1>6, <2>1, <3>1, ConsumedFacts
  <2>2. CASE s # "paid"
    BY <1>2, <1>3, <2>2 DEF Credits, TypeOK
  <2> QED BY <2>1, <2>2
<1>13. OneMoves(t, p) /\ task'[t].pc = "idle"
  BY <1>2, <1>3, EndsType
<1>14. TypeOK'
  BY <1>2, <1>3, <1>11, <1>12, <1>13 DEF TypeOK, OneMoves
<1>15. QuoteOK(q)' /\ NoRegress(q)
  <2>1. CASE ~IsSettled(s)
    <3>1. checkout' = checkout /\ quote' = quote
      BY <1>11, <1>12, <2>1 DEF IsSettled
    <3>2. RecordOK(q)' /\ LinkOK(q)'
      BY <1>2, <1>7, <3>1 DEF RecordOK, LinkOK
    <3> QED BY <3>1, <3>2, SameRecord DEF QuoteOK
  <2>2. CASE IsSettled(s)
    <3>1. /\ n \in Checkout /\ n.owner = c.owner /\ n.attempts = c.attempts
          /\ n.checks = c.checks /\ n.page = p /\ n.status = "open" /\ n.settled = s
          /\ checkout'[q] = n /\ s \in {"paid", "failed"} /\ page[p].state = s
      BY <1>6, <1>8, <1>10, <1>11, <2>2
    <3>2. n # NoCheckout /\ p # None /\ n.attempts \in Nat /\ n.checks \in Nat
      BY <3>1, CheckoutFacts, WalletTopupAssumption
    <3>3. quote'[q].status # "none"
      BY <1>6, <1>12
    <3>4. RecordOK(q)'
      BY <1>2, <1>6, <1>12, <3>1, <3>2, <3>3 DEF RecordOK
    <3>5. LinkOK(q)'
      <4>1. quote'[q].status = "consumed" => quote[q].status = "consumed" \/ page[p].state = "paid"
        BY <1>8, <1>12, <2>2
      <4> QED BY <1>2, <1>6, <1>7, <3>1, <3>3, <4>1 DEF LinkOK, IsTerminal
    <3>6. NoRegress(q)
      <4>1. n.attempts >= c.attempts /\ n.checks >= c.checks
        BY <3>1, <3>2
      <4>2. CASE checkout[q] = c
        BY <1>6, <3>1, <4>1, <4>2 DEF NoRegress
      <4>3. CASE checkout[q].page = None /\ checkout[q].attempts = 0 /\ checkout[q].checks = 0
        <5>1. checkout[q].settled = "none"
          BY <1>7, <4>3 DEF RecordOK
        <5> QED BY <3>1, <3>2, <4>3, <5>1 DEF NoRegress
      <4> QED BY <1>6, <4>2, <4>3
    <3> QED BY <3>4, <3>5, <3>6 DEF QuoteOK
  <2> QED BY <2>1, <2>2
<1>16. OnlyTouches(t, p, q)
  BY <1>2, <1>6, <1>11, <1>12, <1>13 DEF OnlyTouches
<1>17. \A u \in Tasks : u # t /\ task[u].pc \in InFlight => task[u].record # q
  BY <1>6, NobodyChecks
<1>18. CallOK(t)'
  BY <1>13 DEF CallOK, InFlight
<1> QED BY <1>14, <1>15, <1>16, <1>17, <1>18, HolderStep

-----------------------------------------------------------------------------
(* The theorems.                                                           *)

LEMMA InitInv == Init => IInv
<1> SUFFICES ASSUME Init PROVE IInv
  OBVIOUS
<1>1. \A x \in Quotes \cup Pages : Free \in LockType(Tasks)
  BY FreeType
<1>2. TypeOK
  BY <1>1, IdleType DEF Init, TypeOK
<1>3. ASSUME NEW t \in Tasks PROVE CallOK(t)
  BY IdleType DEF Init, CallOK, InFlight
<1>4. ASSUME NEW q \in Quotes PROVE QuoteOK(q)
  <2>1. checkout[q] = NoCheckout /\ shown[q] = {} /\ quote[q].status = "none" /\ reads[q] = 0
    BY DEF Init, NoQuote
  <2>2. RecordOK(q)
    BY <2>1, NoCheckoutFacts DEF RecordOK
  <2>3. LinkOK(q)
    BY <2>1, WalletTopupAssumption DEF LinkOK
  <2> QED BY <2>2, <2>3 DEF QuoteOK
<1> QED BY <1>2, <1>3, <1>4 DEF IInv

LEMMA StutterStep == ASSUME IInv, UNCHANGED vars PROVE StepOK
<1>1. session' \in [Clients -> Users \cup {None}] /\ preparing' \in SUBSET Owner
  BY DEF IInv, TypeOK, vars
<1> QED BY <1>1, AsideStep DEF vars, store, calls, platform

LEMMA NextOK == ASSUME IInv, [Next]_vars PROVE StepOK
<1>1. ASSUME NEW t \in Tasks, Step(t) PROVE StepOK
  BY <1>1, LockGrantedStep, SessionIsFreshStep, SessionIsLostStep, CheckoutReturnsStep, StatusReturnsStep DEF Step
<1>2. CASE \E t \in Tasks : Step(t) \/ Cancel(t)
  BY <1>1, <1>2, CancelStep
<1>3. CASE \E t \in Tasks, k \in Clients, on \in Quotes \cup Pages : Call(t, k, on)
  BY <1>3, CallStep
<1>4. CASE \E k \in Clients, u \in Users : SignIn(k, u)
  BY <1>4, SignInStep
<1>5. CASE \E k \in Clients : SessionEnds(k) \/ PrepareStarts(k)
  BY <1>5, SessionEndsStep, PrepareStartsStep
<1>6. CASE \E owner \in Owner, q \in Quotes, amount \in Items, o \in Limits : Prepares(owner, q, amount, o)
  BY <1>6, PreparesStep
<1>7. CASE \E owner \in Owner : PrepareFails(owner)
  BY <1>7, PrepareFailsStep
<1>8. CASE \E q \in Quotes : Lapses(q)
  BY <1>8, LapsesStep
<1>9. CASE \E t \in Tasks, p \in Pages : PageOpens(t, p)
  BY <1>9, PageOpensStep
<1>10. CASE \E p \in Pages, s \in TopupStates : PaymentMoves(p, s)
  BY <1>10, PaymentMovesStep
<1>11. CASE UNCHANGED vars
  BY <1>11, StutterStep
<1> QED BY <1>2, <1>3, <1>4, <1>5, <1>6, <1>7, <1>8, <1>9, <1>10, <1>11 DEF Next

\* The inductive invariant holds of every reachable state.
THEOREM Invariance == Spec => []IInv
<1>1. IInv /\ [Next]_vars => IInv'
  BY NextOK DEF StepOK
<1> QED BY <1>1, InitInv, PTL DEF Spec

\* Every variable keeps its type: locks are held by and queue calls, a record
\* counts at most MAX_TOPUP_CHECKOUT_ATTEMPTS attempts and MAX_TOPUP_STATUS_CHECKS
\* checks.
THEOREM TypeCorrect == Spec => []TypeOK
<1>1. IInv => TypeOK
  BY DEF IInv
<1> QED BY <1>1, Invariance, PTL

\* create_wallet_topup_checkout shows the user the link of one page per quote
\* only, also when answers are lost, records disappear, and the platform gives
\* several quotes one page.
THEOREM OneLink == Spec => []OneTopupLinkPerQuote
<1>1. IInv => OneTopupLinkPerQuote
  <2> SUFFICES ASSUME IInv, NEW q \in Quotes PROVE Cardinality(shown[q]) <= 1
    BY DEF OneTopupLinkPerQuote
  <2>1. \A p1, p2 \in shown[q] : p1 = p2
    BY DEF IInv, QuoteOK, LinkOK
  <2>2. CASE shown[q] = {}
    <3>1. Cardinality(shown[q]) = 0
      BY <2>2, FS_EmptySet
    <3> QED BY <3>1
  <2>3. CASE shown[q] # {}
    <3>1. PICK p : shown[q] = {p}
      BY <2>1, <2>3
    <3>2. Cardinality({p}) = 1
      BY FS_Singleton
    <3> QED BY <3>1, <3>2
  <2> QED BY <2>2, <2>3
<1> QED BY <1>1, Invariance, PTL

\* _on_status stores as settled what the platform settled, a paid record has
\* consumed its quote, and a consumed quote was paid on the page its user was
\* shown.
THEOREM StoresAgree == Spec => []SettledMeansSettled
<1>1. IInv => SettledMeansSettled
  BY DEF IInv, QuoteOK, RecordOK, LinkOK, SettledMeansSettled
<1> QED BY <1>1, Invariance, PTL

\* get_wallet_topup_status reads a top-up at most MAX_TOPUP_STATUS_CHECKS times,
\* cancelled and failed reads and lost records included.
THEOREM Bounded == Spec => []PageReadsBounded
<1>1. IInv => PageReadsBounded
  BY DEF IInv, QuoteOK, LinkOK, PageReadsBounded
<1> QED BY <1>1, Invariance, PTL

\* Two locks guard one record, one page may be on two records, and no call puts
\* back an older copy of a record.
THEOREM NoRegression == Spec => TopupRecordNeverRegresses
<1>1. IInv /\ [Next]_vars => \A q \in Quotes : NoRegress(q)
  BY NextOK DEF StepOK
<1>2. IInv /\ [Next]_vars =>
        [\A q \in Quotes :
           LET old == checkout[q]  new == checkout'[q] IN
           old.status # "none" /\ new.status # "none" =>
             /\ new.attempts >= old.attempts /\ new.checks >= old.checks
             /\ old.page # None => new.page = old.page
             /\ old.settled # "none" => new.settled = old.settled]_vars
  BY <1>1 DEF NoRegress
<1> QED BY <1>2, Invariance, PTL DEF Spec, TopupRecordNeverRegresses
=============================================================================
