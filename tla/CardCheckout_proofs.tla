-------------------------- MODULE CardCheckout_proofs --------------------------
(***************************************************************************)
(* Proofs about the two card tools, for any number of clients, accounts,   *)
(* quotes, pages, calls, attempts and checks and any platform answers.     *)
(* One record is written under two locks.  The argument: no page of a      *)
(* quote is known to the user before the last checkout request for it was  *)
(* answered for good, so the calls that open pages for a quote and those   *)
(* that read its payment never work on its record at the same time; and a  *)
(* record is only ever lost together with the activity of its quote.       *)
(***************************************************************************)
EXTENDS CardCheckout, AsyncLock_proofs, QuoteStore_proofs, FiniteSetTheorems

-----------------------------------------------------------------------------
(* The inductive invariant.                                                *)

InFlight == {"ensuring", "asking"}

\* The quote a call is about: the one it opens a page for, or the page's.
Subject(t) == IF task[t].on \in Quotes THEN task[t].on ELSE page[task[t].on].quote

\* A call past its gates that opens a page: nothing final was answered for the
\* quote yet, its record is the call's copy or gone, and what was sent is counted.
OpensOK(t) ==
  LET q == task[t].on  c == task[t].copy IN
  /\ c.status \in {"pending", "unresolved"} /\ c.page = None
  /\ checkout[q] \in {c, NoCheckout}
  /\ ~posts[q].settled
  /\ posts[q].keys \subseteq {c.key}
  /\ posts[q].count <= c.attempts
  /\ task[t].pc = "ensuring" => posts[q].count < c.attempts
  /\ task[t].pc = "asking" => posts[q].keys = {c.key}

\* A call past its gates that reads a payment: it is the one payment the user
\* can make for the quote, and the read is counted in the call's copy.
ChecksOK(t) ==
  LET p == task[t].on  c == task[t].copy IN
  /\ p \in Pages /\ p \in shown[page[p].quote]
  /\ c.page = p /\ c.status = "open"
  /\ checkout[page[p].quote] = c \/ checkout[page[p].quote].page = None
  /\ reads[p] <= c.checks
  /\ task[t].pc = "ensuring" => reads[p] < c.checks

\* Either holds its lock, owns its quote, and has a copy that is the stored
\* record or belongs to a quote that cannot be bought any more.
FlightOK(t) ==
  LET q == Subject(t)  c == task[t].copy IN
  /\ lock[task[t].on].holder = t
  /\ q \in Quotes /\ quote[q].status # "none" /\ task[t].owner = quote[q].owner
  /\ c \in Checkout /\ c.owner = quote[q].owner /\ c.key <= minted[q] /\ c.settled = "none"
  /\ checkout[q] = c \/ (checkout[q].key # c.key /\ quote[q].status # "active")
  /\ IF task[t].on \in Quotes THEN OpensOK(t) ELSE ChecksOK(t)

CallOK(t) ==
  /\ task[t].pc # "idle" => task[t].on \in Quotes \cup Pages /\ task[t].owner \in Owner
  /\ task[t].pc \in InFlight => FlightOK(t)

\* A stored record is its quote's owner's, and tells what the platform shows.
RecordOK(q) ==
  LET r == checkout[q] IN
  /\ r = NoCheckout => minted[q] < MaxKeys
  /\ r # NoCheckout => /\ quote[q].status # "none" /\ r.owner = quote[q].owner /\ r.key <= minted[q]
  /\ r.page = None => r.status # "open" /\ r.settled = "none"
  /\ r.page # None => /\ r.page \in shown[q] /\ reads[r.page] <= r.checks
                      /\ r.status # "open" =>
                           r.status = "failed" /\ r.code = "card_payment_ambiguous" /\ r.settled = "none"
  /\ r.settled # "none" => page[r.page].state = r.settled
  /\ r.settled = "completed" => quote[q].status = "consumed"

\* While a quote can be bought, what was sent for it is on record.
ActiveOK(q) ==
  quote[q].status = "active" =>
    /\ posts[q].count > 0 => /\ checkout[q] # NoCheckout
                             /\ posts[q].keys = {checkout[q].key}
                             /\ posts[q].count <= checkout[q].attempts
    /\ posts[q].settled => IsTerminal(checkout[q].status)

\* A link is shown with the final answer of the last request, and there is one.
PostsOK(q) ==
  /\ posts[q].count <= MaxAttempts
  /\ posts[q].count = 0 => posts[q].keys = {}
  /\ quote[q].status = "none" => posts[q].count = 0 /\ ~posts[q].settled
  /\ shown[q] # {} => posts[q].settled
  /\ \A p1, p2 \in shown[q] : p1 = p2
  /\ \A p \in shown[q] : page[p].quote = q
  /\ quote[q].status = "consumed" => \E p \in shown[q] : page[p].state = "completed"

\* Only a payment whose link was shown is ever read.
PageOK(p) ==
  /\ reads[p] <= MaxChecks
  /\ reads[p] > 0 => \E q \in Quotes : p \in shown[q]

QuoteOK(q) == RecordOK(q) /\ ActiveOK(q) /\ PostsOK(q)

IInv ==
  /\ TypeOK
  /\ \A t \in Tasks : CallOK(t)
  /\ \A q \in Quotes : QuoteOK(q)
  /\ \A p \in Pages : PageOK(p)

-----------------------------------------------------------------------------
(* What a step must do.                                                    *)

\* RecordNeverRegresses, of one quote.
NoRegress(q) ==
  LET old == checkout[q]  new == checkout'[q] IN
  old.key # 0 /\ new.key = old.key =>
    /\ new.attempts >= old.attempts /\ new.checks >= old.checks
    /\ old.page # None => new.page = old.page
    /\ old.settled # "none" => new.settled = old.settled
    /\ old.status = "failed" => new.status = "failed" /\ new.code = old.code

Asking(t, q) == task[t].pc = "asking" /\ task[t].on = q

StepOK ==
  /\ IInv'
  /\ \A q \in Quotes : NoRegress(q)
  /\ [Promise!Next]_(Promise!vars)

-----------------------------------------------------------------------------
(* Records.                                                                *)

LEMMA NoCheckoutFacts ==
  /\ NoCheckout.key = 0 /\ NoCheckout.page = None /\ NoCheckout.settled = "none"
  /\ NoCheckout.status = "none" /\ NoCheckout.owner = NoOwner
  BY DEF NoCheckout, NewCheckout

LEMMA CheckoutFacts ==
  ASSUME NEW r \in Checkout
  PROVE  /\ r.key \in Nat /\ r.key > 0 /\ r # NoCheckout
         /\ r.attempts \in Nat /\ r.checks \in Nat /\ r.checks <= MaxChecks
         /\ r.owner \in Owner
<1>1. r.key \in Nat /\ r.key > 0
  BY CardCheckoutAssumption DEF Checkout, Keys
<1> QED BY <1>1, NoCheckoutFacts, CardCheckoutAssumption DEF Checkout

\* A call that is past its gates, and the record it works with.
LEMMA FlightFacts ==
  ASSUME IInv, NEW t \in Tasks, task[t].pc \in InFlight
  PROVE  /\ TypeOK /\ FlightOK(t) /\ Subject(t) \in Quotes /\ QuoteOK(Subject(t))
         /\ task[t] \in Task /\ task[t].on \in Quotes \cup Pages /\ task[t].owner \in Owner
         /\ task[t].on \notin Quotes => task[t].on \in Pages /\ PageOK(task[t].on)
         /\ lock[task[t].on] \in LockType(Tasks)
  BY DEF IInv, CallOK, FlightOK, ChecksOK, InFlight, TypeOK

\* No two calls past their gates are about one quote, whichever tool they are of.
LEMMA Alone ==
  ASSUME IInv, NEW t \in Tasks, NEW u \in Tasks, task[t].pc \in InFlight, task[u].pc \in InFlight,
         Subject(t) = Subject(u)
  PROVE  t = u
<1>1. FlightOK(t) /\ FlightOK(u) /\ QuoteOK(Subject(t))
  BY FlightFacts
<1>2. CASE task[t].on \in Quotes /\ task[u].on \in Quotes
  BY <1>1, <1>2 DEF FlightOK, Subject
<1>3. CASE task[t].on \in Quotes /\ task[u].on \notin Quotes
  BY <1>1, <1>3 DEF FlightOK, Subject, OpensOK, ChecksOK, QuoteOK, PostsOK
<1>4. CASE task[t].on \notin Quotes /\ task[u].on \in Quotes
  BY <1>1, <1>4 DEF FlightOK, Subject, OpensOK, ChecksOK, QuoteOK, PostsOK
<1>5. CASE task[t].on \notin Quotes /\ task[u].on \notin Quotes
  <2>1. task[t].on = task[u].on
    BY <1>1, <1>5 DEF FlightOK, Subject, ChecksOK, QuoteOK, PostsOK
  <2> QED BY <1>1, <2>1 DEF FlightOK
<1> QED BY <1>2, <1>3, <1>4, <1>5

-----------------------------------------------------------------------------
(* Steps outside the two tools.                                            *)

\* The pages stay what they are, but for new ones and payments that move on.
PagesMove ==
  \A p \in Pages :
    \/ page'[p] = page[p]
    \/ page[p] = NoPage
    \/ page'[p].quote = page[p].quote /\ page[p].state \notin {"completed", "failed"}

\* Quotes move as Moves allows, a record goes only with its quote's activity,
\* and a call goes on as it was, or ends, or starts to wait.
LEMMA EnvStep ==
  ASSUME IInv, TypeOK', Moves(quote, quote'), PagesMove,
         UNCHANGED <<minted, posts, reads, shown>>,
         \A q \in Quotes : \/ checkout'[q] = checkout[q]
                           \/ checkout'[q] = NoCheckout /\ quote'[q].status # "active" /\ minted[q] < MaxKeys,
         \A t \in Tasks : \/ /\ task'[t] = task[t]
                             /\ task[t].pc \in InFlight => lock'[task[t].on].holder = t
                          \/ task'[t].pc = "idle"
                          \/ task'[t].pc = "waiting" /\ task'[t].on \in Quotes \cup Pages /\ task'[t].owner \in Owner
  PROVE  IInv' /\ \A q \in Quotes : NoRegress(q)
<1>1. ASSUME NEW q \in Quotes
      PROVE  \/ quote'[q].status = quote[q].status /\ quote'[q].owner = quote[q].owner
             \/ quote[q].status = "active" /\ quote'[q].status = "cancelled" /\ quote'[q].owner = quote[q].owner
             \/ quote[q].status = "none" /\ quote'[q].status = "active"
  BY DEF Moves
<1>2. ASSUME NEW q \in Quotes, NEW p \in shown[q]
      PROVE  /\ p \in Pages /\ page'[p].quote = q
             /\ page[p].state \in {"completed", "failed"} => page'[p].state = page[p].state
  <2>1. p \in Pages /\ page[p].quote = q
    BY DEF IInv, TypeOK, QuoteOK, PostsOK
  <2>2. page[p] # NoPage
    BY <2>1, CardCheckoutAssumption DEF NoPage
  <2> QED BY <2>1, <2>2 DEF PagesMove
<1>3. ASSUME NEW q \in Quotes PROVE QuoteOK(q)'
  <2>1. RecordOK(q) /\ ActiveOK(q) /\ PostsOK(q)
    BY DEF IInv, QuoteOK
  <2>2. PostsOK(q)'
    BY <1>1, <1>2, <2>1 DEF PostsOK
  <2>3. RecordOK(q)'
    <3>1. CASE checkout'[q] = checkout[q]
      <4>1. checkout[q].settled \in {"none", "completed", "failed"}
        BY NoCheckoutFacts DEF IInv, TypeOK, Checkout
      <4>2. checkout[q].settled # "none" => page'[checkout[q].page].state = checkout[q].settled
        BY <1>2, <2>1, <4>1 DEF RecordOK
      <4> QED BY <1>1, <2>1, <3>1, <4>2 DEF RecordOK
    <3>2. CASE checkout'[q] = NoCheckout /\ minted[q] < MaxKeys
      BY <3>2, NoCheckoutFacts DEF RecordOK
    <3> QED BY <3>1, <3>2
  <2>4. ActiveOK(q)'
    <3>1. CASE quote[q].status = "none"
      BY <2>1, <3>1 DEF ActiveOK, PostsOK
    <3>2. CASE quote[q].status # "none"
      BY <1>1, <2>1, <3>2 DEF ActiveOK
    <3> QED BY <3>1, <3>2
  <2> QED BY <2>2, <2>3, <2>4 DEF QuoteOK
<1>4. ASSUME NEW t \in Tasks, task'[t].pc \in InFlight PROVE FlightOK(t)'
  <2>1. task'[t] = task[t] /\ lock'[task[t].on].holder = t /\ task[t].pc \in InFlight
    BY <1>4 DEF InFlight
  <2>2. FlightOK(t) /\ Subject(t) \in Quotes
    BY <2>1, FlightFacts
  <2>3. PICK q \in Quotes : q = Subject(t)
    BY <2>2
  <2>4. Subject(t)' = q
    <3>1. CASE task[t].on \in Quotes
      BY <2>1, <2>3, <3>1 DEF Subject
    <3>2. CASE task[t].on \notin Quotes
      BY <1>2, <2>1, <2>2, <2>3, <3>2 DEF Subject, FlightOK, ChecksOK
    <3> QED BY <3>1, <3>2
  <2>5. quote'[q].status # "none" /\ quote'[q].owner = quote[q].owner
        /\ (quote[q].status # "active" => quote'[q].status # "active")
    BY <1>1, <2>2, <2>3 DEF FlightOK
  <2>6. checkout'[q] \in {checkout[q], NoCheckout}
        /\ (checkout'[q] # checkout[q] => quote'[q].status # "active" /\ checkout'[q].key = 0)
    BY NoCheckoutFacts
  <2>7. task[t].copy \in Checkout /\ task[t].copy.key # 0
    BY <2>2, CheckoutFacts DEF FlightOK
  <2>8. checkout'[q] = task[t].copy \/ (checkout'[q].key # task[t].copy.key /\ quote'[q].status # "active")
    BY <2>2, <2>3, <2>5, <2>6, <2>7 DEF FlightOK
  <2>9. IF task[t].on \in Quotes THEN OpensOK(t)' ELSE ChecksOK(t)'
    <3>1. CASE task[t].on \in Quotes
      <4>1. q = task[t].on /\ OpensOK(t)
        BY <2>2, <2>3, <3>1 DEF Subject, FlightOK
      <4> QED BY <2>1, <2>6, <3>1, <4>1 DEF OpensOK
    <3>2. CASE task[t].on \notin Quotes
      <4>1. q = page[task[t].on].quote /\ q = page'[task[t].on].quote /\ ChecksOK(t)
        BY <2>1, <2>2, <2>3, <2>4, <3>2 DEF Subject, FlightOK
      <4> QED BY <2>1, <2>6, <3>2, <4>1, NoCheckoutFacts DEF ChecksOK
    <3> QED BY <3>1, <3>2
  <2> QED BY <2>1, <2>2, <2>3, <2>4, <2>5, <2>8, <2>9 DEF FlightOK
<1>5. ASSUME NEW t \in Tasks PROVE CallOK(t)'
  <2>1. task'[t].pc # "idle" => task'[t].on \in Quotes \cup Pages /\ task'[t].owner \in Owner
    BY DEF IInv, CallOK
  <2> QED BY <2>1, <1>4 DEF CallOK
<1>6. ASSUME NEW q \in Quotes PROVE NoRegress(q)
  <2>1. CASE checkout'[q] = checkout[q]
    <3>1. checkout[q].attempts >= checkout[q].attempts /\ checkout[q].checks >= checkout[q].checks
      <4>1. CASE checkout[q] = NoCheckout
        BY <4>1, CardCheckoutAssumption DEF NoCheckout, NewCheckout
      <4>2. CASE checkout[q] \in Checkout
        BY <4>2, CheckoutFacts
      <4> QED BY <4>1, <4>2 DEF IInv, TypeOK
    <3> QED BY <2>1, <3>1 DEF NoRegress
  <2>2. CASE checkout'[q] = NoCheckout
    BY <2>2, NoCheckoutFacts DEF NoRegress
  <2> QED BY <2>1, <2>2
<1>7. ASSUME NEW p \in Pages PROVE PageOK(p)'
  BY DEF IInv, PageOK
<1> QED BY <1>3, <1>5, <1>6, <1>7 DEF IInv

\* A step of neither tool sends nothing.
LEMMA SendsNothing ==
  ASSUME posts' = posts, \A q \in Quotes, t \in Tasks : Asking(t, q)' <=> Asking(t, q)
  PROVE  [Promise!Next]_(Promise!vars)
<1>1. UNCHANGED Promise!vars
  BY DEF Promise!vars, Asking
<1> QED BY <1>1

\* The calls and their locks as they were.
LEMMA CallsGoOn ==
  ASSUME IInv, UNCHANGED <<lock, task>>
  PROVE  \A t \in Tasks : task'[t] = task[t] /\ (task[t].pc \in InFlight => lock'[task[t].on].holder = t)
  BY FlightFacts DEF FlightOK

\* A step outside the tools: only quotes and pages move.
LEMMA OutsideStep ==
  ASSUME IInv, TypeOK', Moves(quote, quote'), PagesMove,
         UNCHANGED <<checkout, lock, task, minted, posts, reads, shown>>
  PROVE  StepOK
<1>1. IInv' /\ \A q \in Quotes : NoRegress(q)
  BY EnvStep, CallsGoOn
<1>2. [Promise!Next]_(Promise!vars)
  BY SendsNothing DEF Asking
<1> QED BY <1>1, <1>2 DEF StepOK

LEMMA SameMoves == ASSUME NEW quotes \in QuoteMap PROVE Moves(quotes, quotes)
  BY DEF Moves

LEMMA SignInStep == ASSUME IInv, NEW k \in Clients, NEW u \in Users, SignIn(k, u) PROVE StepOK
<1>1. TypeOK'
  BY DEF IInv, TypeOK, SignIn, platform, sent
<1>2. Moves(quote, quote') /\ PagesMove
  BY SameMoves DEF IInv, TypeOK, SignIn, QuoteMap, PagesMove, platform
<1> QED BY <1>1, <1>2, OutsideStep DEF SignIn, platform, sent

LEMMA PrepareStep ==
  ASSUME IInv, NEW k \in Clients, NEW q \in Quotes, NEW plan \in Plans, Prepare(k, q, plan) PROVE StepOK
<1>1. OwnerOf(k, session[k]) \in Owner
  BY DEF IInv, TypeOK, Prepare, OwnerOf, Owner
<1>2. PICK b \in BOOLEAN : b = FALSE
  OBVIOUS
<1>3. quote' = Created(quote, q, OwnerOf(k, session[k]), plan, b) /\ quote[q] = NoQuote
  BY <1>2, Zenon DEF Prepare
<1>4. Moves(quote, quote')
  BY <1>1, <1>3, CreatedMoves DEF IInv, TypeOK, QuoteMap
<1>5. TypeOK'
  BY <1>4 DEF IInv, TypeOK, Prepare, Moves, QuoteMap, platform, sent
<1> QED BY <1>4, <1>5, OutsideStep DEF Prepare, PagesMove, platform, sent

LEMMA LapsesStep == ASSUME IInv, NEW q \in Quotes, Lapses(q) PROVE StepOK
<1>1. quote[q] \in Quote
  BY DEF IInv, TypeOK, Lapses, IsUsable, Quote, NoQuote
<1>2. Moves(quote, quote')
  BY <1>1 DEF IInv, TypeOK, Lapses, Moves, QuoteMap, Quote
<1>3. TypeOK'
  BY <1>2 DEF IInv, TypeOK, Lapses, Moves, QuoteMap, platform, sent
<1> QED BY <1>2, <1>3, OutsideStep DEF Lapses, PagesMove, platform, sent

LEMMA CancelPreparedStep ==
  ASSUME IInv, NEW k \in Clients, NEW q \in Quotes, CancelPrepared(k, q) PROVE StepOK
<1>1. Moves(quote, quote')
  BY CancelledMoves DEF IInv, TypeOK, CancelPrepared, QuoteMap
<1>2. TypeOK'
  BY <1>1 DEF IInv, TypeOK, CancelPrepared, Moves, QuoteMap, platform, sent
<1> QED BY <1>1, <1>2, OutsideStep DEF CancelPrepared, PagesMove, platform, sent

LEMMA PageOpensStep ==
  ASSUME IInv, NEW q \in Quotes, NEW p \in Pages, PageOpens(q, p) PROVE StepOK
<1>1. PagesMove
  BY DEF IInv, TypeOK, PageOpens, PagesMove
<1>2. [quote |-> q, state |-> "pending"] \in [quote : Quotes, state : PaymentStates]
  BY DEF PaymentStates
<1>3. TypeOK'
  BY <1>2 DEF IInv, TypeOK, PageOpens, sent
<1>4. Moves(quote, quote')
  BY SameMoves DEF IInv, TypeOK, PageOpens, QuoteMap
<1> QED BY <1>1, <1>3, <1>4, OutsideStep DEF PageOpens, sent

LEMMA PaymentMovesStep ==
  ASSUME IInv, NEW p \in Pages, NEW s \in PaymentStates, PaymentMoves(p, s) PROVE StepOK
<1>1. page[p] # NoPage /\ page[p].state \notin {"completed", "failed"}
  BY DEF PaymentMoves, NoPage
<1>2. page[p] \in [quote : Quotes, state : PaymentStates]
  BY <1>1 DEF IInv, TypeOK
<1>3. [page[p] EXCEPT !.state = s] \in [quote : Quotes, state : PaymentStates]
      /\ [page[p] EXCEPT !.state = s].quote = page[p].quote
  BY <1>2
<1>4. page' = [page EXCEPT ![p].state = s]
  BY DEF PaymentMoves
<1>5. TypeOK'
  BY <1>3, <1>4 DEF IInv, TypeOK, PaymentMoves, sent
<1>6. PagesMove
  BY <1>1, <1>3, <1>4 DEF IInv, TypeOK, PagesMove
<1>7. Moves(quote, quote')
  BY SameMoves DEF IInv, TypeOK, PaymentMoves, QuoteMap
<1> QED BY <1>5, <1>6, <1>7, OutsideStep DEF PaymentMoves, sent

\* The end of a session drops a record only with its quote's activity.
LEMMA InvalidateFacts ==
  ASSUME IInv, NEW k \in Clients, Invalidate(k)
  PROVE  /\ session' \in [Clients -> Users \cup {None}]
         /\ Moves(quote, quote')
         /\ checkout' \in [Quotes -> Checkout \cup {NoCheckout}]
         /\ \A q \in Quotes : \/ checkout'[q] = checkout[q]
                              \/ checkout'[q] = NoCheckout /\ quote'[q].status # "active" /\ minted[q] < MaxKeys
<1>1. Moves(quote, quote') /\ \A q \in Quotes : quote'[q].status = "active" => quote[q].owner.client # k
  BY InvalidatedMoves DEF IInv, TypeOK, Invalidate, QuoteMap
<1>2. ASSUME NEW q \in Quotes
      PROVE  \/ checkout'[q] = checkout[q]
             \/ checkout'[q] = NoCheckout /\ quote'[q].status # "active" /\ minted[q] < MaxKeys
  <2>1. CASE checkout[q].owner.client = k
    <3>1. checkout[q] # NoCheckout
      BY <2>1, NoCheckoutFacts, CardCheckoutAssumption DEF NoOwner
    <3>2. quote[q].owner.client = k
      BY <2>1, <3>1 DEF IInv, QuoteOK, RecordOK
    <3> QED BY <1>1, <2>1, <3>2 DEF Invalidate, Records
  <2>2. CASE checkout[q].owner.client # k
    BY <2>2 DEF Invalidate, Records
  <2> QED BY <2>1, <2>2
<1>3. session' \in [Clients -> Users \cup {None}]
  BY DEF IInv, TypeOK, Invalidate
<1>4. checkout' \in [Quotes -> Checkout \cup {NoCheckout}]
  BY DEF IInv, TypeOK, Invalidate
<1> QED BY <1>1, <1>2, <1>3, <1>4

LEMMA SessionEndsStep == ASSUME IInv, NEW k \in Clients, SessionEnds(k) PROVE StepOK
<1>1. Invalidate(k) /\ UNCHANGED <<lock, task, minted, posts, reads, shown, page>>
  BY DEF SessionEnds, platform, sent
<1>2. TypeOK'
  BY <1>1, InvalidateFacts DEF IInv, TypeOK, Moves, QuoteMap
<1>3. IInv' /\ \A q \in Quotes : NoRegress(q)
  BY <1>1, <1>2, InvalidateFacts, EnvStep, CallsGoOn DEF PagesMove
<1>4. [Promise!Next]_(Promise!vars)
  BY <1>1, SendsNothing DEF Asking
<1> QED BY <1>3, <1>4 DEF StepOK

-----------------------------------------------------------------------------
(* Calls that end with nothing recorded, or start to wait.                 *)

LEMMA IdleType == Idle \in Task /\ Idle.pc = "idle"
  BY DEF Idle, Doing, Task

LEMMA BecomeType ==
  ASSUME TypeOK, NEW t \in Tasks, NEW d \in Task, Become(t, d)
  PROVE  /\ task' \in [Tasks -> Task] /\ task'[t] = d
         /\ \A u \in Tasks : u # t => task'[u] = task[u]
  BY DEF TypeOK, Become

LEMMA EndsType ==
  ASSUME TypeOK, NEW t \in Tasks, NEW x \in Quotes \cup Pages, NEW l \in LockType(Tasks), Ends(t, x, l)
  PROVE  /\ lock' \in [Quotes \cup Pages -> LockType(Tasks)]
         /\ \A y \in Quotes \cup Pages : y # x => lock'[y] = lock[y]
         /\ task' \in [Tasks -> Task] /\ task'[t].pc = "idle"
         /\ \A u \in Tasks : u # t => task'[u] = task[u]
<1>1. Leave(l) \in LockType(Tasks)
  BY LeaveType
<1>2. lock' = [lock EXCEPT ![x] = Leave(l)] /\ Become(t, Idle)
  BY DEF Ends
<1>3. /\ lock' \in [Quotes \cup Pages -> LockType(Tasks)]
      /\ \A y \in Quotes \cup Pages : y # x => lock'[y] = lock[y]
  BY <1>1, <1>2 DEF TypeOK
<1> QED BY <1>2, <1>3, IdleType, BecomeType

\* The calls past their gates keep their locks when t takes or leaves its own.
LEMMA OthersGoOn ==
  ASSUME IInv, NEW t \in Tasks, NEW x \in Quotes \cup Pages,
         \A y \in Quotes \cup Pages : y # x => lock'[y] = lock[y],
         lock[x].holder \in {t, Nobody} \/ lock'[x].holder = lock[x].holder,
         \A u \in Tasks : u # t => task'[u] = task[u]
  PROVE  \A u \in Tasks : u # t => /\ task'[u] = task[u]
                                   /\ task[u].pc \in InFlight => lock'[task[u].on].holder = u
<1> SUFFICES ASSUME NEW u \in Tasks, u # t, task[u].pc \in InFlight
             PROVE  lock'[task[u].on].holder = u
  OBVIOUS
<1>1. lock[task[u].on].holder = u /\ task[u].on \in Quotes \cup Pages
  BY FlightFacts DEF FlightOK
<1> QED BY <1>1, CardCheckoutAssumption

\* A call stops waiting for the answer to a checkout request, final or not.
LEMMA ReturnsAsPromised ==
  ASSUME IInv, NEW t \in Tasks, NEW q \in Quotes, Asking(t, q), task'[t].pc # "asking",
         \A u \in Tasks : u # t => task'[u] = task[u],
         \A r \in Quotes : posts'[r].keys = posts[r].keys /\ posts'[r].count = posts[r].count,
         \A r \in Quotes : r # q => posts'[r].settled = posts[r].settled,
         posts[q].settled => posts'[q].settled
  PROVE  [Promise!Next]_(Promise!vars)
<1>1. ASSUME NEW u \in Tasks, NEW r \in Quotes
      PROVE  Asking(u, r)' <=> Asking(u, r) /\ ~(u = t /\ r = q)
  BY DEF Asking
<1>2. ASSUME NEW u \in Tasks, Asking(u, q) PROVE u = t
  BY <1>2, Alone DEF Asking, Subject, InFlight
<1>3. {r \in Quotes : \E u \in Tasks : Asking(u, r)'} = {r \in Quotes : \E u \in Tasks : Asking(u, r)} \ {q}
  BY <1>1, <1>2
<1>4. q \in {r \in Quotes : \E u \in Tasks : Asking(u, r)}
  OBVIOUS
<1>5. {r \in Quotes : posts'[r].settled} \in
        {{r \in Quotes : posts[r].settled}, {r \in Quotes : posts[r].settled} \cup {q}}
  <2>1. CASE posts'[q].settled
    <3>1. {r \in Quotes : posts'[r].settled} = {r \in Quotes : posts[r].settled} \cup {q}
      BY <2>1
    <3> QED BY <3>1
  <2>2. CASE ~posts'[q].settled
    <3>1. {r \in Quotes : posts'[r].settled} = {r \in Quotes : posts[r].settled}
      BY <2>2
    <3> QED BY <3>1
  <2> QED BY <2>1, <2>2
<1>6. /\ [r \in Quotes |-> posts'[r].keys] = [r \in Quotes |-> posts[r].keys]
      /\ [r \in Quotes |-> posts'[r].count] = [r \in Quotes |-> posts[r].count]
  OBVIOUS
<1>7. Promise!Return(q)
  BY <1>3, <1>4, <1>5, <1>6 DEF Promise!Return, Asking
<1> QED BY <1>7 DEF Promise!Next

\* A call that gives up waits for nothing any longer.
LEMMA GivesUpAsPromised ==
  ASSUME IInv, NEW t \in Tasks, task'[t].pc # "asking", posts' = posts,
         \A u \in Tasks : u # t => task'[u] = task[u]
  PROVE  [Promise!Next]_(Promise!vars)
<1>1. CASE \E q \in Quotes : Asking(t, q)
  BY <1>1, ReturnsAsPromised
<1>2. CASE ~\E q \in Quotes : Asking(t, q)
  BY <1>2, SendsNothing DEF Asking
<1> QED BY <1>1, <1>2

\* A call leaves its lock with no record changed.
LEMMA LeavesStep ==
  ASSUME IInv, NEW t \in Tasks, NEW x \in Quotes \cup Pages, NEW l \in LockType(Tasks),
         lock[x].holder \in {t, Nobody}, Ends(t, x, l),
         UNCHANGED <<session, quote, checkout, minted, platform, sent>>
  PROVE  StepOK
<1>1. TypeOK
  BY DEF IInv
<1>2. /\ lock' \in [Quotes \cup Pages -> LockType(Tasks)]
      /\ \A y \in Quotes \cup Pages : y # x => lock'[y] = lock[y]
      /\ task' \in [Tasks -> Task] /\ task'[t].pc = "idle"
      /\ \A u \in Tasks : u # t => task'[u] = task[u]
  BY <1>1, EndsType
<1>3. TypeOK'
  BY <1>1, <1>2 DEF TypeOK, platform, sent
<1>4. Moves(quote, quote') /\ PagesMove
  BY <1>1, SameMoves DEF TypeOK, QuoteMap, PagesMove, platform
<1>5. \A u \in Tasks : u # t => /\ task'[u] = task[u]
                                /\ task[u].pc \in InFlight => lock'[task[u].on].holder = u
  BY <1>2, OthersGoOn
<1>6. IInv' /\ \A q \in Quotes : NoRegress(q)
  BY <1>2, <1>3, <1>4, <1>5, EnvStep DEF platform, sent
<1> QED BY <1>2, <1>6, GivesUpAsPromised DEF StepOK, sent

\* The client cancels a call.
LEMMA CancelStep == ASSUME IInv, NEW t \in Tasks, Cancel(t) PROVE StepOK
<1>1. /\ TypeOK /\ task[t].pc # "idle" /\ Become(t, Idle)
      /\ UNCHANGED <<session, quote, checkout, minted, page, shown, posts, reads>>
  BY DEF IInv, Cancel, platform, sent
<1>2. PICK x \in Quotes \cup Pages : x = task[t].on
  BY <1>1 DEF IInv, CallOK
<1>3. lock' = [lock EXCEPT ![x] = Withdraw(@, t)] /\ lock[x] \in LockType(Tasks)
  BY <1>1, <1>2 DEF Cancel, TypeOK
<1>4. /\ Withdraw(lock[x], t) \in LockType(Tasks)
      /\ lock[x].holder # t => Withdraw(lock[x], t).holder = lock[x].holder
  BY <1>3, WithdrawType
<1>5. /\ lock' \in [Quotes \cup Pages -> LockType(Tasks)]
      /\ \A y \in Quotes \cup Pages : y # x => lock'[y] = lock[y]
      /\ lock[x].holder \in {t, Nobody} \/ lock'[x].holder = lock[x].holder
  BY <1>1, <1>3, <1>4 DEF TypeOK
<1>6. /\ task' \in [Tasks -> Task] /\ task'[t].pc = "idle"
      /\ \A u \in Tasks : u # t => task'[u] = task[u]
  BY <1>1, IdleType, BecomeType
<1>7. TypeOK'
  BY <1>1, <1>5, <1>6 DEF TypeOK
<1>8. Moves(quote, quote') /\ PagesMove
  BY <1>1, SameMoves DEF TypeOK, QuoteMap, PagesMove
<1>9. \A u \in Tasks : u # t => /\ task'[u] = task[u]
                                /\ task[u].pc \in InFlight => lock'[task[u].on].holder = u
  BY <1>5, <1>6, OthersGoOn
<1>10. IInv' /\ \A q \in Quotes : NoRegress(q)
  BY <1>1, <1>6, <1>7, <1>8, <1>9, EnvStep
<1> QED BY <1>1, <1>6, <1>10, GivesUpAsPromised DEF StepOK

\* The session was lost while the call ensured it.
LEMMA SessionIsLostStep == ASSUME IInv, NEW t \in Tasks, SessionIsLost(t) PROVE StepOK
<1>1. /\ task[t].pc = "ensuring" /\ Ends(t, task[t].on, lock[task[t].on])
      /\ UNCHANGED <<minted, page, shown, posts, reads>>
  BY DEF SessionIsLost, platform, sent
<1>2. /\ TypeOK /\ task[t].owner \in Owner /\ lock[task[t].on] \in LockType(Tasks) /\ FlightOK(t)
      /\ task[t].on \in Quotes \cup Pages
  BY <1>1, FlightFacts DEF InFlight
<1>3. PICK x \in Quotes \cup Pages : x = task[t].on /\ lock[x].holder = t
  BY <1>2 DEF FlightOK
<1>4. /\ lock' \in [Quotes \cup Pages -> LockType(Tasks)]
      /\ \A y \in Quotes \cup Pages : y # x => lock'[y] = lock[y]
      /\ task' \in [Tasks -> Task] /\ task'[t].pc = "idle"
      /\ \A u \in Tasks : u # t => task'[u] = task[u]
  BY <1>1, <1>2, <1>3, EndsType
<1>5. /\ session' \in [Clients -> Users \cup {None}]
      /\ Moves(quote, quote')
      /\ checkout' \in [Quotes -> Checkout \cup {NoCheckout}]
      /\ \A q \in Quotes : \/ checkout'[q] = checkout[q]
                           \/ checkout'[q] = NoCheckout /\ quote'[q].status # "active" /\ minted[q] < MaxKeys
  <2>1. task[t].owner.client \in Clients
    BY <1>2 DEF Owner
  <2>2. CASE Invalidate(task[t].owner.client)
    BY <2>1, <2>2, InvalidateFacts
  <2>3. CASE UNCHANGED <<session, quote, checkout>>
    BY <1>2, <2>3, SameMoves DEF TypeOK, QuoteMap
  <2> QED BY <2>2, <2>3 DEF SessionIsLost
<1>6. TypeOK'
  BY <1>1, <1>2, <1>4, <1>5 DEF TypeOK, Moves, QuoteMap
<1>7. \A u \in Tasks : u # t => /\ task'[u] = task[u]
                                /\ task[u].pc \in InFlight => lock'[task[u].on].holder = u
  BY <1>3, <1>4, OthersGoOn
<1>8. IInv' /\ \A q \in Quotes : NoRegress(q)
  BY <1>1, <1>4, <1>5, <1>6, <1>7, EnvStep DEF PagesMove
<1> QED BY <1>1, <1>4, <1>8, GivesUpAsPromised DEF StepOK

-----------------------------------------------------------------------------
(* Steps of the call that holds a lock.                                    *)

\* A step of the call t under the lock x, about the quote q.
OnlyTouches(t, x, q) ==
  /\ lock[x].holder \in {t, Nobody}
  /\ x \in Pages => page[x].quote = q
  /\ x \in Quotes => x = q
  /\ \A y \in Quotes \cup Pages : y # x => lock'[y] = lock[y]
  /\ \A u \in Tasks : u # t => task'[u] = task[u]
  /\ \A r \in Quotes : r # q => /\ quote'[r] = quote[r] /\ checkout'[r] = checkout[r] /\ minted'[r] = minted[r]
                                /\ posts'[r] = posts[r] /\ shown'[r] = shown[r]
  /\ \A p \in Pages : p # x => reads'[p] = reads[p]
  /\ shown[q] \subseteq shown'[q]
  /\ page' = page

\* Such a step keeps the invariant when it does so for its own quote and call.
LEMMA HolderStep ==
  ASSUME IInv, TypeOK', NEW t \in Tasks, NEW x \in Quotes \cup Pages, NEW q \in Quotes, OnlyTouches(t, x, q),
         \A u \in Tasks : u # t /\ task[u].pc \in InFlight => Subject(u) # q \/ FlightOK(u)',
         CallOK(t)', QuoteOK(q)', x \in Pages => PageOK(x)', NoRegress(q)
  PROVE  IInv' /\ \A r \in Quotes : NoRegress(r)
<1>1. ASSUME NEW u \in Tasks PROVE CallOK(u)'
  <2>1. CASE u = t
    BY <2>1
  <2>2. CASE u # t /\ task[u].pc \notin InFlight
    BY <2>2 DEF OnlyTouches, IInv, CallOK
  <2>3. CASE u # t /\ task[u].pc \in InFlight
    <3>1. task'[u] = task[u] /\ CallOK(u)
      BY <2>3 DEF OnlyTouches, IInv
    <3>2. CASE Subject(u) # q
      <4>1. FlightOK(u) /\ task[u].on \in Quotes \cup Pages /\ (task[u].on \notin Quotes => task[u].on \in Pages)
        BY <2>3, FlightFacts
      <4>2. task[u].on # x
        BY <2>3, <3>2, <4>1, CardCheckoutAssumption DEF OnlyTouches, FlightOK
      <4>3. PICK r \in Quotes : r = Subject(u) /\ r # q
        BY <3>2, <4>1 DEF FlightOK
      <4>4. Subject(u)' = r
        BY <3>1, <4>3 DEF Subject, OnlyTouches
      <4>5. lock'[task[u].on] = lock[task[u].on]
        BY <4>1, <4>2 DEF OnlyTouches
      <4>6. /\ quote'[r] = quote[r] /\ checkout'[r] = checkout[r] /\ minted'[r] = minted[r]
            /\ posts'[r] = posts[r] /\ shown'[r] = shown[r] /\ page' = page
        BY <4>3 DEF OnlyTouches
      <4>7. CASE task[u].on \in Quotes
        <5>1. task[u].on = r
          BY <4>3, <4>7 DEF Subject
        <5>2. OpensOK(u)'
          BY <3>1, <4>1, <4>6, <4>7, <5>1 DEF FlightOK, OpensOK
        <5> QED BY <3>1, <4>1, <4>3, <4>4, <4>5, <4>6, <4>7, <5>2 DEF FlightOK, CallOK
      <4>8. CASE task[u].on \notin Quotes
        <5>1. page[task[u].on].quote = r /\ reads'[task[u].on] = reads[task[u].on]
          BY <4>1, <4>2, <4>3, <4>8 DEF Subject, OnlyTouches
        <5>2. ChecksOK(u)'
          BY <3>1, <4>1, <4>6, <4>8, <5>1 DEF FlightOK, ChecksOK
        <5> QED BY <3>1, <4>1, <4>3, <4>4, <4>5, <4>6, <4>8, <5>2 DEF FlightOK, CallOK
      <4> QED BY <4>7, <4>8
    <3>3. CASE Subject(u) = q
      BY <2>3, <3>1, <3>3 DEF CallOK
    <3> QED BY <3>2, <3>3
  <2> QED BY <2>1, <2>2, <2>3
<1>2. ASSUME NEW r \in Quotes, r # q PROVE QuoteOK(r)' /\ NoRegress(r)
  <2>1. /\ quote'[r] = quote[r] /\ checkout'[r] = checkout[r] /\ minted'[r] = minted[r]
        /\ posts'[r] = posts[r] /\ shown'[r] = shown[r] /\ page' = page
    BY <1>2 DEF OnlyTouches
  <2>2. QuoteOK(r) /\ shown[r] \in SUBSET Pages /\ checkout[r] \in Checkout \cup {NoCheckout}
    BY DEF IInv, TypeOK
  <2>3. ASSUME NEW p \in shown[r] PROVE reads'[p] = reads[p]
    <3>1. p \in Pages /\ page[p].quote = r
      BY <2>2 DEF QuoteOK, PostsOK
    <3>2. p # x
      BY <1>2, <3>1 DEF OnlyTouches
    <3> QED BY <3>1, <3>2 DEF OnlyTouches
  <2>4. RecordOK(r)'
    BY <2>1, <2>2, <2>3 DEF QuoteOK, RecordOK
  <2>5. ActiveOK(r)' /\ PostsOK(r)'
    BY <2>1, <2>2 DEF QuoteOK, ActiveOK, PostsOK
  <2>6. NoRegress(r)
    <3>1. CASE checkout[r] = NoCheckout
      BY <2>1, <3>1, NoCheckoutFacts DEF NoRegress
    <3>2. CASE checkout[r] \in Checkout
      BY <2>1, <3>2, CheckoutFacts DEF NoRegress
    <3> QED BY <2>2, <3>1, <3>2
  <2> QED BY <2>4, <2>5, <2>6 DEF QuoteOK
<1>3. ASSUME NEW p \in Pages PROVE PageOK(p)'
  <2>1. CASE p = x
    BY <2>1
  <2>2. CASE p # x
    <3>1. reads'[p] = reads[p] /\ PageOK(p)
      BY <2>2 DEF OnlyTouches, IInv
    <3>2. \A r \in Quotes : shown[r] \subseteq shown'[r]
      BY DEF OnlyTouches
    <3> QED BY <3>1, <3>2 DEF PageOK
  <2> QED BY <2>1, <2>2
<1> QED BY <1>1, <1>2, <1>3 DEF IInv

\* A call sends the one checkout request that is out for its quote.
LEMMA SendsAsPromised ==
  ASSUME IInv, NEW t \in Tasks, NEW q \in Quotes, NEW key \in Keys, Asking(t, q)', task[t].pc # "asking",
         \A u \in Tasks : u # t => task'[u] = task[u] /\ ~Asking(u, q),
         posts' = [posts EXCEPT ![q] = [keys |-> @.keys \cup {key}, count |-> @.count + 1, settled |-> @.settled]],
         ~posts[q].settled, posts[q].keys \subseteq {key}, posts[q].count < MaxAttempts
  PROVE  [Promise!Next]_(Promise!vars)
<1>1. ASSUME NEW u \in Tasks, NEW r \in Quotes
      PROVE  Asking(u, r)' <=> Asking(u, r) \/ (u = t /\ r = q)
  BY DEF Asking
<1>2. {r \in Quotes : \E u \in Tasks : Asking(u, r)'} = {r \in Quotes : \E u \in Tasks : Asking(u, r)} \cup {q}
  BY <1>1
<1>3. q \notin {r \in Quotes : \E u \in Tasks : Asking(u, r)}
  BY DEF Asking
<1>4. posts'[q] = [keys |-> posts[q].keys \cup {key}, count |-> posts[q].count + 1, settled |-> posts[q].settled]
      /\ \A r \in Quotes : r # q => posts'[r] = posts[r]
  BY DEF IInv, TypeOK
<1>5. posts'[q].keys = {key} /\ posts'[q].count = posts[q].count + 1 /\ posts'[q].settled = posts[q].settled
  BY <1>4
<1>6. {r \in Quotes : posts'[r].settled} = {r \in Quotes : posts[r].settled}
  BY <1>4, <1>5
<1>7. [r \in Quotes |-> posts'[r].keys] = [[r \in Quotes |-> posts[r].keys] EXCEPT ![q] = {key}]
  <2>1. \A r \in Quotes : posts'[r].keys = IF r = q THEN {key} ELSE posts[r].keys
    BY <1>4, <1>5
  <2> QED BY <2>1, Zenon
<1>8. [r \in Quotes |-> posts'[r].count]
        = [[r \in Quotes |-> posts[r].count] EXCEPT ![q] = [r \in Quotes |-> posts[r].count][q] + 1]
  <2>1. \A r \in Quotes : posts'[r].count = IF r = q THEN posts[q].count + 1 ELSE posts[r].count
    BY <1>4, <1>5
  <2> QED BY <2>1, Zenon
<1>9. Promise!Send(q, key)
  BY <1>2, <1>3, <1>6, <1>7, <1>8 DEF Promise!Send, Asking
<1> QED BY <1>9 DEF Promise!Next

-----------------------------------------------------------------------------
(* What a call decides under a quote's lock.                               *)

\* Before the final answer only the holder of the quote's lock works on it.
LEMMA NobodyOpens ==
  ASSUME IInv, NEW t, NEW q \in Quotes, ~posts[q].settled, lock[q].holder \in {t, Nobody},
         NEW u \in Tasks, u # t, task[u].pc \in InFlight
  PROVE  Subject(u) # q
<1> SUFFICES ASSUME Subject(u) = q PROVE FALSE
  OBVIOUS
<1>1. FlightOK(u) /\ QuoteOK(q)
  BY FlightFacts
<1>2. CASE task[u].on \in Quotes
  BY <1>1, <1>2, CardCheckoutAssumption DEF FlightOK, Subject
<1>3. CASE task[u].on \notin Quotes
  BY <1>1, <1>3 DEF FlightOK, Subject, ChecksOK, QuoteOK, PostsOK
<1> QED BY <1>2, <1>3

\* A link that was shown is the business of the holder of its payment's lock.
LEMMA NobodyChecks ==
  ASSUME IInv, NEW t, NEW q \in Quotes, NEW p \in shown[q], lock[p].holder \in {t, Nobody},
         NEW u \in Tasks, u # t, task[u].pc \in InFlight
  PROVE  Subject(u) # q
<1> SUFFICES ASSUME Subject(u) = q PROVE FALSE
  OBVIOUS
<1>1. FlightOK(u) /\ QuoteOK(q)
  BY FlightFacts
<1>2. posts[q].settled /\ \A p1 \in shown[q] : p1 = p
  BY <1>1 DEF QuoteOK, PostsOK
<1>3. CASE task[u].on \in Quotes
  BY <1>1, <1>2, <1>3 DEF FlightOK, Subject, OpensOK
<1>4. CASE task[u].on \notin Quotes
  BY <1>1, <1>2, <1>4, CardCheckoutAssumption DEF FlightOK, Subject, ChecksOK
<1> QED BY <1>3, <1>4

\* acquire() returns the record of the quote's owner, or one with a new key.
LEMMA AcquiredOK ==
  ASSUME IInv, NEW q \in Quotes, NEW owner \in Owner, Owned(quote, owner, q)
  PROVE  /\ quote[q].status # "none" /\ quote[q].owner = owner
         /\ Acquired(owner, q) \in Checkout /\ Acquired(owner, q).owner = owner
         /\ \/ Acquired(owner, q) = checkout[q]
            \/ /\ checkout[q] = NoCheckout /\ minted[q] < MaxKeys
               /\ Acquired(owner, q) = NewCheckout(owner, minted[q] + 1)
<1>1. quote[q].status # "none" /\ quote[q].owner = owner /\ RecordOK(q)
  BY DEF Owned, IInv, QuoteOK
<1>2. owner # NoOwner
  BY CardCheckoutAssumption DEF Owner, NoOwner
<1>3. CASE checkout[q].owner = owner
  <2>1. checkout[q] \in Checkout
    BY <1>2, <1>3, NoCheckoutFacts DEF IInv, TypeOK
  <2> QED BY <1>1, <1>3, <2>1 DEF Acquired
<1>4. CASE checkout[q].owner # owner
  <2>1. checkout[q] = NoCheckout /\ minted[q] < MaxKeys
    BY <1>1, <1>4 DEF RecordOK
  <2>2. minted[q] \in Nat /\ minted[q] + 1 \in Keys
    BY <2>1, CardCheckoutAssumption DEF IInv, TypeOK, Keys
  <2>3. NewCheckout(owner, minted[q] + 1) \in Checkout
    BY <2>2, CardCheckoutAssumption DEF NewCheckout, Checkout, CardCodes
  <2>4. NewCheckout(owner, minted[q] + 1).owner = owner
    BY DEF NewCheckout
  <2> QED BY <1>1, <1>4, <2>1, <2>3, <2>4 DEF Acquired
<1> QED BY <1>3, <1>4

\* A record with one more attempt.
Counted(r) == [r EXCEPT !.attempts = @ + 1]

\* Storing it, with or without one more attempt, keeps its quote's invariants.
LEMMA StoredOK ==
  ASSUME IInv, NEW q \in Quotes, NEW r \in Checkout, NEW s \in Checkout,
         s = r \/ s = Counted(r),
         quote[q].status # "none", r.owner = quote[q].owner,
         r = checkout[q] \/ (checkout[q] = NoCheckout /\ r = NewCheckout(quote[q].owner, minted[q] + 1)),
         checkout'[q] = s, minted'[q] = (IF r.key > minted[q] THEN r.key ELSE minted[q]),
         quote' = quote, page' = page, shown' = shown, reads' = reads
  PROVE  /\ RecordOK(q)' /\ NoRegress(q) /\ s.key <= minted'[q]
         /\ posts'[q] = posts[q] => QuoteOK(q)'
<1>1. RecordOK(q) /\ ActiveOK(q) /\ PostsOK(q) /\ minted[q] \in Nat
  BY CardCheckoutAssumption DEF IInv, QuoteOK, TypeOK
<1>2. /\ s.owner = r.owner /\ s.key = r.key /\ s.checks = r.checks /\ s.status = r.status /\ s.code = r.code
      /\ s.page = r.page /\ s.settled = r.settled
      /\ s.attempts \in Nat /\ r.attempts \in Nat /\ s.attempts >= r.attempts
  <2>1. CASE s = r
    BY <2>1, CheckoutFacts
  <2>2. CASE s = Counted(r)
    BY <2>2, CheckoutFacts DEF Checkout, Counted
  <2> QED BY <2>1, <2>2
<1>3. s # NoCheckout /\ s.key \in Nat /\ r.key \in Nat /\ s.checks \in Nat
  BY <1>2, CheckoutFacts
<1>4. s.key <= minted'[q]
  BY <1>1, <1>2, <1>3
<1>5. CASE r = checkout[q]
  <2>1. RecordOK(q)'
    BY <1>1, <1>2, <1>3, <1>4, <1>5 DEF RecordOK
  <2>2. posts'[q] = posts[q] => ActiveOK(q)'
    <3>1. posts[q].count \in Nat
      BY DEF IInv, TypeOK
    <3> QED BY <1>1, <1>2, <1>3, <1>5, <3>1 DEF ActiveOK, IsTerminal
  <2>3. posts'[q] = posts[q] => PostsOK(q)'
    BY <1>1 DEF PostsOK
  <2>4. NoRegress(q)
    BY <1>2, <1>3, <1>5 DEF NoRegress
  <2> QED BY <1>4, <2>1, <2>2, <2>3, <2>4 DEF QuoteOK
<1>6. CASE checkout[q] = NoCheckout /\ r = NewCheckout(quote[q].owner, minted[q] + 1)
  <2>1. r.status = "pending" /\ r.page = None /\ r.settled = "none"
    BY <1>6 DEF NewCheckout
  <2>2. RecordOK(q)'
    BY <1>2, <1>3, <1>4, <2>1 DEF RecordOK
  <2>3. posts'[q] = posts[q] => ActiveOK(q)'
    BY <1>1, <1>6, NoCheckoutFacts DEF ActiveOK, IsTerminal, PostsOK, IInv, TypeOK
  <2>4. posts'[q] = posts[q] => PostsOK(q)'
    BY <1>1 DEF PostsOK
  <2>5. NoRegress(q)
    BY <1>6, NoCheckoutFacts DEF NoRegress
  <2> QED BY <1>4, <2>2, <2>3, <2>4, <2>5 DEF QuoteOK
<1> QED BY <1>5, <1>6

\* Sending the request that was counted does, too.
LEMMA AskedOK ==
  ASSUME IInv, NEW q \in Quotes, NEW c \in Checkout,
         quote[q].status # "none", ~posts[q].settled, posts[q].count < c.attempts,
         quote' = quote, page' = page, shown' = shown,
         posts'[q].keys = {c.key}, posts'[q].count = posts[q].count + 1, posts'[q].settled = posts[q].settled,
         checkout'[q] = c \/ (checkout'[q].key # c.key /\ quote[q].status # "active"),
         RecordOK(q)'
  PROVE  QuoteOK(q)'
<1>1. PostsOK(q) /\ posts[q].count \in Nat
  BY DEF IInv, QuoteOK, TypeOK
<1>2. c # NoCheckout /\ c.attempts \in Nat /\ c.attempts <= MaxAttempts
  BY CheckoutFacts, CardCheckoutAssumption DEF Checkout
<1>3. ActiveOK(q)'
  BY <1>1, <1>2 DEF ActiveOK
<1>4. PostsOK(q)'
  BY <1>1, <1>2, CardCheckoutAssumption DEF PostsOK
<1> QED BY <1>3, <1>4 DEF QuoteOK

\* The attempt that is counted: nothing final is known, and nothing that was
\* sent is off the record.
LEMMA CountedOK ==
  ASSUME IInv, NEW q \in Quotes, NEW r \in Checkout, quote[q].status = "active", r.owner = quote[q].owner,
         r = checkout[q] \/ (checkout[q] = NoCheckout /\ r = NewCheckout(quote[q].owner, minted[q] + 1)),
         ~IsTerminal(r.status), r.attempts < MaxAttempts,
         NEW c, c = Counted(r)
  PROVE  /\ c \in Checkout /\ c.owner = r.owner /\ c.key = r.key
         /\ c.status \in {"pending", "unresolved"} /\ c.page = None /\ c.settled = "none"
         /\ ~posts[q].settled /\ posts[q].keys \subseteq {c.key}
         /\ posts[q].count \in Nat /\ posts[q].count < c.attempts /\ posts[q].count < MaxAttempts
<1>1. RecordOK(q) /\ ActiveOK(q) /\ PostsOK(q) /\ posts[q].count \in Nat
  BY DEF IInv, QuoteOK, TypeOK
<1>2. /\ c \in Checkout /\ c.owner = r.owner /\ c.key = r.key /\ c.status = r.status /\ c.page = r.page
      /\ c.settled = r.settled /\ c.attempts = r.attempts + 1 /\ r.attempts \in Nat
  BY CardCheckoutAssumption DEF Checkout, Counted
<1>3. r.status \in {"pending", "unresolved"}
  BY DEF Checkout, IsTerminal
<1>4. CASE r = checkout[q]
  <2>1. r.page = None /\ r.settled = "none"
    BY <1>1, <1>3, <1>4 DEF RecordOK
  <2>2. ~posts[q].settled
    BY <1>1, <1>4 DEF ActiveOK
  <2>3. posts[q].keys \subseteq {r.key} /\ posts[q].count <= r.attempts
    BY <1>1, <1>2, <1>4 DEF ActiveOK, PostsOK
  <2> QED BY <1>1, <1>2, <1>3, <2>1, <2>2, <2>3, CardCheckoutAssumption
<1>5. CASE checkout[q] = NoCheckout /\ r = NewCheckout(quote[q].owner, minted[q] + 1)
  <2>1. r.page = None /\ r.settled = "none"
    BY <1>5 DEF NewCheckout
  <2>2. ~posts[q].settled
    BY <1>1, <1>5, NoCheckoutFacts DEF ActiveOK, IsTerminal
  <2>3. posts[q].count = 0 /\ posts[q].keys = {}
    BY <1>1, <1>5 DEF ActiveOK, PostsOK
  <2> QED BY <1>1, <1>2, <1>3, <2>1, <2>2, <2>3, CardCheckoutAssumption
<1> QED BY <1>4, <1>5

LEMMA DoingType ==
  ASSUME NEW pc \in {"waiting", "ensuring", "asking"}, NEW owner \in Owner, NEW x \in Quotes \cup Pages,
         NEW c \in Checkout \cup {NoCheckout}, NEW u \in Users \cup {None}
  PROVE  /\ Doing(pc, owner, x, c, u) \in Task
         /\ Doing(pc, owner, x, c, u).pc = pc /\ Doing(pc, owner, x, c, u).owner = owner
         /\ Doing(pc, owner, x, c, u).on = x /\ Doing(pc, owner, x, c, u).copy = c
  BY DEF Doing, Task

\* A refused call, or one that replays a final record: the record is stored as
\* it is.
LEMMA StoresAndLeaves ==
  ASSUME IInv, NEW t \in Tasks, NEW q \in Quotes, NEW l \in LockType(Tasks), lock[q].holder \in {t, Nobody},
         Ends(t, q, l), NEW r \in Checkout, quote[q].status # "none", r.owner = quote[q].owner,
         r = checkout[q] \/ (checkout[q] = NoCheckout /\ r = NewCheckout(quote[q].owner, minted[q] + 1)),
         checkout' = [checkout EXCEPT ![q] = r],
         minted' = [minted EXCEPT ![q] = IF r.key > @ THEN r.key ELSE @],
         UNCHANGED <<session, quote, page, shown, posts, reads>>
  PROVE  StepOK
<1>1. TypeOK
  BY DEF IInv
<1>2. /\ lock' \in [Quotes \cup Pages -> LockType(Tasks)]
      /\ \A y \in Quotes \cup Pages : y # q => lock'[y] = lock[y]
      /\ task' \in [Tasks -> Task] /\ task'[t].pc = "idle"
      /\ \A u \in Tasks : u # t => task'[u] = task[u]
  BY <1>1, EndsType
<1>3. r.key \in 0..MaxKeys
  BY CardCheckoutAssumption DEF Checkout, Keys
<1>4. TypeOK'
  BY <1>1, <1>2, <1>3 DEF TypeOK
<1>5. /\ checkout'[q] = r /\ minted'[q] = (IF r.key > minted[q] THEN r.key ELSE minted[q])
      /\ \A s \in Quotes : s # q => checkout'[s] = checkout[s] /\ minted'[s] = minted[s]
  BY <1>1 DEF TypeOK
<1>6. QuoteOK(q)' /\ NoRegress(q)
  BY <1>5, StoredOK
<1>7. OnlyTouches(t, q, q)
  BY <1>2, <1>5, CardCheckoutAssumption DEF OnlyTouches
<1>8. ASSUME NEW u \in Tasks, u # t, task[u].pc \in InFlight, Subject(u) = q PROVE FlightOK(u)'
  <2>1. FlightOK(u) /\ task[u].on \in Quotes \cup Pages
    BY <1>8, FlightFacts
  <2>2. task[u].on # q
    BY <1>8, <2>1, CardCheckoutAssumption DEF FlightOK
  <2>3. task[u].on \in Pages /\ task[u].on \notin Quotes
    BY <1>8, <2>1, <2>2 DEF Subject
  <2>4. task'[u] = task[u] /\ lock'[task[u].on] = lock[task[u].on] /\ Subject(u)' = q
    BY <1>2, <1>8, <2>1, <2>2, <2>3 DEF Subject
  <2>5. task[u].copy \in Checkout /\ task[u].copy.key <= minted[q]
    BY <1>8, <2>1 DEF FlightOK
  <2>6. task[u].copy.key \in Nat /\ minted[q] \in Nat /\ r.key \in Nat
    BY <1>1, <1>3, <2>5, CheckoutFacts, CardCheckoutAssumption DEF TypeOK
  <2>7. task[u].copy.key <= minted'[q]
    BY <1>5, <2>5, <2>6
  <2>8. checkout'[q] = task[u].copy \/ (checkout'[q].key # task[u].copy.key /\ quote[q].status # "active")
    <3>1. CASE r = checkout[q]
      BY <1>5, <1>8, <2>1, <3>1 DEF FlightOK
    <3>2. CASE checkout[q] = NoCheckout /\ r = NewCheckout(quote[q].owner, minted[q] + 1)
      <4>1. r.key = minted[q] + 1
        BY <3>2 DEF NewCheckout
      <4>2. quote[q].status # "active"
        BY <1>8, <2>1, <2>5, <3>2, CheckoutFacts DEF FlightOK
      <4> QED BY <1>5, <2>5, <2>6, <4>1, <4>2
    <3> QED BY <3>1, <3>2
  <2>9. ChecksOK(u)'
    <3>1. ChecksOK(u) /\ page[task[u].on].quote = q
      BY <1>8, <2>1, <2>3 DEF FlightOK, Subject
    <3>2. checkout'[q] = checkout[q] \/ checkout'[q].page = None
      BY <1>5 DEF NewCheckout
    <3> QED BY <2>3, <2>4, <3>1, <3>2 DEF ChecksOK
  <2> QED BY <1>8, <2>1, <2>3, <2>4, <2>7, <2>8, <2>9 DEF FlightOK
<1>9. CallOK(t)'
  BY <1>2 DEF CallOK, InFlight
<1>10. q \notin Pages
  BY CardCheckoutAssumption
<1>11. IInv' /\ \A s \in Quotes : NoRegress(s)
  BY <1>4, <1>6, <1>7, <1>8, <1>9, <1>10, HolderStep
<1> QED BY <1>2, <1>11, GivesUpAsPromised DEF StepOK

\* What the calls and the requests are after a request for q went out.
LEMMA AsksForPage ==
  ASSUME TypeOK, NEW t \in Tasks, NEW q \in Quotes, NEW owner \in Owner,
         NEW c \in Checkout, NEW u \in Users \cup {None},
         Ask(t, owner, q, c, u)
  PROVE  /\ task' \in [Tasks -> Task] /\ task'[t] = Doing("asking", owner, q, c, u)
         /\ \A v \in Tasks : v # t => task'[v] = task[v]
         /\ posts' = [posts EXCEPT ![q] = [keys |-> @.keys \cup {c.key}, count |-> @.count + 1,
                                           settled |-> @.settled]]
         /\ posts'[q].keys = posts[q].keys \cup {c.key} /\ posts'[q].count = posts[q].count + 1
         /\ posts'[q].settled = posts[q].settled
         /\ \A r \in Quotes : r # q => posts'[r] = posts[r]
         /\ posts' \in [Quotes -> [keys : SUBSET Keys, count : Nat, settled : BOOLEAN]]
         /\ reads' = reads
<1>1. Doing("asking", owner, q, c, u) \in Task
  BY DoingType
<1>2. /\ Become(t, Doing("asking", owner, q, c, u)) /\ reads' = reads
      /\ posts' = [posts EXCEPT ![q] = [keys |-> @.keys \cup {c.key}, count |-> @.count + 1,
                                        settled |-> @.settled]]
  BY DEF Ask
<1>3. c.key \in Keys /\ posts[q] \in [keys : SUBSET Keys, count : Nat, settled : BOOLEAN]
  BY DEF Checkout, TypeOK
<1>4. [keys |-> posts[q].keys \cup {c.key}, count |-> posts[q].count + 1, settled |-> posts[q].settled]
        \in [keys : SUBSET Keys, count : Nat, settled : BOOLEAN]
  BY <1>3
<1>5. /\ posts'[q] = [keys |-> posts[q].keys \cup {c.key}, count |-> posts[q].count + 1,
                      settled |-> posts[q].settled]
      /\ \A r \in Quotes : r # q => posts'[r] = posts[r]
      /\ posts' \in [Quotes -> [keys : SUBSET Keys, count : Nat, settled : BOOLEAN]]
  BY <1>2, <1>4 DEF TypeOK
<1> QED BY <1>1, <1>2, <1>5, BecomeType

\* The attempt is counted and stored; the request goes out, or waits for the
\* session.
LEMMA CountsAndAsks ==
  ASSUME IInv, NEW t \in Tasks, NEW q \in Quotes, NEW l \in LockType(Tasks), l.holder = t,
         lock[q].holder \in {t, Nobody}, task[t].pc # "asking",
         NEW owner \in Owner, quote[q].status = "active", owner = quote[q].owner,
         NEW r \in Checkout, r.owner = owner,
         r = checkout[q] \/ (checkout[q] = NoCheckout /\ r = NewCheckout(quote[q].owner, minted[q] + 1)),
         ~IsTerminal(r.status), r.attempts < MaxAttempts,
         NEW c, c = Counted(r),
         checkout' = [checkout EXCEPT ![q] = c],
         minted' = [minted EXCEPT ![q] = IF c.key > @ THEN c.key ELSE @],
         EnsureFresh(t, owner, q, c, l),
         UNCHANGED <<session, quote, page, shown>>
  PROVE  StepOK
<1>1. TypeOK /\ owner.client \in Clients
  BY DEF IInv, Owner
<1>2. /\ c \in Checkout /\ c.owner = r.owner /\ c.key = r.key
      /\ c.status \in {"pending", "unresolved"} /\ c.page = None /\ c.settled = "none"
      /\ ~posts[q].settled /\ posts[q].keys \subseteq {c.key}
      /\ posts[q].count \in Nat /\ posts[q].count < c.attempts /\ posts[q].count < MaxAttempts
  BY CountedOK
<1>3. c.key \in Keys /\ c.key \in 0..MaxKeys
  BY <1>2, CardCheckoutAssumption DEF Checkout, Keys
<1>4. /\ checkout'[q] = c /\ minted'[q] = (IF r.key > minted[q] THEN r.key ELSE minted[q])
      /\ \A s \in Quotes : s # q => checkout'[s] = checkout[s] /\ minted'[s] = minted[s]
      /\ checkout' \in [Quotes -> Checkout \cup {NoCheckout}] /\ minted' \in [Quotes -> 0..MaxKeys]
  BY <1>1, <1>2, <1>3 DEF TypeOK
<1>5. \A u \in Tasks : u # t /\ task[u].pc \in InFlight => Subject(u) # q
  BY <1>2, NobodyOpens
<1>6. q \notin Pages
  BY CardCheckoutAssumption
<1>7. reads' = reads
  BY DEF EnsureFresh, Ask, sent
<1>8. CASE posts' = posts
  <2>1. QuoteOK(q)' /\ NoRegress(q) /\ c.key <= minted'[q]
    BY <1>2, <1>4, <1>7, <1>8, StoredOK
  <2>2. CASE Ends(t, q, l)
    <3>1. /\ lock' \in [Quotes \cup Pages -> LockType(Tasks)]
          /\ \A y \in Quotes \cup Pages : y # q => lock'[y] = lock[y]
          /\ task' \in [Tasks -> Task] /\ task'[t].pc = "idle"
          /\ \A u \in Tasks : u # t => task'[u] = task[u]
      BY <1>1, <2>2, EndsType
    <3>2. TypeOK'
      BY <1>1, <1>4, <1>7, <1>8, <3>1 DEF TypeOK
    <3>3. OnlyTouches(t, q, q)
      BY <1>4, <1>6, <1>7, <1>8, <3>1 DEF OnlyTouches
    <3>4. CallOK(t)'
      BY <3>1 DEF CallOK, InFlight
    <3>5. IInv' /\ \A s \in Quotes : NoRegress(s)
      BY <1>5, <1>6, <2>1, <3>2, <3>3, <3>4, HolderStep
    <3> QED BY <1>8, <3>1, <3>5, GivesUpAsPromised DEF StepOK
  <2>3. CASE /\ lock' = [lock EXCEPT ![q] = l]
             /\ Become(t, Doing("ensuring", owner, q, c, session[owner.client]))
    <3>1. /\ lock' \in [Quotes \cup Pages -> LockType(Tasks)] /\ lock'[q].holder = t
          /\ \A y \in Quotes \cup Pages : y # q => lock'[y] = lock[y]
      BY <1>1, <2>3 DEF TypeOK
    <3>2. PICK d \in Task : /\ d = Doing("ensuring", owner, q, c, session[owner.client])
                            /\ d.pc = "ensuring" /\ d.owner = owner /\ d.on = q /\ d.copy = c
      BY <1>1, <1>2, DoingType DEF TypeOK
    <3>3. /\ task' \in [Tasks -> Task] /\ task'[t] = d
          /\ \A u \in Tasks : u # t => task'[u] = task[u]
      BY <1>1, <2>3, <3>2, BecomeType
    <3>4. TypeOK'
      BY <1>1, <1>4, <1>7, <1>8, <3>1, <3>3 DEF TypeOK
    <3>5. OnlyTouches(t, q, q)
      BY <1>4, <1>6, <1>7, <1>8, <3>1, <3>3 DEF OnlyTouches
    <3>6. task'[t].pc = "ensuring" /\ task'[t].owner = owner /\ task'[t].on = q /\ task'[t].copy = c
      BY <3>2, <3>3
    <3>7. OpensOK(t)'
      <4>1. posts[q].count <= c.attempts
        BY <1>2, CheckoutFacts
      <4> QED BY <1>2, <1>4, <1>8, <3>6, <4>1 DEF OpensOK
    <3>8. FlightOK(t)'
      <4>1. Subject(t)' = q
        BY <3>6 DEF Subject
      <4> QED BY <1>2, <1>4, <2>1, <3>1, <3>6, <3>7, <4>1 DEF FlightOK
    <3>9. CallOK(t)'
      BY <3>2, <3>3, <3>8 DEF CallOK
    <3>10. IInv' /\ \A s \in Quotes : NoRegress(s)
      BY <1>5, <1>6, <2>1, <3>4, <3>5, <3>9, HolderStep
    <3> QED BY <1>8, <3>2, <3>3, <3>10, GivesUpAsPromised DEF StepOK
  <2>4. \/ Ends(t, q, l)
        \/ /\ lock' = [lock EXCEPT ![q] = l]
           /\ Become(t, Doing("ensuring", owner, q, c, session[owner.client]))
    <3>1. ASSUME Ask(t, owner, q, c, session[owner.client]), session[owner.client] # None PROVE FALSE
      <4>1. session[owner.client] \in Users
        BY <1>1, <3>1 DEF TypeOK
      <4>2. posts'[q].count = posts[q].count + 1
        BY <1>1, <1>2, <3>1, <4>1, AsksForPage
      <4> QED BY <1>2, <1>8, <4>2
    <3> QED BY <3>1 DEF EnsureFresh
  <2> QED BY <2>2, <2>3, <2>4
<1>9. CASE posts' # posts
  <2>1. PICK u \in Users : lock' = [lock EXCEPT ![q] = l] /\ Ask(t, owner, q, c, u)
    BY <1>1, <1>9 DEF EnsureFresh, sent, TypeOK
  <2>2. /\ task' \in [Tasks -> Task] /\ task'[t] = Doing("asking", owner, q, c, u)
        /\ \A v \in Tasks : v # t => task'[v] = task[v]
        /\ posts' = [posts EXCEPT ![q] = [keys |-> @.keys \cup {c.key}, count |-> @.count + 1,
                                          settled |-> @.settled]]
        /\ posts'[q].keys = posts[q].keys \cup {c.key} /\ posts'[q].count = posts[q].count + 1
        /\ posts'[q].settled = posts[q].settled
        /\ \A s \in Quotes : s # q => posts'[s] = posts[s]
        /\ posts' \in [Quotes -> [keys : SUBSET Keys, count : Nat, settled : BOOLEAN]]
    BY <1>1, <1>2, <2>1, AsksForPage
  <2>3. PICK d \in Task : /\ d = Doing("asking", owner, q, c, u)
                          /\ d.pc = "asking" /\ d.owner = owner /\ d.on = q /\ d.copy = c
    BY <1>2, DoingType
  <2>4. /\ lock' \in [Quotes \cup Pages -> LockType(Tasks)] /\ lock'[q].holder = t
        /\ \A y \in Quotes \cup Pages : y # q => lock'[y] = lock[y]
    BY <1>1, <2>1 DEF TypeOK
  <2>5. TypeOK'
    BY <1>1, <1>4, <1>7, <2>2, <2>4 DEF TypeOK
  <2>6. OnlyTouches(t, q, q)
    BY <1>4, <1>6, <1>7, <2>2, <2>4 DEF OnlyTouches
  <2>7. RecordOK(q)' /\ NoRegress(q) /\ c.key <= minted'[q]
    BY <1>2, <1>4, <1>7, StoredOK
  <2>8. posts'[q].keys = {c.key}
    BY <1>2, <2>2
  <2>9. QuoteOK(q)'
    BY <1>2, <1>4, <2>2, <2>7, <2>8, AskedOK
  <2>10. OpensOK(t)'
    <3>1. posts[q].count + 1 <= c.attempts
      BY <1>2, CheckoutFacts
    <3> QED BY <1>2, <1>4, <2>2, <2>3, <2>8, <3>1 DEF OpensOK
  <2>11. FlightOK(t)'
    <3>1. task'[t].pc = "asking" /\ task'[t].owner = owner /\ task'[t].on = q /\ task'[t].copy = c
      BY <2>2, <2>3
    <3>2. Subject(t)' = q
      BY <3>1 DEF Subject
    <3> QED BY <1>2, <1>4, <2>4, <2>7, <2>10, <3>1, <3>2 DEF FlightOK
  <2>12. CallOK(t)'
    BY <2>2, <2>3, <2>11 DEF CallOK
  <2>13. IInv' /\ \A s \in Quotes : NoRegress(s)
    BY <1>5, <1>6, <2>5, <2>6, <2>7, <2>9, <2>12, HolderStep
  <2>14. [Promise!Next]_(Promise!vars)
    <3>1. \A v \in Tasks : v # t => ~Asking(v, q)
      BY <1>5 DEF Asking, InFlight, Subject
    <3>2. Asking(t, q)'
      BY <2>2, <2>3 DEF Asking
    <3> QED BY <1>2, <1>3, <2>2, <3>1, <3>2, SendsAsPromised
  <2> QED BY <2>13, <2>14 DEF StepOK
<1> QED BY <1>8, <1>9

\* create_card_checkout inside the quote's lock.
LEMMA DecideCreateStep ==
  ASSUME IInv, NEW t \in Tasks, NEW owner \in Owner, NEW q \in Quotes, NEW l \in LockType(Tasks),
         l.holder = t, lock[q].holder \in {t, Nobody}, task[t].pc # "asking",
         DecideCreate(t, owner, q, l), UNCHANGED <<session, quote, platform>>
  PROVE  StepOK
<1> DEFINE record == Acquired(owner, q)
           counted == [record EXCEPT !.attempts = @ + 1]
<1>1. CASE ~Owned(quote, owner, q)
  <2>1. Ends(t, q, l) /\ UNCHANGED <<checkout, minted, sent>>
    BY <1>1 DEF DecideCreate
  <2> QED BY <2>1, LeavesStep
<1>2. CASE Owned(quote, owner, q) /\ (IsTerminal(record.status) \/ ~MayOpen(q, record))
  <2>1. /\ checkout' = [checkout EXCEPT ![q] = record]
        /\ minted' = [minted EXCEPT ![q] = IF record.key > @ THEN record.key ELSE @]
        /\ Ends(t, q, l) /\ UNCHANGED sent
    BY <1>2 DEF DecideCreate
  <2>2. PICK r \in Checkout : r = record
    BY <1>2, AcquiredOK
  <2>3. /\ quote[q].status # "none" /\ r.owner = quote[q].owner
        /\ r = checkout[q] \/ (checkout[q] = NoCheckout /\ r = NewCheckout(quote[q].owner, minted[q] + 1))
    BY <1>2, <2>2, AcquiredOK
  <2> HIDE DEF record
  <2> QED BY <2>1, <2>2, <2>3, StoresAndLeaves DEF platform, sent
<1>3. CASE Owned(quote, owner, q) /\ ~IsTerminal(record.status) /\ MayOpen(q, record)
  <2>1. /\ checkout' = [checkout EXCEPT ![q] = counted]
        /\ minted' = [minted EXCEPT ![q] = IF counted.key > @ THEN counted.key ELSE @]
        /\ EnsureFresh(t, owner, q, counted, l)
    BY <1>3 DEF DecideCreate
  <2>2. PICK r \in Checkout : r = record
    BY <1>3, AcquiredOK
  <2>3. PICK c : c = Counted(r) /\ c = counted
    BY <2>2 DEF Counted
  <2>4. /\ quote[q].owner = owner /\ r.owner = owner
        /\ r = checkout[q] \/ (checkout[q] = NoCheckout /\ r = NewCheckout(quote[q].owner, minted[q] + 1))
    BY <1>3, <2>2, AcquiredOK
  <2>5. quote[q].status = "active" /\ r.attempts < MaxAttempts /\ ~IsTerminal(r.status)
    BY <1>3, <2>2 DEF MayOpen, IsUsable
  <2> HIDE DEF record, counted
  <2> QED BY <2>1, <2>2, <2>3, <2>4, <2>5, CountsAndAsks DEF platform
<1> QED BY <1>1, <1>2, <1>3 DEF DecideCreate

-----------------------------------------------------------------------------
(* What a call decides under a payment's lock.                             *)

\* A record with one more status check.
Checked(r) == [r EXCEPT !.checks = @ + 1]

\* The record a payment may be read for: its link was shown, it is not settled.
LEMMA FoundOK ==
  ASSUME IInv, NEW owner \in Owner, NEW p \in Pages, NEW q \in Found(owner, p),
         checkout[q].settled = "none", checkout[q].code # "card_payment_ambiguous", ~ChecksSpent(checkout[q]),
         NEW c, c = Checked(checkout[q])
  PROVE  /\ q \in Quotes /\ checkout[q] \in Checkout /\ checkout[q].status = "open"
         /\ p \in shown[q] /\ page[p].quote = q /\ quote[q].status # "none" /\ owner = quote[q].owner
         /\ c \in Checkout /\ c.owner = owner /\ c.key = checkout[q].key /\ c.page = p /\ c.status = "open"
         /\ c.settled = "none" /\ c.attempts = checkout[q].attempts /\ c.checks = checkout[q].checks + 1
         /\ reads[p] \in Nat /\ reads[p] < c.checks /\ reads[p] < MaxChecks /\ c.key <= minted[q]
<1>1. q \in Quotes /\ checkout[q].page = p /\ checkout[q].owner = owner /\ p # None
  BY CardCheckoutAssumption DEF Found
<1>2. checkout[q] \in Checkout /\ RecordOK(q) /\ PostsOK(q)
  BY <1>1, NoCheckoutFacts DEF IInv, TypeOK, QuoteOK
<1>3. checkout[q] # NoCheckout
  BY <1>2, CheckoutFacts
<1>4. PICK r \in Checkout : r = checkout[q]
  BY <1>2
<1>5. r.checks < MaxChecks /\ r.checks \in Nat /\ reads[p] \in Nat /\ reads[p] <= r.checks
  BY <1>1, <1>2, <1>4, CheckoutFacts, CardCheckoutAssumption DEF ChecksSpent, RecordOK, IInv, TypeOK
<1>6. r.status = "open" /\ p \in shown[q] /\ quote[q].status # "none" /\ r.owner = quote[q].owner /\ r.key <= minted[q]
  BY <1>1, <1>2, <1>3, <1>4 DEF RecordOK
<1>7. page[p].quote = q
  BY <1>2, <1>6 DEF PostsOK
<1>8. /\ c \in Checkout /\ c.owner = r.owner /\ c.key = r.key /\ c.page = r.page /\ c.status = r.status
      /\ c.settled = r.settled /\ c.attempts = r.attempts /\ c.checks = r.checks + 1
  BY <1>4, <1>5, CardCheckoutAssumption DEF Checked, Checkout
<1> QED BY <1>1, <1>2, <1>4, <1>5, <1>6, <1>7, <1>8, CardCheckoutAssumption

\* Storing a record with one more check, before or while the payment is read.
LEMMA CheckedOK ==
  ASSUME IInv, NEW owner \in Owner, NEW p \in Pages, NEW q \in Found(owner, p),
         checkout[q].settled = "none", checkout[q].code # "card_payment_ambiguous", ~ChecksSpent(checkout[q]),
         NEW c, c = Checked(checkout[q]), checkout'[q] = c,
         reads'[p] \in {reads[p], reads[p] + 1},
         quote' = quote, minted' = minted, page' = page, shown' = shown, posts' = posts
  PROVE  QuoteOK(q)' /\ NoRegress(q) /\ PageOK(p)'
<1>1. /\ q \in Quotes /\ checkout[q] \in Checkout /\ checkout[q].status = "open"
      /\ p \in shown[q] /\ page[p].quote = q /\ quote[q].status # "none" /\ owner = quote[q].owner
      /\ c \in Checkout /\ c.owner = owner /\ c.key = checkout[q].key /\ c.page = p /\ c.status = "open"
      /\ c.settled = "none" /\ c.attempts = checkout[q].attempts /\ c.checks = checkout[q].checks + 1
      /\ reads[p] \in Nat /\ reads[p] < c.checks /\ reads[p] < MaxChecks /\ c.key <= minted[q]
  BY FoundOK
<1>2. RecordOK(q) /\ ActiveOK(q) /\ PostsOK(q) /\ checkout[q].page = p /\ checkout[q] # NoCheckout /\ c # NoCheckout
  BY <1>1, CheckoutFacts DEF IInv, QuoteOK, Found
<1>3. /\ c.checks \in Nat /\ checkout[q].checks \in Nat /\ checkout[q].attempts \in Nat
      /\ reads'[p] \in Nat /\ reads'[p] <= c.checks /\ reads'[p] <= MaxChecks /\ p # None
  BY <1>1, CheckoutFacts, CardCheckoutAssumption
<1>4. RecordOK(q)'
  BY <1>1, <1>2, <1>3 DEF RecordOK
<1>5. ActiveOK(q)' /\ PostsOK(q)'
  BY <1>1, <1>2 DEF ActiveOK, PostsOK
<1>6. NoRegress(q)
  BY <1>1, <1>2, <1>3 DEF NoRegress
<1>7. PageOK(p)'
  BY <1>1, <1>3 DEF PageOK
<1> QED BY <1>4, <1>5, <1>6, <1>7 DEF QuoteOK

\* What the calls and the reads are after a read of p went out.
LEMMA AsksForStatus ==
  ASSUME TypeOK, NEW t \in Tasks, NEW p \in Pages, NEW owner \in Owner,
         NEW c \in Checkout, NEW u \in Users \cup {None},
         Ask(t, owner, p, c, u)
  PROVE  /\ task' \in [Tasks -> Task]
         /\ task'[t].pc = "asking" /\ task'[t].owner = owner /\ task'[t].on = p /\ task'[t].copy = c
         /\ \A v \in Tasks : v # t => task'[v] = task[v]
         /\ posts' = posts /\ reads' \in [Pages -> Nat] /\ reads'[p] = reads[p] + 1
         /\ \A r \in Pages : r # p => reads'[r] = reads[r]
<1>1. PICK d \in Task : /\ d = Doing("asking", owner, p, c, u)
                        /\ d.pc = "asking" /\ d.owner = owner /\ d.on = p /\ d.copy = c
  BY DoingType
<1>2. Become(t, d) /\ posts' = posts /\ reads' = [reads EXCEPT ![p] = @ + 1]
  BY <1>1, CardCheckoutAssumption DEF Ask
<1>3. task' \in [Tasks -> Task] /\ task'[t] = d /\ \A v \in Tasks : v # t => task'[v] = task[v]
  BY <1>2, BecomeType
<1>4. /\ reads' \in [Pages -> Nat] /\ reads'[p] = reads[p] + 1
      /\ \A r \in Pages : r # p => reads'[r] = reads[r]
  BY <1>2 DEF TypeOK
<1> QED BY <1>1, <1>2, <1>3, <1>4

\* The check is counted and stored; the read goes out, or waits for the session.
LEMMA ChecksAndAsks ==
  ASSUME IInv, NEW t \in Tasks, NEW owner \in Owner, NEW p \in Pages, NEW l \in LockType(Tasks), l.holder = t,
         lock[p].holder \in {t, Nobody}, task[t].pc # "asking", NEW q \in Found(owner, p),
         checkout[q].settled = "none", checkout[q].code # "card_payment_ambiguous", ~ChecksSpent(checkout[q]),
         NEW c, c = Checked(checkout[q]),
         checkout' = [checkout EXCEPT ![q] = c],
         EnsureFresh(t, owner, p, c, l),
         UNCHANGED <<session, quote, minted, page, shown>>
  PROVE  StepOK
<1>1. /\ q \in Quotes /\ checkout[q] \in Checkout
      /\ p \in shown[q] /\ page[p].quote = q /\ quote[q].status # "none" /\ owner = quote[q].owner
      /\ c \in Checkout /\ c.owner = owner /\ c.page = p /\ c.status = "open"
      /\ c.settled = "none" /\ c.checks = checkout[q].checks + 1
      /\ reads[p] \in Nat /\ reads[p] < c.checks /\ c.key <= minted[q]
  BY FoundOK
<1>2. TypeOK /\ owner.client \in Clients /\ p \notin Quotes
  BY CardCheckoutAssumption DEF IInv, Owner
<1>3. PICK u \in Users \cup {None} : u = session[owner.client]
  BY <1>2 DEF TypeOK
<1>4. /\ checkout' \in [Quotes -> Checkout \cup {NoCheckout}] /\ checkout'[q] = c
      /\ \A r \in Quotes : r # q => checkout'[r] = checkout[r]
  BY <1>1, <1>2 DEF TypeOK
<1>5. /\ lock' \in [Quotes \cup Pages -> LockType(Tasks)]
      /\ \A y \in Quotes \cup Pages : y # p => lock'[y] = lock[y]
      /\ task' \in [Tasks -> Task]
      /\ \A v \in Tasks : v # t => task'[v] = task[v]
      /\ posts' = posts /\ reads' \in [Pages -> Nat]
      /\ \A r \in Pages : r # p => reads'[r] = reads[r]
      /\ reads'[p] \in {reads[p], reads[p] + 1}
      /\ \/ task'[t].pc = "idle"
         \/ /\ task'[t].pc \in InFlight /\ task'[t].owner = owner /\ task'[t].on = p /\ task'[t].copy = c
            /\ task'[t].pc = "ensuring" => reads'[p] = reads[p]
            /\ lock'[p].holder = t
  <2>1. CASE Ends(t, p, l) /\ UNCHANGED sent
    BY <1>2, <2>1, EndsType DEF sent, TypeOK
  <2>2. CASE lock' = [lock EXCEPT ![p] = l] /\ Ask(t, owner, p, c, u)
    <3>1. lock' \in [Quotes \cup Pages -> LockType(Tasks)] /\ lock'[p] = l
          /\ \A y \in Quotes \cup Pages : y # p => lock'[y] = lock[y]
      BY <1>2, <2>2 DEF TypeOK
    <3> QED BY <1>1, <1>2, <2>2, <3>1, AsksForStatus DEF InFlight
  <2>3. CASE lock' = [lock EXCEPT ![p] = l] /\ Become(t, Doing("ensuring", owner, p, c, u)) /\ UNCHANGED sent
    <3>1. lock' \in [Quotes \cup Pages -> LockType(Tasks)] /\ lock'[p] = l
          /\ \A y \in Quotes \cup Pages : y # p => lock'[y] = lock[y]
      BY <1>2, <2>3 DEF TypeOK
    <3>2. PICK d \in Task : /\ d = Doing("ensuring", owner, p, c, u)
                            /\ d.pc = "ensuring" /\ d.owner = owner /\ d.on = p /\ d.copy = c
      BY <1>1, DoingType
    <3>3. task' \in [Tasks -> Task] /\ task'[t] = d /\ \A v \in Tasks : v # t => task'[v] = task[v]
      BY <1>2, <2>3, <3>2, BecomeType
    <3> QED BY <1>2, <2>3, <3>1, <3>2, <3>3 DEF InFlight, sent, TypeOK
  <2> QED BY <1>3, <2>1, <2>2, <2>3 DEF EnsureFresh
<1>6. TypeOK'
  BY <1>2, <1>4, <1>5 DEF TypeOK
<1>7. QuoteOK(q)' /\ NoRegress(q) /\ PageOK(p)'
  BY <1>4, <1>5, CheckedOK
<1>8. OnlyTouches(t, p, q)
  BY <1>1, <1>2, <1>4, <1>5 DEF OnlyTouches
<1>9. \A v \in Tasks : v # t /\ task[v].pc \in InFlight => Subject(v) # q
  BY <1>1, NobodyChecks
<1>10. CallOK(t)'
  <2>1. CASE task'[t].pc = "idle"
    BY <2>1 DEF CallOK, InFlight
  <2>2. CASE /\ task'[t].pc \in InFlight /\ task'[t].owner = owner /\ task'[t].on = p /\ task'[t].copy = c
             /\ task'[t].pc = "ensuring" => reads'[p] = reads[p]
             /\ lock'[p].holder = t
    <3>1. Subject(t)' = q
      BY <1>1, <1>2, <2>2 DEF Subject
    <3>2. c.checks \in Nat
      BY <1>1, CheckoutFacts
    <3>3. ChecksOK(t)'
      BY <1>1, <1>4, <1>5, <2>2, <3>2 DEF ChecksOK
    <3>4. FlightOK(t)'
      BY <1>1, <1>2, <1>4, <2>2, <3>1, <3>3 DEF FlightOK
    <3> QED BY <2>2, <3>4 DEF CallOK
  <2> QED BY <1>5, <2>1, <2>2
<1>11. IInv' /\ \A r \in Quotes : NoRegress(r)
  BY <1>1, <1>6, <1>7, <1>8, <1>9, <1>10, HolderStep
<1>12. ASSUME NEW r \in Quotes, NEW v \in Tasks PROVE Asking(v, r)' <=> Asking(v, r)
  BY <1>2, <1>5 DEF Asking, InFlight
<1>13. [Promise!Next]_(Promise!vars)
  BY <1>5, <1>12, SendsNothing
<1> QED BY <1>11, <1>13 DEF StepOK

\* check_card_payment_status inside the payment's lock.
LEMMA DecideCheckStep ==
  ASSUME IInv, NEW t \in Tasks, NEW owner \in Owner, NEW p \in Pages, NEW l \in LockType(Tasks),
         l.holder = t, lock[p].holder \in {t, Nobody}, task[t].pc # "asking",
         DecideCheck(t, owner, p, l), UNCHANGED <<session, quote, platform>>
  PROVE  StepOK
<1>1. CASE Ends(t, p, l) /\ UNCHANGED <<checkout, minted, sent>>
  BY <1>1, LeavesStep
<1>2. CASE ~(Ends(t, p, l) /\ UNCHANGED <<checkout, minted, sent>>)
  <2>1. PICK q \in Found(owner, p) :
          /\ checkout[q].settled = "none" /\ checkout[q].code # "card_payment_ambiguous"
          /\ ~ChecksSpent(checkout[q])
          /\ checkout' = [checkout EXCEPT ![q] = [checkout[q] EXCEPT !.checks = @ + 1]]
          /\ EnsureFresh(t, owner, p, [checkout[q] EXCEPT !.checks = @ + 1], l)
          /\ UNCHANGED minted
    BY <1>2 DEF DecideCheck
  <2>2. PICK c : c = Checked(checkout[q]) /\ c = [checkout[q] EXCEPT !.checks = @ + 1]
    BY DEF Checked
  <2>3. checkout' = [checkout EXCEPT ![q] = c] /\ EnsureFresh(t, owner, p, c, l)
    BY <2>1, <2>2
  <2> QED BY <2>1, <2>2, <2>3, ChecksAndAsks DEF platform
<1> QED BY <1>1, <1>2

-----------------------------------------------------------------------------
(* The steps of a call.                                                    *)

LEMMA DecideStep ==
  ASSUME IInv, NEW t \in Tasks, NEW owner \in Owner, NEW x \in Quotes \cup Pages, NEW l \in LockType(Tasks),
         l.holder = t, lock[x].holder \in {t, Nobody}, task[t].pc # "asking",
         Decide(t, owner, x, l), UNCHANGED <<session, quote, platform>>
  PROVE  StepOK
  BY DecideCreateStep, DecideCheckStep DEF Decide

\* A call parks itself behind the holder of the lock.
LEMMA WaitsStep ==
  ASSUME IInv, NEW t \in Tasks, NEW owner \in Owner, NEW x \in Quotes \cup Pages, ~IsFree(lock[x]),
         lock' = [lock EXCEPT ![x] = Enter(@, t)],
         Become(t, Doing("waiting", owner, x, NoCheckout, None)),
         UNCHANGED <<session, quote, checkout, minted, platform, sent>>
  PROVE  StepOK
<1>1. TypeOK /\ UNCHANGED <<page, shown, posts, reads>>
  BY DEF IInv, platform, sent
<1>2. /\ lock' \in [Quotes \cup Pages -> LockType(Tasks)] /\ lock'[x].holder = lock[x].holder
      /\ \A y \in Quotes \cup Pages : y # x => lock'[y] = lock[y]
  BY <1>1, EnterType DEF TypeOK
<1>3. PICK d \in Task : /\ d = Doing("waiting", owner, x, NoCheckout, None)
                        /\ d.pc = "waiting" /\ d.owner = owner /\ d.on = x
  BY DoingType
<1>4. task' \in [Tasks -> Task] /\ task'[t] = d /\ \A u \in Tasks : u # t => task'[u] = task[u]
  BY <1>1, <1>3, BecomeType
<1>5. TypeOK'
  BY <1>1, <1>2, <1>4 DEF TypeOK
<1>6. Moves(quote, quote') /\ PagesMove
  BY <1>1, SameMoves DEF TypeOK, QuoteMap, PagesMove
<1>7. \A u \in Tasks : u # t => /\ task'[u] = task[u]
                                /\ task[u].pc \in InFlight => lock'[task[u].on].holder = u
  BY <1>2, <1>4, OthersGoOn
<1>8. IInv' /\ \A q \in Quotes : NoRegress(q)
  BY <1>1, <1>3, <1>4, <1>5, <1>6, <1>7, EnvStep
<1> QED BY <1>1, <1>3, <1>4, <1>8, GivesUpAsPromised DEF StepOK

LEMMA CallStep ==
  ASSUME IInv, NEW t \in Tasks, NEW k \in Clients, NEW x \in Quotes \cup Pages, Call(t, k, x) PROVE StepOK
<1>1. PICK owner \in Owner : owner = OwnerOf(k, session[k])
  BY DEF IInv, TypeOK, Call, OwnerOf, Owner
<1>2. task[t].pc # "asking" /\ lock[x] \in LockType(Tasks) /\ UNCHANGED <<session, quote, platform>>
  BY IdleType DEF IInv, TypeOK, Call
<1>3. CASE IsFree(lock[x])
  <2>1. PICK l \in LockType(Tasks) : l = Enter(lock[x], t) /\ l.holder = t
    BY <1>2, <1>3, EnterType
  <2>2. Decide(t, owner, x, l) /\ lock[x].holder = Nobody
    BY <1>1, <1>3, <2>1 DEF Call, IsFree
  <2> QED BY <1>2, <2>1, <2>2, DecideStep
<1>4. CASE ~IsFree(lock[x])
  BY <1>1, <1>2, <1>4, WaitsStep DEF Call
<1> QED BY <1>3, <1>4

LEMMA LockGrantedStep == ASSUME IInv, NEW t \in Tasks, LockGranted(t) PROVE StepOK
<1>1. task[t].pc = "waiting" /\ lock[task[t].on].holder = t /\ UNCHANGED <<session, quote, platform>>
  BY DEF LockGranted
<1>2. PICK x \in Quotes \cup Pages : x = task[t].on
  BY <1>1 DEF IInv, CallOK
<1>3. PICK owner \in Owner : owner = task[t].owner
  BY <1>1 DEF IInv, CallOK
<1>4. lock[x] \in LockType(Tasks) /\ Decide(t, owner, x, lock[x])
  BY <1>2, <1>3 DEF IInv, TypeOK, LockGranted
<1> QED BY <1>1, <1>2, <1>4, DecideStep

\* A record that is not written does not regress.
LEMMA SameRecord == ASSUME IInv, NEW q \in Quotes, checkout'[q] = checkout[q] PROVE NoRegress(q)
<1>1. CASE checkout[q] = NoCheckout
  BY <1>1, NoCheckoutFacts DEF NoRegress
<1>2. CASE checkout[q] \in Checkout
  BY <1>2, CheckoutFacts DEF NoRegress
<1> QED BY <1>1, <1>2 DEF IInv, TypeOK

LEMMA SessionIsReadAgainStep == ASSUME IInv, NEW t \in Tasks, SessionIsReadAgain(t) PROVE StepOK
<1> DEFINE me == task[t]
<1>1. /\ me.pc = "ensuring"
      /\ UNCHANGED <<session, quote, checkout, lock, minted, page, shown, posts, reads>>
      /\ Become(t, Doing(me.pc, me.owner, me.on, me.copy, session[me.owner.client]))
  BY DEF SessionIsReadAgain, platform, sent
<1>2. /\ TypeOK /\ FlightOK(t) /\ me.on \in Quotes \cup Pages /\ me.owner \in Owner
      /\ me.on \notin Quotes => me.on \in Pages /\ PageOK(me.on)
  BY <1>1, FlightFacts DEF InFlight
<1>3. PICK q \in Quotes : q = Subject(t)
  BY <1>2 DEF FlightOK
<1>4. PICK u \in Users \cup {None} : u = session[me.owner.client]
  BY <1>2 DEF TypeOK, Owner
<1>5. PICK d \in Task : /\ d = Doing("ensuring", me.owner, me.on, me.copy, u)
                        /\ d.pc = "ensuring" /\ d.owner = me.owner /\ d.on = me.on /\ d.copy = me.copy
  BY <1>2, DoingType DEF FlightOK
<1>6. task' \in [Tasks -> Task] /\ task'[t] = d /\ \A v \in Tasks : v # t => task'[v] = task[v]
  BY <1>1, <1>2, <1>4, <1>5, BecomeType
<1>7. TypeOK'
  BY <1>1, <1>2, <1>6 DEF TypeOK
<1>8. /\ task'[t].pc = task[t].pc /\ task'[t].owner = task[t].owner
      /\ task'[t].on = task[t].on /\ task'[t].copy = task[t].copy
  BY <1>1, <1>5, <1>6
<1> HIDE DEF me
<1>9. CallOK(t)'
  <2>1. OpensOK(t)' <=> OpensOK(t)
    BY <1>1, <1>8 DEF OpensOK
  <2>2. ChecksOK(t)' <=> ChecksOK(t)
    BY <1>1, <1>8 DEF ChecksOK
  <2>3. Subject(t)' = q
    BY <1>1, <1>3, <1>8 DEF Subject
  <2>4. FlightOK(t)'
    BY <1>1, <1>2, <1>3, <1>8, <2>1, <2>2, <2>3 DEF FlightOK
  <2> QED BY <1>2, <1>8, <2>4 DEF CallOK, me
<1>10. OnlyTouches(t, task[t].on, q)
  BY <1>1, <1>2, <1>3, <1>6, CardCheckoutAssumption DEF OnlyTouches, FlightOK, Subject, me
<1>11. \A v \in Tasks : v # t /\ task[v].pc \in InFlight => Subject(v) # q
  BY <1>1, <1>3, Alone DEF InFlight, me
<1>12. QuoteOK(q)' /\ NoRegress(q) /\ \A p \in Pages : PageOK(p)'
  <2>1. QuoteOK(q)'
    BY <1>1 DEF IInv, QuoteOK, RecordOK, ActiveOK, PostsOK
  <2>2. NoRegress(q)
    BY <1>1, SameRecord
  <2>3. \A p \in Pages : PageOK(p)'
    BY <1>1 DEF IInv, PageOK
  <2> QED BY <2>1, <2>2, <2>3
<1>13. IInv' /\ \A r \in Quotes : NoRegress(r)
  <2>1. PICK x \in Quotes \cup Pages : x = task[t].on
    BY <1>2 DEF me
  <2> QED BY <1>7, <1>9, <1>10, <1>11, <1>12, <2>1, HolderStep
<1>14. [Promise!Next]_(Promise!vars)
  BY <1>1, <1>6, <1>8, SendsNothing DEF Asking
<1> QED BY <1>13, <1>14 DEF StepOK

\* A request goes out with a session that is fresh now.
LEMMA AsksPageStep ==
  ASSUME IInv, NEW t \in Tasks, task[t].pc = "ensuring", NEW q \in Quotes, task[t].on = q,
         NEW u \in Users \cup {None}, Ask(t, task[t].owner, q, task[t].copy, u),
         session' \in [Clients -> Users \cup {None}],
         UNCHANGED <<quote, checkout, lock, minted, page, shown>>
  PROVE  StepOK
<1>1. /\ TypeOK /\ FlightOK(t) /\ task[t].owner \in Owner /\ Subject(t) = q /\ q \notin Pages
  BY FlightFacts, CardCheckoutAssumption DEF InFlight, Subject
<1>2. PICK c \in Checkout : c = task[t].copy
  BY <1>1 DEF FlightOK
<1>3. PICK owner \in Owner : owner = task[t].owner
  BY <1>1
<1>4. /\ quote[q].status # "none" /\ owner = quote[q].owner /\ c.owner = quote[q].owner
      /\ c.key <= minted[q] /\ c.settled = "none" /\ lock[q].holder = t
      /\ checkout[q] = c \/ (checkout[q].key # c.key /\ quote[q].status # "active")
      /\ c.status \in {"pending", "unresolved"} /\ c.page = None /\ checkout[q] \in {c, NoCheckout}
      /\ ~posts[q].settled /\ posts[q].keys \subseteq {c.key} /\ posts[q].count < c.attempts
  BY <1>1, <1>2, <1>3 DEF FlightOK, OpensOK
<1>5. /\ posts[q].count \in Nat /\ c.attempts \in Nat /\ c.attempts <= MaxAttempts /\ c.key \in Keys
  BY <1>1, CardCheckoutAssumption DEF Checkout, TypeOK
<1>6. /\ task' \in [Tasks -> Task] /\ task'[t] = Doing("asking", owner, q, c, u)
      /\ \A v \in Tasks : v # t => task'[v] = task[v]
      /\ posts' = [posts EXCEPT ![q] = [keys |-> @.keys \cup {c.key}, count |-> @.count + 1,
                                        settled |-> @.settled]]
      /\ posts'[q].keys = posts[q].keys \cup {c.key} /\ posts'[q].count = posts[q].count + 1
      /\ posts'[q].settled = posts[q].settled
      /\ \A r \in Quotes : r # q => posts'[r] = posts[r]
      /\ posts' \in [Quotes -> [keys : SUBSET Keys, count : Nat, settled : BOOLEAN]]
      /\ reads' = reads
  BY <1>1, <1>2, <1>3, AsksForPage
<1>7. task'[t].pc = "asking" /\ task'[t].owner = owner /\ task'[t].on = q /\ task'[t].copy = c
  BY <1>6, DoingType
<1>8. posts'[q].keys = {c.key} /\ posts[q].count + 1 <= c.attempts /\ posts[q].count < MaxAttempts
  BY <1>4, <1>5, <1>6, CardCheckoutAssumption
<1>9. TypeOK'
  BY <1>1, <1>6 DEF TypeOK
<1>10. RecordOK(q)'
  BY <1>6 DEF IInv, QuoteOK, RecordOK
<1>11. QuoteOK(q)' /\ NoRegress(q)
  BY <1>4, <1>6, <1>8, <1>10, AskedOK, SameRecord
<1>12. OnlyTouches(t, q, q)
  BY <1>1, <1>4, <1>6 DEF OnlyTouches
<1>13. \A v \in Tasks : v # t /\ task[v].pc \in InFlight => Subject(v) # q
  BY <1>4, NobodyOpens
<1>14. CallOK(t)'
  <2>1. Subject(t)' = q
    BY <1>7 DEF Subject
  <2>2. OpensOK(t)'
    BY <1>4, <1>6, <1>7, <1>8 DEF OpensOK
  <2>3. FlightOK(t)'
    BY <1>4, <1>7, <2>1, <2>2 DEF FlightOK
  <2> QED BY <1>7, <2>3 DEF CallOK
<1>15. IInv' /\ \A r \in Quotes : NoRegress(r)
  BY <1>1, <1>9, <1>11, <1>12, <1>13, <1>14, HolderStep
<1>16. [Promise!Next]_(Promise!vars)
  <2>1. \A v \in Tasks : v # t => task'[v] = task[v] /\ ~Asking(v, q)
    BY <1>6, <1>13 DEF Asking, InFlight, Subject
  <2>2. Asking(t, q)' /\ task[t].pc # "asking"
    BY <1>7 DEF Asking
  <2>3. PICK key \in Keys : key = c.key
    BY <1>5
  <2>4. /\ posts' = [posts EXCEPT ![q] = [keys |-> @.keys \cup {key}, count |-> @.count + 1,
                                        settled |-> @.settled]]
        /\ ~posts[q].settled /\ posts[q].keys \subseteq {key} /\ posts[q].count < MaxAttempts
    BY <1>4, <1>6, <1>8, <2>3
  <2> QED BY <2>1, <2>2, <2>4, SendsAsPromised
<1> QED BY <1>15, <1>16 DEF StepOK

\* A read goes out with a session that is fresh now.
LEMMA AsksStatusStep ==
  ASSUME IInv, NEW t \in Tasks, task[t].pc = "ensuring", NEW p \in Pages, task[t].on = p,
         NEW u \in Users \cup {None}, Ask(t, task[t].owner, p, task[t].copy, u),
         session' \in [Clients -> Users \cup {None}],
         UNCHANGED <<quote, checkout, lock, minted, page, shown>>
  PROVE  StepOK
<1>1. /\ TypeOK /\ FlightOK(t) /\ task[t].owner \in Owner /\ p \notin Quotes
  BY FlightFacts, CardCheckoutAssumption DEF InFlight
<1>2. PICK q \in Quotes : q = page[p].quote /\ q = Subject(t)
  BY <1>1 DEF FlightOK, Subject
<1>3. PICK c \in Checkout : c = task[t].copy
  BY <1>1 DEF FlightOK
<1>4. PICK owner \in Owner : owner = task[t].owner
  BY <1>1
<1>5. /\ quote[q].status # "none" /\ owner = quote[q].owner /\ c.owner = quote[q].owner
      /\ c.key <= minted[q] /\ c.settled = "none" /\ lock[p].holder = t
      /\ checkout[q] = c \/ (checkout[q].key # c.key /\ quote[q].status # "active")
      /\ p \in shown[q] /\ c.page = p /\ c.status = "open" /\ reads[p] < c.checks
      /\ checkout[q] = c \/ checkout[q].page = None
  BY <1>1, <1>2, <1>3, <1>4 DEF FlightOK, ChecksOK
<1>6. reads[p] \in Nat /\ c.checks \in Nat /\ c.checks <= MaxChecks
  BY <1>1, CheckoutFacts DEF TypeOK
<1>7. /\ task' \in [Tasks -> Task]
      /\ task'[t].pc = "asking" /\ task'[t].owner = owner /\ task'[t].on = p /\ task'[t].copy = c
      /\ \A v \in Tasks : v # t => task'[v] = task[v]
      /\ posts' = posts /\ reads' \in [Pages -> Nat] /\ reads'[p] = reads[p] + 1
      /\ \A r \in Pages : r # p => reads'[r] = reads[r]
  BY <1>1, <1>3, <1>4, AsksForStatus
<1>8. reads'[p] <= c.checks /\ reads'[p] <= MaxChecks
  BY <1>5, <1>6, <1>7, CardCheckoutAssumption
<1>9. TypeOK'
  BY <1>1, <1>7 DEF TypeOK
<1>10. QuoteOK(q)' /\ NoRegress(q)
  <2>1. QuoteOK(q)
    BY DEF IInv
  <2>2. checkout[q].page # None => reads'[checkout[q].page] <= checkout[q].checks
    BY <1>5, <1>8
  <2>3. RecordOK(q)'
    BY <2>1, <2>2 DEF QuoteOK, RecordOK
  <2>4. ActiveOK(q)' /\ PostsOK(q)'
    BY <1>7, <2>1 DEF QuoteOK, ActiveOK, PostsOK
  <2> QED BY <2>3, <2>4, SameRecord DEF QuoteOK
<1>11. PageOK(p)'
  BY <1>5, <1>8 DEF PageOK
<1>12. OnlyTouches(t, p, q)
  BY <1>1, <1>2, <1>5, <1>7 DEF OnlyTouches
<1>13. \A v \in Tasks : v # t /\ task[v].pc \in InFlight => Subject(v) # q
  BY <1>5, NobodyChecks
<1>14. CallOK(t)'
  <2>1. Subject(t)' = q
    BY <1>1, <1>2, <1>7 DEF Subject
  <2>2. ChecksOK(t)'
    BY <1>2, <1>5, <1>7, <1>8 DEF ChecksOK
  <2>3. FlightOK(t)'
    BY <1>1, <1>5, <1>7, <2>1, <2>2 DEF FlightOK
  <2> QED BY <1>7, <2>3 DEF CallOK
<1>15. IInv' /\ \A r \in Quotes : NoRegress(r)
  BY <1>9, <1>10, <1>11, <1>12, <1>13, <1>14, HolderStep
<1>16. ASSUME NEW r \in Quotes, NEW v \in Tasks PROVE Asking(v, r)' <=> Asking(v, r)
  BY <1>1, <1>7 DEF Asking
<1>17. [Promise!Next]_(Promise!vars)
  BY <1>7, <1>16, SendsNothing
<1> QED BY <1>15, <1>17 DEF StepOK

LEMMA SessionIsFreshStep == ASSUME IInv, NEW t \in Tasks, SessionIsFresh(t) PROVE StepOK
<1>1. /\ task[t].pc = "ensuring" /\ UNCHANGED <<quote, checkout, lock, minted, page, shown>>
      /\ Ask(t, task[t].owner, task[t].on, task[t].copy, session'[task[t].owner.client])
  BY DEF SessionIsFresh, platform
<1>2. /\ TypeOK /\ task[t].on \in Quotes \cup Pages /\ task[t].owner.client \in Clients /\ task[t] \in Task
  BY <1>1, FlightFacts DEF InFlight, Owner
<1>3. session' \in [Clients -> Users \cup {None}]
  <2>1. task[t].user \in Users \cup {None}
    BY <1>2 DEF Task
  <2> QED BY <1>2, <2>1 DEF SessionIsFresh, TypeOK
<1>4. PICK u \in Users \cup {None} : u = session'[task[t].owner.client]
  BY <1>2, <1>3
<1> QED BY <1>1, <1>2, <1>3, <1>4, AsksPageStep, AsksStatusStep

-----------------------------------------------------------------------------
(* Answers.                                                                *)

\* Only a page is an opened checkout; every other answer leaves or fails it.
LEMMA VerdictOK ==
  ASSUME NEW a \in AllCardAnswers
  PROVE  /\ ClassifyCheckout(a).disposition \in {"open", "failed", "unresolved", "retryable"}
         /\ ClassifyCheckout(a).code \in CardCodes
<1>1. /\ PageUnknown.disposition = "unresolved" /\ PageUnknown.code \in CardCodes
  BY DEF PageUnknown, Verdict, CardCodes
<1>2. CASE a \in {NoAnswer, PageAnswer, NoData, UnsafeLink, BadReference}
  <2>1. ClassifyCheckout(a) \in {PageUnknown, Verdict("open", "none"), Verdict("failed", "unsafe_checkout_link"),
                                 Verdict("failed", "card_checkout_rejected")}
    BY <1>2 DEF ClassifyCheckout, NoAnswer, PageAnswer, NoData, UnsafeLink, BadReference, Answer
  <2> QED BY <1>1, <2>1 DEF Verdict, CardCodes
<1>3. CASE a \notin {NoAnswer, PageAnswer, NoData, UnsafeLink, BadReference}
  <2>1. ClassifyCheckout(a) = ClassifyCheckoutFailure(a)
    BY <1>3 DEF ClassifyCheckout
  <2>2. a.status \in Statuses
    BY <1>3 DEF AllCardAnswers, Refusal, Unreadable, Answer
  <2>3. CardBusinessError(a.label) \in CardCodes
    BY DEF CardBusinessError, CardCodes
  <2>4. ClassifyCheckoutFailure(a).disposition \in {"failed", "unresolved", "retryable"}
    BY <1>1, <2>2 DEF ClassifyCheckoutFailure, Verdict, Statuses
  <2>5. ClassifyCheckoutFailure(a).code \in CardCodes
    BY <1>1, <2>2, <2>3 DEF ClassifyCheckoutFailure, Verdict, Statuses, CardCodes
  <2> QED BY <2>1, <2>4, <2>5
<1> QED BY <1>2, <1>3

\* The call's copy with the verdict on its answer.
Answered(c, v, p) ==
  [c EXCEPT !.status = v.disposition, !.code = v.code, !.page = IF v.disposition = "open" THEN p ELSE @]

LEMMA AnsweredOK ==
  ASSUME NEW c \in Checkout, NEW v, v.disposition \in {"open", "failed", "unresolved"}, v.code \in CardCodes,
         c.page = None, c.settled = "none",
         NEW p, IF v.disposition = "open" THEN p \in Pages ELSE p = None,
         NEW n, n = Answered(c, v, p)
  PROVE  /\ n \in Checkout /\ n.owner = c.owner /\ n.key = c.key /\ n.attempts = c.attempts
         /\ n.checks = c.checks /\ n.settled = "none" /\ n.status = v.disposition
         /\ n.page = p
  BY DEF Answered, Checkout

LEMMA CheckoutReturnsStep ==
  ASSUME IInv, NEW t \in Tasks, NEW a \in Answers, NEW p \in Pages \cup {None}, CheckoutReturns(t, a, p)
  PROVE  StepOK
<1>1. PICK v : v = ClassifyCheckout(a)
  OBVIOUS
<1>2. v.disposition \in {"open", "failed", "unresolved", "retryable"} /\ v.code \in CardCodes
  BY <1>1, VerdictOK, CardCheckoutAssumption
<1>3. PICK q \in Quotes : q = task[t].on
  BY DEF CheckoutReturns
<1>4. /\ task[t].pc = "asking" /\ UNCHANGED <<session, quote, minted, page, reads>>
      /\ IF v.disposition = "open" THEN p \in PagesOf(q) ELSE p = None
      /\ checkout' = IF v.disposition = "retryable" THEN checkout
                     ELSE [checkout EXCEPT ![q] = Answered(task[t].copy, v, p)]
      /\ posts' = [posts EXCEPT ![q].settled = @ \/ IsTerminal(v.disposition)]
      /\ shown' = IF v.disposition = "open" THEN [shown EXCEPT ![q] = @ \cup {p}] ELSE shown
      /\ Ends(t, q, lock[q])
  BY <1>1, <1>3 DEF CheckoutReturns, Answered
<1>5. /\ TypeOK /\ FlightOK(t) /\ Subject(t) = q /\ q \notin Pages /\ lock[q] \in LockType(Tasks)
  BY <1>3, <1>4, FlightFacts, CardCheckoutAssumption DEF InFlight, Subject
<1>6. PICK c \in Checkout : c = task[t].copy
  BY <1>5 DEF FlightOK
<1>7. /\ quote[q].status # "none" /\ c.owner = quote[q].owner
      /\ c.key <= minted[q] /\ c.settled = "none" /\ lock[q].holder = t
      /\ checkout[q] = c \/ (checkout[q].key # c.key /\ quote[q].status # "active")
      /\ c.status \in {"pending", "unresolved"} /\ c.page = None /\ checkout[q] \in {c, NoCheckout}
      /\ ~posts[q].settled /\ posts[q].keys = {c.key} /\ posts[q].count <= c.attempts
  BY <1>3, <1>4, <1>5, <1>6 DEF FlightOK, OpensOK
<1>8. RecordOK(q) /\ ActiveOK(q) /\ PostsOK(q)
  BY DEF IInv, QuoteOK
<1>9. shown[q] = {} /\ p # None => p \in Pages /\ page[p].quote = q
  BY <1>4, <1>7, <1>8 DEF PostsOK, PagesOf
<1>10. shown[q] = {} /\ shown'[q] = (IF v.disposition = "open" THEN {p} ELSE {})
       /\ \A r \in Quotes : r # q => shown'[r] = shown[r]
  BY <1>4, <1>5, <1>7, <1>8 DEF PostsOK, TypeOK
<1>11. v.disposition = "open" => p \in Pages /\ page[p].quote = q /\ reads[p] = 0
  <2> SUFFICES ASSUME v.disposition = "open" PROVE p \in Pages /\ page[p].quote = q /\ reads[p] = 0
    OBVIOUS
  <2>1. p \in Pages /\ page[p].quote = q
    BY <1>4 DEF PagesOf
  <2>2. reads[p] \in Nat /\ (reads[p] > 0 => \E r \in Quotes : p \in shown[r])
    BY <2>1 DEF IInv, TypeOK, PageOK
  <2>3. \A r \in Quotes : p \in shown[r] => page[p].quote = r
    BY DEF IInv, QuoteOK, PostsOK
  <2> QED BY <1>10, <2>1, <2>2, <2>3
<1>12. /\ \A r \in Quotes : posts'[r].keys = posts[r].keys /\ posts'[r].count = posts[r].count
       /\ posts'[q].settled <=> IsTerminal(v.disposition)
       /\ \A r \in Quotes : r # q => posts'[r] = posts[r]
       /\ posts' \in [Quotes -> [keys : SUBSET Keys, count : Nat, settled : BOOLEAN]]
  <2>1. PICK b \in BOOLEAN : b = (posts[q].settled \/ IsTerminal(v.disposition))
    OBVIOUS
  <2>2. posts' = [posts EXCEPT ![q].settled = b]
    BY <1>4, <2>1, Zenon
  <2>3. posts[q] \in [keys : SUBSET Keys, count : Nat, settled : BOOLEAN]
    BY <1>5 DEF TypeOK
  <2>4. PICK e \in [keys : SUBSET Keys, count : Nat, settled : BOOLEAN] :
          e = [posts[q] EXCEPT !.settled = b] /\ e.keys = posts[q].keys /\ e.count = posts[q].count /\ e.settled = b
    <3>1. [posts[q] EXCEPT !.settled = b] \in [keys : SUBSET Keys, count : Nat, settled : BOOLEAN]
      BY <2>3
    <3>2. /\ [posts[q] EXCEPT !.settled = b].keys = posts[q].keys
          /\ [posts[q] EXCEPT !.settled = b].count = posts[q].count
          /\ [posts[q] EXCEPT !.settled = b].settled = b
      BY <2>3
    <3> QED BY <3>1, <3>2
  <2>5. posts' = [posts EXCEPT ![q] = e]
    BY <2>2, <2>4
  <2>6. posts'[q] = e /\ \A r \in Quotes : r # q => posts'[r] = posts[r]
    BY <1>5, <2>5 DEF TypeOK
  <2>7. posts' \in [Quotes -> [keys : SUBSET Keys, count : Nat, settled : BOOLEAN]]
    BY <1>5, <2>5 DEF TypeOK
  <2>8. posts'[q].settled <=> IsTerminal(v.disposition)
    BY <1>7, <2>1, <2>4, <2>6
  <2> QED BY <2>4, <2>6, <2>7, <2>8
<1>13. PICK n : n = Answered(c, v, p)
  OBVIOUS
<1>14. v.disposition # "retryable" =>
         /\ n \in Checkout /\ n.owner = c.owner /\ n.key = c.key /\ n.attempts = c.attempts
         /\ n.checks = c.checks /\ n.settled = "none" /\ n.status = v.disposition /\ n.page = p
  BY <1>2, <1>4, <1>7, <1>11, <1>13, AnsweredOK
<1>15. /\ v.disposition = "retryable" => checkout' = checkout
       /\ v.disposition # "retryable" => checkout'[q] = n
       /\ \A r \in Quotes : r # q => checkout'[r] = checkout[r]
       /\ checkout' \in [Quotes -> Checkout \cup {NoCheckout}]
  BY <1>4, <1>5, <1>6, <1>13, <1>14 DEF TypeOK
<1>16. /\ lock' \in [Quotes \cup Pages -> LockType(Tasks)]
       /\ \A y \in Quotes \cup Pages : y # q => lock'[y] = lock[y]
       /\ task' \in [Tasks -> Task] /\ task'[t].pc = "idle"
       /\ \A u \in Tasks : u # t => task'[u] = task[u]
  BY <1>4, <1>5, EndsType
<1>17. shown' \in [Quotes -> SUBSET Pages]
  BY <1>4, <1>5, <1>11 DEF TypeOK
<1>18. TypeOK'
  BY <1>4, <1>5, <1>12, <1>15, <1>16, <1>17 DEF TypeOK
<1>19. c.attempts \in Nat /\ c.checks \in Nat /\ c.key > 0 /\ c # NoCheckout /\ p \in Pages => p # None
  BY CheckoutFacts, CardCheckoutAssumption
<1>20. QuoteOK(q)' /\ NoRegress(q)
  <2>1. CASE v.disposition = "retryable"
    <3>1. checkout' = checkout /\ shown'[q] = shown[q] /\ ~posts'[q].settled
      BY <1>10, <1>12, <1>15, <2>1 DEF IsTerminal
    <3>2. RecordOK(q)'
      BY <1>4, <1>8, <3>1 DEF RecordOK
    <3>3. ActiveOK(q)'
      BY <1>4, <1>8, <1>12, <3>1 DEF ActiveOK
    <3>4. PostsOK(q)'
      BY <1>4, <1>7, <1>8, <1>10, <1>12, <3>1 DEF PostsOK
    <3> QED BY <3>1, <3>2, <3>3, <3>4, SameRecord DEF QuoteOK
  <2>2. CASE v.disposition # "retryable"
    <3>1. /\ n \in Checkout /\ n.owner = c.owner /\ n.key = c.key /\ n.attempts = c.attempts
          /\ n.checks = c.checks /\ n.settled = "none" /\ n.status = v.disposition /\ n.page = p
          /\ checkout'[q] = n
      BY <1>14, <1>15, <2>2
    <3>2. n # NoCheckout /\ n.checks \in Nat /\ n.attempts \in Nat
      BY <3>1, CheckoutFacts
    <3>3. CASE v.disposition = "open"
      <4>1. p \in Pages /\ p # None /\ p \in shown'[q] /\ reads'[p] <= n.checks
        BY <1>4, <1>10, <1>11, <3>2, <3>3, CardCheckoutAssumption
      <4>2. RecordOK(q)'
        BY <1>4, <1>7, <3>1, <3>2, <3>3, <4>1 DEF RecordOK
      <4>3. ActiveOK(q)'
        BY <1>4, <1>7, <1>12, <3>1, <3>2, <3>3 DEF ActiveOK, IsTerminal
      <4>4. PostsOK(q)'
        <5>1. posts'[q].settled /\ shown'[q] = {p} /\ page'[p].quote = q
          BY <1>4, <1>10, <1>11, <1>12, <3>3 DEF IsTerminal
        <5>2. quote'[q].status # "consumed" /\ quote'[q].status # "none"
          BY <1>4, <1>7, <1>8, <1>10 DEF PostsOK
        <5> QED BY <1>8, <1>12, <5>1, <5>2 DEF PostsOK
      <4> QED BY <1>7, <3>1, <3>2, <4>2, <4>3, <4>4, NoCheckoutFacts DEF QuoteOK, NoRegress
    <3>4. CASE v.disposition # "open"
      <4>1. p = None /\ shown'[q] = shown[q]
        BY <1>4, <1>10, <3>4
      <4>2. RecordOK(q)'
        BY <1>4, <1>7, <3>1, <3>2, <3>4, <4>1 DEF RecordOK
      <4>3. ActiveOK(q)'
        BY <1>4, <1>7, <1>12, <3>1, <3>2 DEF ActiveOK, IsTerminal
      <4>4. PostsOK(q)'
        BY <1>4, <1>7, <1>8, <1>10, <1>12, <4>1 DEF PostsOK
      <4> QED BY <1>7, <3>1, <3>2, <4>1, <4>2, <4>3, <4>4, NoCheckoutFacts DEF QuoteOK, NoRegress
    <3> QED BY <3>3, <3>4
  <2> QED BY <2>1, <2>2
<1>21. OnlyTouches(t, q, q)
  BY <1>4, <1>5, <1>7, <1>10, <1>12, <1>15, <1>16 DEF OnlyTouches
<1>22. \A u \in Tasks : u # t /\ task[u].pc \in InFlight => Subject(u) # q
  BY <1>7, NobodyOpens
<1>23. CallOK(t)'
  BY <1>16 DEF CallOK, InFlight
<1>24. IInv' /\ \A r \in Quotes : NoRegress(r)
  BY <1>5, <1>18, <1>20, <1>21, <1>22, <1>23, HolderStep
<1>25. [Promise!Next]_(Promise!vars)
  <2>1. Asking(t, q) /\ task'[t].pc # "asking"
    BY <1>3, <1>4, <1>16 DEF Asking
  <2>2. \A r \in Quotes : r # q => posts'[r].settled = posts[r].settled
    BY <1>12
  <2> QED BY <1>7, <1>12, <1>16, <2>1, <2>2, ReturnsAsPromised
<1> QED BY <1>24, <1>25 DEF StepOK

\* The call's copy with a final status.
LEMMA RecordedOK ==
  ASSUME NEW c \in Checkout, NEW s \in {"completed", "failed", "ambiguous"}, c.settled = "none", c.status = "open",
         NEW n, n = Recorded(c, s)
  PROVE  /\ n \in Checkout /\ n.owner = c.owner /\ n.key = c.key /\ n.attempts = c.attempts
         /\ n.checks = c.checks /\ n.page = c.page
         /\ s = "ambiguous" => n.status = "failed" /\ n.code = "card_payment_ambiguous" /\ n.settled = "none"
         /\ s # "ambiguous" => n.status = "open" /\ n.settled = s
<1>1. CASE s = "ambiguous"
  BY <1>1 DEF Recorded, Checkout, CardCodes
<1>2. CASE s # "ambiguous"
  BY <1>2 DEF Recorded, Checkout
<1> QED BY <1>1, <1>2

LEMMA StatusReturnsStep ==
  ASSUME IInv, NEW t \in Tasks, NEW s, StatusReturns(t, s) PROVE StepOK
<1>1. PICK p \in Pages : p = task[t].on
  BY DEF StatusReturns
<1>2. /\ task[t].pc = "asking" /\ UNCHANGED <<session, minted, page, shown, posts, reads>>
      /\ s \in {"unknown", "pending", page[p].state} \/ (s = "paid" /\ page[p].state = "completed")
      /\ checkout' = IF IsFinal(s) THEN [checkout EXCEPT ![page[p].quote] = Recorded(task[t].copy, s)] ELSE checkout
      /\ quote' = IF Consumes(s) THEN Consumed(quote, task[t].owner, page[p].quote) ELSE quote
      /\ Ends(t, p, lock[p])
  BY <1>1 DEF StatusReturns, platform, sent
<1>3. /\ TypeOK /\ FlightOK(t) /\ p \notin Quotes /\ lock[p] \in LockType(Tasks)
  BY <1>1, <1>2, FlightFacts, CardCheckoutAssumption DEF InFlight
<1>4. PICK q \in Quotes : q = page[p].quote /\ q = Subject(t)
  BY <1>1, <1>3 DEF FlightOK, Subject
<1>5. PICK c \in Checkout : c = task[t].copy
  BY <1>3 DEF FlightOK
<1>6. /\ quote[q].status # "none" /\ task[t].owner = quote[q].owner /\ c.owner = quote[q].owner
      /\ c.key <= minted[q] /\ c.settled = "none" /\ lock[p].holder = t
      /\ checkout[q] = c \/ (checkout[q].key # c.key /\ quote[q].status # "active")
      /\ p \in shown[q] /\ c.page = p /\ c.status = "open" /\ reads[p] <= c.checks
  BY <1>1, <1>3, <1>4, <1>5 DEF FlightOK, ChecksOK
<1>7. RecordOK(q) /\ ActiveOK(q) /\ PostsOK(q) /\ PageOK(p)
  BY DEF IInv, QuoteOK
<1>8. IsFinal(s) => s \in {"completed", "failed", "ambiguous"} /\ page[p].state = s
  BY <1>2 DEF IsFinal
<1>9. PICK n : n = Recorded(c, s)
  OBVIOUS
<1>10. IsFinal(s) =>
         /\ n \in Checkout /\ n.owner = c.owner /\ n.key = c.key /\ n.attempts = c.attempts
         /\ n.checks = c.checks /\ n.page = c.page
         /\ s = "ambiguous" => n.status = "failed" /\ n.code = "card_payment_ambiguous" /\ n.settled = "none"
         /\ s # "ambiguous" => n.status = "open" /\ n.settled = s
  BY <1>6, <1>8, <1>9, RecordedOK
<1>11. /\ ~IsFinal(s) => checkout' = checkout
       /\ IsFinal(s) => checkout'[q] = n
       /\ \A r \in Quotes : r # q => checkout'[r] = checkout[r]
       /\ checkout' \in [Quotes -> Checkout \cup {NoCheckout}]
  BY <1>2, <1>3, <1>4, <1>5, <1>9, <1>10 DEF TypeOK
<1>12. /\ quote' \in [Quotes -> Quote \cup {NoQuote}]
       /\ \A r \in Quotes : r # q => quote'[r] = quote[r]
       /\ quote'[q].owner = quote[q].owner
       /\ s = "completed" => quote'[q].status = "consumed"
       /\ s # "completed" => quote' = quote
  <2>1. CASE s = "completed"
    <3>1. quote' = [r \in Quotes |-> IF r \in {q} THEN [quote[r] EXCEPT !.status = "consumed"] ELSE quote[r]]
      BY <1>2, <1>4, <1>6, <2>1 DEF Consumes, Consumed, Owned, WithStatus
    <3>2. quote[q] \in Quote
      BY <1>3, <1>6 DEF TypeOK, NoQuote
    <3>3. PICK e \in Quote : e = [quote[q] EXCEPT !.status = "consumed"] /\ e.status = "consumed"
                             /\ e.owner = quote[q].owner
      <4>1. PICK r \in Quote : r = quote[q]
        BY <3>2
      <4>2. [r EXCEPT !.status = "consumed"] \in Quote
        BY DEF Quote, Status
      <4>3. [r EXCEPT !.status = "consumed"].status = "consumed" /\ [r EXCEPT !.status = "consumed"].owner = r.owner
        BY DEF Quote
      <4> QED BY <4>1, <4>2, <4>3
    <3>4. quote' = [r \in Quotes |-> IF r \in {q} THEN e ELSE quote[r]]
      BY <3>1, <3>3
    <3> QED BY <1>3, <2>1, <3>3, <3>4 DEF TypeOK
  <2>2. CASE s # "completed"
    BY <1>2, <1>3, <2>2 DEF Consumes, TypeOK
  <2> QED BY <2>1, <2>2
<1>13. /\ lock' \in [Quotes \cup Pages -> LockType(Tasks)]
       /\ \A y \in Quotes \cup Pages : y # p => lock'[y] = lock[y]
       /\ task' \in [Tasks -> Task] /\ task'[t].pc = "idle"
       /\ \A u \in Tasks : u # t => task'[u] = task[u]
  BY <1>2, <1>3, EndsType
<1>14. TypeOK'
  BY <1>2, <1>3, <1>11, <1>12, <1>13 DEF TypeOK
<1>15. PostsOK(q)'
  <2>1. s = "completed" => page[p].state = "completed"
    BY <1>8 DEF IsFinal
  <2> QED BY <1>2, <1>6, <1>7, <1>12, <2>1 DEF PostsOK
<1>16. QuoteOK(q)' /\ NoRegress(q)
  <2>1. CASE ~IsFinal(s)
    <3>1. checkout' = checkout /\ quote' = quote
      BY <1>11, <1>12, <2>1 DEF IsFinal
    <3>2. RecordOK(q)' /\ ActiveOK(q)'
      BY <1>2, <1>7, <3>1 DEF RecordOK, ActiveOK
    <3> QED BY <1>15, <3>1, <3>2, SameRecord DEF QuoteOK
  <2>2. CASE IsFinal(s)
    <3>1. /\ n \in Checkout /\ n.owner = c.owner /\ n.key = c.key /\ n.attempts = c.attempts
          /\ n.checks = c.checks /\ n.page = c.page
          /\ s = "ambiguous" => n.status = "failed" /\ n.code = "card_payment_ambiguous" /\ n.settled = "none"
          /\ s # "ambiguous" => n.status = "open" /\ n.settled = s
          /\ checkout'[q] = n /\ s \in {"completed", "failed", "ambiguous"} /\ page[p].state = s
      BY <1>8, <1>10, <1>11, <2>2
    <3>2. /\ n # NoCheckout /\ p # None
          /\ n.attempts \in Nat /\ n.checks \in Nat /\ n.attempts = c.attempts /\ n.checks = c.checks
      BY <3>1, CheckoutFacts, CardCheckoutAssumption
    <3>3. RecordOK(q)'
      <4>1. quote'[q].status # "none"
        BY <1>6, <1>12
      <4> QED BY <1>2, <1>6, <1>12, <3>1, <3>2, <4>1 DEF RecordOK
    <3>4. ActiveOK(q)'
      <4>1. quote'[q].status = "active" => quote[q].status = "active" /\ checkout[q] = c
        BY <1>6, <1>12
      <4> QED BY <1>2, <1>7, <3>1, <3>2, <4>1 DEF ActiveOK, IsTerminal
    <3>5. NoRegress(q)
      <4>1. n.attempts >= c.attempts /\ n.checks >= c.checks
        BY <3>2
      <4> QED BY <1>6, <3>1, <4>1 DEF NoRegress
    <3> QED BY <1>15, <3>3, <3>4, <3>5 DEF QuoteOK
  <2> QED BY <2>1, <2>2
<1>17. OnlyTouches(t, p, q)
  BY <1>2, <1>3, <1>4, <1>6, <1>11, <1>12, <1>13 DEF OnlyTouches
<1>18. \A u \in Tasks : u # t /\ task[u].pc \in InFlight => Subject(u) # q
  BY <1>6, NobodyChecks
<1>19. CallOK(t)' /\ PageOK(p)'
  BY <1>2, <1>7, <1>13 DEF CallOK, InFlight, PageOK
<1>20. IInv' /\ \A r \in Quotes : NoRegress(r)
  BY <1>14, <1>16, <1>17, <1>18, <1>19, HolderStep
<1> QED BY <1>2, <1>13, <1>20, GivesUpAsPromised DEF StepOK

-----------------------------------------------------------------------------
(* The theorems.                                                           *)

LEMMA InitInv == Init => IInv
<1> SUFFICES ASSUME Init PROVE IInv
  OBVIOUS
<1>1. \A x \in Quotes \cup Pages : Free \in LockType(Tasks)
  BY FreeType
<1>2. TypeOK
  BY <1>1, IdleType, CardCheckoutAssumption DEF Init, TypeOK
<1>3. ASSUME NEW t \in Tasks PROVE CallOK(t)
  BY IdleType DEF Init, CallOK, InFlight
<1>4. ASSUME NEW q \in Quotes PROVE QuoteOK(q)
  <2>1. /\ checkout[q] = NoCheckout /\ minted[q] = 0 /\ posts[q].keys = {} /\ posts[q].count = 0
        /\ ~posts[q].settled /\ shown[q] = {} /\ quote[q].status = "none"
    BY DEF Init, NoQuote
  <2>2. RecordOK(q)
    BY <2>1, NoCheckoutFacts, CardCheckoutAssumption DEF RecordOK
  <2>3. ActiveOK(q) /\ PostsOK(q)
    BY <2>1, CardCheckoutAssumption DEF ActiveOK, PostsOK
  <2> QED BY <2>2, <2>3 DEF QuoteOK
<1>5. ASSUME NEW p \in Pages PROVE PageOK(p)
  BY CardCheckoutAssumption DEF Init, PageOK
<1> QED BY <1>2, <1>3, <1>4, <1>5 DEF IInv

LEMMA StutterStep == ASSUME IInv, UNCHANGED vars PROVE StepOK
<1>1. TypeOK /\ UNCHANGED <<session, quote, checkout, lock, task, minted, page, posts, reads, shown>>
  BY DEF IInv, vars
<1>2. TypeOK'
  BY <1>1 DEF TypeOK
<1>3. Moves(quote, quote') /\ PagesMove
  BY <1>1, SameMoves DEF TypeOK, QuoteMap, PagesMove
<1> QED BY <1>1, <1>2, <1>3, OutsideStep

LEMMA NextOK == ASSUME IInv, [Next]_vars PROVE StepOK
<1>1. ASSUME NEW t \in Tasks, Step(t) PROVE StepOK
  BY <1>1, LockGrantedStep, SessionIsReadAgainStep, SessionIsFreshStep, SessionIsLostStep,
     CheckoutReturnsStep, StatusReturnsStep DEF Step
<1>2. CASE \E t \in Tasks : Step(t) \/ Cancel(t)
  BY <1>1, <1>2, CancelStep
<1>3. CASE \E t \in Tasks, k \in Clients, on \in Quotes \cup Pages : Call(t, k, on)
  BY <1>3, CallStep
<1>4. CASE \E k \in Clients, u \in Users : SignIn(k, u)
  BY <1>4, SignInStep
<1>5. CASE \E k \in Clients : SessionEnds(k)
  BY <1>5, SessionEndsStep
<1>6. CASE \E k \in Clients, q \in Quotes, plan \in Plans : Prepare(k, q, plan)
  BY <1>6, PrepareStep
<1>7. CASE \E q \in Quotes : Lapses(q)
  BY <1>7, LapsesStep
<1>8. CASE \E k \in Clients, q \in Quotes : CancelPrepared(k, q)
  BY <1>8, CancelPreparedStep
<1>9. CASE \E q \in Quotes, p \in Pages : PageOpens(q, p)
  BY <1>9, PageOpensStep
<1>10. CASE \E p \in Pages, s \in PaymentStates : PaymentMoves(p, s)
  BY <1>10, PaymentMovesStep
<1>11. CASE UNCHANGED vars
  BY <1>11, StutterStep
<1> QED BY <1>2, <1>3, <1>4, <1>5, <1>6, <1>7, <1>8, <1>9, <1>10, <1>11 DEF Next

\* The inductive invariant holds of every reachable state.
THEOREM Invariance == Spec => []IInv
<1>1. IInv /\ [Next]_vars => IInv'
  BY NextOK DEF StepOK
<1> QED BY <1>1, InitInv, PTL DEF Spec

\* Every variable keeps its type: locks are held by and queue calls, a record
\* counts at most MAX_CHECKOUT_ATTEMPTS attempts and MAX_STATUS_CHECKS checks.
THEOREM TypeCorrect == Spec => []TypeOK
<1>1. IInv => TypeOK
  BY DEF IInv
<1> QED BY <1>1, Invariance, PTL

\* create_card_checkout shows the user the link of one page per quote only,
\* however many pages the platform opened for unanswered requests.
THEOREM OneLink == Spec => []OneLinkPerQuote
<1>1. IInv => OneLinkPerQuote
  <2> SUFFICES ASSUME IInv, NEW q \in Quotes PROVE Cardinality(shown[q]) <= 1
    BY DEF OneLinkPerQuote
  <2>1. \A p1, p2 \in shown[q] : p1 = p2
    BY DEF IInv, QuoteOK, PostsOK
  <2>2. CASE shown[q] = {}
    <3>1. Cardinality(shown[q]) = 0
      BY <2>2, FS_EmptySet
    <3> QED BY <3>1
  <2>3. CASE shown[q] # {}
    <3>1. PICK p : shown[q] = {p}
      BY <2>1, <2>3
    <3>2. Cardinality({p}) = 1
      BY FS_Singleton
    <3> QED BY <3>1, <3>2
  <2> QED BY <2>2, <2>3
<1> QED BY <1>1, Invariance, PTL

\* check_card_payment_status reads one payment at most MAX_STATUS_CHECKS times,
\* cancelled and failed reads included.
THEOREM Bounded == Spec => []CardReadsBounded
<1>1. IInv => CardReadsBounded
  BY DEF IInv, PageOK, CardReadsBounded
<1> QED BY <1>1, Invariance, PTL

\* The final status a record replays is the status the platform will always give
\* for its payment.
THEOREM ReplaysAreTrue == Spec => []ReplayedStatusIsTrue
<1>1. IInv => ReplayedStatusIsTrue
  BY DEF IInv, QuoteOK, RecordOK, ReplayedStatusIsTrue
<1> QED BY <1>1, Invariance, PTL

\* The quote store and the checkout store agree: a consumed quote was paid on the
\* page the user was shown, a completed payment has consumed its quote.
THEOREM StoresAgree == Spec => []ConsumedMeansPaid
<1>1. IInv => ConsumedMeansPaid
  BY DEF IInv, QuoteOK, RecordOK, PostsOK, ConsumedMeansPaid
<1> QED BY <1>1, Invariance, PTL

\* Two locks guard one record, and no call puts back an older copy of it.
THEOREM NoRegression == Spec => RecordNeverRegresses
<1>1. IInv /\ [Next]_vars => \A q \in Quotes : NoRegress(q)
  BY NextOK DEF StepOK
<1>2. IInv /\ [Next]_vars =>
        [\A q \in Quotes :
           LET old == checkout[q]  new == checkout'[q] IN
           old.key # 0 /\ new.key = old.key =>
             /\ new.attempts >= old.attempts /\ new.checks >= old.checks
             /\ old.page # None => new.page = old.page
             /\ old.settled # "none" => new.settled = old.settled
             /\ old.status = "failed" => new.status = "failed" /\ new.code = old.code]_vars
  BY <1>1 DEF NoRegress
<1> QED BY <1>2, Invariance, PTL DEF Spec, RecordNeverRegresses

\* create_card_checkout keeps PurchasePromise: one key per quote, one request at
\* a time, a bounded number of them, and none after a final answer.
THEOREM Refinement == Spec => KeepsCardPromise
<1>1. Init => Promise!Init
  <2> SUFFICES ASSUME Init PROVE Promise!Init
    OBVIOUS
  <2>1. \A t \in Tasks : task[t].pc = "idle"
    BY IdleType DEF Init
  <2>2. /\ \A q \in Quotes : posts[q].keys = {} /\ posts[q].count = 0 /\ ~posts[q].settled
    BY DEF Init
  <2> QED BY <2>1, <2>2 DEF Promise!Init
<1>2. IInv /\ [Next]_vars => [Promise!Next]_(Promise!vars)
  BY NextOK DEF StepOK
<1> QED BY <1>1, <1>2, Invariance, PTL DEF Spec, KeepsCardPromise, Promise!Spec
=============================================================================
