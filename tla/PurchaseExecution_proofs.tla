----------------------- MODULE PurchaseExecution_proofs -----------------------
(***************************************************************************)
(* Proofs about confirm_purchase, for any number of clients, accounts,     *)
(* quotes, concurrent confirmations, attempts and keys and any set of      *)
(* platform answers.  The inductive invariant says what a confirmation     *)
(* between two awaits may still rely on: it holds its quote's lock, its    *)
(* copy of the record is the newest one with the newest key, and a record  *)
(* is only ever missing for a quote that can no longer be bought.          *)
(***************************************************************************)
EXTENDS PurchaseExecution, AsyncLock_proofs, QuoteStore_proofs

-----------------------------------------------------------------------------
(* The inductive invariant.                                                *)

\* A confirmation past its gates holds the lock of its quote, owns the quote,
\* and works with the newest key; what it is about to send is already counted.
InFlightOK(t) ==
  LET q == task[t].quote
      e == task[t].exec
  IN
  /\ q \in Quotes
  /\ quoteLock[q].holder = t
  /\ quote[q].status # "none"
  /\ task[t].owner = quote[q].owner
  /\ e \in Execution
  /\ e.owner = quote[q].owner
  /\ e.key = minted[q]
  /\ ~IsTerminal(e.status)
  /\ quote[q].status = "active" => execution[q] = e
  /\ posts[q].keys \subseteq {e.key}
  /\ posts[q].count <= e.attempts
  /\ task[t].pc # "posting" => posts[q].count < e.attempts
  /\ task[t].pc = "posting" => e.key \in posts[q].keys
  /\ task[t].pc # "ensuring" => task[t].payer \in Users
  /\ ~posts[q].settled

\* A stored record belongs to its quote's owner and carries the newest key.
RecordOK(q) ==
  execution[q] # NoExecution =>
    /\ execution[q] \in Execution
    /\ quote[q].status # "none"
    /\ execution[q].owner = quote[q].owner
    /\ execution[q].key = minted[q]

\* While a quote can still be bought, everything sent for it is on record.
ActiveOK(q) ==
  quote[q].status = "active" =>
    /\ posts[q].keys # {} => execution[q] # NoExecution
    /\ posts[q].keys \subseteq {minted[q]}
    /\ posts[q].count <= execution[q].attempts
    /\ posts[q].settled => IsTerminal(execution[q].status)

PostsOK(q) ==
  /\ posts[q].keys = {} => posts[q].count = 0 /\ ~posts[q].settled
  /\ quote[q].status = "none" => posts[q].keys = {}
  /\ posts[q].count <= MaxAttempts
  /\ \A key1, key2 \in posts[q].keys : key1 = key2

\* The platform only executes what it was sent.
LedgerOK(q) ==
  \A key \in Keys :
    ledger[q][key] # "none" \/ <<q, key>> \in pending => key \in posts[q].keys

\* What a record claims about money, and what a consumed quote stands for.
MoneyOK(q) ==
  /\ execution[q].status = "failed" => ledger[q][execution[q].key] = "refused"
  /\ execution[q].status = "succeeded" => quote[q].status = "consumed"
  /\ quote[q].status = "consumed" => \E key \in posts[q].keys : ledger[q][key] = "charged"

IInv ==
  /\ TypeOK
  /\ \A t \in Tasks : /\ task[t].pc \in InFlight => InFlightOK(t)
                      /\ task[t].pc # "idle" => task[t].quote \in Quotes /\ task[t].owner \in Owner
  /\ \A q \in Quotes : /\ execution[q] = NoExecution => minted[q] < MaxKeys
                       /\ RecordOK(q) /\ ActiveOK(q) /\ PostsOK(q) /\ LedgerOK(q) /\ MoneyOK(q)

-----------------------------------------------------------------------------
(* Steps outside the confirmations.                                        *)

\* Signing in, preparing, cancelling and lapsing keep the invariant: no quote
\* becomes active again, and nothing a confirmation relies on moves.
LEMMA MovesStep ==
  ASSUME IInv, TypeOK', Moves(quote, quote'),
         UNCHANGED <<execution, quoteLock, task, minted, ledger, pending, posts>>
  PROVE  IInv'
<1>1. ASSUME NEW t \in Tasks, task[t].pc \in InFlight
      PROVE  InFlightOK(t)'
  BY <1>1 DEF IInv, InFlightOK, Moves
<1>2. ASSUME NEW q \in Quotes
      PROVE  RecordOK(q)' /\ ActiveOK(q)' /\ PostsOK(q)' /\ LedgerOK(q)' /\ MoneyOK(q)'
  <2>1. RecordOK(q) /\ ActiveOK(q) /\ PostsOK(q) /\ LedgerOK(q) /\ MoneyOK(q)
    BY DEF IInv
  <2>2. \/ quote'[q].status = quote[q].status /\ quote'[q].owner = quote[q].owner
        \/ quote[q].status = "active" /\ quote'[q].status = "cancelled" /\ quote'[q].owner = quote[q].owner
        \/ quote[q].status = "none" /\ quote'[q].status = "active"
    BY DEF Moves
  <2>3. RecordOK(q)'
    BY <2>1, <2>2 DEF RecordOK
  <2>4. ActiveOK(q)'
    <3>1. CASE quote'[q].status = quote[q].status
      BY <2>1, <3>1 DEF ActiveOK
    <3>2. CASE quote'[q].status = "cancelled"
      BY <3>2 DEF ActiveOK
    <3>3. CASE quote[q].status = "none"
      <4>1. posts[q].keys = {} /\ posts[q].count = 0 /\ ~posts[q].settled
        BY <2>1, <3>3 DEF PostsOK
      <4>2. execution[q].attempts \in Nat
        BY DEF IInv, TypeOK, Execution, NoExecution
      <4> QED BY <4>1, <4>2 DEF ActiveOK
    <3> QED BY <2>2, <3>1, <3>2, <3>3
  <2>5. PostsOK(q)'
    BY <2>1, <2>2 DEF PostsOK
  <2>6. LedgerOK(q)'
    BY <2>1 DEF LedgerOK
  <2>7. MoneyOK(q)'
    BY <2>1, <2>2 DEF MoneyOK
  <2> QED BY <2>3, <2>4, <2>5, <2>6, <2>7
<1> QED BY <1>1, <1>2 DEF IInv

LEMMA SignInStep ==
  ASSUME IInv, NEW k \in Clients, NEW u \in Users, SignIn(k, u)
  PROVE  IInv'
<1>1. TypeOK'
  BY DEF IInv, TypeOK, SignIn, Session
<1>2. Moves(quote, quote')
  BY DEF IInv, TypeOK, SignIn, Moves, QuoteMap
<1> QED BY <1>1, <1>2, MovesStep DEF SignIn

LEMMA TokenAgesStep ==
  ASSUME IInv, NEW k \in Clients, TokenAges(k)
  PROVE  IInv'
<1>1. TypeOK'
  BY DEF IInv, TypeOK, TokenAges, Session
<1>2. Moves(quote, quote')
  BY DEF IInv, TypeOK, TokenAges, Moves, QuoteMap
<1> QED BY <1>1, <1>2, MovesStep DEF TokenAges

LEMMA PrepareStep ==
  ASSUME IInv, NEW k \in Clients, NEW q \in Quotes, NEW plan \in Plans, NEW funded \in BOOLEAN,
         Prepare(k, q, plan, funded)
  PROVE  IInv'
<1>1. OwnerOf(k, session[k].user) \in Owner
  BY DEF IInv, TypeOK, Prepare, Session, OwnerOf, Owner
<1>2. Moves(quote, quote')
  BY <1>1, CreatedMoves DEF IInv, TypeOK, Prepare, QuoteMap
<1>3. TypeOK'
  BY <1>2 DEF IInv, TypeOK, Prepare, Moves, QuoteMap
<1> QED BY <1>2, <1>3, MovesStep DEF Prepare

LEMMA LapsesStep ==
  ASSUME IInv, NEW q \in Quotes, Lapses(q)
  PROVE  IInv'
<1>1. quote[q] \in Quote
  BY DEF IInv, TypeOK, Lapses, IsUsable, Quote, NoQuote
<1>2. Moves(quote, quote')
  BY <1>1 DEF IInv, TypeOK, Lapses, Moves, QuoteMap, Quote
<1>3. TypeOK'
  BY <1>2 DEF IInv, TypeOK, Lapses, Moves, QuoteMap
<1> QED BY <1>2, <1>3, MovesStep DEF Lapses

LEMMA CancelPreparedStep ==
  ASSUME IInv, NEW k \in Clients, NEW q \in Quotes, CancelPrepared(k, q)
  PROVE  IInv'
<1>1. Moves(quote, quote')
  BY CancelledMoves DEF IInv, TypeOK, CancelPrepared, QuoteMap
<1>2. TypeOK'
  BY <1>1 DEF IInv, TypeOK, CancelPrepared, Moves, QuoteMap
<1> QED BY <1>1, <1>2, MovesStep DEF CancelPrepared

\* The platform executes a purchase: only a request that was sent can run.
LEMMA PlatformDecidesStep ==
  ASSUME IInv, NEW q \in Quotes, NEW key \in Keys, NEW fate \in Fates, PlatformDecides(q, key, fate)
  PROVE  IInv'
<1>1. key \in posts[q].keys
  <2>1. CASE <<q, key>> \in pending
    BY <2>1 DEF IInv, LedgerOK
  <2>2. ASSUME NEW t \in Tasks, task[t].pc = "posting", task[t].quote = q, task[t].exec.key = key
        PROVE  key \in posts[q].keys
    BY <2>2 DEF IInv, InFlightOK, InFlight
  <2> QED BY <2>1, <2>2 DEF PlatformDecides
<1>2. TypeOK'
  BY DEF IInv, TypeOK, PlatformDecides
<1>3. ASSUME NEW r \in Quotes, NEW other \in Keys
      PROVE  ledger'[r][other] = IF r = q /\ other = key THEN fate ELSE ledger[r][other]
  BY DEF IInv, TypeOK, PlatformDecides
<1>4. ledger[q][key] = "none"
  BY DEF PlatformDecides
<1>5. ASSUME NEW t \in Tasks, task[t].pc \in InFlight
      PROVE  InFlightOK(t)'
  BY <1>5 DEF IInv, InFlightOK, PlatformDecides
<1>6. ASSUME NEW r \in Quotes
      PROVE  RecordOK(r)' /\ ActiveOK(r)' /\ PostsOK(r)' /\ LedgerOK(r)' /\ MoneyOK(r)'
  <2>1. RecordOK(r)' /\ ActiveOK(r)' /\ PostsOK(r)'
    BY DEF IInv, RecordOK, ActiveOK, PostsOK, PlatformDecides
  <2>2. LedgerOK(r)'
    BY <1>1, <1>3 DEF IInv, LedgerOK, PlatformDecides
  <2>3. MoneyOK(r)'
    <3>1. execution[r].status = "failed" => execution[r].key \in Keys /\ ledger[r][execution[r].key] = "refused"
      BY DEF IInv, TypeOK, MoneyOK, Execution, NoExecution
    <3>2. execution'[r] = execution[r] /\ quote'[r] = quote[r] /\ posts'[r] = posts[r]
      BY DEF PlatformDecides
    <3>3. posts[r].keys \subseteq Keys
      BY DEF IInv, TypeOK
    <3>4. execution[r].status = "failed" => ledger'[r][execution[r].key] = "refused"
      BY <3>1, <1>3, <1>4
    <3>5. quote[r].status = "consumed" => \E other \in posts[r].keys : ledger'[r][other] = "charged"
      BY <3>3, <1>3, <1>4 DEF IInv, MoneyOK
    <3> QED BY <3>2, <3>4, <3>5 DEF IInv, MoneyOK
  <2> QED BY <2>1, <2>2, <2>3
<1> QED BY <1>2, <1>5, <1>6 DEF IInv, PlatformDecides

-----------------------------------------------------------------------------
(* The end of a session.                                                   *)

\* A record belongs to a client; a missing record belongs to none.
LEMMA RecordsAreStored ==
  ASSUME IInv, NEW k \in Clients, NEW q \in Records(k)
  PROVE  q \in Quotes /\ execution[q] # NoExecution /\ execution[q] \in Execution
  BY PurchaseExecutionAssumption DEF IInv, TypeOK, Records, NoExecution, NoOwner

\* Invalidation drops records only together with the quotes they are for.
LEMMA InvalidateState ==
  ASSUME IInv, NEW k \in Clients, Invalidate(k), UNCHANGED <<minted, ledger, pending, posts>>
  PROVE  /\ session' \in [Clients -> Session]
         /\ quote' \in QuoteMap
         /\ execution' \in [Quotes -> Execution \cup {NoExecution}]
         /\ \A q \in Quotes : /\ execution'[q] = NoExecution => minted'[q] < MaxKeys
                              /\ RecordOK(q)' /\ ActiveOK(q)' /\ PostsOK(q)' /\ LedgerOK(q)' /\ MoneyOK(q)'
         /\ \A q \in Quotes : execution'[q] = execution[q] \/ quote'[q].status # "active"
         /\ Moves(quote, quote')
<1>1. quote \in QuoteMap /\ execution \in [Quotes -> Execution \cup {NoExecution}]
  BY DEF IInv, TypeOK, QuoteMap
<1>2. Moves(quote, quote') /\ \A q \in Quotes : quote'[q].status = "active" => quote[q].owner.client # k
  BY <1>1, InvalidatedMoves DEF Invalidate
<1>3. session' \in [Clients -> Session]
  BY DEF IInv, TypeOK, Invalidate, Session, NoSession
<1>4. execution' \in [Quotes -> Execution \cup {NoExecution}]
  BY <1>1 DEF Invalidate
<1>6. ASSUME NEW q \in Quotes, q \in Records(k)
      PROVE  /\ execution'[q] = NoExecution
             /\ execution[q].key < MaxKeys /\ execution[q].key = minted[q]
             /\ quote[q].owner.client = k /\ quote[q].status # "none"
  <2>1. execution[q] # NoExecution
    BY <1>6, RecordsAreStored
  <2>2. RecordOK(q)
    BY DEF IInv
  <2> QED BY <1>6, <2>1, <2>2 DEF RecordOK, Invalidate, Records
<1>7. ASSUME NEW q \in Quotes, q \notin Records(k)
      PROVE  execution'[q] = execution[q]
  BY <1>7 DEF Invalidate
<1>8. ASSUME NEW q \in Quotes
      PROVE  execution'[q] = execution[q] \/ quote'[q].status # "active"
  BY <1>2, <1>6, <1>7
<1>9. ASSUME NEW q \in Quotes
      PROVE  \/ quote'[q].status = quote[q].status /\ quote'[q].owner = quote[q].owner
             \/ quote[q].status = "active" /\ quote'[q].status = "cancelled" /\ quote'[q].owner = quote[q].owner
             \/ quote[q].status = "none" /\ quote'[q].status = "active"
  BY <1>2 DEF Moves
<1>10. ASSUME NEW q \in Quotes
       PROVE  /\ execution'[q] = NoExecution => minted'[q] < MaxKeys
              /\ RecordOK(q)' /\ ActiveOK(q)' /\ PostsOK(q)' /\ LedgerOK(q)' /\ MoneyOK(q)'
  <2>1. /\ execution[q] = NoExecution => minted[q] < MaxKeys
        /\ RecordOK(q) /\ ActiveOK(q) /\ PostsOK(q) /\ LedgerOK(q) /\ MoneyOK(q)
    BY DEF IInv
  <2>2. execution'[q] = NoExecution => minted'[q] < MaxKeys
    BY <2>1, <1>6, <1>7
  <2>3. RecordOK(q)'
    BY <2>1, <1>6, <1>7, <1>9 DEF RecordOK
  <2>4. ActiveOK(q)'
    <3>1. CASE quote'[q].status # "active"
      BY <3>1 DEF ActiveOK
    <3>2. CASE quote'[q].status = "active" /\ quote[q].status = "active"
      BY <3>2, <2>1, <1>8 DEF ActiveOK
    <3>3. CASE quote'[q].status = "active" /\ quote[q].status = "none"
      <4>1. posts[q].keys = {} /\ posts[q].count = 0 /\ ~posts[q].settled
        BY <2>1, <3>3 DEF PostsOK
      <4>2. execution'[q].attempts \in Nat
        BY <1>4 DEF Execution, NoExecution
      <4> QED BY <4>1, <4>2 DEF ActiveOK
    <3> QED BY <1>9, <3>1, <3>2, <3>3
  <2>5. PostsOK(q)'
    BY <2>1, <1>9 DEF PostsOK
  <2>6. LedgerOK(q)'
    BY <2>1 DEF LedgerOK
  <2>7. MoneyOK(q)'
    BY <2>1, <1>6, <1>7, <1>9 DEF MoneyOK, NoExecution
  <2> QED BY <2>2, <2>3, <2>4, <2>5, <2>6, <2>7
<1> QED BY <1>2, <1>3, <1>4, <1>8, <1>10 DEF Moves

\* A confirmation in flight survives the end of its session: its copy of the
\* record is still the newest, and its quote is no longer active.
LEMMA InFlightInvalidated ==
  ASSUME IInv, NEW k \in Clients, Invalidate(k), UNCHANGED <<minted, ledger, pending, posts>>,
         NEW t \in Tasks, task[t].pc \in InFlight, task'[t] = task[t],
         quoteLock'[task[t].quote].holder = quoteLock[task[t].quote].holder
  PROVE  InFlightOK(t)'
<1>1. InFlightOK(t)
  BY DEF IInv
<1>2. Moves(quote, quote') /\ \A q \in Quotes : execution'[q] = execution[q] \/ quote'[q].status # "active"
  BY InvalidateState
<1> QED BY <1>1, <1>2 DEF InFlightOK, Moves

LEMMA SessionEndsStep ==
  ASSUME IInv, NEW k \in Clients, SessionEnds(k)
  PROVE  IInv'
<1>1. Invalidate(k) /\ UNCHANGED <<sessionLock, quoteLock, task, minted, ledger, pending, posts>>
  BY DEF SessionEnds
<1>2. TypeOK'
  BY <1>1, InvalidateState DEF IInv, TypeOK, QuoteMap
<1>3. ASSUME NEW t \in Tasks, task[t].pc \in InFlight PROVE InFlightOK(t)'
  BY <1>1, <1>3, InFlightInvalidated
<1> QED BY <1>1, <1>2, <1>3, InvalidateState DEF IInv

-----------------------------------------------------------------------------
(* The start.                                                              *)

LEMMA InitIInv == Init => IInv
<1> SUFFICES ASSUME Init PROVE IInv
  OBVIOUS
<1>1. TypeOK
  BY FreeType, PurchaseExecutionAssumption
     DEF Init, TypeOK, Session, NoSession, Task, Doing, Idle, Fates, Keys
<1>2. ASSUME NEW t \in Tasks PROVE task[t].pc = "idle"
  BY DEF Init, Idle, Doing
<1>3. ASSUME NEW q \in Quotes
      PROVE  /\ execution[q] = NoExecution => minted[q] < MaxKeys
             /\ RecordOK(q) /\ ActiveOK(q) /\ PostsOK(q) /\ LedgerOK(q) /\ MoneyOK(q)
  BY PurchaseExecutionAssumption
     DEF Init, RecordOK, ActiveOK, PostsOK, LedgerOK, MoneyOK, NoExecution, NoQuote, Keys
<1> QED BY <1>1, <1>2, <1>3 DEF IInv, InFlight

-----------------------------------------------------------------------------
(* The decision.                                                           *)

\* acquire() hands out the stored record, or one with the next key.
LEMMA AcquiredOK ==
  ASSUME IInv, NEW q \in Quotes, NEW owner \in Owner, Owned(quote, owner, q)
  PROVE  /\ Acquired(owner, q) \in Execution
         /\ Acquired(owner, q).owner = quote[q].owner
         /\ execution[q] # NoExecution => Acquired(owner, q) = execution[q] /\ execution[q].key = minted[q]
         /\ execution[q] = NoExecution => Acquired(owner, q) = NewExecution(owner, minted[q] + 1)
<1>1. quote[q].owner = owner /\ quote[q].status # "none"
  BY DEF Owned
<1>2. CASE execution[q] = NoExecution
  <2>1. execution[q].owner # owner
    BY <1>2, PurchaseExecutionAssumption DEF NoExecution, NoOwner, Owner
  <2>2. Acquired(owner, q) = NewExecution(owner, minted[q] + 1)
    BY <2>1 DEF Acquired
  <2>3. minted[q] + 1 \in Keys
    BY <1>2, PurchaseExecutionAssumption DEF IInv, TypeOK, Keys
  <2>4. NewExecution(owner, minted[q] + 1) \in Execution
    BY <2>3, PurchaseExecutionAssumption DEF NewExecution, Execution, Codes
  <2> QED BY <1>1, <1>2, <2>2, <2>4 DEF NewExecution
<1>3. CASE execution[q] # NoExecution
  BY <1>1, <1>3 DEF IInv, RecordOK, Acquired
<1> QED BY <1>2, <1>3

\* The gates are open only for an active quote with an attempt left.
LEMMA GateOpen ==
  ASSUME NEW r \in Quote, NEW exec \in Execution, Gate(r, exec) = "open"
  PROVE  r.status = "active" /\ exec.attempts < MaxAttempts
<1>1. r.status \in Status /\ r.lapsed \in BOOLEAN /\ r.funded \in BOOLEAN
  BY DEF Quote
<1>2. r.status = "active" /\ ~AttemptsSpent(exec)
  BY <1>1 DEF Gate, IsUsable, Status
<1> QED BY <1>2, PurchaseExecutionAssumption DEF AttemptsSpent, Execution

\* Storing what acquire() returned, counted or not, keeps a quote's invariants.
LEMMA StoredOK ==
  ASSUME IInv, NEW q \in Quotes, NEW owner \in Owner, Owned(quote, owner, q), NEW e \in Execution,
         e.key = Acquired(owner, q).key, e.owner = Acquired(owner, q).owner,
         e.status = Acquired(owner, q).status, e.attempts >= Acquired(owner, q).attempts,
         execution'[q] = e, minted'[q] = e.key,
         posts'[q] = posts[q], quote' = quote, ledger' = ledger, pending' = pending
  PROVE  /\ RecordOK(q)' /\ ActiveOK(q)' /\ PostsOK(q)' /\ LedgerOK(q)' /\ MoneyOK(q)'
         /\ execution'[q] # NoExecution
<1>1. RecordOK(q) /\ ActiveOK(q) /\ PostsOK(q) /\ LedgerOK(q) /\ MoneyOK(q)
  BY DEF IInv
<1>2. /\ e.owner = quote[q].owner
      /\ execution[q] # NoExecution => e.key = minted[q] /\ e.status = execution[q].status
                                       /\ e.attempts >= execution[q].attempts
                                       /\ execution[q] \in Execution /\ execution[q].key = minted[q]
      /\ execution[q] = NoExecution => e.status = "pending"
  BY AcquiredOK, <1>1 DEF NewExecution, RecordOK
<1>3. quote[q].status # "none"
  BY DEF Owned
<1>4. execution'[q] # NoExecution
  BY DEF NoExecution, Execution
<1>5. RecordOK(q)'
  BY <1>2, <1>3 DEF RecordOK
<1>6. ActiveOK(q)'
  <2>1. CASE execution[q] = NoExecution
    <3>1. quote[q].status = "active" => posts[q].keys = {} /\ posts[q].count = 0 /\ ~posts[q].settled
      BY <1>1, <2>1 DEF ActiveOK, PostsOK
    <3>2. e.attempts \in Nat
      BY DEF Execution
    <3> QED BY <1>4, <3>1, <3>2 DEF ActiveOK
  <2>2. CASE execution[q] # NoExecution
    <3>1. posts[q].count \in Nat /\ execution[q].attempts \in Nat /\ e.attempts \in Nat
      BY <1>2, <2>2 DEF IInv, TypeOK, Execution
    <3> QED BY <1>1, <1>2, <1>4, <2>2, <3>1 DEF ActiveOK
  <2> QED BY <2>1, <2>2
<1>7. PostsOK(q)'
  BY <1>1 DEF PostsOK
<1>8. LedgerOK(q)'
  BY <1>1 DEF LedgerOK
<1>9. MoneyOK(q)'
  <2>1. e.status = "failed" \/ e.status = "succeeded" => execution[q] # NoExecution /\ e.key = execution[q].key
    BY <1>2
  <2> QED BY <1>1, <1>2, <2>1 DEF MoneyOK
<1> QED BY <1>4, <1>5, <1>6, <1>7, <1>8, <1>9

-----------------------------------------------------------------------------
(* One confirmation's step.                                                *)

\* A step of t about quote q leaves the other confirmations and quotes alone.
OnlyTouches(t, q) ==
  /\ \A u \in Tasks \ {t} : task'[u] = task[u]
  /\ \A r \in Quotes \ {q} :
       /\ quoteLock'[r] = quoteLock[r] /\ quote'[r] = quote[r] /\ execution'[r] = execution[r]
       /\ minted'[r] = minted[r] /\ posts'[r] = posts[r] /\ ledger'[r] = ledger[r]
       /\ \A key \in Keys : <<r, key>> \in pending' => <<r, key>> \in pending

\* Such a step keeps the invariant when it does so for its own quote.
LEMMA LocalStep ==
  ASSUME IInv, NEW t \in Tasks, NEW q \in Quotes, OnlyTouches(t, q), TypeOK',
         task'[t].pc # "idle" => task'[t].quote = q /\ task'[t].owner \in Owner,
         \A u \in Tasks : task'[u].pc \in InFlight /\ task'[u].quote = q => InFlightOK(u)',
         execution'[q] = NoExecution => minted'[q] < MaxKeys,
         RecordOK(q)', ActiveOK(q)', PostsOK(q)', LedgerOK(q)', MoneyOK(q)'
  PROVE  IInv'
<1>1. ASSUME NEW u \in Tasks, task'[u].pc \in InFlight PROVE InFlightOK(u)'
  <2>1. CASE task'[u].quote = q
    BY <1>1, <2>1
  <2>2. CASE task'[u].quote # q
    <3>1. u # t
      BY <1>1, <2>2 DEF InFlight
    <3>2. task'[u] = task[u]
      BY <3>1 DEF OnlyTouches
    <3>3. InFlightOK(u)
      BY <1>1, <3>2 DEF IInv
    <3> QED BY <2>2, <3>2, <3>3 DEF InFlightOK, OnlyTouches
  <2> QED BY <2>1, <2>2
<1>2. ASSUME NEW u \in Tasks, task'[u].pc # "idle" PROVE task'[u].quote \in Quotes /\ task'[u].owner \in Owner
  BY <1>2 DEF IInv, OnlyTouches
<1>3. ASSUME NEW r \in Quotes
      PROVE  /\ execution'[r] = NoExecution => minted'[r] < MaxKeys
             /\ RecordOK(r)' /\ ActiveOK(r)' /\ PostsOK(r)' /\ LedgerOK(r)' /\ MoneyOK(r)'
  <2>1. CASE r = q
    BY <2>1
  <2>2. CASE r # q
    <3>1. /\ execution[r] = NoExecution => minted[r] < MaxKeys
          /\ RecordOK(r) /\ ActiveOK(r) /\ PostsOK(r) /\ LedgerOK(r) /\ MoneyOK(r)
      BY DEF IInv
    <3>2. /\ quote'[r] = quote[r] /\ execution'[r] = execution[r]
          /\ minted'[r] = minted[r] /\ posts'[r] = posts[r] /\ ledger'[r] = ledger[r]
          /\ \A key \in Keys : <<r, key>> \in pending' => <<r, key>> \in pending
      BY <2>2 DEF OnlyTouches
    <3>3. RecordOK(r)' /\ ActiveOK(r)' /\ PostsOK(r)'
      BY <3>1, <3>2 DEF RecordOK, ActiveOK, PostsOK
    <3>4. LedgerOK(r)' /\ MoneyOK(r)'
      BY <3>1, <3>2 DEF LedgerOK, MoneyOK
    <3> QED BY <3>1, <3>2, <3>3, <3>4
  <2> QED BY <2>1, <2>2
<1> QED BY <1>1, <1>2, <1>3 DEF IInv

\* Only the holder of a quote's lock is in flight for it.
LEMMA HolderIsAlone ==
  ASSUME IInv, NEW u \in Tasks, task[u].pc \in InFlight
  PROVE  quoteLock[task[u].quote].holder = u
  BY DEF IInv, InFlightOK

\* Sending the request that was counted keeps a quote's invariants.
LEMMA PostedOK ==
  ASSUME IInv, NEW q \in Quotes, NEW e \in Execution,
         quote[q].status # "none", e.key = minted'[q], posts[q].keys \subseteq {e.key},
         posts[q].count < e.attempts, ~posts[q].settled,
         posts'[q].keys = posts[q].keys \cup {e.key}, posts'[q].count = posts[q].count + 1,
         posts'[q].settled = posts[q].settled,
         quote' = quote, ledger' = ledger, pending' = pending,
         execution'[q] = NoExecution \/ execution'[q] \in Execution,
         quote[q].status = "active" => execution'[q] = e,
         execution'[q].status = "failed" => ledger[q][execution'[q].key] = "refused",
         execution'[q].status = "succeeded" => quote[q].status = "consumed"
  PROVE  ActiveOK(q)' /\ PostsOK(q)' /\ LedgerOK(q)' /\ MoneyOK(q)'
<1>1. ActiveOK(q) /\ PostsOK(q) /\ LedgerOK(q) /\ MoneyOK(q)
  BY DEF IInv
<1>2. /\ posts'[q].keys = posts[q].keys \cup {e.key} /\ posts'[q].count = posts[q].count + 1
      /\ posts'[q].settled = posts[q].settled
  OBVIOUS
<1>3. posts[q].count \in Nat /\ e.attempts \in 0..MaxAttempts /\ e # NoExecution
  BY DEF IInv, TypeOK, Execution, NoExecution
<1>4. posts'[q].count <= e.attempts /\ posts'[q].count <= MaxAttempts
  BY <1>2, <1>3, PurchaseExecutionAssumption
<1>5. ActiveOK(q)'
  BY <1>2, <1>3, <1>4 DEF ActiveOK
<1>6. PostsOK(q)'
  BY <1>2, <1>4 DEF PostsOK
<1>7. LedgerOK(q)'
  BY <1>1, <1>2 DEF LedgerOK
<1>8. MoneyOK(q)'
  BY <1>1, <1>2 DEF MoneyOK
<1> QED BY <1>5, <1>6, <1>7, <1>8

\* The record with one more attempt counted: nothing was sent with another key,
\* no final answer is known, and the new attempt is not used up.
LEMMA CountedOK ==
  ASSUME IInv, NEW q \in Quotes, NEW owner \in Owner, NEW exec \in Execution, NEW e,
         Owned(quote, owner, q), ~IsTerminal(exec.status), Gate(quote[q], exec) = "open",
         exec = Acquired(owner, q), e = [exec EXCEPT !.attempts = @ + 1]
  PROVE  /\ quote[q].status = "active" /\ quote[q].owner = owner
         /\ e \in Execution /\ e.key = exec.key /\ e.owner = owner /\ e.status = exec.status
         /\ e.attempts >= exec.attempts
         /\ posts[q].keys \subseteq {e.key} /\ posts[q].count \in Nat /\ e.attempts \in Nat
         /\ posts[q].count < e.attempts /\ posts[q].count < MaxAttempts /\ ~posts[q].settled
<1>1. /\ quote[q] \in Quote /\ quote[q].owner = owner /\ exec.owner = owner
  <2>1. quote[q] \in Quote /\ quote[q].owner = owner
    BY DEF IInv, TypeOK, Owned, NoQuote
  <2> QED BY <2>1, AcquiredOK
<1>2. quote[q].status = "active" /\ exec.attempts < MaxAttempts
  BY <1>1, GateOpen
<1>3. /\ e \in Execution /\ e.key = exec.key /\ e.owner = exec.owner
      /\ e.status = exec.status /\ e.attempts = exec.attempts + 1
  BY <1>2, PurchaseExecutionAssumption DEF Execution
<1>4. exec.attempts \in Nat /\ posts[q].count \in Nat
  BY DEF IInv, TypeOK, Execution
<1>5. posts[q].keys \subseteq {e.key} /\ posts[q].count <= exec.attempts /\ ~posts[q].settled
  <2>1. CASE execution[q] = NoExecution
    BY <1>2, <1>3, <1>4, <2>1 DEF IInv, ActiveOK, PostsOK
  <2>2. CASE execution[q] # NoExecution
    <3>1. exec = execution[q] /\ exec.key = minted[q]
      BY <2>2, AcquiredOK
    <3> QED BY <1>2, <1>3, <1>4, <3>1 DEF IInv, ActiveOK
  <2> QED BY <2>1, <2>2
<1> QED BY <1>1, <1>2, <1>3, <1>4, <1>5, PurchaseExecutionAssumption

\* What a confirmation may become: idle, or in flight with its record copy.
LEMMA DoingType ==
  ASSUME NEW pc \in {"waiting", "ensuring", "refreshing", "posting"}, NEW owner \in Owner, NEW q \in Quotes,
         NEW e \in Execution \cup {NoExecution}, NEW u \in Users \cup {None}
  PROVE  /\ Doing(pc, owner, q, e, u) \in Task
         /\ Idle \in Task
  BY DEF Doing, Task, Idle

\* Deciding keeps the invariant: whichever way it goes, t holds the quote's lock.
LEMMA DecideStep ==
  ASSUME IInv, NEW t \in Tasks, NEW owner \in Owner, NEW q \in Quotes, NEW l \in LockType(Tasks),
         l.holder = t, \A u \in Tasks \ {t} : task[u].pc \in InFlight => task[u].quote # q,
         Decide(t, owner, q, l), UNCHANGED <<session, quote, ledger, pending>>
  PROVE  IInv'
<1> DEFINE exec == Acquired(owner, q)
           counted == [exec EXCEPT !.attempts = @ + 1]
<1>1. TypeOK
  BY DEF IInv
<1>2. Idle \in Task /\ Idle.pc = "idle"
  BY DEF Task, Idle, Doing
<1>3. Leave(l) \in LockType(Tasks)
  BY LeaveType
<1>4. CASE ~Owned(quote, owner, q)
  <2>1. /\ quoteLock' = [quoteLock EXCEPT ![q] = Leave(l)] /\ task' = [task EXCEPT ![t] = Idle]
        /\ UNCHANGED <<sessionLock, execution, minted, posts>>
    BY <1>4 DEF Decide, Ends, Finish, Become
  <2>2. TypeOK'
    BY <1>1, <1>2, <1>3, <2>1 DEF TypeOK
  <2>3. OnlyTouches(t, q)
    BY <1>1, <2>1 DEF OnlyTouches, TypeOK
  <2>4. ASSUME NEW u \in Tasks PROVE ~(task'[u].pc \in InFlight /\ task'[u].quote = q)
    BY <1>1, <1>2, <2>1 DEF TypeOK, InFlight
  <2>5. task'[t].pc = "idle"
    BY <1>1, <1>2, <2>1 DEF TypeOK
  <2>6. /\ execution'[q] = NoExecution => minted'[q] < MaxKeys
        /\ RecordOK(q)' /\ ActiveOK(q)' /\ PostsOK(q)' /\ LedgerOK(q)' /\ MoneyOK(q)'
    BY <2>1 DEF IInv, RecordOK, ActiveOK, PostsOK, LedgerOK, MoneyOK
  <2> QED BY <2>2, <2>3, <2>4, <2>5, <2>6, LocalStep
<1>5. CASE Owned(quote, owner, q) /\ (IsTerminal(exec.status) \/ Gate(quote[q], exec) # "open")
  <2>1. /\ quoteLock' = [quoteLock EXCEPT ![q] = Leave(l)] /\ task' = [task EXCEPT ![t] = Idle]
        /\ execution' = [execution EXCEPT ![q] = exec] /\ minted' = [minted EXCEPT ![q] = exec.key]
        /\ UNCHANGED <<sessionLock, posts>>
    BY <1>5 DEF Decide, Ends, Finish, Become
  <2>2. exec \in Execution /\ exec.key \in 0..MaxKeys /\ exec.attempts >= exec.attempts
    BY <1>5, AcquiredOK, PurchaseExecutionAssumption DEF Execution, Keys
  <2>3. TypeOK'
    BY <1>1, <1>2, <1>3, <2>1, <2>2 DEF TypeOK
  <2>4. OnlyTouches(t, q)
    BY <1>1, <2>1 DEF OnlyTouches, TypeOK
  <2>5. ASSUME NEW u \in Tasks PROVE ~(task'[u].pc \in InFlight /\ task'[u].quote = q)
    BY <1>1, <1>2, <2>1 DEF TypeOK, InFlight
  <2>6. task'[t].pc = "idle"
    BY <1>1, <1>2, <2>1 DEF TypeOK
  <2>7. execution'[q] = exec /\ minted'[q] = exec.key
    BY <1>1, <2>1 DEF TypeOK
  <2>8. /\ execution'[q] # NoExecution
        /\ RecordOK(q)' /\ ActiveOK(q)' /\ PostsOK(q)' /\ LedgerOK(q)' /\ MoneyOK(q)'
    BY <1>5, <2>1, <2>2, <2>7, StoredOK
  <2> QED BY <2>3, <2>4, <2>5, <2>6, <2>8, LocalStep
<1>6. CASE Owned(quote, owner, q) /\ ~IsTerminal(exec.status) /\ Gate(quote[q], exec) = "open"
  <2>1. /\ execution' = [execution EXCEPT ![q] = counted] /\ minted' = [minted EXCEPT ![q] = counted.key]
        /\ EnsureFresh(t, owner, q, counted, l)
    BY <1>6 DEF Decide
  <2>2. exec \in Execution /\ exec.owner = quote[q].owner
    BY <1>6, AcquiredOK
  <2>3. /\ quote[q].status = "active" /\ quote[q].owner = owner
        /\ counted \in Execution /\ counted.key = exec.key /\ counted.owner = owner
        /\ counted.status = exec.status /\ counted.attempts >= exec.attempts
        /\ posts[q].keys \subseteq {counted.key} /\ posts[q].count \in Nat /\ counted.attempts \in Nat
        /\ posts[q].count < counted.attempts /\ ~posts[q].settled
    <3>1. PICK x \in Execution : x = exec
      BY <2>2
    <3>2. PICK y : y = [x EXCEPT !.attempts = @ + 1] /\ y = counted
      BY <3>1
    <3>3. x = Acquired(owner, q) /\ Owned(quote, owner, q) /\ ~IsTerminal(x.status) /\ Gate(quote[q], x) = "open"
      BY <1>6, <3>1
    <3> HIDE DEF exec, counted
    <3> QED BY <3>1, <3>2, <3>3, CountedOK
  <2>4. counted.key \in 0..MaxKeys
    BY <2>3, PurchaseExecutionAssumption DEF Execution, Keys
  <2>5. execution'[q] = counted /\ minted'[q] = counted.key
    BY <1>1, <2>1 DEF TypeOK
  <2> HIDE DEF exec, counted
  <2>9. posts'[q] = posts[q] =>
          /\ execution'[q] # NoExecution
          /\ RecordOK(q)' /\ ActiveOK(q)' /\ PostsOK(q)' /\ LedgerOK(q)' /\ MoneyOK(q)'
    BY <1>6, <2>1, <2>2, <2>3, <2>5, StoredOK DEF exec
  <2>10. CASE session[owner.client].user = None
    <3>1. /\ quoteLock' = [quoteLock EXCEPT ![q] = Leave(l)] /\ task' = [task EXCEPT ![t] = Idle]
          /\ UNCHANGED <<sessionLock, posts>>
      BY <2>1, <2>10 DEF EnsureFresh, Ends, Finish, Become
    <3>2. TypeOK'
      BY <1>1, <1>2, <1>3, <2>1, <2>3, <2>4, <3>1 DEF TypeOK
    <3>3. OnlyTouches(t, q)
      BY <1>1, <2>1, <3>1 DEF OnlyTouches, TypeOK
    <3>4. ASSUME NEW u \in Tasks PROVE ~(task'[u].pc \in InFlight /\ task'[u].quote = q)
      BY <1>1, <1>2, <3>1 DEF TypeOK, InFlight
    <3>5. task'[t].pc = "idle"
      BY <1>1, <1>2, <3>1 DEF TypeOK
    <3> QED BY <2>9, <3>1, <3>2, <3>3, <3>4, <3>5, LocalStep
  <2>11. ASSUME NEW pc \in InFlight, NEW u \in Users \cup {None},
                task' = [task EXCEPT ![t] = Doing(pc, owner, q, counted, u)],
                quoteLock' = [quoteLock EXCEPT ![q] = l],
                sessionLock' \in [Clients -> LockType(Tasks)],
                pc # "ensuring" => u \in Users,
                IF pc = "posting"
                THEN posts' = [posts EXCEPT ![q] = [keys |-> @.keys \cup {counted.key}, payers |-> @.payers \cup {u},
                                                    count |-> @.count + 1, settled |-> @.settled]]
                ELSE posts' = posts
         PROVE  IInv'
    <3>1. Doing(pc, owner, q, counted, u) \in Task
      BY <2>3, DoingType DEF InFlight
    <3>2. quoteLock'[q] = l /\ task'[t] = Doing(pc, owner, q, counted, u)
      BY <1>1, <2>11 DEF TypeOK
    <3>3. CASE pc # "posting"
      <4>1. TypeOK'
        BY <1>1, <2>1, <2>3, <2>4, <2>11, <3>1, <3>3 DEF TypeOK
      <4>2. OnlyTouches(t, q)
        BY <1>1, <2>1, <2>11, <3>3 DEF OnlyTouches, TypeOK
      <4>3. posts' = posts /\ ~IsTerminal(counted.status) /\ counted.owner = quote'[q].owner
        BY <1>6, <2>3, <2>11, <3>3
      <4>4. /\ task'[t].quote = q /\ task'[t].owner = owner /\ task'[t].exec = counted
            /\ task'[t].pc = pc /\ task'[t].payer = u
        BY <3>2 DEF Doing
      <4>5. InFlightOK(t)'
        BY <2>2, <2>3, <2>4, <2>5, <2>11, <3>2, <3>3, <4>3, <4>4 DEF InFlightOK
      <4> QED BY <2>9, <3>2, <4>1, <4>2, <4>3, <4>4, <4>5, LocalStep DEF OnlyTouches
    <3>4. CASE pc = "posting"
      <4>1. posts'[q] = [keys |-> posts[q].keys \cup {counted.key}, payers |-> posts[q].payers \cup {u},
                         count |-> posts[q].count + 1, settled |-> posts[q].settled]
        BY <1>1, <2>11, <3>4 DEF TypeOK
      <4>2. counted.key \in Keys /\ counted # NoExecution
        BY <2>3 DEF Execution, NoExecution
      <4>3. posts' \in [Quotes -> [keys : SUBSET Keys, payers : SUBSET (Users \cup {None}),
                                   count : Nat, settled : BOOLEAN]]
        <5>1. posts'[q] \in [keys : SUBSET Keys, payers : SUBSET (Users \cup {None}),
                             count : Nat, settled : BOOLEAN]
          BY <1>1, <4>1, <4>2 DEF TypeOK
        <5> QED BY <1>1, <2>11, <3>4, <5>1 DEF TypeOK
      <4>4. TypeOK'
        BY <1>1, <2>1, <2>3, <2>4, <2>11, <3>1, <4>3 DEF TypeOK
      <4>5. OnlyTouches(t, q)
        BY <1>1, <2>1, <2>11, <3>4 DEF OnlyTouches, TypeOK
      <4>6. counted.status \notin {"failed", "succeeded"}
        BY <1>6, <2>3 DEF IsTerminal
      <4>7. ActiveOK(q)' /\ PostsOK(q)' /\ LedgerOK(q)' /\ MoneyOK(q)'
        <5>1. /\ posts'[q].keys = posts[q].keys \cup {counted.key} /\ posts'[q].count = posts[q].count + 1
              /\ posts'[q].settled = posts[q].settled
          BY <4>1
        <5> QED BY <2>3, <2>5, <4>6, <5>1, PostedOK
      <4>8. RecordOK(q)'
        BY <2>2, <2>3, <2>4, <2>5 DEF RecordOK
      <4>9. posts'[q].count <= counted.attempts
        BY <2>3, <4>1
      <4>10. InFlightOK(t)'
        BY <2>2, <2>3, <2>4, <2>5, <2>11, <3>2, <3>4, <4>1, <4>9, <1>6 DEF InFlightOK, Doing, exec
      <4> QED BY <2>5, <2>11, <3>2, <3>4, <4>2, <4>4, <4>5, <4>7, <4>8, <4>10, LocalStep DEF Doing, OnlyTouches
    <3> QED BY <3>3, <3>4
  <2>12. CASE session[owner.client].user # None /\ ~session[owner.client].aging
    <3>1. session[owner.client].user \in Users
      BY <1>1, <2>12 DEF TypeOK, Session, Owner
    <3>2. /\ quoteLock' = [quoteLock EXCEPT ![q] = l] /\ sessionLock' = sessionLock
          /\ Post(t, owner, q, counted, session[owner.client].user)
      BY <2>1, <2>12 DEF EnsureFresh
    <3> QED BY <1>1, <2>11, <3>1, <3>2 DEF Post, Become, TypeOK, InFlight
  <2>13. CASE session[owner.client].user # None /\ session[owner.client].aging
    <3> DEFINE k == owner.client
    <3>1. session[k].user \in Users /\ k \in Clients
      BY <1>1, <2>13 DEF TypeOK, Session, Owner
    <3>2. /\ quoteLock' = [quoteLock EXCEPT ![q] = l] /\ posts' = posts
          /\ sessionLock' = [sessionLock EXCEPT ![k] = Enter(@, t)]
          /\ \/ task' = [task EXCEPT ![t] = Doing("refreshing", owner, q, counted, session[k].user)]
             \/ task' = [task EXCEPT ![t] = Doing("ensuring", owner, q, counted, None)]
      BY <2>1, <2>13 DEF EnsureFresh, Become
    <3>3. Enter(sessionLock[k], t) \in LockType(Tasks)
      BY <1>1, <3>1, EnterType DEF TypeOK
    <3>4. sessionLock' \in [Clients -> LockType(Tasks)]
      BY <1>1, <3>2, <3>3 DEF TypeOK
    <3> QED BY <2>11, <3>1, <3>2, <3>4 DEF InFlight
  <2> QED BY <2>10, <2>12, <2>13
<1> QED BY <1>4, <1>5, <1>6 DEF Decide

LEMMA ConfirmStep ==
  ASSUME IInv, NEW t \in Tasks, NEW k \in Clients, NEW q \in Quotes, Confirm(t, k, q)
  PROVE  IInv'
<1> DEFINE owner == OwnerOf(k, session[k].user)
<1>1. TypeOK
  BY DEF IInv
<1>2. owner \in Owner
  BY <1>1 DEF TypeOK, Confirm, Session, OwnerOf, Owner
<1>3. /\ task[t].pc = "idle"
      /\ UNCHANGED <<session, quote, ledger, pending>>
  BY DEF Confirm, Idle, Doing
<1>4. quoteLock[q] \in LockType(Tasks) /\ Enter(quoteLock[q], t) \in LockType(Tasks)
  BY <1>1, EnterType DEF TypeOK
<1>5. CASE IsFree(quoteLock[q])
  <2>1. Enter(quoteLock[q], t).holder = t
    BY <1>4, <1>5, EnterType
  <2>2. ASSUME NEW u \in Tasks, task[u].pc \in InFlight PROVE task[u].quote # q
    BY <1>5, <2>2, HolderIsAlone, PurchaseExecutionAssumption DEF IsFree
  <2>3. Decide(t, owner, q, Enter(quoteLock[q], t))
    BY <1>5 DEF Confirm
  <2> HIDE DEF owner
  <2> QED BY <1>2, <1>3, <1>4, <2>1, <2>2, <2>3, DecideStep
<1>6. CASE ~IsFree(quoteLock[q])
  <2>1. /\ quoteLock' = [quoteLock EXCEPT ![q] = Enter(@, t)]
        /\ task' = [task EXCEPT ![t] = Doing("waiting", owner, q, NoExecution, None)]
        /\ UNCHANGED <<sessionLock, execution, minted, posts>>
    BY <1>6 DEF Confirm, Become
  <2>2. quoteLock'[q].holder = quoteLock[q].holder
    BY <1>1, <1>4, <1>6, <2>1, EnterType DEF TypeOK
  <2> HIDE DEF owner
  <2>3. Doing("waiting", owner, q, NoExecution, None) \in Task
    BY <1>2, DoingType
  <2>4. TypeOK'
    BY <1>1, <1>3, <1>4, <2>1, <2>3 DEF TypeOK
  <2>5. OnlyTouches(t, q)
    BY <1>1, <1>3, <2>1 DEF OnlyTouches, TypeOK
  <2>6. /\ task'[t].pc = "waiting" /\ task'[t].quote = q /\ task'[t].owner = owner
        /\ \A u \in Tasks \ {t} : task'[u] = task[u]
    BY <1>1, <2>1 DEF TypeOK, Doing
  <2>7. ASSUME NEW u \in Tasks, task'[u].pc \in InFlight, task'[u].quote = q PROVE InFlightOK(u)'
    <3>1. u # t /\ task'[u] = task[u]
      BY <2>6, <2>7 DEF InFlight
    <3>2. InFlightOK(u)
      BY <2>7, <3>1 DEF IInv
    <3> QED BY <1>3, <2>1, <2>2, <2>7, <3>1, <3>2 DEF InFlightOK
  <2>8. /\ execution'[q] = NoExecution => minted'[q] < MaxKeys
        /\ RecordOK(q)' /\ ActiveOK(q)' /\ PostsOK(q)' /\ LedgerOK(q)' /\ MoneyOK(q)'
    BY <1>3, <2>1 DEF IInv, RecordOK, ActiveOK, PostsOK, LedgerOK, MoneyOK
  <2> QED BY <1>2, <2>4, <2>5, <2>6, <2>7, <2>8, LocalStep
<1> QED BY <1>5, <1>6

LEMMA QuoteLockGrantedStep ==
  ASSUME IInv, NEW t \in Tasks, QuoteLockGranted(t)
  PROVE  IInv'
<1> DEFINE q == task[t].quote
<1>1. q \in Quotes /\ task[t].owner \in Owner /\ quoteLock[q] \in LockType(Tasks)
  BY DEF IInv, TypeOK, QuoteLockGranted
<1>2. ASSUME NEW u \in Tasks \ {t}, task[u].pc \in InFlight PROVE task[u].quote # q
  BY <1>2, HolderIsAlone DEF QuoteLockGranted
<1> QED BY <1>1, <1>2, DecideStep DEF QuoteLockGranted

\* A confirmation in flight that gives up its quote's lock keeps the invariant.
LEMMA EndsStep ==
  ASSUME IInv, NEW t \in Tasks, task[t].pc \in InFlight,
         session' \in [Clients -> Session], sessionLock' \in [Clients -> LockType(Tasks)],
         quoteLock' = [quoteLock EXCEPT ![task[t].quote] = Leave(@)], task' = [task EXCEPT ![t] = Idle],
         UNCHANGED <<quote, execution, minted, ledger, pending, posts>>
  PROVE  IInv'
<1>0. TypeOK
  BY DEF IInv
<1>1. PICK q \in Quotes : q = task[t].quote /\ quoteLock[q].holder = t
  BY DEF IInv, InFlightOK
<1>2. Idle \in Task /\ Idle.pc = "idle"
  BY DEF Task, Idle, Doing
<1>3. Leave(quoteLock[q]) \in LockType(Tasks)
  BY <1>0, LeaveType DEF TypeOK
<1>4. TypeOK'
  BY <1>0, <1>1, <1>2, <1>3 DEF TypeOK
<1>5. OnlyTouches(t, q)
  BY <1>0, <1>1 DEF OnlyTouches, TypeOK
<1>6. task'[t].pc = "idle" /\ \A u \in Tasks \ {t} : task'[u] = task[u]
  BY <1>0, <1>1, <1>2 DEF TypeOK
<1>7. ASSUME NEW u \in Tasks PROVE ~(task'[u].pc \in InFlight /\ task'[u].quote = q)
  BY <1>1, <1>6, HolderIsAlone DEF InFlight
<1>8. /\ execution'[q] = NoExecution => minted'[q] < MaxKeys
      /\ RecordOK(q)' /\ ActiveOK(q)' /\ PostsOK(q)' /\ LedgerOK(q)' /\ MoneyOK(q)'
  BY <1>1 DEF IInv, RecordOK, ActiveOK, PostsOK, LedgerOK, MoneyOK
<1> QED BY <1>1, <1>4, <1>5, <1>6, <1>7, <1>8, LocalStep

\* A confirmation that counted its attempt sends the request, or goes on to the
\* rotation.
LEMMA GoesOnStep ==
  ASSUME IInv, NEW t \in Tasks, task[t].pc \in {"ensuring", "refreshing"}, NEW u \in Users,
         session' \in [Clients -> Session], sessionLock' \in [Clients -> LockType(Tasks)],
         \/ Post(t, task[t].owner, task[t].quote, task[t].exec, u)
         \/ /\ task' = [task EXCEPT ![t] = Doing("refreshing", task[t].owner, task[t].quote, task[t].exec, u)]
            /\ posts' = posts,
         UNCHANGED <<quote, execution, quoteLock, minted, ledger, pending>>
  PROVE  IInv'
<1>0. TypeOK /\ InFlightOK(t)
  BY DEF IInv, InFlight
<1>2. PICK q \in Quotes, e \in Execution, owner \in Owner :
        q = task[t].quote /\ e = task[t].exec /\ owner = task[t].owner
  BY <1>0 DEF IInv, InFlightOK, InFlight
<1>1. TypeOK /\ InFlightOK(t) /\ q = task[t].quote /\ e = task[t].exec /\ owner = task[t].owner
  BY <1>0, <1>2
<1>3. RecordOK(q) /\ ActiveOK(q) /\ PostsOK(q) /\ LedgerOK(q) /\ MoneyOK(q)
      /\ (execution[q] = NoExecution => minted[q] < MaxKeys)
  BY <1>2 DEF IInv
<1>4. posts[q].count \in Nat /\ e.attempts \in Nat /\ e.key \in Keys
  BY <1>1, <1>2 DEF TypeOK, Execution
<1>5. CASE Post(t, owner, q, e, u)
  <2>1. /\ task' = [task EXCEPT ![t] = Doing("posting", owner, q, e, u)]
        /\ posts' = [posts EXCEPT ![q] = [keys |-> @.keys \cup {e.key}, payers |-> @.payers \cup {u},
                                          count |-> @.count + 1, settled |-> @.settled]]
    BY <1>5 DEF Post, Become
  <2>2. posts'[q] = [keys |-> posts[q].keys \cup {e.key}, payers |-> posts[q].payers \cup {u},
                     count |-> posts[q].count + 1, settled |-> posts[q].settled]
    BY <1>1, <1>2, <2>1 DEF TypeOK
  <2>3. posts'[q] \in [keys : SUBSET Keys, payers : SUBSET (Users \cup {None}), count : Nat, settled : BOOLEAN]
    BY <1>1, <1>2, <1>4, <2>2 DEF TypeOK
  <2>4. Doing("posting", owner, q, e, u) \in Task
    BY <1>1, <1>2, DoingType
  <2>5. TypeOK'
    BY <1>1, <2>1, <2>3, <2>4 DEF TypeOK
  <2>6. /\ \A v \in Tasks \ {t} : task'[v] = task[v]
        /\ task'[t] = Doing("posting", owner, q, e, u)
    BY <1>1, <2>1 DEF TypeOK
  <2>7. OnlyTouches(t, q)
    BY <1>1, <1>2, <2>1 DEF OnlyTouches, TypeOK
  <2>8. ActiveOK(q)' /\ PostsOK(q)' /\ LedgerOK(q)' /\ MoneyOK(q)'
    <3>1. /\ quote[q].status # "none" /\ e.key = minted'[q] /\ posts[q].keys \subseteq {e.key}
          /\ posts[q].count < e.attempts /\ ~posts[q].settled
          /\ quote[q].status = "active" => execution'[q] = e
      BY <1>1 DEF InFlightOK
    <3>2. /\ execution'[q] = NoExecution \/ execution'[q] \in Execution
          /\ execution'[q].status = "failed" => ledger[q][execution'[q].key] = "refused"
          /\ execution'[q].status = "succeeded" => quote[q].status = "consumed"
      BY <1>2, <1>3 DEF RecordOK, MoneyOK
    <3>3. /\ posts'[q].keys = posts[q].keys \cup {e.key} /\ posts'[q].count = posts[q].count + 1
          /\ posts'[q].settled = posts[q].settled
      BY <2>2
    <3>4. quote' = quote /\ ledger' = ledger /\ pending' = pending
      OBVIOUS
    <3> QED BY <3>1, <3>2, <3>3, <3>4, PostedOK
  <2>9. InFlightOK(t)'
    <3>1. task'[t].quote = q /\ task'[t].owner = owner /\ task'[t].exec = e
          /\ task'[t].pc = "posting" /\ task'[t].payer = u
      BY <2>6 DEF Doing
    <3>2. /\ posts'[q].keys = {e.key} /\ posts'[q].count <= e.attempts /\ ~posts'[q].settled
      BY <1>1, <1>4, <2>2 DEF InFlightOK
    <3> QED BY <1>1, <3>1, <3>2 DEF InFlightOK
  <2>10. ASSUME NEW v \in Tasks, task'[v].pc \in InFlight, task'[v].quote = q PROVE InFlightOK(v)'
    <3>1. v = t
      BY <1>1, <2>6, <2>10, HolderIsAlone DEF InFlightOK
    <3> QED BY <2>9, <3>1
  <2>11. RecordOK(q)'
    BY <1>3 DEF RecordOK
  <2>12. task'[t].quote = q /\ task'[t].owner \in Owner
    BY <1>1, <2>6 DEF Doing
  <2> QED BY <1>2, <1>3, <2>5, <2>7, <2>8, <2>10, <2>11, <2>12, LocalStep
<1>6. CASE task' = [task EXCEPT ![t] = Doing("refreshing", owner, q, e, u)] /\ posts' = posts
  <2>1. Doing("refreshing", owner, q, e, u) \in Task
    BY <1>1, <1>2, DoingType
  <2>2. TypeOK'
    BY <1>1, <1>6, <2>1 DEF TypeOK
  <2>3. /\ \A v \in Tasks \ {t} : task'[v] = task[v]
        /\ task'[t] = Doing("refreshing", owner, q, e, u)
    BY <1>1, <1>6 DEF TypeOK
  <2>4. OnlyTouches(t, q)
    BY <1>1, <1>2, <1>6 DEF OnlyTouches, TypeOK
  <2>5. task'[t].quote = q /\ task'[t].owner = owner /\ task'[t].exec = e
        /\ task'[t].pc = "refreshing" /\ task'[t].payer = u
    BY <2>3 DEF Doing
  <2>6. InFlightOK(t)'
    <3>1. posts[q].count < e.attempts /\ quote' = quote /\ execution' = execution
          /\ quoteLock' = quoteLock /\ minted' = minted /\ posts' = posts
      BY <1>1, <1>6 DEF InFlightOK
    <3> QED BY <1>1, <2>5, <3>1 DEF InFlightOK
  <2>7. ASSUME NEW v \in Tasks, task'[v].pc \in InFlight, task'[v].quote = q PROVE InFlightOK(v)'
    <3>1. v = t
      BY <1>1, <2>3, <2>7, HolderIsAlone DEF InFlightOK
    <3> QED BY <2>6, <3>1
  <2>8. RecordOK(q)' /\ ActiveOK(q)' /\ PostsOK(q)' /\ LedgerOK(q)' /\ MoneyOK(q)'
    BY <1>3, <1>6 DEF RecordOK, ActiveOK, PostsOK, LedgerOK, MoneyOK
  <2>9. task'[t].quote = q /\ task'[t].owner \in Owner /\ (execution'[q] = NoExecution => minted'[q] < MaxKeys)
    BY <1>3, <2>5
  <2> QED BY <2>2, <2>4, <2>7, <2>8, <2>9, LocalStep
<1> QED BY <1>1, <1>5, <1>6

LEMMA SessionLockGrantedStep ==
  ASSUME IInv, NEW t \in Tasks, SessionLockGranted(t)
  PROVE  IInv'
<1>1. PICK q \in Quotes, e \in Execution, owner \in Owner :
        q = task[t].quote /\ e = task[t].exec /\ owner = task[t].owner
  BY DEF IInv, InFlightOK, InFlight, SessionLockGranted
<1>2. PICK k \in Clients, l \in LockType(Tasks) : k = owner.client /\ l = sessionLock[k]
  BY <1>1 DEF IInv, TypeOK, Owner
<1>3. /\ RefreshBody(t, owner, q, e, l) /\ task[t].pc = "ensuring"
      /\ UNCHANGED <<session, quote, execution, minted, ledger, pending>>
  BY <1>1, <1>2 DEF SessionLockGranted
<1>4. TypeOK /\ session[k] \in Session /\ Leave(l) \in LockType(Tasks)
  BY LeaveType DEF IInv, TypeOK
<1>5. CASE session[k].user = None
  <2>1. /\ sessionLock' = [sessionLock EXCEPT ![k] = Leave(l)]
        /\ quoteLock' = [quoteLock EXCEPT ![q] = Leave(quoteLock[q])] /\ task' = [task EXCEPT ![t] = Idle]
        /\ posts' = posts
    BY <1>2, <1>3, <1>5 DEF RefreshBody, Ends, Finish, Become
  <2> QED BY <1>1, <1>3, <1>4, <2>1, EndsStep DEF TypeOK, InFlight
<1>6. CASE session[k].user # None /\ ~session[k].aging
  <2>1. /\ sessionLock' = [sessionLock EXCEPT ![k] = Leave(l)] /\ quoteLock' = quoteLock
        /\ Post(t, owner, q, e, session[k].user)
    BY <1>2, <1>3, <1>6 DEF RefreshBody
  <2>2. session[k].user \in Users
    BY <1>4, <1>6 DEF Session
  <2>3. sessionLock' \in [Clients -> LockType(Tasks)] /\ session' \in [Clients -> Session]
    BY <1>3, <1>4, <2>1 DEF TypeOK
  <2> QED BY <1>1, <1>3, <2>1, <2>2, <2>3, GoesOnStep
<1>7. CASE session[k].user # None /\ session[k].aging
  <2>1. /\ sessionLock' = [sessionLock EXCEPT ![k] = l] /\ quoteLock' = quoteLock /\ posts' = posts
        /\ task' = [task EXCEPT ![t] = Doing("refreshing", owner, q, e, session[k].user)]
    BY <1>2, <1>3, <1>7 DEF RefreshBody, Become
  <2>2. session[k].user \in Users
    BY <1>4, <1>7 DEF Session
  <2>3. sessionLock' \in [Clients -> LockType(Tasks)] /\ session' \in [Clients -> Session]
    BY <1>3, <1>4, <2>1 DEF TypeOK
  <2> QED BY <1>1, <1>3, <2>1, <2>2, <2>3, GoesOnStep
<1> QED BY <1>5, <1>6, <1>7

LEMMA RefreshSucceedsStep ==
  ASSUME IInv, NEW t \in Tasks, RefreshSucceeds(t)
  PROVE  IInv'
<1>1. task[t].pc = "refreshing" /\ task[t].payer \in Users /\ task[t].owner.client \in Clients
  BY DEF RefreshSucceeds, IInv, InFlightOK, InFlight, Owner
<1>2. TypeOK /\ Leave(sessionLock[task[t].owner.client]) \in LockType(Tasks)
  BY <1>1, LeaveType DEF IInv, TypeOK
<1>3. sessionLock' \in [Clients -> LockType(Tasks)]
  BY <1>1, <1>2 DEF RefreshSucceeds, TypeOK
<1>4. session' \in [Clients -> Session]
  BY <1>1, <1>2 DEF RefreshSucceeds, TypeOK, Session
<1> QED BY <1>1, <1>3, <1>4, GoesOnStep DEF RefreshSucceeds

LEMMA RefreshFailsStep ==
  ASSUME IInv, NEW t \in Tasks, RefreshFails(t)
  PROVE  IInv'
<1>1. PICK q \in Quotes, k \in Clients : q = task[t].quote /\ k = task[t].owner.client
  BY DEF IInv, InFlightOK, InFlight, RefreshFails, Owner
<1>2. /\ Invalidate(k) /\ UNCHANGED <<minted, ledger, pending, posts>>
      /\ sessionLock' = [sessionLock EXCEPT ![k] = Leave(@)]
      /\ quoteLock' = [quoteLock EXCEPT ![q] = Leave(@)] /\ task' = [task EXCEPT ![t] = Idle]
      /\ task[t].pc \in InFlight
  BY <1>1 DEF RefreshFails, Ends, Finish, Become, InFlight
<1>3. TypeOK /\ Idle \in Task /\ Idle.pc = "idle"
  BY DEF IInv, Task, Idle, Doing
<1>4. Leave(sessionLock[k]) \in LockType(Tasks) /\ Leave(quoteLock[q]) \in LockType(Tasks)
  BY <1>3, LeaveType DEF TypeOK
<1>5. TypeOK'
  BY <1>2, <1>3, <1>4, InvalidateState DEF TypeOK, QuoteMap
<1>6. task'[t].pc = "idle" /\ \A u \in Tasks \ {t} : task'[u] = task[u]
  BY <1>2, <1>3 DEF TypeOK
<1>7. ASSUME NEW u \in Tasks, task'[u].pc \in InFlight PROVE InFlightOK(u)'
  <2>1. u # t /\ task'[u] = task[u] /\ task[u].pc \in InFlight
    BY <1>6, <1>7 DEF InFlight
  <2>2. task[u].quote # q
    BY <1>1, <1>2, <2>1, HolderIsAlone
  <2>3. quoteLock'[task[u].quote].holder = quoteLock[task[u].quote].holder
    <3>1. task[u].quote \in Quotes
      BY <2>1 DEF IInv, InFlightOK
    <3> QED BY <1>2, <1>3, <2>2, <3>1 DEF TypeOK
  <2> QED BY <1>2, <2>1, <2>3, InFlightInvalidated
<1>8. ASSUME NEW u \in Tasks, task'[u].pc # "idle" PROVE task'[u].quote \in Quotes /\ task'[u].owner \in Owner
  BY <1>6, <1>8 DEF IInv
<1> QED BY <1>2, <1>5, <1>7, <1>8, InvalidateState DEF IInv

-----------------------------------------------------------------------------
(* Answers.                                                                *)

\* What confirm_purchase concludes is never more than the answer allows: "failed"
\* only of a purchase that was refused, "succeeded" only of one that was paid.
LEMMA VerdictOK ==
  ASSUME NEW a \in AllAnswers
  PROVE  /\ Classify(a).disposition \in {"retryable", "succeeded", "failed", "unresolved", "escalated"}
         /\ Classify(a).code \in Codes
         /\ \A fate, early : Consistent(a, fate, early) =>
              /\ Classify(a).disposition = "succeeded" => fate = "charged"
              /\ Classify(a).disposition = "failed" => fate = "refused"
<1>1. CASE a = NoAnswer \/ a = Incomplete
  BY <1>1 DEF Classify, NoAnswer, Incomplete, Answer, Unknown, Verdict, Codes
<1>2. CASE a = Completed
  <2>1. Classify(a) = Verdict("succeeded", "none")
    BY <1>2 DEF Classify, NoAnswer, Completed, Answer
  <2>2. ~IsTransient(a) /\ ~IsVague(a) /\ a.status # 424
    BY <1>2 DEF IsTransient, IsVague, NoAnswer, Incomplete, Completed, Answer
  <2> QED BY <1>2, <2>1, <2>2 DEF Verdict, Codes, Consistent
<1>3. CASE a \notin {NoAnswer, Completed, Incomplete}
  <2>1. /\ a.status \in Statuses /\ a.label \in Labels /\ a.parsed \in BOOLEAN
        /\ ~a.success /\ a # NoAnswer /\ a # Completed /\ a # Incomplete
    <3>1. \/ \E s \in Statuses, l \in Labels : a = Refusal(s, l)
          \/ \E s \in Statuses : a = Unreadable(s)
      BY <1>3 DEF AllAnswers
    <3>2. "none" \in Labels
      BY DEF Labels
    <3>3. CASE \E s \in Statuses, l \in Labels : a = Refusal(s, l)
      BY <1>3, <3>3 DEF Refusal, Answer
    <3>4. CASE \E s \in Statuses : a = Unreadable(s)
      BY <1>3, <3>2, <3>4 DEF Unreadable, Answer
    <3> QED BY <3>1, <3>3, <3>4
  <2>2. Classify(a) = ClassifyFailure(a)
    BY <2>1 DEF Classify
  <2>3. /\ ClassifyFailure(a).disposition \in {"retryable", "failed", "unresolved", "escalated"}
        /\ ClassifyFailure(a).code \in Codes
    <3>1. BusinessError(a.label) \in Codes
      BY <2>1 DEF BusinessError, Codes
    <3>2. ClassifyFailure(a).disposition \in {"retryable", "failed", "unresolved", "escalated"}
      BY <2>1 DEF ClassifyFailure, Unknown, Verdict, Statuses
    <3>3. ClassifyFailure(a).code \in Codes
      BY <2>1, <3>1 DEF ClassifyFailure, Unknown, Verdict, Statuses, Codes
    <3> QED BY <3>2, <3>3
  <2>4. ASSUME ClassifyFailure(a).disposition = "failed"
        PROVE  ~IsTransient(a) /\ ~IsVague(a) /\ a.status # 424
    BY <2>1, <2>4 DEF ClassifyFailure, Verdict, Unknown, IsTransient, IsVague, Statuses
  <2>5. ASSUME NEW fate, NEW early, Consistent(a, fate, early), ClassifyFailure(a).disposition = "failed"
        PROVE  fate = "refused"
    BY <2>1, <2>4, <2>5 DEF Consistent
  <2> QED BY <2>2, <2>3, <2>5
<1> QED BY <1>1, <1>2, <1>3

\* consume() marks the owner's quote and no other.
LEMMA ConsumedIs ==
  ASSUME NEW quotes \in QuoteMap, NEW q \in Quotes, NEW owner, Owned(quotes, owner, q)
  PROVE  /\ Consumed(quotes, owner, q) \in QuoteMap
         /\ Consumed(quotes, owner, q)[q].status = "consumed"
         /\ Consumed(quotes, owner, q)[q].owner = quotes[q].owner
         /\ \A r \in Quotes \ {q} : Consumed(quotes, owner, q)[r] = quotes[r]
<1>1. quotes[q] \in Quote
  BY DEF QuoteMap, Owned, NoQuote
<1>2. [quotes[q] EXCEPT !.status = "consumed"] \in Quote
  BY <1>1 DEF Quote, Status
<1>3. Consumed(quotes, owner, q) =
        [r \in Quotes |-> IF r \in {q} THEN [quotes[r] EXCEPT !.status = "consumed"] ELSE quotes[r]]
  BY DEF Consumed, WithStatus
<1>4. Consumed(quotes, owner, q)[q] = [quotes[q] EXCEPT !.status = "consumed"]
      /\ \A r \in Quotes \ {q} : Consumed(quotes, owner, q)[r] = quotes[r]
  BY <1>3
<1>5. Consumed(quotes, owner, q) \in QuoteMap
  BY <1>2, <1>3 DEF QuoteMap
<1> QED BY <1>1, <1>4, <1>5 DEF Quote

LEMMA PostReturnsStep ==
  ASSUME IInv, NEW t \in Tasks, NEW a \in Answers, PostReturns(t, a)
  PROVE  IInv'
<1>1. PICK q \in Quotes, e \in Execution, owner \in Owner :
        q = task[t].quote /\ e = task[t].exec /\ owner = task[t].owner
  BY DEF IInv, InFlightOK, InFlight, PostReturns
<1>2. /\ TypeOK /\ quote \in QuoteMap /\ task[t].pc \in InFlight /\ a \in AllAnswers
      /\ RecordOK(q) /\ ActiveOK(q) /\ PostsOK(q) /\ LedgerOK(q) /\ MoneyOK(q)
      /\ execution[q] = NoExecution => minted[q] < MaxKeys
  BY PurchaseExecutionAssumption DEF IInv, TypeOK, QuoteMap, PostReturns, InFlight
<1>3. /\ quoteLock[q].holder = t /\ quote[q].status # "none" /\ owner = quote[q].owner
      /\ e.owner = owner /\ e.key = minted[q] /\ e.key \in Keys
      /\ quote[q].status = "active" => execution[q] = e
      /\ posts[q].keys \subseteq {e.key} /\ e.key \in posts[q].keys
      /\ posts[q].count <= e.attempts /\ ~posts[q].settled
  BY <1>1, <1>2 DEF IInv, InFlightOK, PostReturns, Execution
<1>4. PICK d \in {"retryable", "succeeded", "failed", "unresolved", "escalated"}, c \in Codes :
        Classify(a).disposition = d /\ Classify(a).code = c
  BY <1>2, VerdictOK
<1>5. /\ d = "succeeded" => ledger[q][e.key] = "charged"
      /\ d = "failed" => ledger[q][e.key] = "refused"
  BY <1>1, <1>2, <1>4, VerdictOK DEF PostReturns
<1> DEFINE saved == [e EXCEPT !.status = d, !.code = c]
<1>6. /\ execution' = IF d = "retryable" THEN execution ELSE [execution EXCEPT ![q] = saved]
      /\ quote' = IF d = "succeeded" THEN Consumed(quote, owner, q) ELSE quote
      /\ posts' = [posts EXCEPT ![q].settled = @ \/ d \in {"succeeded", "failed", "escalated"}]
      /\ pending' = pending \/ pending' = pending \cup {<<q, e.key>>}
      /\ quoteLock' = [quoteLock EXCEPT ![q] = Leave(quoteLock[q])] /\ task' = [task EXCEPT ![t] = Idle]
      /\ UNCHANGED <<session, sessionLock, minted, ledger>>
  BY <1>1, <1>4 DEF PostReturns, Ends, Finish, Become
<1>7. d # "retryable" => /\ saved \in Execution /\ saved.status = d
                         /\ saved.owner = owner /\ saved.key = e.key /\ saved.attempts = e.attempts
  BY <1>3 DEF Execution
<1> HIDE DEF saved
<1>8. Idle \in Task /\ Idle.pc = "idle" /\ Leave(quoteLock[q]) \in LockType(Tasks)
  BY <1>2, LeaveType DEF TypeOK, Task, Idle, Doing
<1>9. /\ quote' \in QuoteMap /\ quote'[q].owner = owner /\ quote'[q].status # "none"
      /\ quote'[q].status = IF d = "succeeded" THEN "consumed" ELSE quote[q].status
      /\ \A r \in Quotes \ {q} : quote'[r] = quote[r]
  BY <1>2, <1>3, <1>6, ConsumedIs DEF Owned
<1>10. /\ posts'[q].keys = posts[q].keys /\ posts'[q].count = posts[q].count
       /\ posts'[q].settled <=> d \in {"succeeded", "failed", "escalated"}
       /\ \A r \in Quotes \ {q} : posts'[r] = posts[r]
       /\ posts' \in [Quotes -> [keys : SUBSET Keys, payers : SUBSET (Users \cup {None}),
                                 count : Nat, settled : BOOLEAN]]
  <2>1. PICK s \in BOOLEAN : /\ s <=> d \in {"succeeded", "failed", "escalated"}
                             /\ posts' = [posts EXCEPT ![q].settled = s]
    <3> DEFINE s == posts[q].settled \/ d \in {"succeeded", "failed", "escalated"}
    <3>1. s \in BOOLEAN /\ (s <=> d \in {"succeeded", "failed", "escalated"})
      BY <1>3
    <3>2. posts' = [posts EXCEPT ![q].settled = s]
      BY <1>6
    <3> HIDE DEF s
    <3> QED BY <3>1, <3>2
  <2> QED BY <1>2, <2>1 DEF TypeOK
<1>11. /\ execution' \in [Quotes -> Execution \cup {NoExecution}]
       /\ execution'[q] = IF d = "retryable" THEN execution[q] ELSE saved
       /\ \A r \in Quotes \ {q} : execution'[r] = execution[r]
  BY <1>2, <1>6, <1>7 DEF TypeOK
<1>12. TypeOK'
  <2>1. quoteLock' \in [Quotes -> LockType(Tasks)] /\ task' \in [Tasks -> Task]
    BY <1>2, <1>6, <1>8 DEF TypeOK
  <2>2. pending' \in SUBSET (Quotes \X Keys)
    BY <1>2, <1>3, <1>6 DEF TypeOK
  <2>3. quote' \in [Quotes -> Quote \cup {NoQuote}]
    BY <1>9 DEF QuoteMap
  <2> QED BY <1>2, <1>6, <1>10, <1>11, <2>1, <2>2, <2>3 DEF TypeOK
<1>13. task'[t].pc = "idle" /\ \A u \in Tasks \ {t} : task'[u] = task[u]
  BY <1>2, <1>6, <1>8 DEF TypeOK
<1>14. OnlyTouches(t, q)
  BY <1>2, <1>6, <1>9, <1>10, <1>11, <1>13 DEF OnlyTouches, TypeOK
<1>15. ASSUME NEW u \in Tasks PROVE ~(task'[u].pc \in InFlight /\ task'[u].quote = q)
  BY <1>3, <1>13, HolderIsAlone DEF InFlight
<1>16. RecordOK(q)' /\ (execution'[q] = NoExecution => minted'[q] < MaxKeys)
  <2>1. d # "retryable" => saved # NoExecution
    BY <1>7 DEF Execution, NoExecution
  <2> QED BY <1>2, <1>3, <1>6, <1>7, <1>9, <1>11, <2>1 DEF RecordOK
<1>17. ActiveOK(q)'
  <2>1. quote'[q].status = "active" => quote[q].status = "active" /\ d # "succeeded"
    BY <1>9
  <2>2. ASSUME quote'[q].status = "active", d # "retryable" PROVE ActiveOK(q)'
    <3>1. saved # NoExecution
      BY <1>7, <2>2 DEF Execution, NoExecution
    <3> QED BY <1>3, <1>6, <1>7, <1>10, <1>11, <2>2, <3>1 DEF ActiveOK, IsTerminal
  <2>3. ASSUME quote'[q].status = "active", d = "retryable" PROVE ActiveOK(q)'
    BY <1>2, <1>6, <1>10, <1>11, <2>1, <2>3 DEF ActiveOK
  <2> QED BY <2>2, <2>3 DEF ActiveOK
<1>18. PostsOK(q)'
  BY <1>2, <1>3, <1>9, <1>10 DEF PostsOK
<1>19. LedgerOK(q)'
  BY <1>2, <1>3, <1>6, <1>10 DEF LedgerOK
<1>20. MoneyOK(q)'
  <2>1. CASE d = "retryable"
    BY <1>2, <1>6, <1>9, <1>10, <1>11, <2>1 DEF MoneyOK
  <2>2. CASE d # "retryable"
    BY <1>2, <1>3, <1>5, <1>6, <1>7, <1>9, <1>10, <1>11, <2>2 DEF MoneyOK
  <2> QED BY <2>1, <2>2
<1> QED BY <1>12, <1>13, <1>14, <1>15, <1>16, <1>17, <1>18, <1>19, <1>20, LocalStep

\* A cancelled call gives up its locks; its record, and the attempt counted on
\* it, stay.
LEMMA CancelStep ==
  ASSUME IInv, NEW t \in Tasks, Cancel(t)
  PROVE  IInv'
<1>1. PICK q \in Quotes, owner \in Owner : q = task[t].quote /\ owner = task[t].owner
  BY DEF IInv, Cancel
<1>2. /\ TypeOK /\ task[t].pc # "idle" /\ owner.client \in Clients
      /\ RecordOK(q) /\ ActiveOK(q) /\ PostsOK(q) /\ LedgerOK(q) /\ MoneyOK(q)
      /\ execution[q] = NoExecution => minted[q] < MaxKeys
  BY DEF IInv, Cancel, Owner
<1>3. /\ quoteLock' = [quoteLock EXCEPT ![q] = Withdraw(quoteLock[q], t)]
      /\ sessionLock' = sessionLock
           \/ sessionLock' = [sessionLock EXCEPT ![owner.client] = Withdraw(sessionLock[owner.client], t)]
      /\ task' = [task EXCEPT ![t] = Idle]
      /\ UNCHANGED <<session, quote, execution, minted, ledger, posts>>
  BY <1>1 DEF Cancel, Finish, Become
<1>4. /\ Withdraw(quoteLock[q], t) \in LockType(Tasks)
      /\ quoteLock[q].holder # t => Withdraw(quoteLock[q], t).holder = quoteLock[q].holder
      /\ Withdraw(sessionLock[owner.client], t) \in LockType(Tasks)
  BY <1>2, WithdrawType DEF TypeOK
<1>5. Idle \in Task /\ Idle.pc = "idle"
  BY DEF Task, Idle, Doing
<1>6. \/ pending' = pending
      \/ \E key \in Keys : key \in posts[q].keys /\ pending' = pending \cup {<<q, key>>}
  <2>1. CASE task[t].pc # "posting"
    BY <2>1 DEF Cancel
  <2>2. CASE task[t].pc = "posting"
    <3>1. task[t].exec.key \in posts[q].keys /\ task[t].exec.key \in Keys
      BY <1>1, <2>2 DEF IInv, InFlightOK, InFlight, Execution
    <3> QED BY <1>1, <2>2, <3>1 DEF Cancel
  <2> QED BY <2>1, <2>2
<1>7. sessionLock' \in [Clients -> LockType(Tasks)] /\ quoteLock' \in [Quotes -> LockType(Tasks)]
  BY <1>2, <1>3, <1>4 DEF TypeOK
<1>8. pending' \in SUBSET (Quotes \X Keys)
  BY <1>2, <1>6 DEF TypeOK
<1>9. TypeOK'
  BY <1>2, <1>3, <1>5, <1>7, <1>8 DEF TypeOK
<1>10. task'[t].pc = "idle" /\ \A u \in Tasks \ {t} : task'[u] = task[u]
  BY <1>2, <1>3, <1>5 DEF TypeOK
<1>11. OnlyTouches(t, q)
  BY <1>2, <1>3, <1>6, <1>10 DEF OnlyTouches, TypeOK
<1>12. ASSUME NEW u \in Tasks, task'[u].pc \in InFlight, task'[u].quote = q PROVE InFlightOK(u)'
  <2>1. u # t /\ task'[u] = task[u]
    BY <1>10, <1>12 DEF InFlight
  <2>2. InFlightOK(u) /\ quoteLock[q].holder = u
    BY <1>12, <2>1 DEF IInv, InFlightOK
  <2>3. quoteLock'[q].holder = u
    BY <1>2, <1>3, <1>4, <2>1, <2>2 DEF TypeOK
  <2> QED BY <1>3, <1>12, <2>1, <2>2, <2>3 DEF InFlightOK
<1>13. /\ execution'[q] = NoExecution => minted'[q] < MaxKeys
       /\ RecordOK(q)' /\ ActiveOK(q)' /\ PostsOK(q)' /\ LedgerOK(q)' /\ MoneyOK(q)'
  <2>1. RecordOK(q)' /\ ActiveOK(q)' /\ PostsOK(q)' /\ MoneyOK(q)'
    BY <1>2, <1>3 DEF RecordOK, ActiveOK, PostsOK, MoneyOK
  <2>2. LedgerOK(q)'
    BY <1>2, <1>3, <1>6 DEF LedgerOK
  <2> QED BY <1>2, <1>3, <2>1, <2>2
<1> QED BY <1>9, <1>10, <1>11, <1>12, <1>13, LocalStep

-----------------------------------------------------------------------------
(* The theorems.                                                           *)

LEMMA NextStep == IInv /\ [Next]_vars => IInv'
<1> SUFFICES ASSUME IInv, [Next]_vars PROVE IInv'
  OBVIOUS
<1>1. ASSUME NEW t \in Tasks, Step(t) PROVE IInv'
  BY <1>1, QuoteLockGrantedStep, SessionLockGrantedStep, RefreshSucceedsStep, RefreshFailsStep,
     PostReturnsStep DEF Step
<1>2. CASE \E t \in Tasks : Step(t) \/ Cancel(t)
  BY <1>1, <1>2, CancelStep
<1>3. CASE \E t \in Tasks, k \in Clients, q \in Quotes : Confirm(t, k, q)
  BY <1>3, ConfirmStep
<1>4. CASE \E k \in Clients, u \in Users : SignIn(k, u)
  BY <1>4, SignInStep
<1>5. CASE \E k \in Clients : TokenAges(k) \/ SessionEnds(k)
  BY <1>5, TokenAgesStep, SessionEndsStep
<1>6. CASE \E k \in Clients, q \in Quotes, plan \in Plans, funded \in BOOLEAN : Prepare(k, q, plan, funded)
  BY <1>6, PrepareStep
<1>7. CASE \E q \in Quotes : Lapses(q)
  BY <1>7, LapsesStep
<1>8. CASE \E k \in Clients, q \in Quotes : CancelPrepared(k, q)
  BY <1>8, CancelPreparedStep
<1>9. CASE \E q \in Quotes, key \in Keys, fate \in Fates : PlatformDecides(q, key, fate)
  BY <1>9, PlatformDecidesStep
<1>10. CASE UNCHANGED vars
  <2>1. TypeOK'
    BY <1>10 DEF vars, IInv, TypeOK
  <2>2. Moves(quote, quote')
    BY <1>10 DEF vars, IInv, TypeOK, Moves, QuoteMap
  <2> QED BY <1>10, <2>1, <2>2, MovesStep DEF vars
<1> QED BY <1>2, <1>3, <1>4, <1>5, <1>6, <1>7, <1>8, <1>9, <1>10 DEF Next

\* The inductive invariant holds of every reachable state.
THEOREM Invariance == Spec => []IInv
  BY InitIInv, NextStep, PTL DEF Spec

\* Every variable keeps its type: locks are held by and queue confirmations, a
\* stored record has a key that was minted and at most MAX_EXECUTION_ATTEMPTS.
THEOREM TypeCorrect == Spec => []TypeOK
<1>1. IInv => TypeOK
  BY DEF IInv
<1> QED BY <1>1, Invariance, PTL

\* Every request ever sent for a quote carries one and the same idempotency key,
\* although a session's end drops the record the key is kept in: such a quote is
\* no longer active, and a confirmation still in flight keeps its own copy.
THEOREM OneKey == Spec => []OneKeyPerQuote
<1>1. IInv => OneKeyPerQuote
  BY DEF IInv, PostsOK, OneKeyPerQuote
<1> QED BY <1>1, Invariance, PTL

\* The platform, which executes a key at most once, debits the wallet at most
\* once for a quote.
THEOREM ChargedOnce == Spec => []NeverChargedTwice
<1>1. IInv => NeverChargedTwice
  BY DEF IInv, PostsOK, LedgerOK, NeverChargedTwice
<1> QED BY <1>1, Invariance, PTL

\* No quote is sent more often than MAX_EXECUTION_ATTEMPTS allows, however the
\* attempts were interrupted.
THEOREM Bounded == Spec => []AttemptsBounded
<1>1. IInv => AttemptsBounded
  BY DEF IInv, PostsOK, AttemptsBounded
<1> QED BY <1>1, Invariance, PTL

\* The quote's lock keeps two confirmations of one quote from waiting for the
\* platform at the same time.
THEOREM Exclusive == Spec => []OneInFlightPerQuote
<1>1. IInv => OneInFlightPerQuote
  BY HolderIsAlone DEF OneInFlightPerQuote, InFlight
<1> QED BY <1>1, Invariance, PTL

\* A record says "failed" only of a purchase the platform refused for good: a
\* lost or vague answer is never read as a refusal.
THEOREM FailedIsFinal == Spec => []FailedMeansNotCharged
<1>1. IInv => FailedMeansNotCharged
  BY DEF IInv, MoneyOK, FailedMeansNotCharged
<1> QED BY <1>1, Invariance, PTL

\* The quote store and the execution store agree: a consumed quote was charged,
\* a succeeded record has consumed its quote.
THEOREM StoresAgree == Spec => []ConsumedMeansBought
<1>1. IInv => ConsumedMeansBought
  BY DEF IInv, MoneyOK, ConsumedMeansBought
<1> QED BY <1>1, Invariance, PTL

-----------------------------------------------------------------------------
(***************************************************************************)
(* confirm_purchase implements PurchasePromise: every step of the detailed *)
(* specification sends one request, ends the wait for one, or concerns no  *)
(* request at all, which is a step or a stutter of the promise.            *)
(***************************************************************************)

Posting(t, q) == task[t].pc = "posting" /\ task[t].quote = q

\* No request is sent and none comes back.
Quiet ==
  /\ posts' = posts
  /\ \A u \in Tasks : task'[u] = task[u] \/ (task[u].pc # "posting" /\ task'[u].pc # "posting")

\* t sends a request for q, with the key all of q's requests have.
Sends(t, q) ==
  /\ ~\E u \in Tasks : Posting(u, q)
  /\ Posting(t, q)'
  /\ \A u \in Tasks \ {t} : task'[u] = task[u]
  /\ task[t].pc # "posting"
  /\ ~posts[q].settled /\ posts[q].count < MaxAttempts
  /\ \E key \in Keys : posts[q].keys \subseteq {key} /\ posts'[q].keys = {key}
  /\ posts'[q].count = posts[q].count + 1 /\ ~posts'[q].settled
  /\ \A r \in Quotes \ {q} : posts'[r] = posts[r]

\* t no longer waits for the answer to its request for q.
Returns(t, q) ==
  /\ Posting(t, q)
  /\ \A u \in Tasks \ {t} : task'[u] = task[u] /\ ~Posting(u, q)
  /\ task'[t].pc = "idle"
  /\ posts'[q].keys = posts[q].keys /\ posts'[q].count = posts[q].count
  /\ posts[q].settled => posts'[q].settled
  /\ \A r \in Quotes \ {q} : posts'[r] = posts[r]

-----------------------------------------------------------------------------
(* Each of the three is a step or a stutter of the promise.                *)

\* A step that concerns no request is a stutter.
LEMMA QuietStutters ==
  ASSUME IInv, Quiet
  PROVE  UNCHANGED Promise!vars
<1>1. ASSUME NEW q \in Quotes, NEW t \in Tasks PROVE Posting(t, q)' <=> Posting(t, q)
  BY DEF Quiet, Posting
<1> QED BY <1>1 DEF Quiet, Promise!vars, Posting

\* Sending a request is Send.
LEMMA SendsIsSend ==
  ASSUME IInv, NEW t \in Tasks, NEW q \in Quotes, Sends(t, q)
  PROVE  Promise!Next
<1>1. PICK key \in Keys : posts[q].keys \subseteq {key} /\ posts'[q].keys = {key}
  BY DEF Sends
<1>2. ASSUME NEW r \in Quotes, r # q, NEW u \in Tasks PROVE Posting(u, r)' <=> Posting(u, r)
  BY <1>2 DEF Sends, Posting
<1>3. {r \in Quotes : \E u \in Tasks : Posting(u, r)'} = {r \in Quotes : \E u \in Tasks : Posting(u, r)} \cup {q}
  BY <1>2 DEF Sends
<1>4. q \notin {r \in Quotes : \E u \in Tasks : Posting(u, r)} \cup {r \in Quotes : posts[r].settled}
  BY DEF Sends
<1>5. {r \in Quotes : posts'[r].settled} = {r \in Quotes : posts[r].settled}
  BY DEF Sends
<1>6. [r \in Quotes |-> posts'[r].keys] = [[r \in Quotes |-> posts[r].keys] EXCEPT ![q] = {key}]
  BY <1>1 DEF Sends
<1>7. [r \in Quotes |-> posts'[r].count]
        = [[r \in Quotes |-> posts[r].count] EXCEPT ![q] = [r \in Quotes |-> posts[r].count][q] + 1]
  BY DEF Sends
<1>8. Promise!Send(q, key)
  BY <1>1, <1>3, <1>4, <1>5, <1>6, <1>7 DEF Promise!Send, Posting, Sends
<1> QED BY <1>8 DEF Promise!Next

\* The end of a wait is Return.
LEMMA ReturnsIsReturn ==
  ASSUME IInv, NEW t \in Tasks, NEW q \in Quotes, Returns(t, q)
  PROVE  Promise!Next
<1>1. ASSUME NEW r \in Quotes, r # q, NEW u \in Tasks PROVE Posting(u, r)' <=> Posting(u, r)
  BY <1>1 DEF Returns, Posting
<1>2. ASSUME NEW u \in Tasks PROVE ~Posting(u, q)'
  BY DEF Returns, Posting
<1>3. {r \in Quotes : \E u \in Tasks : Posting(u, r)'} = {r \in Quotes : \E u \in Tasks : Posting(u, r)} \ {q}
  BY <1>1, <1>2
<1>4. q \in {r \in Quotes : \E u \in Tasks : Posting(u, r)}
  BY DEF Returns
<1>5. {r \in Quotes : posts'[r].settled} \in
        {{r \in Quotes : posts[r].settled}, {r \in Quotes : posts[r].settled} \cup {q}}
  <2>1. CASE posts'[q].settled
    BY <2>1 DEF Returns
  <2>2. CASE ~posts'[q].settled
    BY <2>2 DEF Returns
  <2> QED BY <2>1, <2>2
<1>6. /\ [r \in Quotes |-> posts'[r].keys] = [r \in Quotes |-> posts[r].keys]
      /\ [r \in Quotes |-> posts'[r].count] = [r \in Quotes |-> posts[r].count]
  BY DEF Returns
<1>7. Promise!Return(q)
  BY <1>3, <1>4, <1>5, <1>6 DEF Promise!Return, Posting
<1> QED BY <1>7 DEF Promise!Next

-----------------------------------------------------------------------------
(* What each action does to the requests.                                  *)

\* A step of t that is not about a request leaves the requests alone.
LEMMA LocalQuiet ==
  ASSUME IInv, NEW t \in Tasks, NEW d, task' = [task EXCEPT ![t] = d], posts' = posts,
         task[t].pc # "posting", d.pc # "posting"
  PROVE  Quiet
  BY DEF Quiet, IInv, TypeOK

\* Sending, for a confirmation that is alone with its quote.
LEMMA PostSends ==
  ASSUME IInv, NEW t \in Tasks, NEW q \in Quotes, NEW owner, NEW e \in Execution, NEW u,
         Post(t, owner, q, e, u), task[t].pc # "posting", \A v \in Tasks : ~Posting(v, q),
         posts[q].keys \subseteq {e.key}, posts[q].count < e.attempts, ~posts[q].settled
  PROVE  Sends(t, q)
<1>1. /\ task' = [task EXCEPT ![t] = Doing("posting", owner, q, e, u)]
      /\ posts' = [posts EXCEPT ![q] = [keys |-> @.keys \cup {e.key}, payers |-> @.payers \cup {u},
                                        count |-> @.count + 1, settled |-> @.settled]]
  BY DEF Post, Become
<1>2. TypeOK /\ e.key \in Keys /\ e.attempts \in 0..MaxAttempts
  BY DEF IInv, Execution
<1>3. /\ \A v \in Tasks \ {t} : task'[v] = task[v]
      /\ task'[t] = Doing("posting", owner, q, e, u)
  BY <1>1, <1>2 DEF TypeOK
<1>4. /\ posts'[q] = [keys |-> posts[q].keys \cup {e.key}, payers |-> posts[q].payers \cup {u},
                      count |-> posts[q].count + 1, settled |-> posts[q].settled]
      /\ \A r \in Quotes \ {q} : posts'[r] = posts[r]
  BY <1>1, <1>2 DEF TypeOK
<1>5. Posting(t, q)'
  BY <1>3 DEF Posting, Doing
<1>6. /\ posts'[q].keys = {e.key} /\ posts'[q].count = posts[q].count + 1 /\ ~posts'[q].settled
      /\ posts[q].count < MaxAttempts
  BY <1>2, <1>4, PurchaseExecutionAssumption DEF TypeOK
<1> QED BY <1>2, <1>3, <1>4, <1>5, <1>6 DEF Sends

\* A decision sends nothing but the request it counted.
LEMMA DecideRequests ==
  ASSUME IInv, NEW t \in Tasks, NEW owner \in Owner, NEW q \in Quotes, NEW l,
         task[t].pc # "posting", \A v \in Tasks : ~Posting(v, q), Decide(t, owner, q, l)
  PROVE  Quiet \/ Sends(t, q)
<1> DEFINE exec == Acquired(owner, q)
           counted == [exec EXCEPT !.attempts = @ + 1]
<1>1. Idle.pc # "posting"
  BY DEF Idle, Doing
<1>2. CASE ~Owned(quote, owner, q) \/ IsTerminal(exec.status) \/ Gate(quote[q], exec) # "open"
  <2>1. task' = [task EXCEPT ![t] = Idle] /\ posts' = posts
    BY <1>2 DEF Decide, Ends, Finish, Become
  <2> QED BY <1>1, <2>1, LocalQuiet
<1>3. CASE Owned(quote, owner, q) /\ ~IsTerminal(exec.status) /\ Gate(quote[q], exec) = "open"
  <2>1. EnsureFresh(t, owner, q, counted, l)
    BY <1>3 DEF Decide
  <2>2. PICK x \in Execution : x = exec
    BY <1>3, AcquiredOK
  <2>3. PICK e : e = [x EXCEPT !.attempts = @ + 1] /\ e = counted
    BY <2>2
  <2>4. x = Acquired(owner, q) /\ Owned(quote, owner, q) /\ ~IsTerminal(x.status) /\ Gate(quote[q], x) = "open"
    BY <1>3, <2>2
  <2> HIDE DEF exec, counted
  <2>5. /\ e \in Execution /\ posts[q].keys \subseteq {e.key}
        /\ posts[q].count < e.attempts /\ ~posts[q].settled
    BY <2>2, <2>3, <2>4, CountedOK
  <2>6. EnsureFresh(t, owner, q, e, l)
    BY <2>1, <2>3
  <2>7. CASE session[owner.client].user = None
    <3>1. task' = [task EXCEPT ![t] = Idle] /\ posts' = posts
      BY <2>6, <2>7 DEF EnsureFresh, Ends, Finish, Become
    <3> QED BY <1>1, <3>1, LocalQuiet
  <2>8. CASE session[owner.client].user # None /\ ~session[owner.client].aging
    <3>1. Post(t, owner, q, e, session[owner.client].user)
      BY <2>6, <2>8 DEF EnsureFresh
    <3> QED BY <2>5, <3>1, PostSends
  <2>9. CASE session[owner.client].user # None /\ session[owner.client].aging
    <3>1. PICK d \in {Doing("refreshing", owner, q, e, session[owner.client].user),
                      Doing("ensuring", owner, q, e, None)} :
            task' = [task EXCEPT ![t] = d] /\ posts' = posts
      BY <2>6, <2>9 DEF EnsureFresh, Become
    <3>2. d.pc # "posting"
      BY DEF Doing
    <3> QED BY <3>1, <3>2, LocalQuiet
  <2> QED BY <2>6, <2>7, <2>8, <2>9 DEF EnsureFresh
<1> QED BY <1>2, <1>3

\* While nobody holds a quote's lock, nobody has a request out for it.
LEMMA NobodyPosting ==
  ASSUME IInv, NEW q \in Quotes, NEW t,
         quoteLock[q].holder = t, t \in Tasks => task[t].pc # "posting"
  PROVE  \A v \in Tasks : ~Posting(v, q)
  BY HolderIsAlone DEF Posting, InFlight

\* Confirming, and being granted the quote's lock.
LEMMA ConfirmRequests ==
  ASSUME IInv, NEW t \in Tasks, NEW k \in Clients, NEW q \in Quotes, Confirm(t, k, q)
  PROVE  Quiet \/ Sends(t, q)
<1>1. PICK owner \in Owner : owner = OwnerOf(k, session[k].user)
  BY DEF IInv, TypeOK, Confirm, Session, OwnerOf, Owner
<1>2. task[t].pc = "idle"
  BY DEF Confirm, Idle, Doing
<1>3. CASE IsFree(quoteLock[q])
  <2>1. \A v \in Tasks : ~Posting(v, q)
    BY <1>3, NobodyPosting, PurchaseExecutionAssumption DEF IsFree
  <2>2. Decide(t, owner, q, Enter(quoteLock[q], t))
    BY <1>1, <1>3 DEF Confirm
  <2> QED BY <1>2, <2>1, <2>2, DecideRequests
<1>4. CASE ~IsFree(quoteLock[q])
  <2>1. task' = [task EXCEPT ![t] = Doing("waiting", owner, q, NoExecution, None)] /\ posts' = posts
    BY <1>1, <1>4 DEF Confirm, Become
  <2>2. Doing("waiting", owner, q, NoExecution, None).pc # "posting"
    BY DEF Doing
  <2> QED BY <1>2, <2>1, <2>2, LocalQuiet
<1> QED BY <1>3, <1>4

LEMMA QuoteLockGrantedRequests ==
  ASSUME IInv, NEW t \in Tasks, QuoteLockGranted(t)
  PROVE  Quiet \/ \E q \in Quotes : Sends(t, q)
<1>1. PICK q \in Quotes, owner \in Owner : q = task[t].quote /\ owner = task[t].owner
  BY DEF IInv, QuoteLockGranted
<1>2. task[t].pc = "waiting" /\ quoteLock[q].holder = t /\ Decide(t, owner, q, quoteLock[q])
  BY <1>1 DEF QuoteLockGranted
<1>3. \A v \in Tasks : ~Posting(v, q)
  BY <1>2, NobodyPosting
<1> QED BY <1>2, <1>3, DecideRequests

\* After the session's lock and the rotation.
LEMMA RefreshRequests ==
  ASSUME IInv, NEW t \in Tasks, SessionLockGranted(t) \/ RefreshSucceeds(t) \/ RefreshFails(t)
  PROVE  Quiet \/ \E q \in Quotes : Sends(t, q)
<1>1. PICK q \in Quotes, e \in Execution, owner \in Owner :
        q = task[t].quote /\ e = task[t].exec /\ owner = task[t].owner
  BY DEF IInv, InFlightOK, InFlight, SessionLockGranted, RefreshSucceeds, RefreshFails
<1>2. /\ task[t].pc \in {"ensuring", "refreshing"} /\ quoteLock[q].holder = t
      /\ posts[q].keys \subseteq {e.key} /\ posts[q].count < e.attempts /\ ~posts[q].settled
  BY <1>1 DEF IInv, InFlightOK, InFlight, SessionLockGranted, RefreshSucceeds, RefreshFails
<1>3. \A v \in Tasks : ~Posting(v, q)
  BY <1>2, NobodyPosting
<1>4. \/ \E u : Post(t, owner, q, e, u)
      \/ \E d : task' = [task EXCEPT ![t] = d] /\ posts' = posts /\ d.pc # "posting"
  <2>1. Idle.pc # "posting"
    BY DEF Idle, Doing
  <2>2. CASE SessionLockGranted(t)
    <3> DEFINE k == owner.client
    <3>1. RefreshBody(t, owner, q, e, sessionLock[k])
      BY <1>1, <2>2 DEF SessionLockGranted
    <3>2. CASE session[k].user = None
      BY <2>1, <3>1, <3>2 DEF RefreshBody, Ends, Finish, Become
    <3>3. CASE session[k].user # None /\ ~session[k].aging
      BY <3>1, <3>3 DEF RefreshBody
    <3>4. CASE session[k].user # None /\ session[k].aging
      <4>1. task' = [task EXCEPT ![t] = Doing("refreshing", owner, q, e, session[k].user)] /\ posts' = posts
        BY <3>1, <3>4 DEF RefreshBody, Become
      <4>2. Doing("refreshing", owner, q, e, session[k].user).pc # "posting"
        BY DEF Doing
      <4> QED BY <4>1, <4>2
    <3> QED BY <3>1, <3>2, <3>3, <3>4 DEF RefreshBody
  <2>3. CASE RefreshSucceeds(t)
    BY <1>1, <2>3 DEF RefreshSucceeds
  <2>4. CASE RefreshFails(t)
    BY <2>1, <2>4 DEF RefreshFails, Ends, Finish, Become
  <2> QED BY <2>2, <2>3, <2>4
<1> QED BY <1>2, <1>3, <1>4, PostSends, LocalQuiet

\* An answer, or a cancellation while waiting for one, ends the wait.
LEMMA ReturnRequests ==
  ASSUME IInv, NEW t \in Tasks, (\E a \in Answers : PostReturns(t, a)) \/ Cancel(t)
  PROVE  Quiet \/ \E q \in Quotes : Returns(t, q)
<1>1. PICK q \in Quotes : q = task[t].quote
  BY DEF IInv, InFlightOK, InFlight, PostReturns, Cancel
<1>2. TypeOK /\ Idle.pc = "idle" /\ task' = [task EXCEPT ![t] = Idle]
  BY DEF IInv, Idle, Doing, PostReturns, Cancel, Ends, Finish, Become
<1>3. task'[t].pc = "idle" /\ \A u \in Tasks \ {t} : task'[u] = task[u]
  BY <1>2 DEF TypeOK
<1>4. ASSUME task[t].pc = "posting" PROVE \A u \in Tasks \ {t} : ~Posting(u, q)
  BY <1>1, <1>4, HolderIsAlone DEF Posting, InFlight
<1>5. CASE Cancel(t)
  <2>1. posts' = posts
    BY <1>5 DEF Cancel
  <2>2. CASE task[t].pc = "posting"
    BY <1>1, <1>3, <1>4, <2>1, <2>2 DEF Returns, Posting
  <2>3. CASE task[t].pc # "posting"
    BY <1>2, <2>1, <2>3, LocalQuiet
  <2> QED BY <2>2, <2>3
<1>6. CASE \E a \in Answers : PostReturns(t, a)
  <2>1. PICK a \in Answers : PostReturns(t, a)
    BY <1>6
  <2>2. PICK s \in BOOLEAN : (posts[q].settled => s) /\ posts' = [posts EXCEPT ![q].settled = s]
    <3> DEFINE s == posts[q].settled \/ Classify(a).disposition \in {"succeeded", "failed", "escalated"}
    <3>1. s \in BOOLEAN /\ (posts[q].settled => s)
      OBVIOUS
    <3>2. posts' = [posts EXCEPT ![q].settled = s]
      BY <1>1, <2>1 DEF PostReturns
    <3> HIDE DEF s
    <3> QED BY <3>1, <3>2
  <2>3. /\ posts'[q].keys = posts[q].keys /\ posts'[q].count = posts[q].count
        /\ posts[q].settled => posts'[q].settled
        /\ \A r \in Quotes \ {q} : posts'[r] = posts[r]
    BY <1>2, <2>2 DEF TypeOK
  <2>4. task[t].pc = "posting"
    BY <2>1 DEF PostReturns
  <2> QED BY <1>1, <1>3, <1>4, <2>3, <2>4 DEF Returns, Posting
<1> QED BY <1>5, <1>6

\* Every step, seen from the requests.
LEMMA RequestsStep ==
  ASSUME IInv, [Next]_vars
  PROVE  Quiet \/ \E t \in Tasks, q \in Quotes : Sends(t, q) \/ Returns(t, q)
<1>1. ASSUME NEW t \in Tasks, Step(t) \/ Cancel(t)
      PROVE  Quiet \/ \E q \in Quotes : Sends(t, q) \/ Returns(t, q)
  BY <1>1, QuoteLockGrantedRequests, RefreshRequests, ReturnRequests DEF Step
<1>2. CASE \E t \in Tasks : Step(t) \/ Cancel(t)
  BY <1>1, <1>2
<1>3. CASE \E t \in Tasks, k \in Clients, q \in Quotes : Confirm(t, k, q)
  BY <1>3, ConfirmRequests
<1>4. CASE task' = task /\ posts' = posts
  BY <1>4 DEF Quiet
<1>5. CASE \/ \E k \in Clients, u \in Users : SignIn(k, u)
           \/ \E k \in Clients : TokenAges(k) \/ SessionEnds(k)
           \/ \E k \in Clients, q \in Quotes, plan \in Plans, funded \in BOOLEAN : Prepare(k, q, plan, funded)
           \/ \E q \in Quotes : Lapses(q)
           \/ \E k \in Clients, q \in Quotes : CancelPrepared(k, q)
           \/ \E q \in Quotes, key \in Keys, fate \in Fates : PlatformDecides(q, key, fate)
  BY <1>4, <1>5 DEF SignIn, TokenAges, SessionEnds, Prepare, Lapses, CancelPrepared, PlatformDecides
<1>6. CASE UNCHANGED vars
  BY <1>4, <1>6 DEF vars
<1> QED BY <1>2, <1>3, <1>5, <1>6 DEF Next

-----------------------------------------------------------------------------
(* The theorems.                                                           *)

\* Once the platform has given its final answer about a quote, no step of any
\* confirmation, sign-in, logout or cancellation sends anything for it again.
THEOREM NeverResent == Spec => SettledNeverResent
<1>1. ASSUME IInv, [Next]_vars, NEW q \in Quotes, posts[q].settled
      PROVE  posts'[q].count = posts[q].count
  BY <1>1, RequestsStep DEF Quiet, Sends, Returns
<1>2. IInv /\ [Next]_vars => [\A q \in Quotes : posts[q].settled => posts'[q].count = posts[q].count]_vars
  BY <1>1
<1> QED BY <1>2, Invariance, PTL DEF Spec, SettledNeverResent

\* confirm_purchase keeps the promise: seen from its requests alone, every
\* behaviour of the detailed specification is one of PurchasePromise.
THEOREM Refinement == Spec => KeepsPromise
<1>1. Init => Promise!Init
  BY DEF Init, Promise!Init, Idle, Doing
<1>2. IInv /\ [Next]_vars => [Promise!Next]_(Promise!vars)
  BY RequestsStep, QuietStutters, SendsIsSend, ReturnsIsReturn
<1> QED BY <1>1, <1>2, Invariance, PTL DEF Spec, KeepsPromise, Promise!Spec

-----------------------------------------------------------------------------
(* What a repeated confirmation is told.                                   *)

\* Only a purchase that needs support is remembered as escalated, and what a
\* replay says is what the record it was read from still says.
ReplayOK ==
  /\ \A q \in Quotes : execution[q].status = "escalated" => execution[q].code = "purchase_needs_support"
  /\ reply.by = "replay" =>
       /\ reply.quote \in Quotes
       /\ IsTerminal(execution[reply.quote].status)
       /\ reply.code = IF execution[reply.quote].status = "succeeded" THEN "none"
                       ELSE ReplayError(execution[reply.quote].code)

\* Nothing is replayed by a step that says nothing.
LEMMA SilentStep ==
  ASSUME ReplayOK, reply' = Silent,
         \A q \in Quotes : execution'[q] # execution[q] /\ execution'[q].status = "escalated" =>
                            execution'[q].code = "purchase_needs_support"
  PROVE  ReplayOK'
<1>1. reply'.by # "replay"
  BY DEF Silent, Says
<1>2. \A q \in Quotes : execution'[q].status = "escalated" => execution'[q].code = "purchase_needs_support"
  BY DEF ReplayOK
<1> QED BY <1>1, <1>2 DEF ReplayOK

\* The record a decision starts from is the stored one, or one nothing was
\* bought with yet.
LEMMA DecideReplays ==
  ASSUME IInv, ReplayOK, NEW t \in Tasks, NEW owner \in Owner, NEW q \in Quotes, NEW l,
         Decide(t, owner, q, l)
  PROVE  ReplayOK'
<1> DEFINE exec == Acquired(owner, q)
           counted == [exec EXCEPT !.attempts = @ + 1]
<1>1. execution \in [Quotes -> Execution \cup {NoExecution}]
  BY DEF IInv, TypeOK
<1>2. exec.status = "escalated" => exec.code = "purchase_needs_support"
  BY DEF ReplayOK, Acquired, NewExecution
<1>3. CASE ~Owned(quote, owner, q)
  <2>1. reply' = Says("gate", q, "quote_not_found") /\ execution' = execution
    BY <1>3 DEF Decide, Ends
  <2> QED BY <2>1 DEF ReplayOK, Says
<1>4. CASE Owned(quote, owner, q) /\ IsTerminal(exec.status)
  <2>1. /\ reply' = Says("replay", q, IF exec.status = "succeeded" THEN "none" ELSE ReplayError(exec.code))
        /\ execution' = [execution EXCEPT ![q] = exec]
    BY <1>4 DEF Decide, Ends
  <2> HIDE DEF exec
  <2>2. execution'[q] = exec /\ \A r \in Quotes \ {q} : execution'[r] = execution[r]
    BY <1>1, <2>1
  <2>3. /\ reply'.quote = q
        /\ reply'.code = IF exec.status = "succeeded" THEN "none" ELSE ReplayError(exec.code)
    BY <2>1 DEF Says
  <2>4. \A r \in Quotes : execution'[r].status = "escalated" => execution'[r].code = "purchase_needs_support"
    BY <1>2, <2>2 DEF ReplayOK
  <2> QED BY <1>4, <2>2, <2>3, <2>4 DEF ReplayOK
<1>5. CASE Owned(quote, owner, q) /\ ~IsTerminal(exec.status) /\ Gate(quote[q], exec) # "open"
  <2>1. /\ reply' = Says("gate", q, Gate(quote[q], exec))
        /\ execution' = [execution EXCEPT ![q] = exec]
    BY <1>5 DEF Decide, Ends
  <2> HIDE DEF exec
  <2>2. reply'.by # "replay"
    BY <2>1 DEF Says
  <2>3. \A r \in Quotes : execution'[r].status = "escalated" => execution'[r].code = "purchase_needs_support"
    BY <1>1, <1>2, <2>1 DEF ReplayOK
  <2> QED BY <2>2, <2>3 DEF ReplayOK
<1>6. CASE Owned(quote, owner, q) /\ ~IsTerminal(exec.status) /\ Gate(quote[q], exec) = "open"
  <2>1. execution' = [execution EXCEPT ![q] = counted] /\ EnsureFresh(t, owner, q, counted, l)
    BY <1>6 DEF Decide
  <2>2. exec \in Execution
    BY <1>6, AcquiredOK
  <2>3. counted.status = exec.status
    <3>1. PICK x \in Execution : x = exec
      BY <2>2
    <3> HIDE DEF exec
    <3> QED BY <3>1 DEF Execution
  <2> HIDE DEF exec, counted
  <2>4. reply' = Silent
    BY <2>1 DEF EnsureFresh, Ends, Post
  <2>5. execution'[q].status # "escalated" /\ \A r \in Quotes \ {q} : execution'[r] = execution[r]
    BY <1>1, <1>6, <2>1, <2>3 DEF IsTerminal
  <2> QED BY <2>4, <2>5, SilentStep
<1> QED BY <1>3, <1>4, <1>5, <1>6 DEF Decide

\* What an answer is remembered as: the one that escalates asks for support.
LEMMA EscalatedNeedsSupport ==
  ASSUME NEW a, Classify(a).disposition = "escalated"
  PROVE  Classify(a).code = "purchase_needs_support"
  BY DEF Classify, ClassifyFailure, Verdict, Unknown

LEMMA PostReturnsReplays ==
  ASSUME IInv, ReplayOK, NEW t \in Tasks, NEW a \in Answers, PostReturns(t, a)
  PROVE  ReplayOK'
<1>1. PICK q \in Quotes, e \in Execution :
        q = task[t].quote /\ e = task[t].exec
  BY DEF IInv, InFlightOK, InFlight, PostReturns
<1>2. PICK d, c : d = Classify(a).disposition /\ c = Classify(a).code
  OBVIOUS
<1>3. /\ reply' = Silent
      /\ execution' = IF d = "retryable" THEN execution
                      ELSE [execution EXCEPT ![q] = [e EXCEPT !.status = d, !.code = c]]
  BY <1>1, <1>2 DEF PostReturns, Ends
<1>4. d = "escalated" => c = "purchase_needs_support"
  BY <1>2, EscalatedNeedsSupport
<1>5. execution \in [Quotes -> Execution \cup {NoExecution}]
  BY DEF IInv, TypeOK
<1>6. PICK saved : saved = [e EXCEPT !.status = d, !.code = c]
  OBVIOUS
<1>7. saved.status = d /\ saved.code = c
  BY <1>6 DEF Execution
<1>8. \A r \in Quotes : execution'[r] = execution[r] \/ execution'[r] = saved
  BY <1>3, <1>5, <1>6
<1> QED BY <1>3, <1>4, <1>7, <1>8, SilentStep

LEMMA NextReplays == IInv /\ ReplayOK /\ [Next]_vars => ReplayOK'
<1> SUFFICES ASSUME IInv, ReplayOK, [Next]_vars PROVE ReplayOK'
  OBVIOUS
<1>1. ASSUME NEW t \in Tasks, QuoteLockGranted(t) PROVE ReplayOK'
  <2>1. task[t].owner \in Owner /\ task[t].quote \in Quotes
    BY <1>1 DEF IInv, TypeOK, QuoteLockGranted
  <2> QED BY <1>1, <2>1, DecideReplays DEF QuoteLockGranted
<1>2. ASSUME NEW t \in Tasks, NEW k \in Clients, NEW q \in Quotes, Confirm(t, k, q) PROVE ReplayOK'
  <2>1. PICK owner \in Owner : owner = OwnerOf(k, session[k].user)
    BY <1>2 DEF IInv, TypeOK, Confirm, Session, OwnerOf, Owner
  <2>2. CASE IsFree(quoteLock[q])
    BY <1>2, <2>1, <2>2, DecideReplays DEF Confirm
  <2>3. CASE ~IsFree(quoteLock[q])
    BY <1>2, <2>3, SilentStep DEF Confirm
  <2> QED BY <2>2, <2>3
<1>3. ASSUME NEW k \in Clients, Invalidate(k), reply' = Silent PROVE ReplayOK'
  <2>1. \A q \in Quotes : execution'[q] = execution[q] \/ execution'[q] = NoExecution
    BY <1>3 DEF Invalidate
  <2> QED BY <1>3, <2>1, SilentStep DEF NoExecution
<1>4. ASSUME execution' = execution, reply' = Silent PROVE ReplayOK'
  BY <1>4, SilentStep
<1>5. ASSUME NEW t \in Tasks, SessionLockGranted(t) \/ RefreshSucceeds(t) \/ Cancel(t) PROVE ReplayOK'
  BY <1>4, <1>5 DEF SessionLockGranted, RefreshBody, RefreshSucceeds, Cancel, Post, Ends
<1>6. ASSUME NEW t \in Tasks, RefreshFails(t) PROVE ReplayOK'
  <2>1. task[t].owner.client \in Clients
    BY <1>6 DEF IInv, TypeOK, RefreshFails, InFlightOK, InFlight, Owner, Quote
  <2> QED BY <1>3, <1>6, <2>1 DEF RefreshFails, Ends
<1>7. CASE \E t \in Tasks : Step(t) \/ Cancel(t)
  BY <1>1, <1>5, <1>6, <1>7, PostReturnsReplays DEF Step
<1>8. CASE \E k \in Clients : SessionEnds(k)
  BY <1>3, <1>8 DEF SessionEnds
<1>9. CASE \/ \E k \in Clients, u \in Users : SignIn(k, u)
           \/ \E k \in Clients : TokenAges(k)
           \/ \E k \in Clients, q \in Quotes, plan \in Plans, funded \in BOOLEAN : Prepare(k, q, plan, funded)
           \/ \E q \in Quotes : Lapses(q)
           \/ \E k \in Clients, q \in Quotes : CancelPrepared(k, q)
           \/ \E q \in Quotes, key \in Keys, fate \in Fates : PlatformDecides(q, key, fate)
  BY <1>4, <1>9 DEF SignIn, TokenAges, Prepare, Lapses, CancelPrepared, PlatformDecides
<1>10. CASE UNCHANGED vars
  BY <1>10 DEF vars, ReplayOK
<1> QED BY <1>2, <1>7, <1>8, <1>9, <1>10 DEF Next

\* Every request of a quote carried the key of its record, so a failed record
\* speaks for all of them; and no code but a failed record's is replayed as a refusal.
LEMMA RepliesAreTrue == IInv /\ ReplayOK => ReplayTellsTheTruth
<1> SUFFICES ASSUME IInv, ReplayOK, reply.by = "replay"
             PROVE  /\ reply.code = "none" => Charged(reply.quote)
                    /\ reply.code \in DeniesPurchase =>
                         \A key \in posts[reply.quote].keys : ledger[reply.quote][key] = "refused"
  BY DEF ReplayTellsTheTruth
<1>1. PICK q \in Quotes : q = reply.quote
  BY DEF ReplayOK
<1>2. /\ execution[q].status \in {"succeeded", "failed", "escalated"}
      /\ reply.code = IF execution[q].status = "succeeded" THEN "none" ELSE ReplayError(execution[q].code)
      /\ execution[q].status = "escalated" => execution[q].code = "purchase_needs_support"
  BY <1>1 DEF ReplayOK, IsTerminal
<1>3. RecordOK(q) /\ PostsOK(q) /\ LedgerOK(q) /\ MoneyOK(q)
  BY DEF IInv
<1>4. posts[q].keys \subseteq Keys
  BY DEF IInv, TypeOK
<1>5. CASE execution[q].status = "succeeded"
  <2>1. reply.code = "none"
    BY <1>2, <1>5
  <2>2. Charged(q)
    BY <1>3, <1>4, <1>5 DEF MoneyOK, Charged
  <2> QED BY <1>1, <2>1, <2>2 DEF DeniesPurchase
<1>6. CASE execution[q].status = "escalated"
  <2>1. reply.code = "purchase_needs_support"
    BY <1>2, <1>6 DEF ReplayError, Replayable
  <2> QED BY <2>1 DEF DeniesPurchase
<1>7. CASE execution[q].status = "failed"
  <2>1. execution[q] # NoExecution
    BY <1>7 DEF NoExecution
  <2>2. execution[q].key \in Keys
    BY <1>3, <2>1 DEF RecordOK, Execution
  <2>3. execution[q].key \in posts[q].keys /\ ledger[q][execution[q].key] = "refused"
    BY <1>3, <1>7, <2>2 DEF LedgerOK, MoneyOK
  <2>4. \A key \in posts[q].keys : ledger[q][key] = "refused"
    BY <1>3, <2>3 DEF PostsOK
  <2>5. reply.code # "none"
    BY <1>2, <1>7 DEF ReplayError, Replayable
  <2> QED BY <1>1, <2>4, <2>5
<1> QED BY <1>2, <1>5, <1>6, <1>7

\* A repeated confirmation is told "bought" only where the wallet was debited, and
\* "refused" only where every request ever sent for the quote was refused for
\* good, for every answer and every order of calls, cancellations and logouts.
THEOREM ReplaysAreTrue == Spec => []ReplayTellsTheTruth
<1>1. Init => ReplayOK
  BY DEF Init, ReplayOK, NoExecution, Silent, Says
<1> QED BY <1>1, RepliesAreTrue, NextReplays, Invariance, PTL DEF Spec
=============================================================================
