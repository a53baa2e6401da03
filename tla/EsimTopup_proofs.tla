--------------------------- MODULE EsimTopup_proofs ---------------------------
(***************************************************************************)
(* Proofs about confirm_esim_topup, for any number of clients, accounts,   *)
(* quotes and concurrent confirmations and any set of platform answers.    *)
(* The route has no idempotency key, so everything rests on one argument:  *)
(* once a request was sent for a quote, the quote is sealed (it is not     *)
(* active any more, or its record counts the attempt), and the end of a    *)
(* session, which drops the record, takes the quote's activity with it.    *)
(***************************************************************************)
EXTENDS EsimTopup, AsyncLock_proofs

-----------------------------------------------------------------------------
(* The inductive invariant.                                                *)

InFlight == Reads \cup Sending

\* No confirmation will send another request for the quote.
Sealed(q) ==
  quote[q].status = "active" => execution[q].owner = quote[q].owner /\ execution[q].attempts > 0

\* A confirmation past its gates holds its quote's lock, is about a quote of
\* its own, and nobody else has sent or recorded anything for it.
FlightOK(t) ==
  LET q == task[t].quote
      e == task[t].exec
  IN
  /\ lock[q].holder = t
  /\ quote[q].status # "none"
  /\ task[t].owner = quote[q].owner
  /\ e \in Execution /\ e.owner = quote[q].owner /\ e.status = "pending" /\ e.code # "esim_topup_rejected"
  /\ execution[q].status \in {"none", "pending"}
  /\ task[t].pc \in Reads => e.attempts = 0
  /\ task[t].pc \in Sending => e.attempts = 1 /\ Sealed(q)
  /\ task[t].pc # "posting" => sent[q] = 0 /\ ~task[t].done
  /\ task[t].pc = "posting" => sent[q] = 1 /\ late[q] = 0
  /\ task[t].done <=> topups[q] > 0
  /\ task[t].pc \in {"esims", "plans"} => task[t].stood \/ q \notin offered
  /\ task[t].pc \notin {"esims", "plans"} => task[t].stood

\* One request at most, and no further one once it is out.
SentOK(q) ==
  /\ sent[q] <= 1
  /\ quote[q].status = "none" => sent[q] = 0
  /\ sent[q] = 0 => topups[q] = 0 /\ late[q] = 0
  /\ sent[q] > 0 => Sealed(q)

\* What a record says of the money is so, and it is its quote's owner's.
RecordOK(q) ==
  /\ execution[q].status # "none" => /\ quote[q].status # "none"
                                     /\ execution[q].owner = quote[q].owner
  /\ execution[q].status = "failed" => topups[q] = 0 /\ late[q] = 0
  /\ execution[q].status = "succeeded" => topups[q] > 0 /\ quote[q].status = "consumed"
  /\ quote[q].status = "consumed" => topups[q] > 0
  /\ execution[q].code = "esim_topup_rejected" => execution[q].status = "failed"

CallOK(t) ==
  /\ task[t].pc # "idle" => task[t].quote \in Quotes /\ task[t].owner \in Owner
  /\ task[t].pc \in InFlight => FlightOK(t)

IInv ==
  /\ TypeOK
  /\ \A t \in Tasks : CallOK(t)
  /\ \A q \in Quotes : SentOK(q) /\ RecordOK(q)
  /\ AnswerTellsTheTruth

-----------------------------------------------------------------------------
(* Quotes.                                                                 *)

QuoteMap == [Quotes -> Quote \cup {NoQuote}]

\* What may happen to quotes outside a completed top-up: they are created, or
\* cancelled, or lapse.
Moves(old, new) ==
  /\ new \in QuoteMap
  /\ \A r \in Quotes :
       \/ new[r].status = old[r].status /\ new[r].owner = old[r].owner
       \/ old[r].status = "active" /\ new[r].status = "cancelled" /\ new[r].owner = old[r].owner
       \/ old[r].status = "none" /\ new[r].status = "active"

\* Cancelling active quotes moves them as Moves allows.
LEMMA CancellingMoves ==
  ASSUME NEW quotes \in QuoteMap, NEW qs,
         \A r \in qs : r \in Quotes /\ quotes[r].status = "active"
  PROVE  Moves(quotes, Marked(quotes, qs, "cancelled"))
<1> DEFINE new == Marked(quotes, qs, "cancelled")
<1>1. ASSUME NEW r \in Quotes, r \in qs
      PROVE  /\ new[r] \in Quote
             /\ quotes[r].status = "active" /\ new[r].status = "cancelled" /\ new[r].owner = quotes[r].owner
  <2>1. quotes[r] \in Quote
    BY <1>1 DEF QuoteMap, Quote, NoQuote
  <2>2. new[r] = [quotes[r] EXCEPT !.status = "cancelled"]
    BY <1>1 DEF Marked
  <2> QED BY <1>1, <2>1, <2>2 DEF Quote, QuoteStates
<1>2. ASSUME NEW r \in Quotes, r \notin qs
      PROVE  new[r] = quotes[r]
  BY <1>2 DEF Marked
<1>3. new = [r \in Quotes |-> new[r]]
  BY DEF Marked
<1> HIDE DEF new
<1>4. new \in QuoteMap
  BY <1>1, <1>2, <1>3 DEF QuoteMap
<1> QED BY <1>1, <1>2, <1>4 DEF Moves, new

\* Nothing moves.
LEMMA SameMoves ==
  ASSUME NEW quotes \in QuoteMap
  PROVE  Moves(quotes, quotes)
  BY DEF Moves

\* create(), cancel() and invalidate_session() only move quotes that way.
LEMMA CreatedMoves ==
  ASSUME NEW quotes \in QuoteMap, NEW q \in Quotes, quotes[q] = NoQuote,
         NEW owner \in Owner, NEW item \in Items
  PROVE  Moves(quotes, Created(quotes, q, owner, item))
<1> DEFINE kept == Marked(quotes, Superseded(quotes, owner, item), "cancelled")
<1>1. Moves(quotes, kept)
  BY CancellingMoves DEF Superseded, ListActive, Effective
<1> HIDE DEF kept
<1>2. Prepared(owner, item) \in Quote /\ Prepared(owner, item).status = "active"
  BY DEF Prepared, Quote, QuoteStates
<1>3. quotes[q].status = "none"
  BY DEF NoQuote
<1>4. Moves(quotes, [kept EXCEPT ![q] = Prepared(owner, item)])
  BY <1>1, <1>2, <1>3 DEF Moves, QuoteMap
<1> QED BY <1>1, <1>4 DEF Created, kept

LEMMA CancelledMoves ==
  ASSUME NEW quotes \in QuoteMap, NEW q \in Quotes
  PROVE  Moves(quotes, Cancelled(quotes, q))
<1>1. CASE Effective(quotes[q]) = "active"
  BY <1>1, CancellingMoves DEF Cancelled, Effective
<1>2. CASE Effective(quotes[q]) # "active"
  BY <1>2, SameMoves DEF Cancelled
<1> QED BY <1>1, <1>2

LEMMA InvalidatedMoves ==
  ASSUME NEW quotes \in QuoteMap, NEW k \in Clients
  PROVE  /\ Moves(quotes, Invalidated(quotes, k))
         /\ \A r \in Quotes : Invalidated(quotes, k)[r].status = "active" => quotes[r].owner.client # k
<1>1. Moves(quotes, Invalidated(quotes, k))
  BY CancellingMoves DEF Invalidated, Held
<1>2. ASSUME NEW r \in Quotes, Invalidated(quotes, k)[r].status = "active"
      PROVE  quotes[r].owner.client # k
  <2>1. CASE quotes[r] = NoQuote
    BY <1>2, <2>1 DEF Invalidated, Held, Marked, NoQuote
  <2>2. CASE quotes[r] \in Quote
    BY <1>2, <2>2 DEF Invalidated, Held, Marked, Quote
  <2> QED BY <2>1, <2>2 DEF QuoteMap
<1> QED BY <1>1, <1>2

-----------------------------------------------------------------------------
(* Answers.                                                                *)

\* What the classification of an answer may say: "failed" only of a refusal the
\* platform gave a reason for, "nothing was charged" only of "failed".
LEMMA VerdictOK ==
  ASSUME NEW a \in Answers
  PROVE  LET v == ClassifyTopup(a) IN
         /\ v.disposition \in {"succeeded", "failed", "unresolved"}
         /\ v.code \in TopupCodes
         /\ v.disposition = "failed" => IsRefusal(a)
         /\ v.disposition = "succeeded" => a.completed
         /\ ClaimOf(v.code) = "nothing" => v.disposition = "failed"
         /\ ClaimOf(v.code) = "charged" => v.disposition = "succeeded"
         /\ v.code = "esim_topup_rejected" => v.disposition = "failed"
<1> DEFINE v == ClassifyTopup(a)
           OK(w) == /\ w.disposition \in {"succeeded", "failed", "unresolved"}
                    /\ w.code \in TopupCodes
                    /\ w.disposition = "failed" => IsRefusal(a)
                    /\ w.disposition = "succeeded" => a.completed
                    /\ ClaimOf(w.code) = "nothing" => w.disposition = "failed"
                    /\ ClaimOf(w.code) = "charged" => w.disposition = "succeeded"
                    /\ w.code = "esim_topup_rejected" => w.disposition = "failed"
<1>1. OK(TopupUnknown)
  BY DEF TopupUnknown, Verdict, TopupCodes, ClaimOf
<1>2. ASSUME NEW code \in TopupCodes \ {"none", "esim_topup_outcome_unknown"}, IsRefusal(a)
      PROVE  OK(Refused(code))
  BY <1>2 DEF Refused, Verdict, TopupCodes, ClaimOf
<1>3. CASE v = TopupUnknown
  BY <1>1, <1>3
<1>4. CASE a.completed /\ v = Verdict("succeeded", "none")
  BY <1>4 DEF Verdict, TopupCodes, ClaimOf
<1>5. CASE v = ClassifyTopupFailure(a)
  <2>1. CASE v = Refused("authentication_required") /\ a.status \in {401, 403}
    BY <2>1, <1>2 DEF IsRefusal, TopupCodes
  <2>2. CASE v = Refused("esim_topup_rejected") /\ a.status = 404
    BY <2>2, <1>2 DEF IsRefusal, TopupCodes
  <2>3. CASE v = Refused("rate_limited") /\ a.status = 429
    BY <2>3, <1>2 DEF IsRefusal, TopupCodes
  <2>4. CASE v = Refused(TopupBusinessError(a.label)) /\ a.status \in {400, 409, 422} /\ a.parsed
    <3>1. TopupBusinessError(a.label) \in TopupCodes \ {"none", "esim_topup_outcome_unknown"}
      BY DEF TopupBusinessError, TopupCodes
    <3>2. IsRefusal(a)
      BY <2>4 DEF IsRefusal
    <3> QED BY <2>4, <3>1, <3>2, <1>2
  <2> QED BY <1>5, <2>1, <2>2, <2>3, <2>4, <1>3 DEF ClassifyTopupFailure
<1>6. \/ v = TopupUnknown
      \/ a.completed /\ v = Verdict("succeeded", "none")
      \/ v = ClassifyTopupFailure(a)
  BY DEF ClassifyTopup
<1> QED BY <1>3, <1>4, <1>5, <1>6

-----------------------------------------------------------------------------
(* Steps that only move quotes, drop records and end calls.                *)

\* Everything but a confirmation's own step keeps the invariant: quotes move as
\* Moves allows, a record goes only with its quote's activity, the platform
\* does nothing, and a call goes on as it was, or ends, or starts to wait.
LEMMA EnvStep ==
  ASSUME IInv, TypeOK', AnswerTellsTheTruth', Moves(quote, quote'), offered' \subseteq offered,
         UNCHANGED <<late, topups, sent>>,
         \A q \in Quotes : \/ execution'[q] = execution[q]
                           \/ execution'[q] = NoExecution /\ quote'[q].status # "active",
         \A t \in Tasks : \/ /\ task'[t] = task[t]
                             /\ task[t].pc \in InFlight => lock'[task[t].quote].holder = t
                          \/ task'[t].pc = "idle"
                          \/ task'[t].pc = "waiting" /\ task'[t].quote \in Quotes /\ task'[t].owner \in Owner
  PROVE  IInv'
<1>1. ASSUME NEW q \in Quotes
      PROVE  SentOK(q)' /\ RecordOK(q)' /\ (Sealed(q) /\ quote[q].status # "none" => Sealed(q)')
  <2>1. SentOK(q) /\ RecordOK(q)
    BY DEF IInv
  <2>2. \/ quote'[q].status = quote[q].status /\ quote'[q].owner = quote[q].owner
        \/ quote[q].status = "active" /\ quote'[q].status = "cancelled" /\ quote'[q].owner = quote[q].owner
        \/ quote[q].status = "none" /\ quote'[q].status = "active"
    BY DEF Moves
  <2>3. \/ execution'[q] = execution[q]
        \/ execution'[q] = NoExecution /\ quote'[q].status # "active"
    OBVIOUS
  <2>4. Sealed(q) /\ quote[q].status # "none" => Sealed(q)'
    BY <2>2, <2>3 DEF Sealed
  <2>5. SentOK(q)'
    BY <2>1, <2>2, <2>4 DEF SentOK
  <2>6. RecordOK(q)'
    BY <2>1, <2>2, <2>3 DEF RecordOK, NoExecution
  <2> QED BY <2>4, <2>5, <2>6
<1>2. ASSUME NEW t \in Tasks, task'[t].pc \in InFlight
      PROVE  FlightOK(t)'
  <2>1. task'[t] = task[t] /\ lock'[task[t].quote].holder = t
    BY <1>2 DEF InFlight, Reads, Sending
  <2>2. FlightOK(t) /\ task[t].quote \in Quotes
    BY <1>2, <2>1 DEF IInv, CallOK, InFlight, Reads, Sending
  <2>0. PICK q \in Quotes : q = task[t].quote
    BY <2>2
  <2>3. quote[q].status # "none"
    BY <2>0, <2>2 DEF FlightOK
  <2>4. Sealed(q) => Sealed(q)'
    BY <2>3, <1>1
  <2>5. quote'[q].status # "none" /\ quote'[q].owner = quote[q].owner
    BY <2>3 DEF Moves
  <2>6. execution'[q].status \in {"none", "pending"}
    BY <2>0, <2>2 DEF FlightOK, NoExecution
  <2> QED BY <2>0, <2>1, <2>2, <2>4, <2>5, <2>6 DEF FlightOK
<1>3. ASSUME NEW t \in Tasks PROVE CallOK(t)'
  <2>1. task'[t].pc # "idle" => task'[t].quote \in Quotes /\ task'[t].owner \in Owner
    BY DEF IInv, CallOK
  <2> QED BY <2>1, <1>2 DEF CallOK
<1> QED BY <1>1, <1>3 DEF IInv

\* Nothing is claimed where no answer is given.
LEMMA SilenceIsTrue == reply' \in {Silent} => AnswerTellsTheTruth'
  BY DEF AnswerTellsTheTruth, Silent, Says

\* The calls and their locks as they were.
LEMMA CallsGoOn ==
  ASSUME IInv, UNCHANGED calls
  PROVE  \A t \in Tasks : task'[t] = task[t] /\ (task[t].pc \in InFlight => lock'[task[t].quote].holder = t)
  BY DEF IInv, CallOK, FlightOK, calls

LEMMA SignInStep ==
  ASSUME IInv, NEW k \in Clients, NEW u \in Users, SignIn(k, u)
  PROVE  IInv'
<1>1. TypeOK'
  BY DEF IInv, TypeOK, SignIn, stores, calls, platform
<1>2. Moves(quote, quote')
  BY SameMoves DEF IInv, TypeOK, SignIn, stores, QuoteMap
<1> QED BY <1>1, <1>2, EnvStep, CallsGoOn, SilenceIsTrue DEF SignIn, stores, platform

LEMMA PrepareStartsStep ==
  ASSUME IInv, NEW k \in Clients, PrepareStarts(k)
  PROVE  IInv'
<1>1. TypeOK'
  BY DEF IInv, TypeOK, PrepareStarts, OwnerOf, Owner, calls, platform
<1>2. Moves(quote, quote')
  BY SameMoves DEF IInv, TypeOK, PrepareStarts, QuoteMap
<1> QED BY <1>1, <1>2, EnvStep, CallsGoOn, SilenceIsTrue DEF PrepareStarts, platform

LEMMA PreparesStep ==
  ASSUME IInv, NEW owner \in Owner, NEW q \in Quotes, NEW item \in Items, Prepares(owner, q, item)
  PROVE  IInv'
<1>1. Moves(quote, quote')
  BY CreatedMoves DEF IInv, TypeOK, Prepares, QuoteMap
<1>2. TypeOK'
  BY <1>1 DEF IInv, TypeOK, Prepares, Moves, QuoteMap, calls
<1> QED BY <1>1, <1>2, EnvStep, CallsGoOn, SilenceIsTrue DEF Prepares

LEMMA PrepareFailsStep ==
  ASSUME IInv, NEW owner \in Owner, PrepareFails(owner)
  PROVE  IInv'
<1>1. TypeOK'
  BY DEF IInv, TypeOK, PrepareFails, calls, platform
<1>2. Moves(quote, quote')
  BY SameMoves DEF IInv, TypeOK, PrepareFails, QuoteMap
<1> QED BY <1>1, <1>2, EnvStep, CallsGoOn, SilenceIsTrue DEF PrepareFails, platform

LEMMA LapsesStep ==
  ASSUME IInv, NEW q \in Quotes, Lapses(q)
  PROVE  IInv'
<1>1. quote[q] \in Quote
  BY DEF IInv, TypeOK, Lapses, Effective, Quote, NoQuote
<1>2. Moves(quote, quote')
  BY <1>1 DEF IInv, TypeOK, Lapses, Moves, QuoteMap, Quote
<1>3. TypeOK'
  BY <1>2 DEF IInv, TypeOK, Lapses, Moves, QuoteMap, calls, platform
<1> QED BY <1>2, <1>3, EnvStep, CallsGoOn, SilenceIsTrue DEF Lapses, platform

LEMMA ReadBackStep ==
  ASSUME IInv, NEW k \in Clients, NEW q \in Quotes, ReadBack(k, q)
  PROVE  IInv'
<1>1. reply' \in Reply /\ AnswerTellsTheTruth'
  BY DEF ReadBack, ReadBackClaim, Says, Reply, Claims, AnswerTellsTheTruth
<1>2. TypeOK'
  BY <1>1 DEF IInv, TypeOK, ReadBack, stores, calls, platform
<1>3. Moves(quote, quote')
  BY SameMoves DEF IInv, TypeOK, ReadBack, stores, QuoteMap
<1> QED BY <1>1, <1>2, <1>3, EnvStep, CallsGoOn DEF ReadBack, stores, platform

LEMMA CancelPreparedStep ==
  ASSUME IInv, NEW k \in Clients, NEW q \in Quotes, CancelPrepared(k, q)
  PROVE  IInv'
<1>1. reply' \in Reply /\ AnswerTellsTheTruth'
  BY DEF CancelPrepared, Says, Reply, Claims, AnswerTellsTheTruth
<1>2. Moves(quote, quote')
  BY CancelledMoves DEF IInv, TypeOK, CancelPrepared, QuoteMap
<1>3. TypeOK'
  BY <1>1, <1>2 DEF IInv, TypeOK, CancelPrepared, Moves, QuoteMap, calls, platform
<1> QED BY <1>1, <1>2, <1>3, EnvStep, CallsGoOn DEF CancelPrepared, platform

\* The end of a session drops a record only with its quote's activity.
LEMMA InvalidateFacts ==
  ASSUME IInv, NEW k \in Clients, Invalidate(k)
  PROVE  /\ session' \in [Clients -> Users \cup {None}]
         /\ Moves(quote, quote')
         /\ execution' \in [Quotes -> Execution \cup {NoExecution}]
         /\ \A q \in Quotes : \/ execution'[q] = execution[q]
                              \/ execution'[q] = NoExecution /\ quote'[q].status # "active"
<1>1. Moves(quote, quote') /\ \A q \in Quotes : quote'[q].status = "active" => quote[q].owner.client # k
  BY InvalidatedMoves DEF IInv, TypeOK, Invalidate, QuoteMap
<1>2. ASSUME NEW q \in Quotes
      PROVE  \/ execution'[q] = execution[q]
             \/ execution'[q] = NoExecution /\ quote'[q].status # "active"
  <2>1. CASE execution[q].owner.client = k
    <3>1. execution[q] # NoExecution
      BY <2>1, EsimTopupAssumption DEF NoExecution, NoOwner
    <3>2. execution[q].status # "none"
      BY <3>1 DEF IInv, TypeOK, Execution
    <3>3. quote[q].owner.client = k
      BY <2>1, <3>2 DEF IInv, RecordOK
    <3> QED BY <1>1, <2>1, <3>3 DEF Invalidate
  <2>2. CASE execution[q].owner.client # k
    BY <2>2 DEF Invalidate
  <2> QED BY <2>1, <2>2
<1>3. session' \in [Clients -> Users \cup {None}]
  BY DEF IInv, TypeOK, Invalidate
<1>4. execution' \in [Quotes -> Execution \cup {NoExecution}]
  BY DEF IInv, TypeOK, Invalidate
<1> QED BY <1>1, <1>2, <1>3, <1>4

LEMMA SessionEndsStep ==
  ASSUME IInv, NEW k \in Clients, SessionEnds(k)
  PROVE  IInv'
<1>1. Invalidate(k)
  BY DEF SessionEnds
<1>2. TypeOK'
  BY <1>1, InvalidateFacts DEF IInv, TypeOK, SessionEnds, Moves, QuoteMap, calls, platform
<1> QED BY <1>1, <1>2, InvalidateFacts, EnvStep, CallsGoOn, SilenceIsTrue DEF SessionEnds, platform

\* Several calls are never past the gates of one quote.
LEMMA HolderIsAlone ==
  ASSUME IInv, NEW t \in Tasks, NEW u \in Tasks, task[u].pc \in InFlight,
         lock[task[u].quote].holder \in {t, Nobody}
  PROVE  u = t
  BY EsimTopupAssumption DEF IInv, CallOK, FlightOK

-----------------------------------------------------------------------------
(* A confirmation's own steps.                                             *)

\* Only call t and the records of quote q change.
OnlyTouches(t, q) ==
  /\ offered' = offered
  /\ \A u \in Tasks : u # t => task'[u] = task[u]
  /\ \A r \in Quotes : r # q => /\ lock'[r] = lock[r] /\ quote'[r] = quote[r]
                                /\ execution'[r] = execution[r] /\ late'[r] = late[r]
                                /\ topups'[r] = topups[r] /\ sent'[r] = sent[r]

\* A call in or at the door of its quote's lock keeps the invariant when it
\* does so for itself and its quote.
LEMMA HolderStep ==
  ASSUME IInv, NEW t \in Tasks, NEW q \in Quotes, lock[q].holder \in {t, Nobody},
         OnlyTouches(t, q), TypeOK', AnswerTellsTheTruth', CallOK(t)', SentOK(q)', RecordOK(q)'
  PROVE  IInv'
<1>1. ASSUME NEW u \in Tasks PROVE CallOK(u)'
  <2>1. CASE u = t
    BY <2>1
  <2>2. CASE u # t
    <3>1. task'[u] = task[u] /\ CallOK(u)
      BY <2>2 DEF OnlyTouches, IInv
    <3>2. ASSUME task[u].pc \in InFlight PROVE FlightOK(u)'
      <4>1. PICK r \in Quotes : r = task[u].quote
        BY <3>1, <3>2 DEF CallOK, InFlight, Reads, Sending
      <4>2. FlightOK(u)
        BY <3>1, <3>2 DEF CallOK
      <4>3. r # q
        BY <2>2, <4>1, <4>2, EsimTopupAssumption DEF FlightOK
      <4>4. /\ lock'[r] = lock[r] /\ quote'[r] = quote[r] /\ execution'[r] = execution[r]
            /\ late'[r] = late[r] /\ topups'[r] = topups[r] /\ sent'[r] = sent[r] /\ offered' = offered
        BY <4>3 DEF OnlyTouches
      <4>5. Sealed(r) <=> Sealed(r)'
        BY <4>4 DEF Sealed
      <4> QED BY <3>1, <4>1, <4>2, <4>4, <4>5 DEF FlightOK
    <3> QED BY <3>1, <3>2 DEF CallOK
  <2> QED BY <2>1, <2>2
<1>2. ASSUME NEW r \in Quotes PROVE SentOK(r)' /\ RecordOK(r)'
  <2>1. CASE r = q
    BY <2>1
  <2>2. CASE r # q
    <3>1. /\ quote'[r] = quote[r] /\ execution'[r] = execution[r]
          /\ late'[r] = late[r] /\ topups'[r] = topups[r] /\ sent'[r] = sent[r]
      BY <2>2 DEF OnlyTouches
    <3>2. SentOK(r) /\ RecordOK(r)
      BY DEF IInv
    <3> QED BY <3>1, <3>2 DEF SentOK, RecordOK, Sealed
  <2> QED BY <2>1, <2>2
<1> QED BY <1>1, <1>2 DEF IInv

\* What is known of the quote a call past its gates works on.
LEMMA FlightFacts ==
  ASSUME IInv, NEW t \in Tasks, task[t].pc \in InFlight
  PROVE  /\ task[t].quote \in Quotes /\ task[t].owner \in Owner /\ task[t] \in Task
         /\ FlightOK(t) /\ SentOK(task[t].quote) /\ RecordOK(task[t].quote)
         /\ lock[task[t].quote] \in LockType(Tasks)
  BY DEF IInv, CallOK, TypeOK, InFlight, Reads, Sending

\* Giving up the lock leaves a lock, and the call is idle.
LEMMA EndsType ==
  ASSUME TypeOK, NEW t \in Tasks, NEW q \in Quotes, NEW l \in LockType(Tasks), NEW says, Ends(t, q, l, says)
  PROVE  /\ lock' \in [Quotes -> LockType(Tasks)] /\ \A r \in Quotes : r # q => lock'[r] = lock[r]
         /\ task' \in [Tasks -> Task] /\ task'[t].pc = "idle" /\ CallOK(t)'
         /\ \A u \in Tasks : u # t => task'[u] = task[u]
         /\ reply' = says
<1>1. Idle \in Task /\ Idle.pc = "idle"
  BY DEF Idle, Doing, Task
<1>2. Leave(l) \in LockType(Tasks)
  BY LeaveType
<1>3. task' = [task EXCEPT ![t] = Idle] /\ lock' = [lock EXCEPT ![q] = Leave(l)] /\ reply' = says
  BY DEF Ends, Become
<1>4. task'[t] = Idle /\ task' \in [Tasks -> Task] /\ \A u \in Tasks : u # t => task'[u] = task[u]
  BY <1>1, <1>3 DEF TypeOK
<1>5. lock' \in [Quotes -> LockType(Tasks)] /\ \A r \in Quotes : r # q => lock'[r] = lock[r]
  BY <1>2, <1>3 DEF TypeOK
<1>6. CallOK(t)'
  BY <1>1, <1>4 DEF CallOK, InFlight, Reads, Sending
<1> QED BY <1>1, <1>3, <1>4, <1>5, <1>6

\* A call that goes on.
LEMMA BecomeType ==
  ASSUME TypeOK, NEW t \in Tasks, NEW d \in Task, Become(t, d)
  PROVE  /\ task' \in [Tasks -> Task] /\ task'[t] = d
         /\ \A u \in Tasks : u # t => task'[u] = task[u]
  BY DEF TypeOK, Become

\* What does not change stays right.
LEMMA SameRecords ==
  ASSUME IInv, NEW q \in Quotes,
         quote'[q] = quote[q], execution'[q] = execution[q],
         late'[q] = late[q], topups'[q] = topups[q], sent'[q] = sent[q]
  PROVE  SentOK(q)' /\ RecordOK(q)' /\ (Sealed(q) <=> Sealed(q)')
  BY DEF IInv, SentOK, RecordOK, Sealed

\* The record acquire() hands out is the stored one, or a new one where none is.
LEMMA AcquiredFacts ==
  ASSUME IInv, NEW owner \in Owner, NEW q \in Quotes, Owned(quote, owner, q)
  PROVE  LET e == Acquired(owner, q) IN
         /\ e \in Execution /\ e.owner = owner /\ owner = quote[q].owner /\ quote[q].status # "none"
         /\ e = execution[q] \/ (e = NewExecution(owner) /\ execution[q].owner # owner)
<1>1. owner = quote[q].owner /\ quote[q].status # "none"
  BY DEF Owned
<1>2. execution[q] \in Execution \cup {NoExecution}
  BY DEF IInv, TypeOK
<1>3. NoExecution.owner # owner
  BY EsimTopupAssumption DEF NoExecution, NoOwner, Owner
<1>4. CASE execution[q].owner = owner
  BY <1>1, <1>2, <1>3, <1>4 DEF Acquired
<1>5. CASE execution[q].owner # owner
  <2>1. NewExecution(owner) \in Execution /\ NewExecution(owner).owner = owner
    BY DEF NewExecution, Execution, TopupCodes
  <2> QED BY <1>1, <1>5, <2>1 DEF Acquired
<1> QED BY <1>4, <1>5

\* Storing that record changes nothing anyone relies on.
LEMMA StoredFacts ==
  ASSUME IInv, NEW owner \in Owner, NEW q \in Quotes, Owned(quote, owner, q),
         execution' = [execution EXCEPT ![q] = Acquired(owner, q)],
         UNCHANGED <<quote, late, topups, sent>>
  PROVE  /\ SentOK(q)' /\ RecordOK(q)' /\ execution'[q] = Acquired(owner, q)
         /\ execution' \in [Quotes -> Execution \cup {NoExecution}]
         /\ \A r \in Quotes : r # q => execution'[r] = execution[r]
<1>1. PICK e : e = Acquired(owner, q)
  OBVIOUS
<1>2. /\ e \in Execution /\ e.owner = owner /\ owner = quote[q].owner /\ quote[q].status # "none"
      /\ e = execution[q] \/ (e = NewExecution(owner) /\ execution[q].owner # owner)
  BY <1>1, AcquiredFacts
<1>3. /\ execution'[q] = e /\ execution' \in [Quotes -> Execution \cup {NoExecution}]
      /\ \A r \in Quotes : r # q => execution'[r] = execution[r]
  BY <1>1, <1>2 DEF IInv, TypeOK
<1>4. CASE e = execution[q]
  BY <1>1, <1>3, <1>4, SameRecords
<1>5. CASE e = NewExecution(owner) /\ execution[q].owner # owner
  <2>1. SentOK(q) /\ RecordOK(q)
    BY DEF IInv
  <2>2. Sealed(q) => quote[q].status # "active"
    BY <1>2, <1>5 DEF Sealed
  <2>3. SentOK(q)'
    BY <2>1, <2>2 DEF SentOK, Sealed
  <2>4. RecordOK(q)'
    BY <1>2, <1>3, <1>5, <2>1 DEF RecordOK, NewExecution
  <2> QED BY <1>1, <1>3, <2>3, <2>4
<1> QED BY <1>2, <1>4, <1>5

LEMMA DecideStep ==
  ASSUME IInv, NEW t \in Tasks, NEW owner \in Owner, NEW q \in Quotes, NEW l \in LockType(Tasks),
         l.holder = t, lock[q].holder \in {t, Nobody}, Decide(t, owner, q, l),
         UNCHANGED <<session, preparing, quote, platform, sent>>
  PROVE  IInv'
<1>0. TypeOK
  BY DEF IInv
<1>1. CASE ~Owned(quote, owner, q) /\ Ends(t, q, l, Silent) /\ UNCHANGED execution
  <2>1. TypeOK'
    BY <1>0, <1>1, EndsType DEF TypeOK, platform
  <2>2. OnlyTouches(t, q) /\ CallOK(t)' /\ AnswerTellsTheTruth'
    BY <1>0, <1>1, EndsType, SilenceIsTrue DEF OnlyTouches, platform
  <2>3. SentOK(q)' /\ RecordOK(q)'
    BY <1>1, SameRecords DEF platform
  <2> QED BY <2>1, <2>2, <2>3, HolderStep
<1>2. ASSUME Owned(quote, owner, q), execution' = [execution EXCEPT ![q] = Acquired(owner, q)],
             NEW says \in Reply \cup {Silent}, Ends(t, q, l, says),
             reply' = says => AnswerTellsTheTruth'
      PROVE  IInv'
  <2>1. /\ SentOK(q)' /\ RecordOK(q)'
        /\ execution' \in [Quotes -> Execution \cup {NoExecution}]
        /\ \A r \in Quotes : r # q => execution'[r] = execution[r]
    BY <1>2, StoredFacts DEF platform
  <2>2. /\ lock' \in [Quotes -> LockType(Tasks)] /\ \A r \in Quotes : r # q => lock'[r] = lock[r]
        /\ task' \in [Tasks -> Task] /\ CallOK(t)' /\ \A u \in Tasks : u # t => task'[u] = task[u]
        /\ reply' = says
    BY <1>0, <1>2, EndsType
  <2>3. TypeOK'
    BY <1>0, <1>2, <2>1, <2>2 DEF TypeOK, platform
  <2>4. OnlyTouches(t, q)
    BY <2>1, <2>2 DEF OnlyTouches, platform
  <2> QED BY <1>2, <2>1, <2>2, <2>3, <2>4, HolderStep
<1>3. CASE /\ Owned(quote, owner, q) /\ Attempted(Acquired(owner, q))
           /\ execution' = [execution EXCEPT ![q] = Acquired(owner, q)]
           /\ Ends(t, q, l, Says("replay", q, ReplayClaim(Acquired(owner, q))))
  <2>1. PICK e : e = Acquired(owner, q)
    OBVIOUS
  <2>2. /\ e \in Execution
        /\ e = execution[q] \/ (e = NewExecution(owner) /\ execution[q].owner # owner)
    BY <1>3, <2>1, AcquiredFacts
  <2>3. e = execution[q]
    BY <1>3, <2>1, <2>2 DEF NewExecution, Attempted, IsTerminal
  <2>4. RecordOK(q)
    BY DEF IInv
  <2>5. /\ ReplayClaim(e) \in Claims
        /\ ReplayClaim(e) = "nothing" => e.code = "esim_topup_rejected"
        /\ ReplayClaim(e) = "charged" => e.status = "succeeded"
    <3>1. CASE e.status = "succeeded"
      BY <3>1 DEF ReplayClaim, Claims
    <3>2. CASE e.status # "succeeded" /\ IsTerminal(e.status)
      BY <3>2 DEF ReplayClaim, Claims, ClaimOf, ReplayTopupError
    <3>3. CASE e.status # "succeeded" /\ ~IsTerminal(e.status)
      BY <3>3 DEF ReplayClaim, Claims
    <3> QED BY <3>1, <3>2, <3>3
  <2>6. /\ ReplayClaim(e) = "nothing" => topups[q] = 0 /\ late[q] = 0
        /\ ReplayClaim(e) = "charged" => topups[q] > 0
    BY <2>3, <2>4, <2>5 DEF RecordOK
  <2>7. Says("replay", q, ReplayClaim(e)) \in Reply
    BY <2>5 DEF Says, Reply
  <2>8. reply' = Says("replay", q, ReplayClaim(e)) => AnswerTellsTheTruth'
    BY <2>6 DEF Says, AnswerTellsTheTruth, platform
  <2> QED BY <1>2, <1>3, <2>1, <2>7, <2>8
<1>4. CASE /\ Owned(quote, owner, q)
           /\ execution' = [execution EXCEPT ![q] = Acquired(owner, q)]
           /\ Ends(t, q, l, Says("gate", q, "nothing"))
  <2>1. Says("gate", q, "nothing") \in Reply
    BY DEF Says, Reply, Claims
  <2>2. reply' = Says("gate", q, "nothing") => AnswerTellsTheTruth'
    BY DEF Says, AnswerTellsTheTruth
  <2> QED BY <1>2, <1>4, <2>1, <2>2
<1>5. CASE /\ Owned(quote, owner, q) /\ ~Attempted(Acquired(owner, q))
           /\ Effective(quote[q]) = "active"
           /\ execution' = [execution EXCEPT ![q] = Acquired(owner, q)]
           /\ StartReading(t, owner, q, Acquired(owner, q), l)
  <2>1. CASE Ends(t, q, l, Silent)
    BY <1>2, <1>5, <2>1, SilenceIsTrue
  <2>2. ASSUME lock' = [lock EXCEPT ![q] = l],
               Become(t, Doing("esims", owner, q, Acquired(owner, q), q \in offered)),
               reply' = Silent
        PROVE  IInv'
    <3>1. PICK e : e = Acquired(owner, q)
      OBVIOUS
    <3>2. /\ e \in Execution /\ e.owner = owner /\ owner = quote[q].owner /\ quote[q].status # "none"
          /\ e = execution[q] \/ (e = NewExecution(owner) /\ execution[q].owner # owner)
      BY <1>5, <3>1, AcquiredFacts
    <3>3. /\ SentOK(q)' /\ RecordOK(q)' /\ execution'[q] = e
          /\ execution' \in [Quotes -> Execution \cup {NoExecution}]
          /\ \A r \in Quotes : r # q => execution'[r] = execution[r]
      BY <1>5, <3>1, StoredFacts DEF platform
    <3>4. e.attempts = 0 /\ e.status = "pending" /\ quote[q].status = "active"
      BY <1>5, <3>1, <3>2 DEF Attempted, IsTerminal, Execution, Effective
    <3>5. sent[q] = 0 /\ topups[q] = 0
      <4>1. SentOK(q) /\ sent[q] \in Nat
        BY <1>0 DEF IInv, TypeOK
      <4>2. ~Sealed(q)
        BY <3>2, <3>4 DEF Sealed
      <4> QED BY <4>1, <4>2 DEF SentOK
    <3>6. PICK d : d = Doing("esims", owner, q, e, q \in offered)
      OBVIOUS
    <3>7. /\ d \in Task /\ d.pc = "esims" /\ d.owner = owner /\ d.quote = q /\ d.exec = e
          /\ d.stood = (q \in offered) /\ d.done = FALSE
      BY <3>2, <3>6 DEF Doing, Task, Reads
    <3>17. (d.stood \/ q \notin offered) /\ ~d.done
      BY <3>7, Zenon
    <3>8. /\ task' \in [Tasks -> Task] /\ task'[t] = d
          /\ \A u \in Tasks : u # t => task'[u] = task[u]
      BY <1>0, <2>2, <3>1, <3>6, <3>7, BecomeType
    <3>9. /\ lock' \in [Quotes -> LockType(Tasks)] /\ lock'[q] = l
          /\ \A r \in Quotes : r # q => lock'[r] = lock[r]
      BY <1>0, <2>2 DEF TypeOK
    <3>10. e.code # "esim_topup_rejected"
      BY <3>3, <3>4 DEF RecordOK
    <3>14. sent'[q] = 0 /\ ~(topups'[q] > 0) /\ offered' = offered /\ quote'[q] = quote[q]
      BY <3>5 DEF platform
    <3>15. execution'[q].status \in {"none", "pending"} /\ lock'[q].holder = t
      BY <3>3, <3>4, <3>9
    <3>16. FlightOK(t)'
      BY <3>2, <3>4, <3>7, <3>8, <3>10, <3>14, <3>15, <3>17 DEF FlightOK, Reads, Sending
    <3>11. CallOK(t)'
      BY <3>7, <3>8, <3>16 DEF CallOK
    <3>12. TypeOK'
      BY <1>0, <2>2, <3>3, <3>8, <3>9 DEF TypeOK, platform
    <3>13. OnlyTouches(t, q)
      BY <3>3, <3>8, <3>9 DEF OnlyTouches, platform
    <3> QED BY <2>2, <3>3, <3>11, <3>12, <3>13, HolderStep, SilenceIsTrue
  <2> QED BY <1>5, <2>1, <2>2 DEF StartReading
<1> QED BY <1>1, <1>3, <1>4, <1>5 DEF Decide

LEMMA ConfirmStep ==
  ASSUME IInv, NEW t \in Tasks, NEW k \in Clients, NEW q \in Quotes, Confirm(t, k, q)
  PROVE  IInv'
<1>1. PICK owner \in Owner : owner = OwnerOf(k, session[k])
  BY DEF IInv, TypeOK, Confirm, OwnerOf, Owner
<1>2. lock[q] \in LockType(Tasks)
  BY DEF IInv, TypeOK
<1>3. CASE IsFree(lock[q]) /\ Decide(t, owner, q, Enter(lock[q], t))
  <2>1. Enter(lock[q], t) \in LockType(Tasks) /\ Enter(lock[q], t).holder = t
    BY <1>2, <1>3, EnterType
  <2> QED BY <1>3, <2>1, DecideStep DEF Confirm, IsFree
<1>4. CASE /\ ~IsFree(lock[q])
           /\ lock' = [lock EXCEPT ![q] = Enter(@, t)]
           /\ Become(t, Doing("waiting", owner, q, NoExecution, FALSE))
           /\ reply' = Silent
           /\ UNCHANGED execution
  <2>1. Enter(lock[q], t) \in LockType(Tasks) /\ Enter(lock[q], t).holder = lock[q].holder
    BY <1>2, <1>4, EnterType
  <2>2. /\ lock' \in [Quotes -> LockType(Tasks)]
        /\ \A r \in Quotes : lock'[r].holder = lock[r].holder
    BY <1>4, <2>1 DEF IInv, TypeOK
  <2>3. PICK d : d = Doing("waiting", owner, q, NoExecution, FALSE)
    OBVIOUS
  <2>4. d \in Task /\ d.pc = "waiting" /\ d.quote = q /\ d.owner = owner
    BY <2>3 DEF Doing, Task
  <2>5. /\ task' \in [Tasks -> Task] /\ task'[t] = d
        /\ \A u \in Tasks : u # t => task'[u] = task[u]
    BY <1>4, <2>3, <2>4, BecomeType DEF IInv
  <2>6. TypeOK'
    BY <1>4, <2>2, <2>5 DEF IInv, TypeOK, Confirm, platform
  <2>7. Moves(quote, quote')
    BY SameMoves DEF IInv, TypeOK, Confirm, QuoteMap
  <2>8. ASSUME NEW u \in Tasks, u # t
        PROVE  task'[u] = task[u] /\ (task[u].pc \in InFlight => lock'[task[u].quote].holder = u)
    BY <2>2, <2>5, <2>8, FlightFacts DEF FlightOK
  <2>9. task'[t].pc = "waiting" /\ task'[t].quote \in Quotes /\ task'[t].owner \in Owner
    BY <2>4, <2>5
  <2> QED BY <1>4, <2>6, <2>7, <2>8, <2>9, EnvStep, SilenceIsTrue DEF Confirm, platform
<1> QED BY <1>1, <1>3, <1>4 DEF Confirm

LEMMA LockGrantedStep ==
  ASSUME IInv, NEW t \in Tasks, LockGranted(t)
  PROVE  IInv'
<1>1. task[t].quote \in Quotes /\ task[t].owner \in Owner
  BY DEF IInv, CallOK, LockGranted
<1>2. lock[task[t].quote] \in LockType(Tasks)
  BY <1>1 DEF IInv, TypeOK
<1> QED BY <1>1, <1>2, DecideStep DEF LockGranted

\* A call that ends without having sent anything more, and stores nothing.
LEMMA ReadFailsStep ==
  ASSUME IInv, NEW t \in Tasks, ReadFails(t)
  PROVE  IInv'
<1>1. task[t].pc \in InFlight /\ TypeOK
  BY DEF ReadFails, InFlight, IInv
<1>2. PICK q \in Quotes : q = task[t].quote
  BY <1>1, FlightFacts
<1>3. FlightOK(t) /\ SentOK(q) /\ lock[q] \in LockType(Tasks)
  BY <1>1, <1>2, FlightFacts
<1>4. Says("answer", q, "nothing") \in Reply
  BY DEF Says, Reply, Claims
<1>5. Ends(t, q, lock[q], Says("answer", q, "nothing"))
  BY <1>2 DEF ReadFails
<1>6. TypeOK'
  BY <1>1, <1>3, <1>4, <1>5, EndsType DEF TypeOK, ReadFails, stores, platform
<1>7. OnlyTouches(t, q) /\ CallOK(t)' /\ reply' = Says("answer", q, "nothing")
  BY <1>1, <1>3, <1>5, EndsType DEF OnlyTouches, ReadFails, stores, platform
<1>8. SentOK(q)' /\ RecordOK(q)'
  BY SameRecords DEF ReadFails, stores, platform
<1>9. topups[q] = 0 /\ late[q] = 0
  <2>1. task[t].pc # "posting"
    BY DEF ReadFails, Reads
  <2> QED BY <1>2, <1>3, <2>1 DEF FlightOK, SentOK
<1>10. AnswerTellsTheTruth'
  BY <1>7, <1>9 DEF AnswerTellsTheTruth, Says, ReadFails, platform
<1>11. lock[q].holder \in {t, Nobody}
  BY <1>2, <1>3 DEF FlightOK
<1> QED BY <1>6, <1>7, <1>8, <1>10, <1>11, HolderStep

\* A call that goes on to its next read, or sends its request, with the record
\* and the platform left as they are.
LEMMA OnwardStep ==
  ASSUME IInv, NEW t \in Tasks, NEW d \in Task, task[t].pc \in InFlight, d.pc \in InFlight,
         Become(t, d), reply' = Silent,
         UNCHANGED <<session, preparing, quote, execution, lock, platform>>,
         d.owner = task[t].owner, d.quote = task[t].quote, d.exec = task[t].exec,
         d.done = task[t].done, d.stood = task[t].stood,
         \/ d.pc \in Reads /\ task[t].pc \in Reads /\ UNCHANGED sent
         \/ d.pc = "posting" /\ task[t].pc = "ensuring" /\ sent' = [sent EXCEPT ![task[t].quote] = @ + 1],
         d.pc \notin {"esims", "plans"} => task[t].stood
  PROVE  IInv'
<1>1. PICK q \in Quotes : q = task[t].quote
  BY FlightFacts
<1>2. FlightOK(t) /\ SentOK(q) /\ RecordOK(q) /\ task[t].owner \in Owner /\ TypeOK
  BY <1>1, FlightFacts DEF IInv
<1>3. /\ task' \in [Tasks -> Task] /\ task'[t] = d
      /\ \A u \in Tasks : u # t => task'[u] = task[u]
  BY <1>2, BecomeType
<1>4. /\ quote' = quote /\ execution' = execution /\ lock' = lock
      /\ offered' = offered /\ late' = late /\ topups' = topups
  BY DEF platform
<1>5. CASE d.pc \in Reads /\ task[t].pc \in Reads /\ sent' = sent
  <2>1. TypeOK'
    BY <1>2, <1>3, <1>4, <1>5 DEF TypeOK
  <2>2. OnlyTouches(t, q)
    BY <1>3, <1>4, <1>5 DEF OnlyTouches
  <2>3. SentOK(q)' /\ RecordOK(q)' /\ (Sealed(q) <=> Sealed(q)')
    BY <1>4, <1>5, SameRecords
  <2>4. FlightOK(t)'
    BY <1>1, <1>2, <1>3, <1>4, <1>5 DEF FlightOK, Reads, Sending
  <2>5. CallOK(t)'
    BY <1>1, <1>2, <1>3, <2>4 DEF CallOK
  <2>6. lock[q].holder \in {t, Nobody}
    BY <1>1, <1>2 DEF FlightOK
  <2> QED BY <2>1, <2>2, <2>3, <2>5, <2>6, HolderStep, SilenceIsTrue
<1>6. CASE d.pc = "posting" /\ task[t].pc = "ensuring" /\ sent' = [sent EXCEPT ![q] = @ + 1]
  <2>1. sent[q] = 0 /\ late[q] = 0 /\ Sealed(q)
    BY <1>1, <1>2, <1>6 DEF FlightOK, SentOK, Reads, Sending
  <2>2. sent' \in [Quotes -> Nat] /\ sent'[q] = 1 /\ \A r \in Quotes : r # q => sent'[r] = sent[r]
    BY <1>2, <1>6, <2>1 DEF TypeOK
  <2>3. TypeOK'
    BY <1>2, <1>3, <1>4, <2>2 DEF TypeOK
  <2>4. OnlyTouches(t, q)
    BY <1>3, <1>4, <2>2 DEF OnlyTouches
  <2>5. Sealed(q)' /\ RecordOK(q)'
    BY <1>2, <1>4, <2>1 DEF Sealed, RecordOK
  <2>6. SentOK(q)'
    BY <1>1, <1>2, <1>4, <2>2, <2>5 DEF SentOK, FlightOK
  <2>7. FlightOK(t)'
    BY <1>1, <1>2, <1>3, <1>4, <1>6, <2>1, <2>2, <2>5 DEF FlightOK, Reads, Sending
  <2>8. CallOK(t)'
    BY <1>1, <1>2, <1>3, <2>7 DEF CallOK
  <2>9. lock[q].holder \in {t, Nobody}
    BY <1>1, <1>2 DEF FlightOK
  <2> QED BY <2>3, <2>4, <2>5, <2>6, <2>8, <2>9, HolderStep, SilenceIsTrue
<1> QED BY <1>1, <1>5, <1>6

LEMMA EsimsReadStep ==
  ASSUME IInv, NEW t \in Tasks, EsimsRead(t)
  PROVE  IInv'
<1>1. PICK d : d = [task[t] EXCEPT !.pc = "plans"]
  OBVIOUS
<1>2. task[t] \in Task /\ task[t].pc = "esims"
  BY DEF IInv, TypeOK, EsimsRead
<1>3. /\ d \in Task /\ d.pc = "plans" /\ d.owner = task[t].owner /\ d.quote = task[t].quote
      /\ d.exec = task[t].exec /\ d.done = task[t].done /\ d.stood = task[t].stood
  BY <1>1, <1>2 DEF Task, Reads
<1> QED BY <1>1, <1>2, <1>3, OnwardStep DEF EsimsRead, stores, InFlight, Reads

\* The plans were read while the platform offered the quote's terms.
LEMMA PlansReadStep ==
  ASSUME IInv, NEW t \in Tasks, PlansRead(t)
  PROVE  IInv'
<1>1. PICK d : d = [task[t] EXCEPT !.pc = "balance"]
  OBVIOUS
<1>2. task[t] \in Task /\ task[t].pc = "plans"
  BY DEF IInv, TypeOK, PlansRead
<1>3. /\ d \in Task /\ d.pc = "balance" /\ d.owner = task[t].owner /\ d.quote = task[t].quote
      /\ d.exec = task[t].exec /\ d.done = task[t].done /\ d.stood = task[t].stood
  BY <1>1, <1>2 DEF Task, Reads
<1>4. task[t].stood
  <2>1. FlightOK(t)
    BY <1>2, FlightFacts DEF InFlight, Reads
  <2>2. task[t].quote \in offered
    BY DEF PlansRead, StillOffered
  <2> QED BY <1>2, <2>1, <2>2 DEF FlightOK
<1> QED BY <1>1, <1>2, <1>3, <1>4, OnwardStep DEF PlansRead, stores, InFlight, Reads

LEMMA SessionIsFreshStep ==
  ASSUME IInv, NEW t \in Tasks, SessionIsFresh(t)
  PROVE  IInv'
<1>1. PICK d : d = [task[t] EXCEPT !.pc = "posting"]
  OBVIOUS
<1>2. task[t] \in Task /\ task[t].pc = "ensuring"
  BY DEF IInv, TypeOK, SessionIsFresh
<1>3. /\ d \in Task /\ d.pc = "posting" /\ d.owner = task[t].owner /\ d.quote = task[t].quote
      /\ d.exec = task[t].exec /\ d.done = task[t].done /\ d.stood = task[t].stood
  BY <1>1, <1>2 DEF Task, Sending
<1>4. task[t].stood
  BY <1>2, FlightFacts DEF FlightOK, InFlight, Sending
<1> QED BY <1>1, <1>2, <1>3, <1>4, OnwardStep DEF SessionIsFresh, Post, stores, InFlight, Sending

\* The attempt is on record before anything can be sent: this is what seals the
\* quote for every later confirmation.
LEMMA BalanceReadStep ==
  ASSUME IInv, NEW t \in Tasks, BalanceRead(t)
  PROVE  IInv'
<1>1. TypeOK /\ task[t].pc = "balance" /\ task[t].pc \in InFlight /\ task[t] \in Task
  BY DEF IInv, TypeOK, BalanceRead, InFlight, Reads
<1>2. PICK q \in Quotes : q = task[t].quote
  BY <1>1, FlightFacts
<1>3. FlightOK(t) /\ SentOK(q) /\ RecordOK(q) /\ task[t].owner \in Owner /\ lock[q] \in LockType(Tasks)
  BY <1>1, <1>2, FlightFacts
<1>4. PICK e : e = [task[t].exec EXCEPT !.attempts = @ + 1]
  OBVIOUS
<1>5. /\ e \in Execution /\ e.owner = quote[q].owner /\ e.status = "pending"
      /\ e.code # "esim_topup_rejected" /\ e.attempts = 1
  BY <1>1, <1>2, <1>3, <1>4 DEF FlightOK, Execution, Reads
<1>6. /\ execution' = [execution EXCEPT ![q] = e]
      /\ quote' = quote /\ session' = session /\ preparing' = preparing
      /\ offered' = offered /\ late' = late /\ topups' = topups
  BY <1>2, <1>4 DEF BalanceRead, platform
<1>7. /\ execution'[q] = e /\ execution' \in [Quotes -> Execution \cup {NoExecution}]
      /\ \A r \in Quotes : r # q => execution'[r] = execution[r]
  BY <1>1, <1>5, <1>6 DEF TypeOK
<1>8. sent[q] = 0 /\ topups[q] = 0 /\ late[q] = 0 /\ ~task[t].done /\ task[t].stood
      /\ quote[q].status # "none" /\ task[t].owner = quote[q].owner /\ lock[q].holder = t
  BY <1>1, <1>2, <1>3 DEF FlightOK, SentOK
<1>9. Sealed(q)'
  BY <1>5, <1>6, <1>7 DEF Sealed
<1>10. RecordOK(q)'
  BY <1>3, <1>5, <1>6, <1>7, <1>8 DEF RecordOK
<1>11. CASE Ends(t, q, lock[q], Silent) /\ sent' = sent
  <2>1. TypeOK'
    BY <1>1, <1>3, <1>6, <1>7, <1>11, EndsType DEF TypeOK
  <2>2. OnlyTouches(t, q) /\ CallOK(t)' /\ reply' = Silent
    BY <1>1, <1>3, <1>6, <1>7, <1>11, EndsType DEF OnlyTouches
  <2>3. SentOK(q)'
    BY <1>6, <1>8, <1>9, <1>11 DEF SentOK
  <2> QED BY <1>8, <1>10, <2>1, <2>2, <2>3, HolderStep, SilenceIsTrue
<1>12. ASSUME NEW d \in Task, Become(t, d), reply' = Silent, lock' = lock,
              d.owner = task[t].owner, d.quote = q, d.exec = e, d.done = task[t].done, d.stood = task[t].stood,
              \/ d.pc = "posting" /\ sent' = [sent EXCEPT ![q] = @ + 1]
              \/ d.pc = "ensuring" /\ sent' = sent
       PROVE  IInv'
  <2>1. /\ task' \in [Tasks -> Task] /\ task'[t] = d
        /\ \A u \in Tasks : u # t => task'[u] = task[u]
    BY <1>1, <1>12, BecomeType
  <2>2. /\ sent' \in [Quotes -> Nat] /\ \A r \in Quotes : r # q => sent'[r] = sent[r]
        /\ d.pc = "posting" => sent'[q] = 1
        /\ d.pc = "ensuring" => sent'[q] = 0
    BY <1>1, <1>8, <1>12 DEF TypeOK
  <2>3. TypeOK'
    BY <1>1, <1>6, <1>7, <1>12, <2>1, <2>2 DEF TypeOK
  <2>4. OnlyTouches(t, q)
    BY <1>6, <1>7, <1>12, <2>1, <2>2 DEF OnlyTouches
  <2>5. SentOK(q)'
    BY <1>6, <1>8, <1>9, <1>12, <2>2 DEF SentOK
  <2>6. ~(topups'[q] > 0) /\ ~d.done /\ d.stood /\ late'[q] = 0
    BY <1>6, <1>8, <1>12
  <2>7. d.pc \notin Reads /\ d.pc \notin {"esims", "plans"} /\ d.pc \in Sending
    BY <1>12 DEF Reads, Sending
  <2>8. FlightOK(t)'
    BY <1>5, <1>6, <1>7, <1>8, <1>9, <1>12, <2>1, <2>2, <2>6, <2>7 DEF FlightOK
  <2>9. CallOK(t)'
    BY <1>3, <1>12, <2>1, <2>8 DEF CallOK
  <2> QED BY <1>8, <1>10, <1>12, <2>3, <2>4, <2>5, <2>9, HolderStep, SilenceIsTrue
<1>13. ASSUME NEW pc \in Sending
       PROVE  LET d == [[task[t] EXCEPT !.exec = e] EXCEPT !.pc = pc] IN
              /\ d \in Task /\ d.pc = pc /\ d.owner = task[t].owner /\ d.quote = q
              /\ d.exec = e /\ d.done = task[t].done /\ d.stood = task[t].stood
  BY <1>1, <1>2, <1>5 DEF Task
<1>14. CASE Post(t, [task[t] EXCEPT !.exec = e]) /\ lock' = lock
  <2>1. PICK d : d = [[task[t] EXCEPT !.exec = e] EXCEPT !.pc = "posting"]
    OBVIOUS
  <2>2. /\ d \in Task /\ d.pc = "posting" /\ d.owner = task[t].owner /\ d.quote = q
        /\ d.exec = e /\ d.done = task[t].done /\ d.stood = task[t].stood
    BY <1>13, <2>1 DEF Sending
  <2>3. Become(t, d) /\ sent' = [sent EXCEPT ![q] = @ + 1] /\ reply' = Silent
    BY <1>2, <1>14, <2>1 DEF Post
  <2> QED BY <1>12, <1>14, <2>2, <2>3
<1>15. CASE /\ Become(t, [[task[t] EXCEPT !.exec = e] EXCEPT !.pc = "ensuring"])
            /\ reply' = Silent /\ lock' = lock /\ sent' = sent
  <2>1. PICK d : d = [[task[t] EXCEPT !.exec = e] EXCEPT !.pc = "ensuring"]
    OBVIOUS
  <2>2. /\ d \in Task /\ d.pc = "ensuring" /\ d.owner = task[t].owner /\ d.quote = q
        /\ d.exec = e /\ d.done = task[t].done /\ d.stood = task[t].stood
    BY <1>13, <2>1 DEF Sending
  <2> QED BY <1>12, <1>15, <2>1, <2>2
<1> QED BY <1>2, <1>4, <1>11, <1>14, <1>15 DEF BalanceRead

LEMMA SessionIsLostStep ==
  ASSUME IInv, NEW t \in Tasks, SessionIsLost(t)
  PROVE  IInv'
<1>1. TypeOK /\ task[t].pc \in InFlight
  BY DEF SessionIsLost, InFlight, Sending, IInv
<1>2. PICK q \in Quotes : q = task[t].quote
  BY <1>1, FlightFacts
<1>3. FlightOK(t) /\ lock[q] \in LockType(Tasks) /\ task[t].owner.client \in Clients
  BY <1>1, <1>2, FlightFacts DEF Owner
<1>4. /\ lock' \in [Quotes -> LockType(Tasks)] /\ \A r \in Quotes : r # q => lock'[r] = lock[r]
      /\ task' \in [Tasks -> Task] /\ task'[t].pc = "idle" /\ reply' = Silent
      /\ \A u \in Tasks : u # t => task'[u] = task[u]
  BY <1>1, <1>2, <1>3, EndsType DEF SessionIsLost
<1>5. /\ session' \in [Clients -> Users \cup {None}]
      /\ Moves(quote, quote')
      /\ execution' \in [Quotes -> Execution \cup {NoExecution}]
      /\ \A r \in Quotes : \/ execution'[r] = execution[r]
                           \/ execution'[r] = NoExecution /\ quote'[r].status # "active"
  <2>1. CASE Invalidate(task[t].owner.client)
    BY <1>3, <2>1, InvalidateFacts
  <2>2. CASE UNCHANGED <<session, quote, execution>>
    BY <1>1, <2>2, SameMoves DEF TypeOK, QuoteMap
  <2> QED BY <2>1, <2>2 DEF SessionIsLost
<1>6. TypeOK'
  BY <1>1, <1>4, <1>5 DEF TypeOK, SessionIsLost, Moves, QuoteMap, platform
<1>7. ASSUME NEW u \in Tasks, u # t
      PROVE  task'[u] = task[u] /\ (task[u].pc \in InFlight => lock'[task[u].quote].holder = u)
  <2>1. ASSUME task[u].pc \in InFlight
        PROVE  lock'[task[u].quote].holder = u
    <3>1. FlightOK(u) /\ task[u].quote \in Quotes
      BY <2>1, FlightFacts
    <3>2. task[u].quote # q
      BY <1>2, <1>3, <1>7, <3>1 DEF FlightOK
    <3> QED BY <1>4, <3>1, <3>2 DEF FlightOK
  <2> QED BY <1>4, <1>7, <2>1
<1> QED BY <1>4, <1>5, <1>6, <1>7, EnvStep, SilenceIsTrue DEF SessionIsLost, platform

-----------------------------------------------------------------------------
(* The platform's steps.                                                   *)

LEMMA TopsUpStep ==
  ASSUME IInv, NEW t \in Tasks, TopsUp(t)
  PROVE  IInv'
<1>1. TypeOK /\ task[t].pc = "posting" /\ task[t].pc \in InFlight /\ task[t] \in Task
  BY DEF IInv, TypeOK, TopsUp, InFlight, Sending
<1>2. PICK q \in Quotes : q = task[t].quote
  BY <1>1, FlightFacts
<1>3. FlightOK(t) /\ SentOK(q) /\ RecordOK(q) /\ task[t].owner \in Owner
  BY <1>1, <1>2, FlightFacts
<1>4. PICK d : d = [task[t] EXCEPT !.done = TRUE]
  OBVIOUS
<1>5. /\ d \in Task /\ d.pc = "posting" /\ d.owner = task[t].owner /\ d.quote = task[t].quote
      /\ d.exec = task[t].exec /\ d.done = TRUE /\ d.stood = task[t].stood
  BY <1>1, <1>4 DEF Task
<1>6. /\ task' \in [Tasks -> Task] /\ task'[t] = d
      /\ \A u \in Tasks : u # t => task'[u] = task[u]
  BY <1>1, <1>4, <1>5, BecomeType DEF TopsUp
<1>7. /\ quote' = quote /\ execution' = execution /\ lock' = lock /\ session' = session
      /\ preparing' = preparing /\ offered' = offered /\ late' = late /\ sent' = sent /\ reply' = Silent
  BY DEF TopsUp, stores
<1>8. /\ topups' \in [Quotes -> Nat] /\ topups'[q] > 0
      /\ \A r \in Quotes : r # q => topups'[r] = topups[r]
  BY <1>1, <1>2 DEF TopsUp, TypeOK
<1>9. sent[q] = 1 /\ late[q] = 0 /\ lock[q].holder = t /\ execution[q].status \in {"none", "pending"}
  BY <1>1, <1>2, <1>3 DEF FlightOK
<1>10. TypeOK'
  BY <1>1, <1>6, <1>7, <1>8 DEF TypeOK
<1>11. OnlyTouches(t, q)
  BY <1>6, <1>7, <1>8 DEF OnlyTouches
<1>12. Sealed(q) <=> Sealed(q)'
  BY <1>7 DEF Sealed
<1>13. SentOK(q)'
  BY <1>3, <1>7, <1>9, <1>12 DEF SentOK
<1>14. RecordOK(q)'
  BY <1>3, <1>7, <1>8, <1>9 DEF RecordOK
<1>15. d.done <=> topups'[q] > 0
  BY <1>5, <1>8
<1>16. FlightOK(t)'
  BY <1>1, <1>2, <1>3, <1>5, <1>6, <1>7, <1>9, <1>12, <1>15 DEF FlightOK, Reads, Sending
<1>17. CallOK(t)'
  BY <1>2, <1>3, <1>5, <1>6, <1>16 DEF CallOK
<1> QED BY <1>7, <1>9, <1>10, <1>11, <1>13, <1>14, <1>17, HolderStep, SilenceIsTrue

\* What runs late runs for a quote nobody confirms any more.
LEMMA TopsUpLateStep ==
  ASSUME IInv, NEW q \in Quotes, TopsUpLate(q)
  PROVE  IInv'
<1>1. TypeOK /\ late[q] > 0 /\ SentOK(q) /\ RecordOK(q)
  BY DEF IInv, TopsUpLate
<1>2. /\ quote' = quote /\ execution' = execution /\ lock' = lock /\ task' = task /\ session' = session
      /\ preparing' = preparing /\ offered' = offered /\ sent' = sent /\ reply' = Silent
  BY DEF TopsUpLate, stores, calls
<1>3. /\ topups' \in [Quotes -> Nat] /\ topups'[q] > 0 /\ late' \in [Quotes -> Nat]
      /\ \A r \in Quotes : r # q => topups'[r] = topups[r] /\ late'[r] = late[r]
  BY <1>1 DEF TopsUpLate, TypeOK
<1>4. TypeOK'
  BY <1>1, <1>2, <1>3 DEF TypeOK
<1>5. sent[q] > 0
  BY <1>1 DEF SentOK, TypeOK
<1>6. ASSUME NEW t \in Tasks PROVE CallOK(t)'
  <2>1. CallOK(t)
    BY DEF IInv
  <2>2. ASSUME task[t].pc \in InFlight PROVE FlightOK(t)'
    <3>1. FlightOK(t)
      BY <2>1, <2>2 DEF CallOK
    <3>2. PICK r \in Quotes : r = task[t].quote
      BY <2>2, FlightFacts
    <3>3. r # q
      BY <1>1, <1>5, <3>1, <3>2 DEF FlightOK
    <3>4. topups'[r] = topups[r] /\ late'[r] = late[r]
      BY <1>3, <3>3
    <3>5. Sealed(r) <=> Sealed(r)'
      BY <1>2 DEF Sealed
    <3> QED BY <1>2, <3>1, <3>2, <3>4, <3>5 DEF FlightOK
  <2> QED BY <1>2, <2>1, <2>2 DEF CallOK
<1>7. ASSUME NEW r \in Quotes PROVE SentOK(r)' /\ RecordOK(r)'
  <2>1. CASE r = q
    <3>1. Sealed(q) <=> Sealed(q)'
      BY <1>2 DEF Sealed
    <3>2. SentOK(q)'
      BY <1>1, <1>2, <1>5, <3>1 DEF SentOK
    <3>3. RecordOK(q)'
      BY <1>1, <1>2, <1>3 DEF RecordOK
    <3> QED BY <2>1, <3>2, <3>3
  <2>2. CASE r # q
    BY <1>2, <1>3, <2>2, SameRecords
  <2> QED BY <2>1, <2>2
<1> QED BY <1>2, <1>4, <1>6, <1>7, SilenceIsTrue DEF IInv

\* When the platform's offer moves, a call that was under way was under way
\* while the quote's terms stood.
LEMMA OfferMovesStep ==
  ASSUME IInv, NEW q \in Quotes, OfferMoves(q)
  PROVE  IInv'
<1>1. TypeOK
  BY DEF IInv
<1>2. /\ quote' = quote /\ execution' = execution /\ lock' = lock /\ session' = session
      /\ preparing' = preparing /\ sent' = sent /\ late' = late /\ topups' = topups /\ reply' = Silent
  BY DEF OfferMoves, stores
<1>3. /\ offered' \in SUBSET Quotes
      /\ \A r \in Quotes : r # q => (r \in offered' <=> r \in offered)
  BY <1>1 DEF OfferMoves, TypeOK
<1>4. ASSUME NEW t \in Tasks
      PROVE  /\ task'[t] \in Task
             /\ task'[t].pc = task[t].pc /\ task'[t].owner = task[t].owner /\ task'[t].quote = task[t].quote
             /\ task'[t].exec = task[t].exec /\ task'[t].done = task[t].done
             /\ task[t].stood => task'[t].stood
             /\ task[t].quote = q /\ task[t].pc \in InFlight => task'[t].stood
  <2>1. task[t] \in Task
    BY <1>1 DEF TypeOK
  <2>2. task'[t] = IF task[t].quote = q /\ task[t].pc \in InFlight
                   THEN [task[t] EXCEPT !.stood = TRUE] ELSE task[t]
    BY DEF OfferMoves, InFlight
  <2>3. CASE task[t].quote = q /\ task[t].pc \in InFlight
    BY <2>1, <2>2, <2>3 DEF Task
  <2>4. CASE ~(task[t].quote = q /\ task[t].pc \in InFlight)
    BY <2>1, <2>2, <2>4
  <2> QED BY <2>3, <2>4
<1>5. task' \in [Tasks -> Task]
  BY <1>4 DEF OfferMoves
<1>6. TypeOK'
  BY <1>1, <1>2, <1>3, <1>5 DEF TypeOK
<1>7. ASSUME NEW t \in Tasks PROVE CallOK(t)'
  <2>1. CallOK(t)
    BY DEF IInv
  <2>2. ASSUME task[t].pc \in InFlight PROVE FlightOK(t)'
    <3>1. FlightOK(t)
      BY <2>1, <2>2 DEF CallOK
    <3>2. PICK r \in Quotes : r = task[t].quote
      BY <2>2, FlightFacts
    <3>3. Sealed(r) <=> Sealed(r)'
      BY <1>2 DEF Sealed
    <3>4. /\ task'[t].pc \in {"esims", "plans"} => task'[t].stood \/ r \notin offered'
          /\ task'[t].pc \notin {"esims", "plans"} => task'[t].stood
      BY <1>3, <1>4, <2>2, <3>1, <3>2 DEF FlightOK
    <3> QED BY <1>2, <1>4, <3>1, <3>2, <3>3, <3>4 DEF FlightOK
  <2> QED BY <1>4, <2>1, <2>2 DEF CallOK
<1>8. ASSUME NEW r \in Quotes PROVE SentOK(r)' /\ RecordOK(r)'
  BY <1>2, SameRecords
<1> QED BY <1>2, <1>6, <1>7, <1>8, SilenceIsTrue DEF IInv

-----------------------------------------------------------------------------
(* The end of a confirmation.                                              *)

\* A refusal means that nothing was done; only a completed top-up succeeds.
LEMMA ReturnsStep ==
  ASSUME IInv, NEW t \in Tasks, NEW a \in Answers, Returns(t, a)
  PROVE  IInv'
<1>1. TypeOK /\ task[t].pc = "posting" /\ task[t].pc \in InFlight /\ quote \in QuoteMap
  BY DEF IInv, TypeOK, Returns, InFlight, Sending, QuoteMap
<1>2. PICK q \in Quotes : q = task[t].quote
  BY <1>1, FlightFacts
<1>3. FlightOK(t) /\ SentOK(q) /\ RecordOK(q) /\ task[t].owner \in Owner /\ lock[q] \in LockType(Tasks)
  BY <1>1, <1>2, FlightFacts
<1>4. PICK v : v = ClassifyTopup(a)
  OBVIOUS
<1>5. /\ v.disposition \in {"succeeded", "failed", "unresolved"}
      /\ v.code \in TopupCodes
      /\ v.disposition = "failed" => IsRefusal(a)
      /\ v.disposition = "succeeded" => a.completed
      /\ ClaimOf(v.code) = "nothing" => v.disposition = "failed"
      /\ ClaimOf(v.code) = "charged" => v.disposition = "succeeded"
      /\ v.code = "esim_topup_rejected" => v.disposition = "failed"
  BY <1>4, VerdictOK
<1>6. /\ quote[q].status # "none" /\ task[t].owner = quote[q].owner /\ sent[q] = 1 /\ late[q] = 0
      /\ task[t].done <=> topups[q] > 0
      /\ lock[q].holder = t /\ task[t].exec \in Execution /\ task[t].exec.owner = quote[q].owner
      /\ task[t].exec.attempts = 1
  BY <1>1, <1>2, <1>3 DEF FlightOK, Sending
<1>7. PICK e : e = [task[t].exec EXCEPT !.status = v.disposition, !.code = v.code]
  OBVIOUS
<1>8. /\ e \in Execution /\ e.owner = quote[q].owner /\ e.attempts = 1
      /\ e.status = v.disposition /\ e.code = v.code
  BY <1>5, <1>6, <1>7 DEF Execution
<1>9. execution' = [execution EXCEPT ![q] = e]
  BY <1>2, <1>4, <1>7 DEF Returns
<1>10. /\ execution'[q] = e /\ execution' \in [Quotes -> Execution \cup {NoExecution}]
       /\ \A r \in Quotes : r # q => execution'[r] = execution[r]
  BY <1>1, <1>8, <1>9 DEF TypeOK
<1>11. /\ session' = session /\ preparing' = preparing /\ offered' = offered
       /\ topups' = topups /\ sent' = sent
       /\ Ends(t, q, lock[q], Says("answer", q, ClaimOf(v.code)))
  BY <1>2, <1>4 DEF Returns
<1>12. Says("answer", q, ClaimOf(v.code)) \in Reply
  BY DEF Says, Reply, ClaimOf, Claims
<1>13. /\ quote' \in QuoteMap /\ quote'[q].owner = quote[q].owner
       /\ \A r \in Quotes : r # q => quote'[r] = quote[r]
       /\ quote'[q].status = IF v.disposition = "succeeded" THEN "consumed" ELSE quote[q].status
  <2>1. CASE v.disposition # "succeeded"
    <3>1. quote' = quote
      BY <1>4, <2>1 DEF Returns
    <3> QED BY <1>1, <2>1, <3>1
  <2>2. CASE v.disposition = "succeeded"
    <3>1. quote' = Marked(quote, {q}, "consumed")
      BY <1>2, <1>4, <1>6, <2>2 DEF Returns, Consumed, Owned
    <3>2. quote[q] \in Quote
      BY <1>1, <1>6 DEF QuoteMap, NoQuote
    <3>3. [quote[q] EXCEPT !.status = "consumed"] \in Quote
      BY <3>2 DEF Quote, QuoteStates
    <3>4. /\ quote'[q] = [quote[q] EXCEPT !.status = "consumed"]
          /\ \A r \in Quotes : r # q => quote'[r] = quote[r]
      BY <3>1 DEF Marked
    <3>5. quote' = [r \in Quotes |-> quote'[r]]
      BY <3>1 DEF Marked
    <3>6. quote' \in QuoteMap
      BY <1>1, <3>3, <3>4, <3>5 DEF QuoteMap
    <3>7. quote'[q].status = "consumed" /\ quote'[q].owner = quote[q].owner
      BY <3>2, <3>4 DEF Quote
    <3> QED BY <2>2, <3>4, <3>6, <3>7
  <2> QED BY <2>1, <2>2
<1>14. /\ late' \in [Quotes -> Nat] /\ \A r \in Quotes : r # q => late'[r] = late[r]
       /\ v.disposition = "failed" => late'[q] = 0
  <2>1. late' = late \/ late' = [late EXCEPT ![q] = @ + 1]
    BY <1>2 DEF Returns, Abandoned
  <2>2. IsRefusal(a) => late' = late
    BY DEF Returns
  <2> QED BY <1>1, <1>5, <1>6, <2>1, <2>2 DEF TypeOK
<1>15. /\ v.disposition = "failed" => ~task[t].done
       /\ v.disposition = "succeeded" => task[t].done
  BY <1>5 DEF Returns, Consistent
<1>16. topups[q] \in Nat
  BY <1>1 DEF TypeOK
<1>17. /\ v.disposition = "failed" => topups[q] = 0
       /\ v.disposition = "succeeded" => topups[q] > 0
  BY <1>6, <1>15, <1>16
<1>18. Sealed(q)'
  BY <1>8, <1>10, <1>13 DEF Sealed
<1>19. SentOK(q)'
  BY <1>6, <1>11, <1>13, <1>18 DEF SentOK
<1>20. RecordOK(q)'
  BY <1>3, <1>5, <1>6, <1>8, <1>10, <1>11, <1>13, <1>14, <1>17 DEF RecordOK
<1>21. TypeOK'
  BY <1>1, <1>3, <1>10, <1>11, <1>12, <1>13, <1>14, EndsType DEF TypeOK, QuoteMap
<1>22. OnlyTouches(t, q) /\ CallOK(t)' /\ reply' = Says("answer", q, ClaimOf(v.code))
  BY <1>1, <1>3, <1>10, <1>11, <1>13, <1>14, EndsType DEF OnlyTouches
<1>23. AnswerTellsTheTruth'
  BY <1>5, <1>11, <1>14, <1>17, <1>22 DEF AnswerTellsTheTruth, Says
<1> QED BY <1>6, <1>19, <1>20, <1>21, <1>22, <1>23, HolderStep

\* A cancelled call leaves what it recorded, and what it sent may still run.
LEMMA CancelStep ==
  ASSUME IInv, NEW t \in Tasks, Cancel(t)
  PROVE  IInv'
<1>1. TypeOK /\ task[t].quote \in Quotes
  BY DEF IInv, CallOK, Cancel
<1>2. PICK q \in Quotes : q = task[t].quote
  BY <1>1
<1>3. lock[q] \in LockType(Tasks)
  BY <1>1 DEF TypeOK
<1>4. Withdraw(lock[q], t) \in LockType(Tasks) /\ (lock[q].holder # t => Withdraw(lock[q], t).holder = lock[q].holder)
  BY <1>3, WithdrawType
<1>5. /\ lock' \in [Quotes -> LockType(Tasks)] /\ lock'[q] = Withdraw(lock[q], t)
      /\ \A r \in Quotes : r # q => lock'[r] = lock[r]
  BY <1>1, <1>2, <1>4 DEF Cancel, TypeOK
<1>6. Idle \in Task /\ Idle.pc = "idle"
  BY DEF Idle, Doing, Task
<1>7. /\ task' \in [Tasks -> Task] /\ task'[t].pc = "idle"
      /\ \A u \in Tasks : u # t => task'[u] = task[u]
  BY <1>1, <1>6, BecomeType DEF Cancel
<1>8. /\ session' = session /\ preparing' = preparing /\ quote' = quote /\ execution' = execution
      /\ offered' = offered /\ topups' = topups /\ sent' = sent /\ reply' = Silent
  BY DEF Cancel, stores
<1>9. late' \in [Quotes -> Nat] /\ \A r \in Quotes : r # q => late'[r] = late[r]
  BY <1>1, <1>2 DEF Cancel, Abandoned, TypeOK
<1>10. TypeOK'
  BY <1>1, <1>5, <1>7, <1>8, <1>9 DEF TypeOK
<1>11. CASE task[t].pc = "posting"
  <2>1. FlightOK(t) /\ SentOK(q) /\ RecordOK(q)
    BY <1>2, <1>11, FlightFacts DEF InFlight, Sending
  <2>2. sent[q] = 1 /\ lock[q].holder = t /\ execution[q].status \in {"none", "pending"}
    BY <1>2, <1>11, <2>1 DEF FlightOK
  <2>3. OnlyTouches(t, q)
    BY <1>5, <1>7, <1>8, <1>9 DEF OnlyTouches
  <2>4. CallOK(t)'
    BY <1>7 DEF CallOK, InFlight, Reads, Sending
  <2>5. Sealed(q) <=> Sealed(q)'
    BY <1>8 DEF Sealed
  <2>6. SentOK(q)'
    BY <1>8, <2>1, <2>2, <2>5 DEF SentOK
  <2>7. RecordOK(q)'
    BY <1>8, <2>1, <2>2 DEF RecordOK
  <2> QED BY <1>8, <1>10, <2>2, <2>3, <2>4, <2>6, <2>7, HolderStep, SilenceIsTrue
<1>12. CASE task[t].pc # "posting"
  <2>1. late' = late
    BY <1>12 DEF Cancel
  <2>2. Moves(quote, quote')
    BY <1>1, <1>8, SameMoves DEF TypeOK, QuoteMap
  <2>3. ASSUME NEW u \in Tasks, u # t
        PROVE  task'[u] = task[u] /\ (task[u].pc \in InFlight => lock'[task[u].quote].holder = u)
    <3>1. ASSUME task[u].pc \in InFlight
          PROVE  lock'[task[u].quote].holder = u
      <4>1. FlightOK(u) /\ task[u].quote \in Quotes
        BY <3>1, FlightFacts
      <4>2. CASE task[u].quote = q
        BY <1>4, <1>5, <2>3, <4>1, <4>2 DEF FlightOK
      <4>3. CASE task[u].quote # q
        BY <1>5, <4>1, <4>3 DEF FlightOK
      <4> QED BY <4>2, <4>3
    <3> QED BY <1>7, <2>3, <3>1
  <2> QED BY <1>7, <1>8, <1>10, <2>1, <2>2, <2>3, EnvStep, SilenceIsTrue
<1> QED BY <1>11, <1>12

-----------------------------------------------------------------------------
(* The theorems.                                                           *)

LEMMA InitIInv == Init => IInv
<1> SUFFICES ASSUME Init PROVE IInv
  OBVIOUS
<1>1. Idle \in Task /\ Idle.pc = "idle"
  BY DEF Idle, Doing, Task
<1>2. Free \in LockType(Tasks)
  BY FreeType
<1>3. TypeOK
  BY <1>1, <1>2 DEF Init, TypeOK
<1>4. \A t \in Tasks : CallOK(t)
  BY <1>1 DEF Init, CallOK, InFlight, Reads, Sending
<1>5. \A q \in Quotes : SentOK(q) /\ RecordOK(q)
  BY DEF Init, SentOK, RecordOK, NoQuote, NoExecution
<1>6. AnswerTellsTheTruth
  BY DEF Init, AnswerTellsTheTruth, Silent, Says
<1> QED BY <1>3, <1>4, <1>5, <1>6 DEF IInv

LEMMA NextStep == IInv /\ [Next]_vars => IInv'
<1> SUFFICES ASSUME IInv, [Next]_vars PROVE IInv'
  OBVIOUS
<1>1. ASSUME NEW t \in Tasks, Step(t) PROVE IInv'
  BY <1>1, LockGrantedStep, EsimsReadStep, PlansReadStep, BalanceReadStep, ReadFailsStep,
     SessionIsFreshStep, SessionIsLostStep, ReturnsStep DEF Step
<1>2. CASE \E t \in Tasks : Step(t) \/ Cancel(t) \/ TopsUp(t)
  BY <1>1, <1>2, CancelStep, TopsUpStep
<1>3. CASE \E t \in Tasks, k \in Clients, q \in Quotes : Confirm(t, k, q)
  BY <1>3, ConfirmStep
<1>4. CASE \E k \in Clients, u \in Users : SignIn(k, u)
  BY <1>4, SignInStep
<1>5. CASE \E k \in Clients : SessionEnds(k) \/ PrepareStarts(k)
  BY <1>5, SessionEndsStep, PrepareStartsStep
<1>6. CASE \E owner \in Owner, q \in Quotes, item \in Items : Prepares(owner, q, item)
  BY <1>6, PreparesStep
<1>7. CASE \E owner \in Owner : PrepareFails(owner)
  BY <1>7, PrepareFailsStep
<1>8. CASE \E k \in Clients, q \in Quotes : ReadBack(k, q) \/ CancelPrepared(k, q)
  BY <1>8, ReadBackStep, CancelPreparedStep
<1>9. CASE \E q \in Quotes : Lapses(q) \/ OfferMoves(q) \/ TopsUpLate(q)
  BY <1>9, LapsesStep, OfferMovesStep, TopsUpLateStep
<1>10. CASE UNCHANGED vars
  <2>1. UNCHANGED <<session, preparing, quote, execution, lock, task, offered, late, topups, sent, reply>>
    BY <1>10 DEF vars
  <2>2. TypeOK'
    BY <2>1 DEF IInv, TypeOK
  <2>3. AnswerTellsTheTruth'
    BY <2>1 DEF IInv, AnswerTellsTheTruth
  <2>4. Moves(quote, quote')
    BY <2>1, SameMoves DEF IInv, TypeOK, QuoteMap
  <2> QED BY <2>1, <2>2, <2>3, <2>4, EnvStep, CallsGoOn DEF calls
<1> QED BY <1>2, <1>3, <1>4, <1>5, <1>6, <1>7, <1>8, <1>9, <1>10 DEF Next

\* The inductive invariant holds of every reachable state.
THEOREM Invariance == Spec => []IInv
  BY InitIInv, NextStep, PTL DEF Spec

\* Every variable keeps its type: a lock is held by and queues confirmations,
\* and a record says only what an answer can be classified as.
THEOREM TypeCorrect == Spec => []TypeOK
<1>1. IInv => TypeOK
  BY DEF IInv
<1> QED BY <1>1, Invariance, PTL

\* The route has no idempotency key, and one quote still never makes the
\* server send two requests, for any number of confirmations, sign-ins, ends of
\* sessions and cancelled calls.
THEOREM OneRequest == Spec => []OneRequestPerQuote
<1>1. IInv => OneRequestPerQuote
  BY DEF IInv, SentOK, OneRequestPerQuote
<1> QED BY <1>1, Invariance, PTL

\* Record and quote store never say more about the money than the platform did.
THEOREM RecordsAreTrue == Spec => []RecordTellsTheTruth
<1>1. IInv => RecordTellsTheTruth
  BY DEF IInv, RecordOK, RecordTellsTheTruth
<1> QED BY <1>1, Invariance, PTL

\* Neither does what confirm_esim_topup answers, the first time or again.
THEOREM AnswersAreTrue == Spec => []AnswerTellsTheTruth
<1>1. IInv => AnswerTellsTheTruth
  BY DEF IInv
<1> QED BY <1>1, Invariance, PTL

\* Nothing is sent for terms that were gone during the whole confirmation.
THEOREM NotOnOldTerms == Spec => []NeverSentOnOldTerms
<1>1. IInv => NeverSentOnOldTerms
  BY FlightFacts DEF FlightOK, InFlight, Sending, NeverSentOnOldTerms
<1> QED BY <1>1, Invariance, PTL
=============================================================================
