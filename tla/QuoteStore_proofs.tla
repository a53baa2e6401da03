---------------------------- MODULE QuoteStore_proofs ----------------------------
(***************************************************************************)
(* What the operations of the purchase quote store do to any map of        *)
(* quotes: outside a completed purchase, a quote is created active, and an *)
(* active one is cancelled; nothing else happens to its status or owner.   *)
(***************************************************************************)
EXTENDS QuoteStore, TLAPS

\* Every map of quotes the store may hold.
QuoteMap == [Quotes -> Quote \cup {NoQuote}]

\* What may happen to quotes outside a successful purchase: they are created,
\* or cancelled, or lapse.
Moves(old, new) ==
  /\ new \in QuoteMap
  /\ \A r \in Quotes :
       \/ new[r].status = old[r].status /\ new[r].owner = old[r].owner
       \/ old[r].status = "active" /\ new[r].status = "cancelled" /\ new[r].owner = old[r].owner
       \/ old[r].status = "none" /\ new[r].status = "active"

\* Only a missing quote has status "none".
LEMMA NoneIsNoQuote ==
  ASSUME NEW quotes \in QuoteMap, NEW r \in Quotes, quotes[r].status = "none"
  PROVE  quotes[r] = NoQuote
  BY DEF QuoteMap, Quote, NoQuote, Status

\* Cancelling active quotes moves them as Moves allows.
LEMMA CancellingMoves ==
  ASSUME NEW quotes \in QuoteMap, NEW qs,
         \A r \in qs : r \in Quotes /\ quotes[r].status = "active"
  PROVE  Moves(quotes, WithStatus(quotes, qs, "cancelled"))
<1> DEFINE new == WithStatus(quotes, qs, "cancelled")
<1>1. ASSUME NEW r \in Quotes, r \in qs
      PROVE  /\ new[r] \in Quote
             /\ quotes[r].status = "active" /\ new[r].status = "cancelled" /\ new[r].owner = quotes[r].owner
  <2>1. quotes[r] \in Quote
    BY <1>1 DEF QuoteMap, Quote, NoQuote
  <2>2. new[r] = [quotes[r] EXCEPT !.status = "cancelled"]
    BY <1>1 DEF WithStatus
  <2> QED BY <1>1, <2>1, <2>2 DEF Quote, Status
<1>2. ASSUME NEW r \in Quotes, r \notin qs
      PROVE  new[r] = quotes[r]
  BY <1>2 DEF WithStatus
<1>3. new = [r \in Quotes |-> new[r]]
  BY DEF WithStatus
<1> HIDE DEF new
<1>4. new \in QuoteMap
  BY <1>1, <1>2, <1>3 DEF QuoteMap
<1> QED BY <1>1, <1>2, <1>4 DEF Moves, new

\* create(), cancel() and invalidate_session() only move quotes that way.
LEMMA CreatedMoves ==
  ASSUME NEW quotes \in QuoteMap, NEW q \in Quotes, quotes[q] = NoQuote,
         NEW owner \in Owner, NEW plan \in Plans, NEW funded \in BOOLEAN
  PROVE  Moves(quotes, Created(quotes, q, owner, plan, funded))
<1> DEFINE kept == WithStatus(quotes, Superseded(quotes, owner, plan), "cancelled")
<1>1. Moves(quotes, kept)
  BY CancellingMoves DEF Superseded, ListActive, IsUsable
<1> HIDE DEF kept
<1>2. Prepared(owner, plan, funded) \in Quote /\ Prepared(owner, plan, funded).status = "active"
  BY DEF Prepared, Quote, Status
<1>3. quotes[q].status = "none"
  BY DEF NoQuote
<1>4. Moves(quotes, [kept EXCEPT ![q] = Prepared(owner, plan, funded)])
  BY <1>1, <1>2, <1>3 DEF Moves, QuoteMap
<1> QED BY <1>1, <1>4 DEF Created, kept

LEMMA CancelledMoves ==
  ASSUME NEW quotes \in QuoteMap, NEW q \in Quotes, NEW owner
  PROVE  Moves(quotes, Cancelled(quotes, owner, q))
<1>1. CASE IsUsable(quotes[q])
  BY <1>1, CancellingMoves DEF Cancelled, IsUsable
<1>2. CASE ~IsUsable(quotes[q])
  BY <1>2 DEF Cancelled, Moves
<1> QED BY <1>1, <1>2

LEMMA InvalidatedMoves ==
  ASSUME NEW quotes \in QuoteMap, NEW k \in Clients
  PROVE  /\ Moves(quotes, Invalidated(quotes, k))
         /\ \A r \in Quotes : Invalidated(quotes, k)[r].status = "active" => quotes[r].owner.client # k
<1>1. Moves(quotes, Invalidated(quotes, k))
  BY CancellingMoves DEF Invalidated
<1>2. ASSUME NEW r \in Quotes, Invalidated(quotes, k)[r].status = "active"
      PROVE  quotes[r].owner.client # k
  <2>1. CASE quotes[r] = NoQuote
    BY <1>2, <2>1 DEF Invalidated, WithStatus, NoQuote
  <2>2. CASE quotes[r] \in Quote
    BY <1>2, <2>2 DEF Invalidated, WithStatus, Quote
  <2> QED BY <2>1, <2>2 DEF QuoteMap
<1> QED BY <1>1, <1>2
=============================================================================
