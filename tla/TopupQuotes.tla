----------------------------- MODULE TopupQuotes -----------------------------
(***************************************************************************)
(* Prepared top-ups: the quote stores of topup/store.py and the decisions  *)
(* of topup/service.py on them.  Both kinds of top-up, eSIM and wallet,    *)
(* share every rule; they differ in what a quote is for, its item: an eSIM *)
(* and a top-up plan, or an amount and its currency.                       *)
(***************************************************************************)
EXTENDS FiniteSets, Naturals

CONSTANTS Clients,     \* MCP clients: the session keys
          Users,       \* eSIM accounts
          Quotes,      \* quote ids
          Items,       \* what a quote is for
          None,        \* absent client, user or item
          MaxActive    \* max_active_quotes_per_user

Owner == [client : Clients, user : Users]
NoOwner == [client |-> None, user |-> None]
OwnerOf(k, u) == [client |-> k, user |-> u]

QuoteStates == {"active", "cancelled", "consumed"}

Quote == [owner : Owner, item : Items, status : QuoteStates, lapsed : BOOLEAN]
NoQuote == [owner |-> NoOwner, item |-> None, status |-> "none", lapsed |-> FALSE]

Prepared_ClientOnly(owner, item) ==
  [owner |-> [owner EXCEPT !.user = None], item |-> item, status |-> "active", lapsed |-> FALSE]
Prepared(owner, item) == [owner |-> owner, item |-> item, status |-> "active", lapsed |-> FALSE]

\* effective_status: expiry is read off the clock, and only for an active quote.
Effective(r) == IF r.status = "active" /\ r.lapsed THEN "expired" ELSE r.status

Owned(quotes, owner, q) == quotes[q].status # "none" /\ quotes[q].owner = owner

ListActive(quotes, owner) ==
  {q \in Quotes : Owned(quotes, owner, q) /\ Effective(quotes[q]) = "active"}

Superseded(quotes, owner, item) == {q \in ListActive(quotes, owner) : quotes[q].item = item}

Marked(quotes, qs, status) ==
  [q \in Quotes |-> IF q \in qs THEN [quotes[q] EXCEPT !.status = status] ELSE quotes[q]]

\* create(): the same item again replaces its quote; only then is the limit
\* tested, so a refused preparation of a new item loses nothing.
Created(quotes, q, owner, item) ==
  LET old  == Superseded(quotes, owner, item)
      kept == Marked(quotes, old, "cancelled")
  IN IF Cardinality(ListActive(quotes, owner) \ old) >= MaxActive THEN kept
     ELSE [kept EXCEPT ![q] = Prepared(owner, item)]

\* cancel(): a quote that is no longer active stays what it is.
Cancelled(quotes, q) ==
  IF Effective(quotes[q]) = "active" THEN Marked(quotes, {q}, "cancelled") ELSE quotes

\* consume(): whatever its status, for the owner it belongs to.
Consumed(quotes, owner, q) ==
  IF Owned(quotes, owner, q) THEN Marked(quotes, {q}, "consumed") ELSE quotes

\* invalidate_session(): the active quotes of a client, whoever signed in on it.
Held(quotes, k) == {q \in Quotes : quotes[q].status = "active" /\ quotes[q].owner.client = k}
Invalidated(quotes, k) == Marked(quotes, Held(quotes, k), "cancelled")
=============================================================================
