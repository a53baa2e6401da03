------------------------------ MODULE QuoteStore ------------------------------
(***************************************************************************)
(* InMemoryPurchaseQuoteStore (purchase/store.py) and the decisions of     *)
(* PurchaseQuoteService (purchase/service.py) on it, as operators on the   *)
(* map from quote id to stored quote.  A quote id that was not handed out  *)
(* yet maps to NoQuote.  The TTL is one bit: `lapsed` once expires_at is   *)
(* past, whatever the stored status says.                                  *)
(***************************************************************************)
EXTENDS FiniteSets, Naturals

CONSTANTS Clients,     \* MCP clients: the session keys
          Users,       \* eSIM accounts
          Quotes,      \* quote ids
          Plans,       \* what a quote is for: bundle code and payment method
          None,        \* absent client or user
          MaxActive    \* max_active_quotes_per_user

\* QuoteOwner: the MCP client and the account signed in on it.
Owner == [client : Clients, user : Users]
NoOwner == [client |-> None, user |-> None]
OwnerOf(k, u) == [client |-> k, user |-> u]

Status == {"active", "cancelled", "consumed"}

\* funded: a Wallet quote whose balance snapshot covers the price.
Quote == [owner : Owner, plan : Plans, funded : BOOLEAN, status : Status, lapsed : BOOLEAN]
NoQuote == [owner |-> NoOwner, plan |-> None, funded |-> FALSE, status |-> "none", lapsed |-> FALSE]

Prepared_ClientOnly(owner, plan, funded) ==
  [owner |-> [owner EXCEPT !.user = None], plan |-> plan, funded |-> funded, status |-> "active", lapsed |-> FALSE]
Prepared(owner, plan, funded) ==
  [owner |-> owner, plan |-> plan, funded |-> funded, status |-> "active", lapsed |-> FALSE]

Owned(quotes, owner, q) == quotes[q].status # "none" /\ quotes[q].owner = owner

IsUsable(r) == r.status = "active" /\ ~r.lapsed

ListActive(quotes, owner) == {q \in Quotes : Owned(quotes, owner, q) /\ IsUsable(quotes[q])}

\* The active quotes a new one for the same plan and method replaces.
Superseded_AnyOwner(quotes, owner, plan) ==
  {q \in Quotes : IsUsable(quotes[q]) /\ quotes[q].plan = plan}
Superseded(quotes, owner, plan) == {q \in ListActive(quotes, owner) : quotes[q].plan = plan}

WithStatus(quotes, qs, status) ==
  [q \in Quotes |-> IF q \in qs THEN [quotes[q] EXCEPT !.status = status] ELSE quotes[q]]

\* create(): the limit is tested against what remains after superseding.
AtLimit_OffByOne(quotes, owner, plan) ==
  Cardinality(ListActive(quotes, owner) \ Superseded(quotes, owner, plan)) > MaxActive
AtLimit_CountsSuperseded(quotes, owner, plan) == Cardinality(ListActive(quotes, owner)) >= MaxActive
AtLimit(quotes, owner, plan) ==
  Cardinality(ListActive(quotes, owner) \ Superseded(quotes, owner, plan)) >= MaxActive

\* create() in one piece: supersede, then refuse or store under the fresh id q.
Created_KeepsOld(quotes, q, owner, plan, funded) ==
  IF AtLimit(quotes, owner, plan) THEN quotes
  ELSE [quotes EXCEPT ![q] = Prepared(owner, plan, funded)]
Created(quotes, q, owner, plan, funded) ==
  LET kept == WithStatus(quotes, Superseded(quotes, owner, plan), "cancelled")
  IN IF AtLimit(quotes, owner, plan) THEN kept
     ELSE [kept EXCEPT ![q] = Prepared(owner, plan, funded)]

\* cancel(): only a quote that is still usable changes.
Cancelled(quotes, owner, q) ==
  IF IsUsable(quotes[q]) THEN WithStatus(quotes, {q}, "cancelled") ELSE quotes

\* consume(): unconditional, for a quote the owner can see.
Consumed(quotes, owner, q) ==
  IF Owned(quotes, owner, q) THEN WithStatus(quotes, {q}, "consumed") ELSE quotes

\* invalidate_session(): every active quote of the client, whoever prepared it.
Invalidated(quotes, k) ==
  WithStatus(quotes, {q \in Quotes : quotes[q].status = "active" /\ quotes[q].owner.client = k}, "cancelled")
=============================================================================
