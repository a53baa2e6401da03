# eSIM MCP server: verification project

TLA+ models of the eSIM MCP server (`src/src/esim_mcp`), checked with TLC on small instances, and theorems about
them proved with TLAPS for every instance. The models start with what can cost the user money: who is signed in,
what was prepared, and what one confirmation sends to the platform.

## 1. The system

One asyncio process serves many MCP clients. It keeps everything in memory (a restart forgets all sessions, quotes and
records) and calls one REST platform. Its tools are thin: each resolves the calling client, asks the session manager for
a token, calls a client class and stores the outcome in a service's in-memory store.

Two facts decide where things can interleave. No store suspends while it holds its guard lock, so every store operation
is atomic. And a task suspends only at a backend request and at a contended per-session or per-quote lock, so it runs
from one of those to the next without interference. The actions of every model are these stretches. The MCP client may
cancel a call; the `CancelledError` appears at the await the call is parked on, and is not an `EsimMcpError`, so the
`except` clauses of the tools do not see it, while `async with` and `finally` do.

| Component | State | Operations | What is hard | What makes it correct |
|---|---|---|---|---|
| Session manager, sign-in tools (`session/`, `tools/authentication.py`) | session, login challenge and refresh lock per client | request/resend/verify code, logout, refresh, run_authenticated with one refresh-and-replay | concurrent expiry and 401s, logout or sign-in during a rotation, cancellation inside the lock | one rotation at a time, no refresh token sent twice, no rotation for nothing, every call ends |
| Purchase quotes (`purchase/service.py`, `store.py`, `models.py`) and preparation (`tools/purchase_preparation.py`) | quote per id: owner, plan, balance snapshot, status, expiry | prepare, cancel, read, list, consume, invalidate with the session | three platform reads between fixing the owner and storing the quote; account switches on one client | one usable quote per choice, limit kept, only the owner's acts end a quote |
| Purchase execution (`purchase/execution.py`, `tools/purchase_execution.py`, `client/purchase.py`) | record per quote: key, attempts, status; per-quote lock; quotes, sessions | confirm: lock, decide, count, refresh, one POST, classify, remember | lost answers, cancelled calls, retries, logouts and sign-ins mid-way, records dropped and written back | one idempotency key, one request at a time, bounded attempts, never paid twice, failed means refused |
| Card checkout (`purchase/card.py`, `tools/card_checkout.py`) | checkout per quote: key, attempts, payment reference, status checks | create checkout, poll payment status | one record under two locks, saved from copies | one link, bounded polls, a final status never lost |
| eSIM top-up (`topup/models.py`, `store.py`, `service.py`, `tools/esim_topup.py`) | top-up quote naming an eSIM and a plan, execution record | prepare, read back, confirm once, cancel | the platform has no idempotency key; three reads are repeated before the one request | one request ever, records and answers say of the money what is so |
| Wallet top-up (`tools/wallet_topup.py`, `topup/service.py`) | quote naming an amount, checkout record | prepare, create checkout, poll | as card checkout; two quotes may share a page | one link, one credit, stores agree |
| Selection, account, consumption (`selection/`, `tools/account.py`, `tools/consumption.py`) | numbered eSIM listing per client | list, pick a number | a listing fetched before an account switch and stored after it | a number means what was last shown |
| Transport (`client/base.py`) | none | route guard, one request, retry of reads, error classes | which failures may be retried, which paths are allowed | bounded sends, a purchase is sent once per call, the guard is exact |
| Catalog (`catalog/`, `tools/catalog.py`) | none | name resolution, filters, order, limits | two resolvers for one word; a code that is another region's name; unknown and unlimited values | tools agree, a code decides, nothing better is left out |
| Identity (`session/identity.py`) | none of its own; it decides whose session is found | chain of providers | shared processes, OAuth clients and connections that come and go | nobody gets another person's session; who returns through the same OAuth client has theirs |
| Settings, errors, HTTP app, logging, redaction | none | pure functions, wiring | – | – |

Interactions: every tool resolves the client through `identity.py` and the account through the session manager;
`server.py:531-550` registers one invalidation listener per store, so the end of a session (logout, a failed rotation, a
second 401) cancels its active quotes and drops its records and checkouts, in that order and without suspending. A
confirmation holds its quote's lock while it may wait for the session's lock; nothing takes them the other way round.
Signing in again calls no listener, takes no lock and overwrites the stored session.

## 2. Modules

| Module | What it is | Code |
|---|---|---|
| `AsyncLock` | `asyncio.Lock` as a value: holder and FIFO waiters; `Enter`, `Leave`, `Withdraw` (a cancelled holder or waiter) | `session/store.py:94-99`, `purchase/execution.py:223-228` |
| `Sessions` | the session manager, sign-in, logout, authenticated calls; a task per tool call | `session/manager.py`, `session/store.py`, `tools/authentication.py` |
| `QuoteStore` | purchase quotes as pure operators on the map from id to quote | `purchase/service.py`, `store.py`, `models.py` |
| `PurchaseQuotes` | prepare (start, plan read, balance read, creation), cancel, expiry, sessions as far as quotes see them | `tools/purchase_preparation.py` |
| `PurchaseOutcomes`, `CardOutcomes`, `TopupOutcomes`, `WalletOutcomes` | the answers of the platform to each kind of request, their classification, and, for purchases and eSIM top-ups, how a recorded failure is replayed | the `_classify*` and `_on_*` functions of the four tools, `replay_error` of `purchase/execution.py` and `replay_execution_error` of `topup/service.py` |
| `PurchaseExecution` | confirm_purchase composed with quotes, records, both locks, sessions and the platform | `tools/purchase_execution.py`, `purchase/execution.py`, `session/manager.py` |
| `PurchasePromise` | the abstract specification: four facts about the requests of a quote, kept by confirm_purchase and by create_card_checkout | – |
| `CardCheckout` | create_card_checkout and check_card_payment_status composed with quotes, records, the two kinds of lock, sessions and the payment pages | `tools/card_checkout.py`, `purchase/card.py` |
| `TopupQuotes` | top-up quotes of both kinds as operators on the map from id to quote | `topup/models.py`, `store.py`, `service.py` |
| `EsimTopup` | prepare, read back, confirm and cancel of an eSIM top-up, with its three revalidating reads, locks, sessions and a platform that runs every request it gets | `tools/esim_topup.py`, `topup/service.py` |
| `WalletTopup` | preparing a wallet top-up, opening its page, reading its status | `tools/wallet_topup.py`, `topup/service.py` |
| `Selection` | numbered listings and what a number or an identifier means to the tools that take one | `selection/`, `tools/account.py`, `tools/consumption.py` |
| `Catalog` | what the user's words resolve to, which plans an answer holds and in which order | `tools/catalog.py`, `catalog/`, `models/catalog.py` |
| `Transport` | the route guard, one request, retries of reads, the one replay after a 401, the classes of failure | `client/base.py` and the routes of the client classes |
| `ClientIdentity` | the chain of identity providers and whose session a call finds, over OAuth clients, connections and restarts | `session/identity.py` |
| `Reads` | the four modules above side by side: a behaviour is about one of them, since none changes the state of another | – |
| `MC*` | symmetry sets, sets of answers and bounds for TLC | – |
| `*_proofs` | lemmas and theorems, section 5 | – |

How state and actions correspond:

* `Sessions`: `session[k]` is the stored `UserSession` (account, number of its token pair, whether it is inside the
  refresh window); `task[t]` is a call's program counter at its await, with the session copy it holds. `RefreshBody` is
  `refresh()` from the lock to its await, `RefreshSucceeds` / `RefreshFails` the rest; `CallRefused` and `ReplayRefused`
  are the two 401 branches of `run_authenticated`. `presented`, `repeated`, `abandoned`, `refused` and `signedOut` are
  history variables for the properties.
* `PurchaseQuotes`: a preparation is `PrepareStarts` (owner fixed), `PlanRead`, `BalanceRead`, `Creates`; `create()` of
  the service runs under its lock and never suspends, so it is one operator, `QuoteStore!Created`. Time is one bit,
  `lapsed`. `verdict` is what the last creation answered.
* `PurchaseExecution`: `Confirm` is everything up to the first suspension (including, when nothing suspends it, the
  sending); `Decide` is the decision under the quote's lock: the record is acquired, a final one is replayed, the gates
  run, the attempt is counted and stored, the session is made fresh. `PostReturns` is the answer, its classification,
  the save of the call's own record copy and the consumption of the quote. `Cancel` is the client's cancellation at any
  await. `Invalidate` is the two listeners that matter here. A missing record is `NoExecution`.
* `CardCheckout`: one `task` per call of either tool, working `on` a quote or `on` a payment, which is also the key of its
  lock. `Call` and `LockGranted` run the decision inside the lock (`DecideCreate`, `DecideCheck`): look the record up,
  replay, gate, count, and either send at once or wait for the session. `SessionIsReadAgain`, `SessionIsFresh` and
  `SessionIsLost` are what the wait can end in. `CheckoutReturns` and `StatusReturns` classify, save the call's own copy
  and consume the quote.
* `EsimTopup`: a confirmation holds its quote's lock through `EsimsRead`, `PlansRead`, `BalanceRead` (each may be
  `ReadFails`), `SessionIsFresh` and `Returns`. `offered` is the set of quotes whose plan and price the platform offers
  at the moment; `stood` remembers whether they were offered at some time of the confirmation. `reply` is the last answer given,
  reduced to what it claims about the money. `TopsUp` is the platform carrying out the request somebody waits for,
  `TopsUpLate` one whose caller has gone.
* `WalletTopup`: as `CardCheckout`, with the store's insertion order (`older`, a relation on quotes), because a payment is
  looked up as the `First` record with its reference.
* `Selection`: `get_my_esims` is `Starts` (owner fixed), `Sends` (the token chosen), `ListingReturns`; `AskByNumber` reads the stored
  listing without a request.
* `Catalog`: every question reads a fresh catalogue, so a behaviour is a list the platform returns and a question about it.
  A text is a word and its case, `None` where `clean_text` met a placeholder; a region's code may also have padding,
  which `AskedFor` takes off as `Region.api_code` does. The plans of a place are read one by one; the cruise catalogue is
  one record, so a plan in it that cannot be read fails the question (`Fails`).
* `Transport`: `Begin` checks the guard; `Retries`, `Returns`, `Replays`, `GivesUp` are the loops of `base.py` and of
  `run_authenticated`. `Path` gives each route's path, cut so that a marker in it is a piece of it; `Marked` follows from
  it. The foreign routes are those `tests/test_no_backend_mutation.py` forbids. A reference is an ordinary word, a
  dot-segment, a word with a marker in it (all three fit `_REFERENCE_SEGMENT_RE`) or unfit.
* `ClientIdentity`: `Resolve` is the provider chain; `store` maps identities to the person who signed in under them. A
  principal is an OAuth client and a person: the person stands for issuer and subject, so a token is assumed to carry
  both and the pair to name one human; without a subject, everybody behind one OAuth client would be one principal.

The platform is external. Its wallet purchases execute a key at most once: `ledger` is what became of each purchase,
`pending` the requests it may still execute though nobody waits for them, and `Consistent` says which answers it may give
about a purchase of a given fate. The code's docs rely on exactly this idempotency; the model assumes it and no more. A
request that timed out may be executed at any later time, and an answer such as 401 or 503 says nothing about an earlier
request for the same purchase. Its eSIM top-up has no key and runs every request. Its payment pages: at most one opens
per request, at any time after it, and a repeated request may be answered with an earlier page. The repository says both
that this is by key (`client/card.py:6-7`) and that pages are not keyed (`tools/card_checkout.py:649-650`); the model
allows either. Only somebody who was shown a link can pay, a final status does not change, and a status read may report
what held when it was read.

Abstractions: identifiers, keys and tokens are model values or numbers (a key is random, so never repeated: numbered per
quote); the comparison of masked account identifiers is equality of accounts; a plan stands for bundle, currency and
payment method together; `funded` is "Wallet quote whose balance snapshot covers the price", and FALSE also stands for a
quote of another payment method, which the same gate refuses; the metered store sizes and the logging are left out.
`PurchaseExecution!Prepare` and `CardCheckout!Prepare` create a quote in one step because `PurchaseQuotes` has the steps; a
rotation is one await everywhere outside `Sessions` for the same reason.

## 3. Runs

| Run | Bounds | Question and answer |
|---|---|---|
| `sessions` | 1 client, 1 account, 2 calls, 3 token pairs | Is a token rotated twice at once, or for nothing, or sent twice, and does every call end? Sent twice only after the client cancelled the call that was sending it; the rest as it should be. Three pairs let one be issued, rotated and replaced by a new sign-in while another call still holds the first; once the last is out, one call at a time is left. The account behind a sign-in is data to these properties, hence one. |
| `sessions_logout` | 2 calls, 2 pairs | finding 1 |
| `quotes` | 2 accounts on a client, 3 quotes, 2 plans, 2 preparations, limit 1 | Do concurrent preparations pass the limit, leave two usable quotes for one choice, get refused for re-preparing, or end somebody else's quote? No. Two plans are one more than the limit; three quotes let one be replaced while another is prepared. |
| `purchase` | 2 accounts, 2 confirmations, 2 attempts, 2 keys, an answer of each class; a second quote whose confirmation meets the first at the session lock | The properties of a purchase (below), that the model implements `PurchasePromise`, and that every confirmation is answered. Two attempts are the fewest with a retry; the limit itself is theorem `Bounded`, for every value. |
| `purchase_payer` | 2 accounts, 2 confirmations | finding 2 |
| `purchase_gate` | 1 confirmation | finding 3 |
| `card` | 1 quote, 2 pages, 2 accounts, 2 calls, the code's 3 attempts, 2 status checks (the code allows 20), 2 keys | The properties of a card checkout (below), and that it too implements `PurchasePromise`. A lost answer and a retry need two pages; two checks are the fewest that can pass each other. |
| `esim_topup` | 2 quotes, 2 confirmations, 1 account, an answer of each class | Can one quote be topped up twice at a platform without idempotency, can a record or an answer be wrong about the money, is anything sent on terms that were gone all along? No. One account is enough because records and quotes carry the owner they were made with; the proofs are for any number. |
| `esim_topup_readback` | 1 quote | finding 4 |
| `wallet` | 1 account, 2 quotes for one amount, 2 pages, 2 calls, 2 attempts, 1 status check | One link, bounded reads, and agreement of records, quotes and platform, also when two quotes are given the same page. |
| `reads` | up to 3 listed records of each kind, 2 accounts and 2 calls with 2 eSIMs, 2 people with 2 OAuth clients on 2 connections and 1 restart, the code's 3 attempts, limits of none, 0 (raised to 1) and 3 (cut to a maximum of 2) | Eight questions about the calls that only read. The four parts share no state, so `part` picks the one a behaviour is about; one run instead of four. |
| `listing_owner` | 2 accounts, 2 calls | finding 5 |

One client is enough: clients share no state (every store and lock is keyed by client or by a quote of one client), so a
second one only multiplies the states; the proofs are for any number. Bounds in guards: `MaxTokens` stops the platform
issuing token pairs; `MaxKeys` stops a session's end that would leave a quote without another key; neither cuts a
behaviour the properties are about: with two keys a record is dropped and a second key is minted, which is the dangerous
case. `MCPurchaseExecution!Bound` limits what is prepared, never what a confirmation under way may do, so liveness is
not weakened by it: every step of a call's `Step` that is enabled in the model is enabled in the run. The second quote is
prepared only while the first one's confirmation rotates the session, which is the one situation in which two quotes meet.
`MCSessions!Bound` limits when a call may begin or go on after the last token pair; it keeps enabled a failing end of every
step.

Symmetry is used only in runs of safety properties. Deadlock is checked in every run.

**Fairness.** The specifications of `sessions` and `purchase` have weak fairness of each call's own steps: a request in
flight is answered, refused or given up (httpx has a timeout on every request), and asyncio runs every task that is ready
and hands a lock to its waiters in order. Nothing is assumed about clients: nobody has to confirm, cancel, sign in or out,
and the platform does not have to execute anything. `EveryCallReturns` and `EveryConfirmationReturns` rest on it.

**Properties of a purchase.** `OneKeyPerQuote`, `AttemptsBounded`; `FailedMeansNotCharged` (a record that says failed is
about a purchase the platform refused for good, even if an earlier request is still running); `ConsumedMeansBought` (quote
store and record store agree); `ReplayTellsTheTruth` (a repeated confirmation says "bought" only where the wallet was debited,
and "refused" only where every request ever sent was refused for good); `SettledNeverResent` (after a final answer nothing is sent
again, although the record of that answer may be gone); `KeepsPromise` (refinement); `EveryConfirmationReturns`. That the
wallet is debited once and that two requests are never out together are theorems (`ChargedOnce`, `Exclusive`).

**Properties of a card checkout.** `KeepsCardPromise`; `OneLinkPerQuote` (however many pages lost answers left behind, the
user holds one link); `CardReadsBounded`; `ReplayedStatusIsTrue` (what later checks replay is what the platform would still say);
`ConsumedMeansPaid` (the stores agree); `RecordNeverRegresses` (the record is saved from copies under two locks, and no
save puts an older copy back). **Of a wallet top-up**, where two records may share a page, the same but for the key:
`OneTopupLinkPerQuote`, `PageReadsBounded`, `TopupRecordNeverRegresses`, and `SettledMeansSettled` for the two in the middle.

**Properties of an eSIM top-up.** `OneRequestPerQuote`; `RecordTellsTheTruth` and `AnswerTellsTheTruth` (neither a record nor
an answer says "nothing was charged" of a top-up that ran or may still run, nor the contrary); `NeverSentOnOldTerms`.

**Properties of the reads.** `NumberMeansWhatWasShown`; `ToolsAgreeOnCountry`, `ToolsAgreeOnRegion` (list and
search read the user's word alike, and a region's code decides over any region's name); `PlansAnswerIsTrue` (the answer
against a definition by what is sold, wished for and better); `NobodyElsesSession`; `ReturningUserIsKnown` (a verified call
finds its person signed in exactly when that person signed in, and not out again, through the same OAuth client);
`RequestsBounded` (retries times the replay); `GuardIsExact` (the guard against the calls the clients make and the routes
the tests forbid; of the clients' references only those that are ordinary words, the others are in section 4).

Each property is broken by a plausible bug, given in the modules as `Name_Variant` next to the definition it would replace.
The type invariant is checked by `purchase` and `esim_topup` and proved for every proved module.

## 4. Findings

All five are places where a comment, or an answer to the user, says more than the code keeps.

1. `SignedOutStaysOut`: `refresh()` saves the session it read before its await; `logout()` takes no lock. A rotation in
   flight across a logout stores the session again.
2. `PaidByItsOwner`: the owner is fixed before the quote's lock, the token is read after it. If another account signs in
   on the client meanwhile, the purchase goes out with that account's token.
3. `GateNeverRejectsAPurchase`: after a lost answer the record is `unresolved`, which is not terminal, so the quote gates
   run for a purchase that may have happened; an expired or cancelled quote is answered with "nothing was charged".
4. `ReadBackKnowsTheTopup`: `get_prepared_esim_topup` says of every quote that is not active that nothing happened, a
   consumed one included; `topup/models.py:63` says no eSIM top-up can reach that state, but `_on_success` puts it there.
5. `NumberNamesOwnEsim`: `get_my_esims` fixes its owner before the read and sends the token of whoever is signed in by
   then; the listing is recorded under the first owner, whose numbers then name the other account's eSIMs.

Seen while modelling, without a run of their own:

* `wallet_unavailable` and `bundle_unavailable` are recorded and have no entry in `_REPLAYABLE_ERRORS`, so a repeated
  confirmation of a refused purchase is told that its outcome is unknown (`PurchaseOutcomes!ReplayError`);
  `purchase/execution.py:243-244` says a record "can never replay as a *different* error". It errs on the cautious side:
  what is replayed is never untrue (`ReplayTellsTheTruth`).
* `Region.api_code` takes the padding off a region's code (and collapses its inner spaces) before it goes into the path
  (`Catalog!AskedFor`); `models/catalog.py:139-143` says it is the platform's value "byte for byte" and that a change of
  padding "turns a real region into a 400". A region listed with a padded code is therefore asked for under a code that no
  region of the list need have; no *other* region answers to it, which is the last part of `ToolsAgreeOnRegion`.
* `client/base.py:106-107` says a permitted reference has "no dot-segment ... no marker smuggled in";
  `_REFERENCE_SEGMENT_RE` and the clients' own patterns (`client/card.py:50`, `client/topup.py:64`,
  `client/wallet_topup.py:53`) admit `.` and `..` and search for no marker, so such references are let through
  (`Transport!Checked`, `Permitted`). The comments beside those patterns say the same of dot-segments. An ICCID has digits
  only and is not concerned. `GuardIsExact` claims nothing of such references.
* A preparation that is reading from the platform while its client logs out stores an active quote after the listener has
  run (`tools/purchase_preparation.py:366`); `session/manager.py:46` says quotes cannot outlive their session. A later
  session of the same owner can confirm it, so the promises above are checked with it.
* Cancelling a prepared purchase or top-up answers "nothing was charged" whatever happened to it: a Card quote stays active
  while its page is open and until a status check sees it paid (`tools/purchase_preparation.py:390-399`).
  `tools/esim_topup.py:134` says of such a note "There is no branch on which it is false", and
  `tools/esim_topup.py:678` "Only reached when nothing was ever sent" does not hold once a session's end dropped the record.
* A 401, 403, 404, 429 or 503 on a purchase attempt that follows a lost one is also reported as "nothing was charged"
  (`tools/purchase_execution.py:379`).
* `session/identity.py` prefers a verified principal, but `server.py:571-580` configures no token verifier
  (`docs/QA_AUTHENTICATION_TEST.md:195-199`: "not wired up yet"), so as built no call carries one; the repository's `README.md:845` describes
  the principal as the triple of OAuth client, issuer and subject, which makes a person who returns through another OAuth
  client a stranger. `ClientIdentity` has tokens so that both cases are checked.
* A region without a usable code (a placeholder such as "N/A") is listed and resolved by name but nothing is asked for it.
* A purchase answered after a logout writes its dropped record back (`purchase/execution.py:379`), against
  `server.py:532`. It is harmless for the key: that is part of theorem `OneKey`.
* The eSIM top-up request carries no amount, so a price that moves between the last read and its arrival is charged as it
  then is. The card and wallet checkouts, too, may go out with the token of an account that signed in meanwhile.
* Asking again for the checkout of a wallet top-up whose page is open replays `charged`, `paid` and `credited` as False
  also after the payment, until a status check has seen it. Two quotes that were given one page settle only the first
  record, and a reference whose first record belongs to another owner is "not found".
* `FORBIDDEN_PATH_MARKERS` is searched in the whole path, catalogue codes included: the plans of a region or a plan whose
  code contains "topup" or "promo" cannot be asked for, and the error says it is a programming mistake.
* A read refused twice with 401 invalidates whatever session the client holds by then, one that has just been
  signed in included (`session/manager.py:247`).
* `_parse_list` skips malformed records, so a destination whose plans are all malformed is answered as one for which
  nothing is sold. A country's ISO code wins over another country's name that spells the same.
* `tools/account.py:28-30`, `client/account.py:45` and `models/account.py:28` say the consumption route is refused;
  `client/base.py` permits it. `client/wallet_topup.py` documents an amount as a decimal string and sends a float.

## 5. Proofs

Every invariant and action property of the passing runs is a theorem; so are the two refinements. Assumptions: the
`ASSUME` of each module (the absent client, user, quote, task or number is none of the real ones; limits are positive;
the platform's answers are among those the outcome modules name) and nothing else. Clients, accounts, people, quotes,
plans, pages, listed records, tasks and limits are arbitrary, and sets may be infinite.

| Module | Theorems | Properties |
|---|---|---|
| `SessionsAndReads_proofs`, on `Sessions` | `TypeCorrect`, `SentOnce`, `Serial`, `NeededOnly` | the type invariant; `RefreshTokenSentOnce`, `OneRotationAtATime`, `RotatedOnlyWhenNeeded` |
| on `Reads`, its `ClientIdentity` | `Attribution`, `Returning` | `NobodyElsesSession`, `ReturningUserIsKnown` |
| its `Transport` | `SendingBounded`, `GuardCorrect` | `RequestsBounded`, `GuardIsExact` |
| its `Selection` | `NumbersKeepMeaning` | `NumberMeansWhatWasShown` |
| its `Catalog` | `CountryAgreed`, `RegionAgreed`, `PlansAnswered` | `ToolsAgreeOnCountry`, `ToolsAgreeOnRegion`, `PlansAnswerIsTrue` |
| `PurchaseQuotes_proofs` | `OneQuote`, `Limited`, `RePreparing`, `OwnersOnly` | all four of run `quotes` |
| `PurchaseExecution_proofs` | `TypeCorrect`, `OneKey`, `ChargedOnce`, `Bounded`, `Exclusive`, `FailedIsFinal`, `StoresAgree`, `ReplaysAreTrue`, `NeverResent`, `Refinement` | the eight safety properties of run `purchase`, and `NeverChargedTwice`, `OneInFlightPerQuote`; `Refinement` is `KeepsPromise`, i.e. `PurchasePromise!Spec` under the refinement mapping in `PurchaseExecution` |
| `CardCheckout_proofs` | `TypeCorrect`, `OneLink`, `Bounded`, `ReplaysAreTrue`, `StoresAgree`, `NoRegression`, `Refinement` | the type invariant; `OneLinkPerQuote`, `CardReadsBounded`, `ReplayedStatusIsTrue`, `ConsumedMeansPaid`, `RecordNeverRegresses`, `KeepsCardPromise` |
| `EsimTopup_proofs` | `TypeCorrect`, `OneRequest`, `RecordsAreTrue`, `AnswersAreTrue`, `NotOnOldTerms` | all five of run `esim_topup` |
| `WalletTopup_proofs` | `TypeCorrect`, `OneLink`, `StoresAgree`, `Bounded`, `NoRegression` | the type invariant; all four of run `wallet`: `OneTopupLinkPerQuote`, `SettledMeansSettled`, `PageReadsBounded`, `TopupRecordNeverRegresses` |
| `AsyncLock_proofs`, `QuoteStore_proofs` | lemmas | locks stay locks; what the operations on quotes preserve |

None of the properties of the tools that spend money is inductive: they do not mention the copies that tasks carry
across awaits, or why a dropped record does no harm. Each proofs module states an inductive invariant `IInv`, checked
with TLC on the run's instance too, and proves `Invariance` as `Init => IInv` and one lemma per action. The parts of
`Reads` have one each (`AttributionOK`, `SendingOK`, `GuardOK`, `ListingOK`, `CatalogOK`), checked with TLC on the
instance of run `reads`, and every step of `Reads` is a step of each part or leaves it alone (`PartsStep`).

**Sessions.** A stored refresh token that was presented is being presented by a call that holds its client's lock, or that
call was cancelled (`SessionOK`); tokens are new when issued and no two clients hold one (`Distinct`), so a token that left
the store never comes back except from the copy of the call that is rotating it.

**Purchase quotes.** `create()` supersedes before it stores, so what an owner can use grows by one quote at most, and only
below the limit; every other operation leaves the owner with a subset (`Fewer`). Cardinalities come from the library's
theorems on finite sets.

**Purchase.** `InFlightOK`: a confirmation past its gates holds its quote's lock; its copy carries the newest key minted for
the quote; its attempt is already in the copy; if the quote is still active the stored record is that very copy; no final
answer is known. `ActiveOK`: while a quote can be bought, a record exists for everything sent, with the same key, at least
as many attempts, and a final status if a final answer came. The end of a session breaks the record and the quote together,
and no quote becomes active again, which is why the lost record does not matter. The answer a record
replays is read off that record under the quote's lock and stays what that record says (`ReplayOK`); what the record says
of the money is true by the invariant, and with the verdict's lemma it is true of every request ever sent for the quote
(`ReplaysAreTrue`). `VerdictOK` is the lemma about the
classification: over all answers, "failed" is concluded only from an answer the platform gives about a refused purchase,
"succeeded" only from a paid one. For the refinement, `RequestsStep` shows that every step is `Sends` (one request with the
quote's key, while no other is out), `Returns` (the end of that wait) or `Quiet`, and these are the promise's `Send`,
`Return` and a stutter.

**eSIM top-up.** Once a request was sent for a quote, the quote is `Sealed`: it is not active any more, or its record counts
the attempt; a session's end, which drops the record, takes the activity with it. A confirmation past its gates is alone
with its quote (`FlightOK`), and knows that nothing was sent before.

**Card checkout.** One record is written under two locks. No page of a quote is known to the user before the last checkout
request for it was answered for good (`PostsOK`), so the calls that open pages (`OpensOK`) and those that read a payment
(`ChecksOK`) never work on one record together (lemma `Alone`), and the copy a call saves is the stored record or belongs
to a quote that cannot be bought any more (`FlightOK`). As for a purchase, a record is only lost together with its quote's
activity (`ActiveOK`).

**Wallet top-up.** As for the card, but a page may belong to two records, and a payment's lock is the page's. A call that
opens a page works on a quote none of whose pages was shown; one that reads a payment works on the first record with that
page, the only page its user was shown; so the two never save one record together, and two readings of one page exclude
each other by its lock. A record is lost only together with its quote's activity, and one that is begun anew belongs to a
quote that nobody can use, so a late save of an old copy settles nothing.

**Identity.** What is stored under an identity belongs to whoever it stands for: a principal to itself, a connection to the
person it was minted for, the process to its one user (`AttributionOK`); and a call that is let through resolves to an
identity that stands for its caller (`Resolves`).

**Transport.** `SendingOK` counts the attempts before the rotation and after it apart. `GuardOK` says a request was sent or
refused as `Permitted` has it, and `ForeignRefused` and `ClientsPermitted` what it has of each family of requests, from the
markers in its paths (`ForeignMarked`, `OwnUnmarked`).

**Selection.** The stored listing of a client is the one that its recorded owner was last shown (`ListingOK`): the store and
what is shown change together, for one owner.

**Catalog.** An answer is given about the list the platform just returned, so the invariant is the properties themselves
(`CatalogOK`) and the work is in the answers: `Resolution` (a place that is named matches in some field, and "not found"
means that nothing does in any), `Decides` (a listed code decides), `QualifiesIsMeets` (the filter against the plain meaning of a wish), `BetterFirst` (a
better plan has a smaller sort key) and `ShownFirst` (the plans with rank up to n are n, if there are more, and none left
out is ahead of one shown).

Steps outside confirmations only move quotes (`Moves`: created, cancelled or lapsed); steps of one call touch one quote
(`OnlyTouches`), so each needs only its own quote's facts. Both are used in all the proofs about records.

Only model-checked: liveness (`EveryCallReturns`, `EveryConfirmationReturns`), which like `ENABLED` is outside the
prover. The type invariants of `Selection`, `Transport` and `Catalog` hold on the instance of run `reads` and are
neither part of it nor proved: no proof needs them, and that filtering a list of eSIMs leaves a list of eSIMs is an
induction over it. Two things the prover cannot do by induction are done without it: that sorting and cutting a list of
any length leaves the right plans, by ranks (`Counted`, `Ranks`), and that a list has a first match, from the library's
theorem on well-founded relations (`Smallest`). Two things cannot be concluded from the proofs: that the bounded
instances reach the interesting cases, which is what the runs and their mutants show, and that the five statements of
section 4 fail, which is what the counterexamples show.

## 6. Not modelled

Settings values (except those that decide the identity of a caller), HTTP app, logging, redaction and the health application
keep no state the properties could see. Request bodies, headers, response layouts, summaries and messages are data or
wording that no property tells apart; `get_order_history` and the usage figures are read and formatted.
`replay_error` of `topup/service.py:516-540`, which words the recorded refusal of a wallet top-up again, is left out: such a
replay changes no state, and no property of `WalletTopup` reads it. Process restarts are
modelled only where something survives them (`ClientIdentity`): nothing is persisted, so elsewhere every behaviour after
one is a behaviour from `Init`, with the platform's ledger the only thing that survives, and a quote id is never issued again.
