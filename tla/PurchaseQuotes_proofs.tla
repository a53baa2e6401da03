------------------------- MODULE PurchaseQuotes_proofs -------------------------
(***************************************************************************)
(* Proofs about preparing and cancelling purchases, for any number of      *)
(* clients, accounts, plans and concurrent preparations and any limit.     *)
(* The argument: create() supersedes before it stores, so what an owner    *)
(* can use grows by one quote at most, and only below the limit; every     *)
(* other step leaves an owner with fewer usable quotes or the same ones.   *)
(***************************************************************************)
EXTENDS PurchaseQuotes, QuoteStore_proofs, FiniteSetTheorems, TLAPS

-----------------------------------------------------------------------------
(* The inductive invariant.                                                *)

\* What an owner can use of a quote map is finite and within the limit.
WithinLimit(quotes, owner) ==
  IsFiniteSet(ListActive(quotes, owner)) /\ Cardinality(ListActive(quotes, owner)) <= MaxActive

\* No two usable quotes of an owner are for one plan.
OnePerChoice(quotes) ==
  \A q, r \in Quotes :
    /\ IsUsable(quotes[q]) /\ IsUsable(quotes[r])
    /\ quotes[q].owner = quotes[r].owner /\ quotes[q].plan = quotes[r].plan
    => q = r

StoreOK(quotes) ==
  /\ quotes \in QuoteMap
  /\ OnePerChoice(quotes)
  /\ \A owner \in Owner : WithinLimit(quotes, owner)

\* A preparation knows its owner and its plan from the start.
CallOK(t) == task[t].pc # "idle" => task[t].owner \in Owner /\ task[t].plan \in Plans

IInv ==
  /\ TypeOK
  /\ StoreOK(quote)
  /\ \A t \in Tasks : CallOK(t)

-----------------------------------------------------------------------------
(* The store.                                                              *)

\* No quote becomes usable, and quotes keep their owner and plan.
Fewer(old, new) ==
  /\ new \in QuoteMap
  /\ \A q \in Quotes :
       /\ IsUsable(new[q]) => IsUsable(old[q])
       /\ new[q].owner = old[q].owner /\ new[q].plan = old[q].plan
       /\ old[q].status = "none" <=> new[q].status = "none"

LEMMA FewerKeeps ==
  ASSUME NEW old, StoreOK(old), NEW new, Fewer(old, new)
  PROVE  StoreOK(new)
<1>1. ASSUME NEW owner \in Owner PROVE WithinLimit(new, owner)
  <2>1. ListActive(new, owner) \in SUBSET ListActive(old, owner)
    BY DEF ListActive, Owned, Fewer
  <2>2. /\ IsFiniteSet(ListActive(new, owner))
        /\ Cardinality(ListActive(new, owner)) <= Cardinality(ListActive(old, owner))
    BY <2>1, FS_Subset DEF StoreOK, WithinLimit
  <2>3. Cardinality(ListActive(new, owner)) \in Nat /\ Cardinality(ListActive(old, owner)) \in Nat
    BY <2>2, FS_CardinalityType DEF StoreOK, WithinLimit
  <2> QED BY <2>2, <2>3, PurchaseQuotesAssumption DEF StoreOK, WithinLimit
<1>2. OnePerChoice(new)
  BY DEF StoreOK, OnePerChoice, Fewer
<1> QED BY <1>1, <1>2 DEF StoreOK, Fewer

\* Giving stored quotes the status "cancelled".
LEMMA CancellingIsFewer ==
  ASSUME NEW old \in QuoteMap, NEW qs \in SUBSET Quotes, \A q \in qs : old[q].status # "none"
  PROVE  /\ Fewer(old, WithStatus(old, qs, "cancelled"))
         /\ \A q \in qs : ~IsUsable(WithStatus(old, qs, "cancelled")[q])
         /\ \A q \in Quotes \ qs : WithStatus(old, qs, "cancelled")[q] = old[q]
<1>1. ASSUME NEW q \in qs
      PROVE  /\ [old[q] EXCEPT !.status = "cancelled"] \in Quote
             /\ [old[q] EXCEPT !.status = "cancelled"].status = "cancelled"
             /\ [old[q] EXCEPT !.status = "cancelled"].owner = old[q].owner
             /\ [old[q] EXCEPT !.status = "cancelled"].plan = old[q].plan
  <2>1. old[q] \in Quote
    BY DEF QuoteMap, NoQuote
  <2> QED BY <2>1 DEF Quote, Status
<1>2. ASSUME NEW q \in Quotes
      PROVE  WithStatus(old, qs, "cancelled")[q] =
               IF q \in qs THEN [old[q] EXCEPT !.status = "cancelled"] ELSE old[q]
  BY DEF WithStatus
<1>3. WithStatus(old, qs, "cancelled") \in QuoteMap
  BY <1>1 DEF WithStatus, QuoteMap
<1> QED BY <1>1, <1>2, <1>3 DEF Fewer, IsUsable

LEMMA SameIsFewer == ASSUME NEW old \in QuoteMap PROVE Fewer(old, old)
  BY DEF Fewer

\* invalidate_session() and cancel().
LEMMA InvalidatedIsFewer == ASSUME NEW old \in QuoteMap, NEW k PROVE Fewer(old, Invalidated(old, k))
  BY CancellingIsFewer DEF Invalidated

LEMMA CancelledIsFewer ==
  ASSUME NEW old \in QuoteMap, NEW owner, NEW q \in Quotes
  PROVE  /\ Fewer(old, Cancelled(old, owner, q))
         /\ \A r \in Quotes : r # q => Cancelled(old, owner, q)[r] = old[r]
<1>1. CASE IsUsable(old[q])
  BY <1>1, CancellingIsFewer DEF Cancelled, IsUsable
<1>2. CASE ~IsUsable(old[q])
  BY <1>2, SameIsFewer DEF Cancelled
<1> QED BY <1>1, <1>2

\* create(): what it supersedes, and what it stores.
LEMMA SupersededFacts ==
  ASSUME NEW old \in QuoteMap, NEW owner, NEW plan
  PROVE  /\ Superseded(old, owner, plan) \in SUBSET Quotes
         /\ Superseded(old, owner, plan) \subseteq ListActive(old, owner)
         /\ \A q \in Superseded(old, owner, plan) : /\ old[q].status # "none" /\ IsUsable(old[q])
                                                    /\ old[q].owner = owner /\ old[q].plan = plan
  BY DEF Superseded, ListActive, Owned

LEMMA PreparedFacts ==
  ASSUME NEW owner \in Owner, NEW plan \in Plans, NEW funded \in BOOLEAN
  PROVE  /\ Prepared(owner, plan, funded) \in Quote /\ IsUsable(Prepared(owner, plan, funded))
         /\ Prepared(owner, plan, funded).owner = owner /\ Prepared(owner, plan, funded).plan = plan
         /\ Prepared(owner, plan, funded).status = "active"
<1>1. Prepared(owner, plan, funded) \in Quote
  BY Zenon DEF Prepared, Quote, Status
<1>2. IsUsable(Prepared(owner, plan, funded))
  BY DEF Prepared, IsUsable
<1> QED BY <1>1, <1>2 DEF Prepared

LEMMA CreatedKeeps ==
  ASSUME NEW old, StoreOK(old), NEW q \in Quotes, old[q] = NoQuote,
         NEW owner \in Owner, NEW plan \in Plans, NEW funded \in BOOLEAN
  PROVE  /\ StoreOK(Created(old, q, owner, plan, funded))
         /\ \A r \in Quotes : IsUsable(old[r]) /\ ~IsUsable(Created(old, q, owner, plan, funded)[r])
                                => old[r].owner = owner /\ old[r].plan = plan
<1>1. PICK gone \in SUBSET Quotes : gone = Superseded(old, owner, plan)
  BY SupersededFacts DEF StoreOK
<1>2. PICK kept : kept = WithStatus(old, gone, "cancelled")
  OBVIOUS
<1>3. /\ \A r \in gone : /\ old[r].status # "none" /\ IsUsable(old[r])
                         /\ old[r].owner = owner /\ old[r].plan = plan
      /\ gone \subseteq ListActive(old, owner)
  BY <1>1, SupersededFacts DEF StoreOK
<1>4. /\ Fewer(old, kept) /\ \A r \in gone : ~IsUsable(kept[r])
      /\ \A r \in Quotes \ gone : kept[r] = old[r]
  BY <1>2, <1>3, CancellingIsFewer DEF StoreOK
<1>5. StoreOK(kept)
  BY <1>4, FewerKeeps
<1>6. CASE AtLimit(old, owner, plan)
  <2>1. Created(old, q, owner, plan, funded) = kept
    BY <1>1, <1>2, <1>6 DEF Created
  <2> QED BY <1>3, <1>4, <1>5, <2>1
<1>7. CASE ~AtLimit(old, owner, plan)
  <2>1. PICK p \in Quote : p = Prepared(owner, plan, funded) /\ IsUsable(p) /\ p.owner = owner
                           /\ p.plan = plan /\ p.status = "active"
    BY PreparedFacts
  <2>2. PICK new : new = [kept EXCEPT ![q] = p] /\ new = Created(old, q, owner, plan, funded)
    BY <1>1, <1>2, <1>7, <2>1 DEF Created
  <2>3. new \in QuoteMap /\ new[q] = p /\ \A r \in Quotes : r # q => new[r] = kept[r]
    BY <1>5, <2>2 DEF StoreOK, QuoteMap
  <2>4. ~IsUsable(old[q])
    BY DEF IsUsable, NoQuote
  <2>5. OnePerChoice(new)
    <3> SUFFICES ASSUME NEW i \in Quotes, NEW j \in Quotes, IsUsable(new[i]), IsUsable(new[j]),
                        new[i].owner = new[j].owner, new[i].plan = new[j].plan
                 PROVE  i = j
      BY DEF OnePerChoice
    <3>1. ASSUME NEW r \in Quotes, r # q, IsUsable(new[r]), new[r].owner = owner, new[r].plan = plan PROVE FALSE
      <4>1. IsUsable(kept[r]) /\ kept[r].owner = owner /\ kept[r].plan = plan
        BY <2>3, <3>1
      <4>2. r \notin gone /\ kept[r] = old[r]
        BY <1>4, <4>1
      <4>3. r \in gone
        BY <1>1, <4>1, <4>2 DEF Superseded, ListActive, Owned, IsUsable
      <4> QED BY <4>2, <4>3
    <3> QED BY <1>5, <2>1, <2>3, <3>1 DEF StoreOK, OnePerChoice
  <2>6. ASSUME NEW o \in Owner PROVE WithinLimit(new, o)
    <3>1. CASE o # owner
      <4>1. ListActive(new, o) = ListActive(kept, o)
        <5>1. ASSUME NEW r \in Quotes
              PROVE  Owned(new, o, r) /\ IsUsable(new[r]) <=> Owned(kept, o, r) /\ IsUsable(kept[r])
          BY <1>4, <2>1, <2>3, <2>4, <3>1 DEF Owned, Fewer
        <5> QED BY <5>1 DEF ListActive
      <4> QED BY <1>5, <4>1 DEF StoreOK, WithinLimit
    <3>2. CASE o = owner
      <4>1. PICK left : left = ListActive(old, owner) \ gone
        OBVIOUS
      <4>2. IsFiniteSet(left) /\ Cardinality(left) \in Nat /\ Cardinality(left) < MaxActive
        <5>1. IsFiniteSet(left)
          BY <4>1, FS_Subset DEF StoreOK, WithinLimit
        <5>2. Cardinality(left) \in Nat
          BY <5>1, FS_CardinalityType
        <5> QED BY <1>1, <1>7, <4>1, <5>1, <5>2, PurchaseQuotesAssumption DEF AtLimit
      <4>3. ListActive(new, owner) = left \cup {q}
        <5>1. ASSUME NEW r \in Quotes, r # q
              PROVE  Owned(new, owner, r) /\ IsUsable(new[r]) <=> r \in left
          <6>1. CASE r \in gone
            BY <1>4, <2>3, <4>1, <5>1, <6>1
          <6>2. CASE r \notin gone
            BY <1>4, <2>3, <4>1, <5>1, <6>2 DEF ListActive, Owned
          <6> QED BY <6>1, <6>2
        <5>2. Owned(new, owner, q) /\ IsUsable(new[q])
          BY <2>1, <2>3 DEF Owned
        <5>3. left \subseteq Quotes
          BY <4>1 DEF ListActive
        <5> QED BY <5>1, <5>2, <5>3 DEF ListActive
      <4>4. IsFiniteSet(left \cup {q}) /\ Cardinality(left \cup {q}) <= Cardinality(left) + 1
        <5>1. /\ IsFiniteSet(left \cup {q})
              /\ Cardinality(left \cup {q}) = IF q \in left THEN Cardinality(left) ELSE Cardinality(left) + 1
          BY <4>2, FS_AddElement, Zenon
        <5> QED BY <4>2, <5>1
      <4>5. Cardinality(left \cup {q}) \in Nat
        BY <4>4, FS_CardinalityType
      <4> QED BY <3>2, <4>2, <4>3, <4>4, <4>5, PurchaseQuotesAssumption DEF WithinLimit
    <3> QED BY <3>1, <3>2
  <2>7. ASSUME NEW r \in Quotes, IsUsable(old[r]), ~IsUsable(new[r]) PROVE old[r].owner = owner /\ old[r].plan = plan
    BY <1>3, <1>4, <2>1, <2>3, <2>7
  <2> QED BY <2>2, <2>3, <2>5, <2>6, <2>7 DEF StoreOK
<1> QED BY <1>6, <1>7

-----------------------------------------------------------------------------
(* Every action.                                                           *)

\* A step that leaves the calls as they are, or ends one.
LEMMA CallsStay ==
  ASSUME IInv, NEW t \in Tasks, task' = [task EXCEPT ![t] = Idle]
  PROVE  task' \in [Tasks -> Task] /\ \A u \in Tasks : CallOK(u)'
<1>1. Idle \in Task /\ Idle.pc = "idle"
  BY Zenon DEF Idle, Task
<1> QED BY <1>1 DEF IInv, TypeOK, CallOK

\* The reply's kind is known.
LEMMA Kinds ==
  /\ Quiet.kind = "none"
  /\ \A kind, owner, plan : /\ Replied(kind, owner, plan).kind = kind
                            /\ Replied(kind, owner, plan).owner = owner
                            /\ Replied(kind, owner, plan).plan = plan
  BY DEF Quiet, Replied

\* What one step promises about the store.
StepOK ==
  /\ IInv'
  /\ verdict'.kind = "limit" => Superseded(quote, verdict'.owner, verdict'.plan) = {}
  /\ \A q \in Quotes :
       IsUsable(quote[q]) /\ ~IsUsable(quote'[q]) =>
         \/ quote'[q].lapsed
         \/ session'[quote[q].owner.client] = None
         \/ verdict'.owner = quote[q].owner /\ verdict'.plan = quote[q].plan

LEMMA SignInStep ==
  ASSUME IInv, NEW k \in Clients, NEW u \in Users, SignIn(k, u) PROVE StepOK
  BY Kinds DEF SignIn, IInv, TypeOK, CallOK, StepOK

LEMMA SessionEndsStep ==
  ASSUME IInv, NEW k \in Clients, SessionEnds(k) PROVE StepOK
<1>1. quote' = Invalidated(quote, k) /\ verdict' = Quiet /\ UNCHANGED task
      /\ session' = [session EXCEPT ![k] = None]
  BY DEF SessionEnds
<1>2. Fewer(quote, quote')
  BY <1>1, InvalidatedIsFewer DEF IInv, StoreOK
<1>3. StoreOK(quote')
  BY <1>2, FewerKeeps DEF IInv
<1>4. ASSUME NEW q \in Quotes, IsUsable(quote[q]), ~IsUsable(quote'[q])
      PROVE  session'[quote[q].owner.client] = None
  <2>1. quote[q] \in Quote
    BY <1>4 DEF IInv, TypeOK, IsUsable, NoQuote
  <2>2. quote[q].owner.client = k
    BY <1>1, <1>4 DEF Invalidated, WithStatus
  <2> QED BY <1>1, <2>2 DEF IInv, TypeOK
<1>5. TypeOK'
  BY <1>1, <1>3, Kinds DEF IInv, TypeOK, StoreOK, QuoteMap
<1> QED BY <1>1, <1>3, <1>4, <1>5, Kinds DEF IInv, CallOK, StepOK

LEMMA PrepareStartsStep ==
  ASSUME IInv, NEW t \in Tasks, NEW k \in Clients, NEW plan \in Plans, PrepareStarts(t, k, plan)
  PROVE  StepOK
<1>1. PICK d : d = [pc |-> "plan", owner |-> OwnerOf(k, session[k]), plan |-> plan, funded |-> FALSE]
  OBVIOUS
<1>2. OwnerOf(k, session[k]) \in Owner
  BY DEF PrepareStarts, IInv, TypeOK, OwnerOf, Owner
<1>3. d \in Task
  BY <1>1, <1>2, Zenon DEF Task
<1>4. d.owner \in Owner /\ d.plan \in Plans
  BY <1>1, <1>2
<1>5. task' = [task EXCEPT ![t] = d] /\ UNCHANGED <<session, quote>> /\ verdict' = Quiet
  BY <1>1 DEF PrepareStarts
<1>6. TypeOK' /\ \A u \in Tasks : CallOK(u)'
  BY <1>3, <1>4, <1>5, Kinds DEF IInv, TypeOK, CallOK
<1> QED BY <1>5, <1>6, Kinds DEF IInv, StepOK

\* A read that is over.
LEMMA OnwardStep ==
  ASSUME IInv, NEW t \in Tasks, task[t].pc # "idle", NEW pc \in {"balance", "context"}, NEW funded \in BOOLEAN,
         \/ task' = [task EXCEPT ![t].pc = pc]
         \/ task' = [task EXCEPT ![t].pc = pc, ![t].funded = funded],
         UNCHANGED <<session, quote>>, verdict' = Quiet
  PROVE  StepOK
<1>1. task[t] \in Task /\ task[t].owner \in Owner /\ task[t].plan \in Plans
  BY DEF IInv, TypeOK, CallOK
<1>2. task' \in [Tasks -> Task] /\ task'[t].owner \in Owner /\ task'[t].plan \in Plans
  <2>1. CASE task' = [task EXCEPT ![t].pc = pc]
    BY <1>1, <2>1 DEF IInv, TypeOK, Task
  <2>2. CASE task' = [task EXCEPT ![t].pc = pc, ![t].funded = funded]
    BY <1>1, <2>2 DEF IInv, TypeOK, Task
  <2> QED BY <2>1, <2>2
<1>3. \A u \in Tasks : u # t => task'[u] = task[u]
  BY DEF IInv, TypeOK
<1>4. \A u \in Tasks : CallOK(u)'
  BY <1>2, <1>3 DEF IInv, CallOK
<1>5. TypeOK'
  BY <1>2, Kinds DEF IInv, TypeOK
<1> QED BY <1>4, <1>5, Kinds DEF IInv, StepOK

LEMMA PlanReadStep == ASSUME IInv, NEW t \in Tasks, PlanRead(t) PROVE StepOK
  BY OnwardStep DEF PlanRead

LEMMA BalanceReadStep == ASSUME IInv, NEW t \in Tasks, BalanceRead(t) PROVE StepOK
  BY OnwardStep DEF BalanceRead

LEMMA PrepareFailsStep == ASSUME IInv, NEW t \in Tasks, PrepareFails(t) PROVE StepOK
  BY CallsStay, Kinds DEF PrepareFails, IInv, TypeOK, StepOK

LEMMA CreatesStep == ASSUME IInv, NEW t \in Tasks, NEW q \in Quotes, Creates(t, q) PROVE StepOK
<1>1. PICK owner \in Owner, plan \in Plans, funded \in BOOLEAN :
        /\ owner = task[t].owner /\ plan = task[t].plan /\ funded = task[t].funded
  <2>1. task[t].owner \in Owner /\ task[t].plan \in Plans
    BY DEF Creates, IInv, CallOK
  <2>2. task[t].funded \in BOOLEAN
    BY DEF IInv, TypeOK, Task
  <2> QED BY <2>1, <2>2
<1>2. /\ quote[q] = NoQuote /\ quote' = Created(quote, q, owner, plan, funded)
      /\ verdict' = Replied(IF AtLimit(quote, owner, plan) THEN "limit" ELSE "prepared", owner, plan)
      /\ task' = [task EXCEPT ![t] = Idle] /\ UNCHANGED session
  BY <1>1 DEF Creates
<1>3. /\ StoreOK(quote')
      /\ \A r \in Quotes : IsUsable(quote[r]) /\ ~IsUsable(quote'[r])
                             => quote[r].owner = owner /\ quote[r].plan = plan
  BY <1>2, CreatedKeeps DEF IInv
<1>4. /\ verdict'.kind = IF AtLimit(quote, owner, plan) THEN "limit" ELSE "prepared"
      /\ verdict'.owner = owner /\ verdict'.plan = plan
  BY <1>2, Kinds
<1>5. TypeOK'
  BY <1>2, <1>3, <1>4, CallsStay DEF IInv, TypeOK, StoreOK, QuoteMap
<1>6. ASSUME AtLimit(quote, owner, plan), NEW r \in Superseded(quote, owner, plan) PROVE FALSE
  <2>1. PICK all : all = ListActive(quote, owner)
    OBVIOUS
  <2>2. PICK gone \in SUBSET all : gone = Superseded(quote, owner, plan) /\ r \in gone
    BY <1>6, <2>1 DEF Superseded
  <2>3. IsFiniteSet(all) /\ Cardinality(all) <= MaxActive /\ Cardinality(all) \in Nat
    BY <2>1, FS_CardinalityType DEF IInv, StoreOK, WithinLimit
  <2>4. all \ gone \in SUBSET (all \ {r}) /\ IsFiniteSet(all \ {r})
        /\ Cardinality(all \ {r}) = Cardinality(all) - 1
    BY <2>2, <2>3, FS_RemoveElement
  <2>5. Cardinality(all \ gone) <= Cardinality(all \ {r}) /\ IsFiniteSet(all \ gone)
    BY <2>4, FS_Subset
  <2>6. Cardinality(all \ gone) \in Nat /\ Cardinality(all \ gone) >= MaxActive
    BY <1>6, <2>1, <2>2, <2>5, FS_CardinalityType DEF AtLimit
  <2> QED BY <2>3, <2>4, <2>5, <2>6, PurchaseQuotesAssumption
<1>7. verdict'.kind = "limit" => Superseded(quote, verdict'.owner, verdict'.plan) = {}
  BY <1>4, <1>6
<1> QED BY <1>2, <1>3, <1>4, <1>5, <1>7, CallsStay DEF IInv, StepOK

LEMMA CancelPreparedStep ==
  ASSUME IInv, NEW k \in Clients, NEW q \in Quotes, CancelPrepared(k, q) PROVE StepOK
<1>1. PICK owner : owner = OwnerOf(k, session[k])
  OBVIOUS
<1>2. /\ quote' = Cancelled(quote, owner, q) /\ quote[q].owner = owner /\ UNCHANGED <<session, task>>
      /\ verdict'.kind = "cancelled" /\ verdict'.owner = owner /\ verdict'.plan = quote[q].plan
  BY <1>1, Kinds DEF CancelPrepared, Owned
<1>3. Fewer(quote, quote') /\ \A r \in Quotes : r # q => quote'[r] = quote[r]
  BY <1>2, CancelledIsFewer DEF IInv, StoreOK
<1>4. StoreOK(quote')
  BY <1>3, FewerKeeps DEF IInv
<1>5. TypeOK'
  BY <1>2, <1>4 DEF IInv, TypeOK, StoreOK, QuoteMap
<1> QED BY <1>2, <1>3, <1>4, <1>5 DEF IInv, CallOK, StepOK

LEMMA LapsesStep == ASSUME IInv, NEW q \in Quotes, Lapses(q) PROVE StepOK
<1>1. quote[q] \in Quote /\ quote' = [quote EXCEPT ![q].lapsed = TRUE] /\ verdict' = Quiet
      /\ UNCHANGED <<session, task>> /\ IsUsable(quote[q])
  BY DEF Lapses, IInv, TypeOK, IsUsable, NoQuote
<1>2. PICK r \in Quote : /\ r = [quote[q] EXCEPT !.lapsed = TRUE] /\ r.owner = quote[q].owner
                         /\ r.plan = quote[q].plan /\ r.status = "active" /\ r.lapsed
  <2>1. ASSUME NEW b \in BOOLEAN
        PROVE  /\ [quote[q] EXCEPT !.lapsed = b] \in Quote /\ [quote[q] EXCEPT !.lapsed = b].owner = quote[q].owner
               /\ [quote[q] EXCEPT !.lapsed = b].plan = quote[q].plan
               /\ [quote[q] EXCEPT !.lapsed = b].status = "active" /\ [quote[q] EXCEPT !.lapsed = b].lapsed = b
    BY <1>1 DEF Quote, IsUsable
  <2>2. TRUE \in BOOLEAN
    OBVIOUS
  <2> QED BY <2>1, <2>2, Zenon
<1>3. quote' = [quote EXCEPT ![q] = r]
  BY <1>1, <1>2
<1>4. quote' \in QuoteMap /\ quote'[q] = r /\ \A s \in Quotes : s # q => quote'[s] = quote[s]
  BY <1>3 DEF IInv, StoreOK, QuoteMap
<1>5. Fewer(quote, quote')
  BY <1>1, <1>2, <1>4 DEF Fewer, IsUsable
<1>6. StoreOK(quote')
  BY <1>5, FewerKeeps DEF IInv
<1>7. TypeOK'
  BY <1>1, <1>4, Kinds DEF IInv, TypeOK, QuoteMap
<1> QED BY <1>1, <1>2, <1>4, <1>6, <1>7, Kinds DEF IInv, CallOK, StepOK

-----------------------------------------------------------------------------
(* The specification.                                                      *)

LEMMA InitInv == Init => IInv
<1> SUFFICES ASSUME Init PROVE IInv
  OBVIOUS
<1>1. Idle \in Task /\ Idle.pc = "idle"
  BY Zenon DEF Idle, Task
<1>2. TypeOK /\ \A t \in Tasks : CallOK(t)
  BY <1>1, Kinds DEF Init, TypeOK, CallOK
<1>3. \A q \in Quotes : quote[q] = NoQuote /\ ~IsUsable(quote[q])
  BY DEF Init, NoQuote, IsUsable
<1>4. ASSUME NEW owner \in Owner PROVE WithinLimit(quote, owner)
  <2>1. ListActive(quote, owner) = {}
    BY <1>3 DEF ListActive
  <2> QED BY <2>1, FS_EmptySet, PurchaseQuotesAssumption DEF WithinLimit
<1> QED BY <1>2, <1>3, <1>4 DEF IInv, TypeOK, StoreOK, QuoteMap, OnePerChoice

LEMMA NextOK == IInv /\ Next => StepOK
<1> SUFFICES ASSUME IInv, Next PROVE StepOK
  OBVIOUS
<1>1. ASSUME NEW t \in Tasks, PlanRead(t) \/ BalanceRead(t) \/ PrepareFails(t) PROVE StepOK
  BY <1>1, PlanReadStep, BalanceReadStep, PrepareFailsStep
<1>2. ASSUME NEW t \in Tasks, NEW q \in Quotes, Creates(t, q) PROVE StepOK
  BY <1>2, CreatesStep
<1>3. ASSUME NEW t \in Tasks, NEW k \in Clients, NEW plan \in Plans, PrepareStarts(t, k, plan) PROVE StepOK
  BY <1>3, PrepareStartsStep
<1>4. ASSUME NEW k \in Clients, NEW q \in Quotes, CancelPrepared(k, q) PROVE StepOK
  BY <1>4, CancelPreparedStep
<1> QED BY <1>1, <1>2, <1>3, <1>4, SignInStep, SessionEndsStep, LapsesStep DEF Next

LEMMA NextInv == IInv /\ [Next]_vars => IInv'
<1>1. IInv /\ UNCHANGED vars => IInv'
  BY DEF vars, IInv, TypeOK, CallOK
<1> QED BY <1>1, NextOK DEF StepOK

THEOREM Invariance == Spec => []IInv
<1> QED BY InitInv, NextInv, PTL DEF Spec

-----------------------------------------------------------------------------
(* What it gives.                                                          *)

\* However many preparations of an owner run at once, at most one usable quote
\* is left for a plan (purchase/service.py, create).
THEOREM OneQuote == Spec => []OneUsableQuotePerChoice
<1>1. IInv => OneUsableQuotePerChoice
  BY DEF IInv, StoreOK, OnePerChoice, OneUsableQuotePerChoice
<1> QED BY <1>1, Invariance, PTL

\* No interleaving takes an owner past the limit, whatever the limit is.
THEOREM Limited == Spec => []UsableWithinLimit
<1>1. IInv => UsableWithinLimit
  BY DEF IInv, StoreOK, WithinLimit, UsableWithinLimit, Owner, OwnerOf
<1> QED BY <1>1, Invariance, PTL

\* Preparing a choice again is never refused at the limit.
THEOREM RePreparing == Spec => RePrepareNeverRefused
<1>1. IInv /\ [Next]_vars => [verdict'.kind = "limit" => Superseded(quote, verdict'.owner, verdict'.plan) = {}]_vars
  BY NextOK DEF StepOK
<1> QED BY <1>1, Invariance, PTL DEF Spec, RePrepareNeverRefused

\* Nobody but its owner, its client's session and time take a quote away.
THEOREM OwnersOnly == Spec => OnlyOwnerLosesQuote
<1>1. IInv /\ [Next]_vars =>
        [\A q \in Quotes :
           IsUsable(quote[q]) /\ ~IsUsable(quote'[q]) =>
             \/ quote'[q].lapsed
             \/ session'[quote[q].owner.client] = None
             \/ verdict'.owner = quote[q].owner /\ verdict'.plan = quote[q].plan]_vars
  BY NextOK DEF StepOK
<1> QED BY <1>1, Invariance, PTL DEF Spec, OnlyOwnerLosesQuote
=============================================================================
