------------------------------ MODULE Selection ------------------------------
(***************************************************************************)
(* get_my_esims, and the tools that take one of its numbers or an eSIM's   *)
(* identifier: get_esim_consumption and get_esim_topup_options.  A listing *)
(* is recorded for the client and user that asked for it (selection/); the *)
(* read that fills it carries the token of whoever is signed in when it is *)
(* sent, which may be another account by then.                             *)
(***************************************************************************)
EXTENDS Sequences, SequencesExt, Naturals

CONSTANTS Clients,    \* MCP clients: the session keys
          Users,      \* eSIM accounts
          Tasks,      \* concurrent calls
          None,       \* absent user, eSIM or answer
          MaxEsims    \* bound: eSIMs of an account

SelectionAssumption == None \notin Clients \cup Users /\ MaxEsims \in Nat

VARIABLES
  session,    \* client -> signed-in user
  listing,    \* client -> stored EsimSelectionList
  task,       \* calls in progress
  shown,      \* history: owner -> the numbers of the listing it was last shown
  named       \* the number that was just turned into an eSIM, for whom

vars == <<session, listing, task, shown, named>>

-----------------------------------------------------------------------------
(* eSIMs and listings.                                                     *)

Owner == [client : Clients, user : Users]
OwnerOf(k, u) == [client |-> k, user |-> u]
NoOwner == OwnerOf(None, None)

\* An eSIM the platform lists without an identifier has id 0: it cannot be
\* selected.
Esim == [user : Users, id : 0..MaxEsims]
HasIdentifier(e) == e.id > 0
Identified(list) == SelectSeq(list, HasIdentifier)

\* What the platform may list for an account, in its own order.
EsimLists(u) ==
  {list \in SeqOf([user : {u}, id : 0..MaxEsims], MaxEsims) :
     \A i, j \in DOMAIN list : list[i] = list[j] => i = j}

\* EsimSelectionList: entries are numbered by position.
Listing == [user : Users, entries : UNION {EsimLists(u) : u \in Users}]
NoListing == [user |-> None, entries |-> <<>>]

\* record(): numbered from 1 in the order shown, skipping what has no identifier.
Numbered(list) == Identified(list)

\* InMemoryEsimSelectionStore.get: absent unless both halves of the owner match.
StoredFor_AnyUser(owner) == listing[owner.client]
StoredFor(owner) ==
  IF listing[owner.client].user = owner.user THEN listing[owner.client] ELSE NoListing

\* resolve(): the entry with the number, if the listing has one.
Entries(owner, n) == {StoredFor(owner).entries[i] : i \in DOMAIN StoredFor(owner).entries \cap {n}}

\* _resolve_target: the identified eSIM that was asked for, or the only one.
Target(list, wanted) ==
  LET owned == ToSet(Identified(list)) IN
  IF wanted = None THEN {e \in owned : owned = {e}} ELSE {e \in owned : e = wanted}

\* user: whose token the read of the account's eSIMs carries.
Task == [pc : {"idle", "listing", "finding"}, owner : Owner \cup {NoOwner}, user : Users \cup {None}]
Doing(pc, owner) == [pc |-> pc, owner |-> owner, user |-> None]
Idle == Doing("idle", NoOwner)

\* number 0: named by its identifier.
Named(owner, n, esim) == [owner |-> owner, number |-> n, esim |-> esim]
NothingNamed == Named(NoOwner, 0, None)

TypeOK ==
  /\ session \in [Clients -> Users \cup {None}]
  /\ listing \in [Clients -> Listing \cup {NoListing}]
  /\ task \in [Tasks -> Task]
  /\ shown \in [Owner -> SUBSET (Esim \X (1..MaxEsims))]
  /\ named \in [owner : Owner, number : 0..MaxEsims, esim : Esim] \cup {NothingNamed}

Init ==
  /\ session = [k \in Clients |-> None]
  /\ listing = [k \in Clients |-> NoListing]
  /\ task = [t \in Tasks |-> Idle]
  /\ shown = [owner \in Owner |-> {}]
  /\ named = NothingNamed

Become(t, doing) == task' = [task EXCEPT ![t] = doing]

-----------------------------------------------------------------------------
(* Sessions.                                                               *)

SignIn(k, u) ==
  /\ session' = [session EXCEPT ![k] = u]
  /\ named' = NothingNamed
  /\ UNCHANGED <<listing, task, shown>>

\* Logout, a failed rotation or a second 401, with the listener of listings.
SessionEnds(k) ==
  /\ session' = [session EXCEPT ![k] = None]
  /\ listing' = [listing EXCEPT ![k] = NoListing]
  /\ named' = NothingNamed
  /\ UNCHANGED <<task, shown>>

-----------------------------------------------------------------------------
(* The tools.                                                              *)

\* get_my_esims, or another tool that was given an identifier or nothing to go
\* by: the owner is fixed before the account's eSIMs are read.
Starts(t, k, pc) ==
  /\ task[t] = Idle /\ session[k] # None
  /\ Become(t, Doing(pc, OwnerOf(k, session[k])))
  /\ named' = NothingNamed
  /\ UNCHANGED <<session, listing, shown>>

\* A number is looked up in the caller's own listing, without that read; a
\* number that is not on it ends the call.  The read of usage or of top-up
\* plans that follows changes nothing here.
AskByNumber(k, n) ==
  LET owner == OwnerOf(k, session[k]) IN
  /\ session[k] # None
  /\ \/ \E e \in Entries(owner, n) : named' = Named(owner, n, e)
     \/ Entries(owner, n) = {} /\ named' = NothingNamed
  /\ UNCHANGED <<session, listing, task, shown>>

\* run_authenticated: the request goes out, and once more after a 401, with the
\* token of whoever is signed in on the client.
Sends(t) ==
  LET me == task[t] IN
  /\ me.pc # "idle" /\ session[me.owner.client] # None
  /\ Become(t, [me EXCEPT !.user = session[me.owner.client]])
  /\ named' = NothingNamed
  /\ UNCHANGED <<session, listing, shown>>

\* The platform lists the eSIMs of the token's account: they are recorded for
\* the owner in place of whatever was there, and shown.
ListingReturns(t) ==
  LET me == task[t] IN
  /\ me.pc = "listing" /\ me.user # None
  /\ \E list \in EsimLists(me.user) :
       LET entries == Numbered(list) IN
       /\ listing' = [listing EXCEPT ![me.owner.client] = [user |-> me.owner.user, entries |-> entries]]
       /\ shown' = [shown EXCEPT ![me.owner] = {<<entries[i], i>> : i \in DOMAIN entries}]
  /\ Become(t, Idle)
  /\ named' = NothingNamed
  /\ UNCHANGED session

\* The read of a tool that was given an identifier, or none: the eSIM it names
\* is found in it or nowhere.
Finds(t) ==
  LET me == task[t] IN
  /\ me.pc = "finding" /\ me.user # None
  /\ \E list \in EsimLists(me.user), wanted \in {e \in Esim : HasIdentifier(e)} \cup {None} :
       \/ \E e \in Target(list, wanted) : named' = Named(me.owner, 0, e)
       \/ Target(list, wanted) = {} /\ named' = NothingNamed
  /\ Become(t, Idle)
  /\ UNCHANGED <<session, listing, shown>>

\* The read fails, or the call is cancelled.
Fails(t) ==
  /\ task[t].pc # "idle"
  /\ Become(t, Idle)
  /\ named' = NothingNamed
  /\ UNCHANGED <<session, listing, shown>>

Next ==
  \/ \E k \in Clients, u \in Users : SignIn(k, u)
  \/ \E k \in Clients : SessionEnds(k)
  \/ \E k \in Clients, n \in 1..MaxEsims : AskByNumber(k, n)
  \/ \E t \in Tasks, k \in Clients, pc \in {"listing", "finding"} : Starts(t, k, pc)
  \/ \E t \in Tasks : Sends(t) \/ ListingReturns(t) \/ Finds(t) \/ Fails(t)

Spec == Init /\ [][Next]_vars

-----------------------------------------------------------------------------
(* Properties.                                                             *)

\* "A number always means what the user was last shown" (selection/models.py):
\* whoever else signs in, lists and signs out on the client meanwhile, a number
\* names the eSIM that stood under it in the listing this user last saw.
NumberMeansWhatWasShown ==
  named.number > 0 => <<named.esim, named.number>> \in shown[named.owner]

\* "Turn a number into one of this owner's own eSIMs" (selection/service.py):
\* the eSIM a number names belongs to the account that asked.
NumberNamesOwnEsim == named.number > 0 => named.esim.user = named.owner.user
=============================================================================
