-------------------------------- MODULE Reads --------------------------------
(***************************************************************************)
(* The calls that read: the catalogue is searched (Catalog) or an eSIM     *)
(* picked by its number (Selection), for a client the server recognises    *)
(* (ClientIdentity), over its HTTP client (Transport).  None of these      *)
(* parts changes the state of another, so each behaviour is about one of   *)
(* them and the others rest.                                               *)
(***************************************************************************)
EXTENDS Naturals

CONSTANTS
  Absent,                                             \* no user, field, argument or answer
  Keys, Accounts, Calls, MaxEsims,                    \* Selection: session keys, eSIM accounts, calls
  Countries, Regions, Plans, Criteria,                \* Catalog
  MaxListed, Limits, DefaultLimit, MaxLimit,
  People, Apps, Connections, MaxRestarts,             \* ClientIdentity
  MaxAttempts, Responses                              \* Transport

VARIABLES
  part,                                               \* what this behaviour is about
  signedIn, listing, reader, shown, named,            \* Selection
  subject, list, answer,                              \* Catalog
  config, process, connection, store, known, served,  \* ClientIdentity
  topups, request, pc, attempt, replays, sent, reply  \* Transport

Numbers == INSTANCE Selection WITH Clients <- Keys, Users <- Accounts, Tasks <- Calls, None <- Absent,
                                   session <- signedIn, task <- reader
Shop == INSTANCE Catalog WITH None <- Absent
Identity == INSTANCE ClientIdentity WITH None <- Absent
Http == INSTANCE Transport WITH Answers <- Responses

ASSUME ReadsAssumption ==
  /\ Numbers!SelectionAssumption
  /\ Shop!CatalogAssumption
  /\ Identity!IdentityAssumption
  /\ Http!TransportAssumption

selectionVars == <<signedIn, listing, reader, shown, named>>
catalogVars == <<subject, list, answer>>
identityVars == <<config, process, connection, store, known, served>>
transportVars == <<topups, request, pc, attempt, replays, sent, reply>>
readsVars == <<part, selectionVars, catalogVars, identityVars, transportVars>>

\* The parts that rest do so in one state.
ReadsInit ==
  /\ part \in {"selection", "catalog", "identity", "transport"}
  /\ Numbers!Init /\ Shop!Init /\ Identity!Init /\ Http!Init
  /\ part # "catalog" => subject = "plans"
  /\ part # "identity" => config = [transport |-> "http", production |-> TRUE, by |-> "http"]
  /\ part # "transport" => ~topups

ReadsNext ==
  /\ UNCHANGED part
  /\ \/ part = "selection" /\ Numbers!Next /\ UNCHANGED <<catalogVars, identityVars, transportVars>>
     \/ part = "catalog" /\ Shop!Next /\ UNCHANGED <<selectionVars, identityVars, transportVars>>
     \/ part = "identity" /\ Identity!Next /\ UNCHANGED <<selectionVars, catalogVars, transportVars>>
     \/ part = "transport" /\ Http!Next /\ UNCHANGED <<selectionVars, catalogVars, identityVars>>

ReadsSpec == ReadsInit /\ [][ReadsNext]_readsVars

-----------------------------------------------------------------------------
(* The properties of the parts.                                            *)

\* A number names the eSIM its owner was last shown under it.
NumberMeansWhatWasShown == Numbers!NumberMeansWhatWasShown

\* What the country list shows as an exact match, the plan search finds.
ToolsAgreeOnCountry == Shop!ToolsAgreeOnCountry

\* What the region list shows as an exact match, the plan search finds; a listed
\* code decides.
ToolsAgreeOnRegion == Shop!ToolsAgreeOnRegion

\* What is said of the plans sold at a place is true and leaves out none better.
PlansAnswerIsTrue == Shop!PlansAnswerIsTrue

\* No call acts with another person's session.
NobodyElsesSession == Identity!NobodyElsesSession

\* A verified call finds its person signed in just when they signed in through
\* the same OAuth client, over any connection.
ReturningUserIsKnown == Identity!ReturningUserIsKnown

\* Retries and the replay after a 401 multiply to a bound and no further.
RequestsBounded == Http!RequestsBounded

\* The route guard refuses what no client has and lets the clients' ordinary
\* calls through.
GuardIsExact == Http!GuardIsExact
=============================================================================
