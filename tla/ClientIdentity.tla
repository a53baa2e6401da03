--------------------------- MODULE ClientIdentity ---------------------------
(***************************************************************************)
(* Who a call is attributed to (session/identity.py) and whose session it  *)
(* therefore finds: the platform session a call signs in is stored under   *)
(* the caller's identity, and every later call that resolves to the same   *)
(* identity acts with it.  One process serves the single user of its pipe, *)
(* or many users over Streamable HTTP, where the hosting platform may have *)
(* left the configured transport on its default.                           *)
(***************************************************************************)
EXTENDS Naturals, FiniteSets

CONSTANTS People,        \* the humans at the other end
          Apps,          \* the OAuth clients that tokens may be issued to
          Connections,   \* Streamable HTTP connections, as the SDK mints them
          MaxRestarts,   \* bound: restarts of the process
          None           \* nobody, no identity

\* What sessions are stored under.
Identities == ({"principal"} \X (Apps \X People)) \cup ({"connection"} \X Connections)
              \cup ({"process"} \X (0..MaxRestarts))

\* Each process that serves a pipe may have a user of its own.
IdentityAssumption ==
  /\ None \notin People \cup Connections \cup Apps \cup Identities
  /\ MaxRestarts \in Nat /\ MaxRestarts < Cardinality(People)

VARIABLES
  config,       \* the settings that matter here, and how the process is served
  process,      \* which process this is: its random stdio token
  connection,   \* connection -> the person it was minted for
  store,        \* identity -> the person whose platform session it holds
  known,        \* history: who is signed in through which OAuth client
  served        \* the last call: who made it and whose session it found

vars == <<config, process, connection, store, known, served>>

-----------------------------------------------------------------------------
\* Settings has stdio as its default; only the pipe needs it to be true.
Config == [transport : {"stdio", "http"}, production : BOOLEAN, by : {"pipe", "http"}]
Deployable == {c \in Config : c.by = "pipe" => c.transport = "stdio"}

\* A call: over the pipe (no request in context) or over a connection, perhaps
\* without its header, perhaps with a token the OAuth verifier accepted: one
\* that an OAuth client holds for the person who calls.
Call == [person : People, over : Connections \cup {None}, header : BOOLEAN, token : Apps \cup {None}]
Verified(call) == call.token # None
HasHttpRequest(call) == call.over # None

\* The client_id, and the issuer and subject that stand for the person.
Principal(call) == IF Verified(call) THEN {<<"principal", <<call.token, call.person>>>>} ELSE {}
TransportSession(call) ==
  IF HasHttpRequest(call) /\ call.header THEN {<<"connection", call.over>>} ELSE {}

\* Built only for a configured stdio transport outside production, and left out
\* of the chain as soon as there is a request.
StdioProcess_ByConfig(call) ==
  IF config.transport = "stdio" /\ ~config.production THEN {<<"process", process>>} ELSE {}
StdioProcess(call) ==
  IF config.transport = "stdio" /\ ~config.production /\ ~HasHttpRequest(call)
  THEN {<<"process", process>>} ELSE {}

\* ResolvingClientIdentityProvider: the first of the chain that resolves; None
\* when no one does, and the call is refused.
Resolve_ConnectionFirst(call) ==
  LET chain == <<TransportSession(call), Principal(call), StdioProcess(call)>>
      able  == {i \in 1..3 : chain[i] # {}}
  IN IF able = {} THEN None ELSE CHOOSE id \in chain[CHOOSE i \in able : \A j \in able : i <= j] : TRUE
Resolve(call) ==
  LET chain == <<Principal(call), TransportSession(call), StdioProcess(call)>>
      able  == {i \in 1..3 : chain[i] # {}}
  IN IF able = {} THEN None ELSE CHOOSE id \in chain[CHOOSE i \in able : \A j \in able : i <= j] : TRUE

Nobody == [person |-> None, token |-> None, found |-> None]

TypeOK ==
  /\ config \in Deployable /\ process \in 0..MaxRestarts
  /\ connection \in [Connections -> People \cup {None}]
  /\ store \in [Identities -> People \cup {None}]
  /\ known \subseteq Apps \X People
  /\ served \in [person : People, token : Apps \cup {None}, found : People \cup {None}] \cup {Nobody}

Init ==
  /\ config \in Deployable /\ process = 0
  /\ connection = [c \in Connections |-> None]
  /\ store = [id \in Identities |-> None]
  /\ known = {} /\ served = Nobody

\* Over a pipe there is one user per process: here, who it is depends on which.
\* Tokens are verified on requests, of which a pipe has none.
PipeUser == CHOOSE f \in [0..MaxRestarts -> People] : \A i, j \in 0..MaxRestarts : i # j => f[i] # f[j]
MayCall(call) ==
  IF call.over = None THEN config.by = "pipe" /\ ~Verified(call) /\ call.person = PipeUser[process]
                      ELSE config.by = "http" /\ connection[call.over] = call.person

\* A client initializes: the SDK mints the connection's id.
Connect(c, p) ==
  /\ config.by = "http" /\ connection[c] = None
  /\ connection' = [connection EXCEPT ![c] = p]
  /\ served' = Nobody
  /\ UNCHANGED <<config, process, store, known>>

\* verify_login_otp: the session is stored under the caller's identity.
SignsIn(call) ==
  LET id == Resolve(call) IN
  /\ MayCall(call) /\ id # None
  /\ store' = [store EXCEPT ![id] = call.person]
  /\ known' = IF Verified(call) THEN known \cup {<<call.token, call.person>>} ELSE known
  /\ served' = Nobody
  /\ UNCHANGED <<config, process, connection>>

\* logout: the session under the caller's identity is dropped, and no other.
SignsOut(call) ==
  LET id == Resolve(call) IN
  /\ MayCall(call) /\ id # None
  /\ store' = [store EXCEPT ![id] = None]
  /\ known' = known \ {<<call.token, call.person>>}
  /\ served' = Nobody
  /\ UNCHANGED <<config, process, connection>>

\* Any other tool: it acts with the session it finds, or is refused.
Asks(call) ==
  LET id == Resolve(call) IN
  /\ MayCall(call)
  /\ served' = [person |-> call.person, token |-> call.token,
                found |-> IF id = None THEN None ELSE store[id]]
  /\ UNCHANGED <<config, process, connection, store, known>>

\* A new process has new connections, a new token and empty in-memory stores.
Restarts ==
  /\ process < MaxRestarts
  /\ process' = process + 1
  /\ connection' = [c \in Connections |-> None]
  /\ store' = [id \in Identities |-> None]
  /\ known' = {} /\ served' = Nobody
  /\ UNCHANGED config

Next ==
  \/ \E c \in Connections, p \in People : Connect(c, p)
  \/ \E call \in Call : SignsIn(call) \/ SignsOut(call) \/ Asks(call)
  \/ Restarts

Spec == Init /\ [][Next]_vars

-----------------------------------------------------------------------------
(* Properties.                                                             *)

\* No call finds the session of another person, over any transport, with any
\* headers, under any configuration that starts.
NobodyElsesSession == served.found # None => served.found = served.person

\* "the only one under which a returning user keeps their session"
\* (session/identity.py): over any connection, a verified call finds its person
\* signed in just when that person signed in, and has not signed out, through
\* the same OAuth client; who comes back through another one is a stranger.
ReturningUserIsKnown ==
  served.token # None => (served.found = served.person <=> <<served.token, served.person>> \in known)
=============================================================================
