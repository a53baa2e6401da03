------------------------------ MODULE Transport ------------------------------
(***************************************************************************)
(* The one HTTP client of the server (client/base.py) under the API        *)
(* clients that use it: the guard every path passes before any I/O, the    *)
(* bounded retries of reads, and the one replay run_authenticated makes    *)
(* after a 401.  A request is a route of the platform and the references   *)
(* in its path.                                                            *)
(***************************************************************************)
EXTENDS Naturals, Sequences

CONSTANTS MaxAttempts,   \* _MAX_READ_ATTEMPTS
          Answers        \* what one attempt may meet

VARIABLES
  topups,    \* the deployment has esim_topup_execution_enabled
  request,   \* the request of the call in progress, or of the last one
  pc,        \* where that call is
  attempt,   \* attempts of this request that were answered, or were not
  replays,   \* rotations after a 401
  sent,      \* history: HTTP requests sent for the call
  reply      \* what the call ended with

vars == <<topups, request, pc, attempt, replays, sent, reply>>

-----------------------------------------------------------------------------
(* Routes, and what the API clients ask of them.                           *)

SignInPosts == {"login", "resend_otp", "verify_otp", "refresh_token", "logout"}
Mutations == {"purchase", "card_checkout", "wallet_checkout"}   \* PERMITTED_MUTATION_ROUTES
AssignTopup == "assign_topup"                                   \* QA_ESIM_TOPUP_ROUTE
ExactReads == {"wallet_options"}                                \* PERMITTED_EXACT_READ_ROUTES
ReferenceReads == {"card_status", "wallet_status", "consumption", "related_topup"}
References(route) == IF route = "related_topup" THEN 2 ELSE 1
PlainReads == {"user_info", "catalogue", "my_esims", "order_history", "wallet"}
CodeReads == {"region_plans", "plan_details"}   \* a catalogue code ends the path

\* Routes no client has: buying without a key, the legacy wallet top-up, another
\* user's wallet and the like.
Foreign == {"legacy_assign", "order_otp", "legacy_wallet_topup", "wallet_by_id", "voucher", "promotion",
            "stripe_callback", "bundle_consumption", "translate_bundle"}

\* The paths of the API clients and of the foreign routes ("catalogue" has one
\* of several), cut so that a marker in one is a piece of it.
Path(route) ==
  CASE route = "login"         -> {"/auth/login"}
    [] route = "resend_otp"    -> {"/auth/resend-otp"}
    [] route = "verify_otp"    -> {"/auth/verify_otp"}
    [] route = "refresh_token" -> {"/auth/refresh-token"}
    [] route = "logout"        -> {"/auth/logout"}
    [] route = "user_info"     -> {"/auth/user-info"}
    [] route = "catalogue"     -> {"/home/", "/home/cruise", "/home/land", "/bundles/countries",
                                   "/bundles/region", "/bundles/by-country"}
    [] route = "region_plans"  -> {"/bundles/by-region/"}
    [] route = "plan_details"  -> {"/bundles/"}
    [] route = "my_esims"      -> {"/user/my-esim"}
    [] route = "order_history" -> {"/user/order-history"}
    [] route = "wallet"        -> {"/wallet/user_wallet_by_user"}
    [] route = "purchase"      -> {"/mcp/user/", "bundle/assign"}
    [] route = "card_checkout" -> {"/mcp/user/", "bundle/card", "/checkout"}
    [] route = "card_status"   -> {"/mcp/user/", "bundle/card", "/status/"}
    [] route = "wallet_checkout" -> {"/mcp/", "wallet/top-up", "/checkout"}
    [] route = "wallet_options"  -> {"/mcp/", "wallet/top-up", "/options"}
    [] route = "wallet_status"   -> {"/mcp/", "wallet/top-up", "/status/"}
    [] route = "consumption"     -> {"/user/", "consumption", "/"}
    [] route = "related_topup"   -> {"/user/related-", "topup", "/"}
    [] route = "assign_topup"    -> {"/user/", "bundle/assign", "-", "top-up"}
    [] route = "legacy_assign"   -> {"/user/", "bundle/assign"}
    [] route = "legacy_wallet_topup" -> {"/", "wallet/top-up"}
    [] route = "order_otp"       -> {"/user/bundle/", "verify_order_otp"}
    [] route = "wallet_by_id"    -> {"/wallet/", "user_wallet_by_id", "/"}
    [] route = "voucher"         -> {"/", "voucher", "/redeem"}
    [] route = "promotion"       -> {"/", "promotion", "/apply"}
    [] route = "stripe_callback" -> {"/", "callback", "/", "stripe"}
    [] route = "bundle_consumption" -> {"/user/bundle/", "consumption", "/"}
    [] route = "translate_bundle"   -> {"/bundles/", "translate_bundle"}

\* FORBIDDEN_PATH_MARKERS
Markers == {"bundle/assign", "bundle/card", "verify_order_otp", "top-up", "topup", "wallet/top-up",
            "user_wallet_by_id", "voucher", "promotion", "promo", "callback", "payment", "stripe",
            "order/", "consumption", "translate_bundle", "translate_tag"}
Marked(route) == Path(route) \cap Markers # {}

\* A path segment: an ordinary word, "." or "..", a word with a marker in it, or
\* what _REFERENCE_SEGMENT_RE, as every client's own pattern, does not admit.
Segment == {"plain", "dots", "marked", "unfit"}
Clean(r) == \A i \in DOMAIN r.segments : r.segments[i] # "unfit"
Plain(r) == \A i \in DOMAIN r.segments : r.segments[i] = "plain"

Routes == SignInPosts \cup Mutations \cup {AssignTopup} \cup ExactReads \cup ReferenceReads
          \cup PlainReads \cup CodeReads \cup Foreign
Request == [method : {"GET", "POST", "DELETE"}, route : Routes, segments : UNION {[1..n -> Segment] : n \in 0..2}]
Asks(method, routes, n) == [method : {method}, route : routes, segments : [1..n -> Segment]]

\* The API clients check an identifier before they put it into a path, and
\* quote a catalogue code; an ICCID has digits only.
Iccid(route, i) == route = "consumption" \/ (route = "related_topup" /\ i = 2)
Checked(r) ==
  Clean(r) /\ \A i \in DOMAIN r.segments : Iccid(r.route, i) => r.segments[i] = "plain"
ClientRequests ==
  {r \in Asks("POST", SignInPosts \cup Mutations \cup {AssignTopup}, 0)
         \cup Asks("GET", PlainReads \cup ExactReads, 0)
         \cup Asks("GET", CodeReads \cup (ReferenceReads \ {"related_topup"}), 1)
         \cup Asks("GET", {"related_topup"}, 2) : Checked(r)}
ForeignRequests == Asks("POST", Foreign, 0) \cup Asks("GET", Foreign, 0) \cup Asks("GET", Foreign, 1)
                   \cup Asks("DELETE", Foreign \cup PlainReads, 0)
                   \cup Asks("GET", ReferenceReads, 0) \cup Asks("POST", ReferenceReads, 1)
                   \cup {r \in Asks("GET", ReferenceReads, 1) : ~Clean(r)}

\* allow_retry: catalogue and other cached reads.  The account reads have a long
\* budget and one attempt; request_once is the purchases', checkouts' and payments'.
Retried == (PlainReads \ {"my_esims", "order_history"}) \cup CodeReads \cup ExactReads
           \cup {"consumption", "related_topup"}
Once == Mutations \cup {AssignTopup, "card_status", "wallet_status"}
\* run_authenticated with allow_refresh_replay
Replayed == (PlainReads \ {"catalogue"}) \cup ExactReads \cup {"consumption", "related_topup"}

-----------------------------------------------------------------------------
(* enforce_route_is_permitted.                                             *)

HasMarker(r) == Marked(r.route) \/ \E i \in DOMAIN r.segments : r.segments[i] = "marked"

Permitted_MarkersFirst(r) == r.method \in {"GET", "POST"} /\ ~HasMarker(r)
Permitted(r) ==
  /\ r.method \in {"GET", "POST"}
  /\ \/ r.method = "POST" /\ r.route \in Mutations
     \/ r.method = "GET" /\ r.route \in ExactReads
     \/ topups /\ r.method = "POST" /\ r.route = AssignTopup
     \/ /\ r.route \in ReferenceReads   \* never handed on to the marker scan
        /\ r.method = "GET" /\ Len(r.segments) = References(r.route) /\ Clean(r)
     \/ r.route \notin ReferenceReads /\ ~HasMarker(r)

-----------------------------------------------------------------------------
(* One answer.                                                             *)

\* parsed: "no" is a body that is no envelope, "empty" no body; code: the
\* envelope's own, 0 for none; hint: what its error label mentions.
Hints == {"none", "otp_request_too_frequent", "otp_still_active", "otp_limit_reached", "expired_otp", "invalid_otp"}
Response == [http : 200..599, parsed : {"yes", "no", "empty"}, code : 0..599, failed : BOOLEAN, hint : Hints]
Timeout == [http |-> 0]
Unreachable == [http |-> 1]

TransportAssumption ==
  /\ MaxAttempts \in Nat \ {0}
  /\ Answers \subseteq Response \cup {Timeout, Unreachable}

Is2xx(n) == n \in 200..299

\* The signal that reports a failure wins, the envelope's before the transport's.
EffectiveStatus(a) ==
  IF a.code # 0 /\ ~Is2xx(a.code) THEN a.code
  ELSE IF ~Is2xx(a.http) \/ a.code = 0 THEN a.http ELSE a.code

\* classify_backend_error
Classify(a) ==
  LET s == EffectiveStatus(a) IN
  CASE a.hint # "none"              -> a.hint
    [] s \in {401, 403}             -> "authentication_required"
    [] s = 429                      -> "rate_limited"
    [] s \in {400, 404, 409, 422}   -> "invalid_input"
    [] s >= 500                     -> "backend_unavailable"
    [] OTHER                        -> "internal_error"

EnvelopeOK(a) == ~a.failed /\ (a.code # 0 => Is2xx(a.code))

\* _parse, and the two ways of meeting no answer.
Result(a) ==
  CASE a = Timeout                                             -> "backend_timeout"
    [] a = Unreachable                                         -> "backend_unavailable"
    [] a.http \in Nat \ {0, 1} /\ a.parsed = "no"              -> "invalid_backend_response"
    [] a.http \in Nat \ {0, 1} /\ a.parsed = "empty"           -> IF Is2xx(a.http) THEN "data" ELSE Classify(a)
    [] OTHER -> IF Is2xx(a.http) /\ EnvelopeOK(a) THEN "data" ELSE Classify(a)

\* What the API client makes of it for its tool.
Reported(r, result) ==
  CASE r.route \in {"my_esims", "order_history"} /\ result = "backend_timeout" -> "account_read_timeout"
    [] r.route \in CodeReads \cup {"catalogue"} /\ result = "backend_unavailable" -> "catalog_unavailable"
    [] r.route = "region_plans" /\ result = "invalid_input" -> "region_not_found"
    [] r.route = "plan_details" /\ result = "invalid_input" -> "bundle_not_found"
    [] OTHER -> result

-----------------------------------------------------------------------------
NoRequest == [route |-> "none"]

TypeOK ==
  /\ topups \in BOOLEAN
  /\ request \in Request \cup {NoRequest}
  /\ pc \in {"idle", "sending", "rotating"}
  /\ attempt \in 0..(MaxAttempts - 1) /\ replays \in 0..1 /\ sent \in Nat
  /\ reply \in STRING

Init ==
  /\ topups \in BOOLEAN
  /\ request = NoRequest /\ pc = "idle"
  /\ attempt = 0 /\ replays = 0 /\ sent = 0 /\ reply = "none"

Attempts(r) == IF r.route \in Retried THEN MaxAttempts ELSE 1

\* A client asks; nothing is sent before the guard.
Begin(r) ==
  /\ pc = "idle"
  /\ request' = r
  /\ attempt' = 0 /\ replays' = 0
  /\ IF Permitted(r) THEN pc' = "sending" /\ sent' = 1 /\ reply' = "none"
                      ELSE pc' = "idle" /\ sent' = 0 /\ reply' = "forbidden_backend_route"
  /\ UNCHANGED topups

\* Retried: no answer at all, or one of _RETRYABLE_STATUS, while attempts remain.
InPassing(a) == a \in {Timeout, Unreachable} \/ a.http \in {502, 503, 504}
SendsAgain(a) == InPassing(a) /\ attempt + 1 < Attempts(request)

Retries(a) ==
  /\ pc = "sending" /\ SendsAgain(a)
  /\ attempt' = attempt + 1 /\ sent' = sent + 1
  /\ UNCHANGED <<topups, request, pc, replays, reply>>

\* request_once returns the answer as it is, for the tool to classify.
Outcome(a) == IF request.route \in Once /\ a \notin {Timeout, Unreachable} THEN "outcome" ELSE Result(a)

MayReplay_Twice(result) == result = "authentication_required" /\ request.route \in Replayed
MayReplay(result) == /\ result = "authentication_required" /\ request.route \in Replayed
                     /\ replays = 0

Returns(a) ==
  LET result == Outcome(a) IN
  /\ pc = "sending" /\ ~SendsAgain(a)
  /\ IF MayReplay(result) THEN pc' = "rotating" /\ UNCHANGED reply
                          ELSE pc' = "idle" /\ reply' = Reported(request, result)
  /\ UNCHANGED <<topups, request, attempt, replays, sent>>

\* The session is rotated (Sessions has the steps) and the read repeated.
Replays ==
  /\ pc = "rotating"
  /\ pc' = "sending" /\ attempt' = 0 /\ replays' = replays + 1 /\ sent' = sent + 1
  /\ UNCHANGED <<topups, request, reply>>

\* The rotation fails, or the caller goes away.
GivesUp ==
  /\ pc # "idle"
  /\ pc' = "idle" /\ reply' = "none"
  /\ UNCHANGED <<topups, request, attempt, replays, sent>>

Next ==
  \/ \E r \in ClientRequests \cup ForeignRequests : Begin(r)
  \/ \E a \in Answers : Retries(a) \/ Returns(a)
  \/ Replays \/ GivesUp

Spec == Init /\ [][Next]_vars

-----------------------------------------------------------------------------
(* Properties.                                                             *)

\* Retries and the replay multiply: a read is sent at most MaxAttempts times
\* before and after a rotation, one with a long budget once.
RequestsBounded ==
  request # NoRequest => sent <= (1 + replays) * Attempts(request) /\ sent <= 2 * MaxAttempts

\* The guard refuses, before anything is sent, every route no client has, a
\* malformed reference, and the top-up of an eSIM where it is not enabled; it
\* lets every other call of the clients through that has ordinary words for
\* references and codes: no marker that bans a family of routes takes one of its
\* permitted members.
GuardIsExact ==
  pc = "idle" /\ request # NoRequest =>
    LET enabled == request.route = AssignTopup => topups IN
    /\ request \in ForeignRequests \/ ~enabled => sent = 0 /\ reply = "forbidden_backend_route"
    /\ request \in ClientRequests /\ enabled /\ Plain(request) => sent >= 1
=============================================================================
