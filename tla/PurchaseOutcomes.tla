--------------------------- MODULE PurchaseOutcomes ---------------------------
(***************************************************************************)
(* How confirm_purchase reads one answer of the platform                   *)
(* (tools/purchase_execution.py) and how a recorded failure is handed back *)
(* on a repeated confirmation (purchase/execution.py).  An answer is the   *)
(* BackendOutcome of client/base.py: its effective status, the business    *)
(* label found in the envelope, whether the body was a readable envelope,  *)
(* whether it reports success and whether it names a completed purchase.   *)
(* Status 0 stands for the exceptions of a request that got no answer.     *)
(***************************************************************************)
EXTENDS Naturals

Answer(status, label, parsed, success, completed) ==
  [status |-> status, label |-> label, parsed |-> parsed, success |-> success, completed |-> completed]

NoAnswer   == Answer(0, "none", FALSE, FALSE, FALSE)
Completed  == Answer(200, "none", TRUE, TRUE, TRUE)
Incomplete == Answer(200, "none", TRUE, TRUE, FALSE)
Refusal(status, label) == Answer(status, label, TRUE, FALSE, FALSE)
Unreadable(status)     == Answer(status, "none", FALSE, FALSE, FALSE)

Labels == {"none", "in_progress", "insufficient_wallet_balance", "wallet_not_found",
           "bundle_not_available", "unsupported_currency", "unsupported_payment_type"}
Statuses == {200, 400, 401, 403, 404, 409, 418, 422, 424, 429, 500, 502, 503}

AllAnswers == {NoAnswer, Completed, Incomplete}
              \cup {Refusal(s, l) : s \in Statuses, l \in Labels}
              \cup {Unreadable(s) : s \in Statuses}

\* _BUSINESS_ERROR_MATCHERS
BusinessError(label) ==
  CASE label = "insufficient_wallet_balance" -> "insufficient_wallet_balance"
    [] label = "wallet_not_found"            -> "wallet_unavailable"
    [] label = "bundle_not_available"        -> "bundle_unavailable"
    [] label = "unsupported_currency"        -> "purchase_currency_mismatch"
    [] label = "unsupported_payment_type"    -> "unsupported_quote_payment_method"
    [] OTHER                                 -> "purchase_rejected"

\* The codes a recorded outcome may carry.
Codes == {"none", "authentication_required", "bundle_unavailable", "insufficient_wallet_balance",
          "purchase_currency_mismatch", "purchase_endpoint_unavailable", "purchase_idempotency_conflict",
          "purchase_in_progress", "purchase_needs_support", "purchase_outcome_unknown",
          "purchase_rejected", "purchase_unavailable", "rate_limited",
          "unsupported_quote_payment_method", "wallet_unavailable"}

Verdict(status, code) == [disposition |-> status, code |-> code]
Unknown == Verdict("unresolved", "purchase_outcome_unknown")

\* _classify_failure, in the order of its tests.
ClassifyFailure(a) ==
  CASE a.status = 424              -> Verdict("escalated", "purchase_needs_support")
    [] a.status \in {401, 403}     -> Verdict("retryable", "authentication_required")
    [] a.status = 404              -> Verdict("retryable", "purchase_endpoint_unavailable")
    [] a.status = 429              -> Verdict("retryable", "rate_limited")
    [] a.status = 409              -> IF a.label = "in_progress"
                                      THEN Verdict("unresolved", "purchase_in_progress")
                                      ELSE Verdict("failed", "purchase_idempotency_conflict")
    [] a.status \in {400, 422}     -> Verdict("failed", BusinessError(a.label))
    [] a.status = 503              -> Verdict("retryable", "purchase_unavailable")
    [] a.status \in 200..299 /\ ~a.parsed -> Unknown
    [] a.status >= 500 /\ a.status # 503  -> Unknown
    [] OTHER                       -> Verdict("failed", "purchase_rejected")

\* _execute: a request without an answer, a success envelope, anything else.
Classify_TimeoutFails(a) ==
  CASE a = NoAnswer -> Verdict("failed", "purchase_rejected")
    [] a.success    -> IF a.completed THEN Verdict("succeeded", "none") ELSE Unknown
    [] OTHER        -> ClassifyFailure(a)
Classify_IncompleteSucceeds(a) ==
  CASE a = NoAnswer -> Unknown
    [] a.success    -> Verdict("succeeded", "none")
    [] OTHER        -> ClassifyFailure(a)
Classify(a) ==
  CASE a = NoAnswer -> Unknown
    [] a.success    -> IF a.completed THEN Verdict("succeeded", "none") ELSE Unknown
    [] OTHER        -> ClassifyFailure(a)

\* _REPLAYABLE_ERRORS and replay_error: a code without an entry degrades.
Replayable == {"purchase_idempotency_conflict", "insufficient_wallet_balance",
               "unsupported_quote_payment_method", "purchase_attempt_limit_reached",
               "purchase_currency_mismatch", "purchase_in_progress", "purchase_needs_support",
               "purchase_outcome_unknown", "purchase_rejected",
               "purchase_endpoint_unavailable", "purchase_unavailable"}

ReplayError_AsRejected(code) == "purchase_rejected"
ReplayError(code) == IF code \in Replayable THEN code ELSE "purchase_outcome_unknown"

\* The codes of a gate whose message tells the user that nothing was charged,
\* and those of a recorded failure that say the purchase was refused.
DeniesCharge == {"quote_expired", "quote_cancelled"}
DeniesPurchase == {"purchase_rejected", "purchase_idempotency_conflict", "insufficient_wallet_balance",
                   "purchase_currency_mismatch", "unsupported_quote_payment_method",
                   "purchase_endpoint_unavailable", "purchase_unavailable"}
=============================================================================
