---------------------------- MODULE TopupOutcomes ----------------------------
(***************************************************************************)
(* How confirm_esim_topup reads the one answer it gets                     *)
(* (tools/esim_topup.py), what each recorded code says about the money,    *)
(* and how a recorded failure comes back on a repeated confirmation        *)
(* (topup/service.py).  Answers are those of PurchaseOutcomes.             *)
(***************************************************************************)
EXTENDS PurchaseOutcomes

TopupCodes == {"none", "authentication_required", "rate_limited", "esim_topup_rejected",
               "insufficient_wallet_balance", "wallet_unavailable", "topup_bundle_incompatible",
               "esim_topup_outcome_unknown"}

TopupUnknown == Verdict("unresolved", "esim_topup_outcome_unknown")
Refused(code) == Verdict("failed", code)

\* _BUSINESS_ERROR_MATCHERS of the top-up route
TopupBusinessError(label) ==
  CASE label = "insufficient_wallet_balance" -> "insufficient_wallet_balance"
    [] label = "wallet_not_found"            -> "wallet_unavailable"
    [] label = "bundle_not_available"        -> "topup_bundle_incompatible"
    [] OTHER                                 -> "esim_topup_rejected"

\* _classify_topup_failure: a refusal is one the platform gave a reason for.
ClassifyTopupFailure(a) ==
  CASE a.status \in {401, 403}                    -> Refused("authentication_required")
    [] a.status = 404                             -> Refused("esim_topup_rejected")
    [] a.status = 429                             -> Refused("rate_limited")
    [] a.status \in {400, 409, 422} /\ a.parsed   -> Refused(TopupBusinessError(a.label))
    [] OTHER                                      -> TopupUnknown

\* _execute and _on_success: only a completed order is a success.
ClassifyTopup_TimeoutFails(a) ==
  CASE a = NoAnswer -> Refused("esim_topup_rejected")
    [] a.success    -> IF a.completed THEN Verdict("succeeded", "none") ELSE TopupUnknown
    [] OTHER        -> ClassifyTopupFailure(a)
ClassifyTopup(a) ==
  CASE a = NoAnswer -> TopupUnknown
    [] a.success    -> IF a.completed THEN Verdict("succeeded", "none") ELSE TopupUnknown
    [] OTHER        -> ClassifyTopupFailure(a)

\* replay_execution_error: a code without an entry degrades to "unknown".
ReplayTopupError(code) ==
  IF code \in {"esim_topup_rejected", "esim_topup_outcome_unknown"} THEN code
  ELSE "esim_topup_outcome_unknown"

\* What a result or an error tells the user about the money.
Claims == {"charged", "nothing", "unknown"}
ClaimOf(code) ==
  CASE code = "none"                       -> "charged"
    [] code = "esim_topup_outcome_unknown" -> "unknown"
    [] OTHER                               -> "nothing"
=============================================================================
