---------------------------- MODULE WalletOutcomes ----------------------------
(***************************************************************************)
(* How the wallet top-up tools read one answer of the platform             *)
(* (tools/wallet_topup.py), and which options let an amount be prepared.   *)
(* A checkout answers with the same kinds of page as a card payment:       *)
(* CardOutcomes.                                                           *)
(***************************************************************************)
EXTENDS CardOutcomes

WalletCodes == {"none", "authentication_required", "rate_limited", "unsafe_checkout_link",
                "wallet_topup_unavailable", "wallet_topup_rejected", "wallet_topup_outcome_unknown",
                "wallet_topup_amount_invalid", "wallet_topup_limit_reached"}

\* BackendTopupOptions, as far as preparing an amount depends on it.
Options == [can : BOOLEAN, above : Nat, most : Nat]

\* prepare_wallet_topup: the minimum is exclusive, the maximum is not.
Acceptable(amount, options) == options.can /\ options.above < amount /\ amount <= options.most

WalletUnknown == Verdict("unresolved", "wallet_topup_outcome_unknown")
Rejected(code) == Verdict("failed", code)
Passing(code) == Verdict("retryable", code)

WalletBusinessError(label) ==
  CASE label = "invalid_amount" -> "wallet_topup_amount_invalid"
    [] label = "limit_reached"  -> "wallet_topup_limit_reached"
    [] OTHER                    -> "wallet_topup_rejected"

\* _classify_checkout_failure, in the order of its tests.
ClassifyWalletFailure(a) ==
  CASE a.status \in {401, 403}            -> Passing("authentication_required")
    [] a.status \in {404, 503}            -> Passing("wallet_topup_unavailable")
    [] a.status = 429                     -> Passing("rate_limited")
    [] a.status \in {400, 422}            -> Rejected(WalletBusinessError(a.label))
    [] a.status \in 200..299 /\ ~a.parsed -> WalletUnknown
    [] a.status >= 500                    -> WalletUnknown
    [] OTHER                              -> Rejected("wallet_topup_rejected")

\* _open_checkout and _on_checkout_success: only a link that is safe to show
\* and can be traced afterwards counts as a page.
ClassifyTopupPage(a) ==
  CASE a = NoAnswer     -> WalletUnknown
    [] a = PageAnswer   -> Verdict("open", "none")
    [] a = NoData       -> WalletUnknown
    [] a = UnsafeLink   -> Rejected("unsafe_checkout_link")
    [] a = BadReference -> Rejected("wallet_topup_rejected")
    [] OTHER            -> ClassifyWalletFailure(a)

\* WalletTopupStatus; EXPIRED and FAILED are one here: nothing was taken.
TopupStates == {"pending", "paid", "failed"}

\* WalletTopupStatus.is_terminal, which a status must be to be stored.
IsSettled(s) == s \in {"paid", "failed"}

\* WalletTopupStatus.money_arrived, which alone consumes the quote.
Credits_WhenSettled(s) == IsSettled(s)
Credits(s) == s = "paid"
=============================================================================
