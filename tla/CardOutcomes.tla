----------------------------- MODULE CardOutcomes -----------------------------
(***************************************************************************)
(* How create_card_checkout and check_card_payment_status read one answer  *)
(* of the platform (tools/card_checkout.py).  Answers are those of         *)
(* PurchaseOutcomes; a success is told apart by what its page is good for. *)
(***************************************************************************)
EXTENDS PurchaseOutcomes

PageAnswer   == Answer(200, "page", TRUE, TRUE, FALSE)
NoData       == Answer(200, "no_data", TRUE, TRUE, FALSE)        \* parse_card_checkout is None
UnsafeLink   == Answer(200, "unsafe_link", TRUE, TRUE, FALSE)    \* safe_checkout_url is None
BadReference == Answer(200, "bad_reference", TRUE, TRUE, FALSE)  \* require_payment_reference raises

AllCardAnswers == {NoAnswer, PageAnswer, NoData, UnsafeLink, BadReference}
                  \cup {Refusal(s, l) : s \in Statuses, l \in Labels}
                  \cup {Unreadable(s) : s \in Statuses}

CardCodes == {"none", "authentication_required", "card_checkout_unavailable", "rate_limited",
              "card_checkout_outcome_unknown", "purchase_idempotency_conflict", "bundle_unavailable",
              "purchase_currency_mismatch", "unsupported_quote_payment_method_for_card",
              "card_checkout_rejected", "unsafe_checkout_link", "card_payment_ambiguous"}

PageUnknown == Verdict("unresolved", "card_checkout_outcome_unknown")

\* _BUSINESS_ERROR_MATCHERS of the card route
CardBusinessError(label) ==
  CASE label = "bundle_not_available"     -> "bundle_unavailable"
    [] label = "unsupported_currency"     -> "purchase_currency_mismatch"
    [] label = "unsupported_payment_type" -> "unsupported_quote_payment_method_for_card"
    [] OTHER                              -> "card_checkout_rejected"

\* _classify_checkout_failure, in the order of its tests.
ClassifyCheckoutFailure(a) ==
  CASE a.status \in {401, 403} -> Verdict("retryable", "authentication_required")
    [] a.status = 404          -> Verdict("retryable", "card_checkout_unavailable")
    [] a.status = 429          -> Verdict("retryable", "rate_limited")
    [] a.status = 409          -> IF a.label = "in_progress" THEN PageUnknown
                                  ELSE Verdict("failed", "purchase_idempotency_conflict")
    [] a.status \in {400, 422} -> Verdict("failed", CardBusinessError(a.label))
    [] a.status = 503          -> Verdict("retryable", "card_checkout_unavailable")
    [] a.status \in 200..299 /\ ~a.parsed -> PageUnknown
    [] a.status >= 500 /\ a.status # 503  -> PageUnknown
    [] OTHER                   -> Verdict("failed", "card_checkout_rejected")

\* _open_checkout and _on_checkout_success: only a link that is safe to show
\* and can be traced afterwards counts as a page.
ClassifyCheckout(a) ==
  CASE a = NoAnswer              -> PageUnknown
    [] a = PageAnswer            -> Verdict("open", "none")
    [] a = NoData                -> PageUnknown
    [] a = UnsafeLink            -> Verdict("failed", "unsafe_checkout_link")
    [] a = BadReference          -> Verdict("failed", "card_checkout_rejected")
    [] OTHER                     -> ClassifyCheckoutFailure(a)

\* CardPaymentStatus: PAID and PROVISIONING are one here, and so are FAILED,
\* EXPIRED and CANCELLED, which the code treats alike.
PaymentStates == {"pending", "paid", "completed", "failed", "ambiguous"}

\* CardPaymentStatus.is_terminal
IsFinal_WhenPaid(s) == s # "pending"
IsFinal(s) == s \in {"completed", "failed", "ambiguous"}
MoneyArrived(s) == s \in {"paid", "completed"}
=============================================================================
