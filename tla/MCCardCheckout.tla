---------------------------- MODULE MCCardCheckout ----------------------------
EXTENDS CardCheckout, TLC

\* One answer of each kind create_card_checkout tells apart.
EachAnswer == {NoAnswer, PageAnswer, UnsafeLink, Refusal(503, "none")}

Symmetry == Permutations(Tasks) \cup Permutations(Users) \cup Permutations(Pages)
=============================================================================
