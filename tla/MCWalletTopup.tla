----------------------------- MODULE MCWalletTopup -----------------------------
(* An instance for TLC: two calls of one user on two quotes; the platform may *)
(* open two pages, refuse a quote's page in passing, or answer an unsafe one. *)
EXTENDS WalletTopup, TLC

EachAnswer == {NoAnswer, PageAnswer, UnsafeLink, Refusal(503, "none")}
\* The platform allows any positive amount.
EachLimit == {[can |-> TRUE, above |-> 0, most |-> 1]}

Symmetry == Permutations(Tasks) \cup Permutations(Pages) \cup Permutations(Quotes)
=============================================================================
