----------------------------- MODULE MCEsimTopup -----------------------------
EXTENDS EsimTopup, TLC

\* One answer of each kind confirm_esim_topup tells apart.
EachAnswer == {NoAnswer, Completed, Incomplete, Refusal(400, "insufficient_wallet_balance"),
               Refusal(404, "none"), Unreadable(502)}

Symmetry == Permutations(Tasks) \cup Permutations(Quotes)
=============================================================================
