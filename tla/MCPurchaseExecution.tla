-------------------------- MODULE MCPurchaseExecution --------------------------
EXTENDS PurchaseExecution, TLC

\* One answer of each disposition confirm_purchase tells apart, and the two
\* answers without a verdict that look most like one.
EachAnswer == {NoAnswer, Completed, Incomplete, Refusal(422, "wallet_not_found"), Refusal(424, "none"),
               Refusal(503, "none")}
\* The answers a first conversation needs: paid, refused, lost, try again later.
FewAnswers == {NoAnswer, Completed, Refusal(400, "insufficient_wallet_balance"), Refusal(401, "none")}

\* Accounts are interchangeable: no quote is prepared for another one.
Buyer == CHOOSE u \in Users : TRUE

\* Quotes are numbers.  One quote shows everything but two confirmations at
\* one session lock.  For that a second quote is prepared while the owner's
\* first confirmation of the first one rotates the session, and from then on
\* the owner does nothing but sign in and confirm the second.  No step of a
\* confirmation is ever held up by this.
Bound ==
  /\ \A q \in Quotes : quote'[q] # NoQuote => quote'[q].owner.user \in {Buyer, None}
  /\ \A q, r \in Quotes : q < r =>
       /\ quote[r] = NoQuote /\ quote'[r] # NoQuote =>
            /\ minted[q] = 1 /\ execution[q].attempts = 1 /\ pending = {}
            /\ IsUsable(quote[q]) /\ quote'[r].funded
            /\ session[quote[q].owner.client].user = quote[q].owner.user
            /\ \E t \in Tasks : task[t].pc = "refreshing"
            /\ \E t \in Tasks : task[t] = Idle
       /\ quote[r] # NoQuote =>
            /\ \A t \in Tasks : task[t] = Idle => task'[t].quote # q
            /\ task' = task /\ ledger' = ledger =>
                 /\ UNCHANGED <<quote, execution>>
                 /\ \A k \in Clients : session'[k] = [user |-> quote[r].owner.user, aging |-> FALSE]

MCSpec == Init /\ [][Next /\ Bound]_vars /\ \A t \in Tasks : WF_vars(Step(t))
=============================================================================
