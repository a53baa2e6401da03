---------------------------- MODULE PurchasePromise ----------------------------
(***************************************************************************)
(* What confirm_purchase, and create_card_checkout likewise, promise about *)
(* the requests they send for one quote, whatever happens to sessions,     *)
(* records and locks: one key for ever, one request at a time, a bounded   *)
(* number of them, and none once the platform gave its final answer.       *)
(***************************************************************************)
EXTENDS Naturals

CONSTANTS Quotes, Keys, MaxAttempts

VARIABLES
  keys,     \* quote -> keys sent for it
  count,    \* quote -> number of requests sent for it
  open,     \* quotes with a request somebody waits for
  closed    \* quotes with a final answer

vars == <<keys, count, open, closed>>

Init ==
  /\ keys = [q \in Quotes |-> {}]
  /\ count = [q \in Quotes |-> 0]
  /\ open = {} /\ closed = {}

Send(q, key) ==
  /\ q \notin open \cup closed
  /\ keys[q] \subseteq {key}
  /\ count[q] < MaxAttempts
  /\ keys' = [keys EXCEPT ![q] = {key}]
  /\ count' = [count EXCEPT ![q] = @ + 1]
  /\ open' = open \cup {q}
  /\ UNCHANGED closed

\* The answer arrives, final or not, or nobody waits for it any longer.
Return(q) ==
  /\ q \in open
  /\ open' = open \ {q}
  /\ closed' \in {closed, closed \cup {q}}
  /\ UNCHANGED <<keys, count>>

Next == \E q \in Quotes : Return(q) \/ \E key \in Keys : Send(q, key)

Spec == Init /\ [][Next]_vars
=============================================================================
