------------------------------ MODULE MCSessions ------------------------------
EXTENDS Sessions, FiniteSets

\* Once the last token pair is issued, one call at a time is enough: what two
\* calls do to each other is seen with the pairs before it.
Bound == issued = MaxTokens => Cardinality({t \in Tasks : task[t] # Idle}) <= 1

\* FairSpec on the bounded system.  The bound never stops a call that is under
\* way: its rotation or sign-in may still fail, and every call may be refused.
MCSpec == Init /\ [][Next /\ Bound']_vars /\ \A t \in Tasks : WF_vars(Step(t))
=============================================================================
