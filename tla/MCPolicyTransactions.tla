------------------------ MODULE MCPolicyTransactions ------------------------
(* Small instances of PolicyTransactions.                                  *)
EXTENDS PolicyTransactions

CONSTANTS a, b    \* two applications

NoPolicies == {<<>>}

\* One application soft-blocked beside a hard-blocked one, the same two both
\* hard, one soft alone, and nothing blocked: every kind of newly blocked app.
MixedPolicies ==
  {[x \in Apps |-> "allowed"],
   [x \in Apps |-> IF x = a THEN "conditional" ELSE "permanent"],
   [x \in Apps |-> "permanent"],
   [x \in Apps |-> IF x = a THEN "conditional" ELSE "allowed"]}

\* Every write of every operation may raise after it took effect.
AllLateFaults == AllOperations \X WriteSteps

\* The late failures that the code does not undo; each has a run of its own.
UncoveredFaults ==
  {<<"setPreferences", "save">>, <<"prepare", "filter">>,
   <<"enable", "switch">>, <<"disable", "switch">>}

CoveredFaults == AllLateFaults \ UncoveredFaults
=============================================================================
