------------------------- MODULE MCPackageLifecycle -------------------------
(* Children with everything set, without limits, or not controlled.        *)
EXTENDS PackageLifecycle

Full == [field \in Fields |-> TRUE]

MCPolicies ==
  {Full, [Cleared EXCEPT !.shell = TRUE, !.filter = TRUE], Cleared}

=============================================================================
