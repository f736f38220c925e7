---------------------------- MODULE MCParentWindow ----------------------------
(* Two children whose records differ in every field.                        *)
EXTENDS ParentWindow, TLC

CONSTANTS a1, a2

MCApps == {a1, a2}
MCInitial ==
  1 :> [enabled |-> FALSE, limit |-> 30, apps |-> a1] @@
  2 :> [enabled |-> TRUE, limit |-> 47, apps |-> a2]
=============================================================================
