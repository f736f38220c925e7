---------------------------- MODULE UnlockPermit ----------------------------
(***************************************************************************)
(* What a trusted Unlock entitles the child extension to: one call of      *)
(* GNOME's native unlock, while nothing has withdrawn the entitlement and  *)
(* no later than Lifetime after it was given.  SessionUnlock shows that    *)
(* the controller of child/sessionUnlock.js stays within it.               *)
(***************************************************************************)
EXTENDS Naturals

CONSTANT Lifetime       \* ticks an entitlement lasts, at least one

VARIABLES
  permit,     \* "none" or "valid"
  elapsed,    \* ticks since the last entitlement, counted up to Lifetime
  calls       \* native calls made so far, modulo 2: every call is a visible step

permitVars == <<permit, elapsed, calls>>

Init ==
  /\ permit = "none"
  /\ elapsed = Lifetime
  /\ calls = 0

(* An authenticated Unlock of a desktop locked for its limit; it replaces   *)
(* an earlier entitlement.                                                  *)
Give ==
  /\ permit' = "valid"
  /\ elapsed' = 0
  /\ UNCHANGED calls

Withdraw ==
  /\ permit' = "none"
  /\ elapsed' \in {elapsed, 0}
  /\ UNCHANGED calls

Age ==
  /\ elapsed < Lifetime
  /\ elapsed' = elapsed + 1
  /\ UNCHANGED <<permit, calls>>

(* The one native call; it consumes the entitlement.                        *)
Use ==
  /\ permit = "valid"
  /\ elapsed < Lifetime
  /\ permit' = "none"
  /\ calls' = 1 - calls
  /\ UNCHANGED elapsed

Next == Give \/ Withdraw \/ Age \/ Use

Spec == Init /\ [][Next]_permitVars
=============================================================================
