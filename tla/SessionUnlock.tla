---------------------------- MODULE SessionUnlock ----------------------------
(***************************************************************************)
(* child/sessionUnlock.js: GNOME can discard logind's Unlock while its own *)
(* limit decision is stale.  The controller keeps such a trusted Unlock as *)
(* a request, watches the desktop through signals and, once GNOME admits   *)
(* the child, calls the native unlock once from an idle callback.          *)
(*                                                                         *)
(* Everything runs in the Shell's main loop: a signal handler runs inside  *)
(* the step that changes the desktop, idle callbacks and timers are steps  *)
(* of their own and may be late.  One callback is split: between taking    *)
(* the request and the native call the observer given to the constructor   *)
(* runs, and signals it causes are handled before the call                 *)
(* ("recording"; tests/child/session_unlock.test.mjs sends a Lock there).  *)
(* The other observations ("armed", those of _finish) are one with their   *)
(* callback: the code does not look again after them, so it relies on an   *)
(* observer that causes no signal, as the shipped one (it logs) does.      *)
(***************************************************************************)
EXTENDS Naturals

CONSTANTS
  Owners,         \* unique bus names logind may own
  NoOwner,        \* logind owns no name
  Lifetime,       \* REQUEST_LIFETIME_MS in ticks
  Observation     \* OBSERVATION_LIFETIME_MS in ticks

ASSUME OwnersAssumption == NoOwner \notin Owners
ASSUME DelayAssumption ==
  /\ Lifetime \in Nat \ {0}
  /\ Observation \in Nat \ {0}

VARIABLES
  desktop,    \* what the controller reads of GNOME Shell and logind
  request,    \* the pending request or NoRequest
  idle,       \* an idle callback is queued
  timer,      \* ticks until the timer is due, or NoTimer
  turn,       \* "recording" inside the callback that took the request, else "loop"
  closed,     \* no controller is connected
  calls,      \* native calls so far, modulo 2
  standing,   \* ghost: the last Unlock was trusted and nothing withdrew it
  age         \* ghost: ticks since that Unlock, counted up to Lifetime

control == <<request, idle, timer>>
ghosts == <<standing, age>>
vars == <<desktop, request, idle, timer, turn, closed, calls, standing, age>>

NoRequest == [owner |-> NoOwner]
NoTimer == Lifetime + Observation + 1

(* The desktop.  time says that dailyLimitTime is finite and later than the *)
(* clock; active is logind's Active, "unknown" before the proxy has it.     *)
Desktops ==
  [owner : Owners \cup {NoOwner}, active : {"yes", "no", "unknown"},
   locked : BOOLEAN, mode : {"user", "unlock-dialog", "gdm"},
   sleeping : BOOLEAN, limits : BOOLEAN, shouldLock : BOOLEAN,
   state : {"disabled", "active", "limit-reached"}, time : BOOLEAN]

Requests ==
  [owner : Owners, age : 0..Lifetime, activeSeen : BOOLEAN,
   cleared : BOOLEAN, retried : BOOLEAN, dispatched : BOOLEAN]

Pending == request # NoRequest

TypeOK ==
  /\ desktop \in Desktops
  /\ request \in Requests \cup {NoRequest}
  /\ idle \in BOOLEAN
  /\ timer \in 0..Lifetime \cup 0..Observation \cup {NoTimer}
  /\ turn \in {"loop", "recording"}
  /\ closed \in BOOLEAN
  /\ calls \in {0, 1}
  /\ standing \in BOOLEAN
  /\ age \in 0..Lifetime

Init ==
  /\ desktop \in Desktops
  /\ request = NoRequest /\ idle = FALSE /\ timer = NoTimer
  /\ turn = "loop" /\ closed = FALSE /\ calls = 0
  /\ standing = FALSE /\ age = Lifetime

-----------------------------------------------------------------------------
(* The controller's decisions.                                              *)

Trusted(sender) == sender = desktop.owner

(* A desktop GNOME locked because the time was up; other locks need no help *)
LimitLocked(d) ==
  /\ d.locked /\ d.mode = "unlock-dialog"
  /\ ~d.sleeping /\ d.limits
  /\ d.shouldLock /\ d.state = "limit-reached"

(* The same without noticing renewed exhaustion.                            *)
OverUnlessExhausted(r, d) ==
  \/ ~d.locked
  \/ d.mode = "user" /\ ~r.dispatched
  \/ d.active = "no" /\ r.activeSeen
  \/ d.mode = "gdm" \/ d.sleeping \/ ~d.limits

(* What _changed ends a request for: the desktop is open or opening by      *)
(* itself, time ran out again, the session left, greeter, sleep, no limits. *)
Over(r, d) ==
  \/ ~d.locked
  \/ d.mode = "user" /\ ~r.dispatched
  \/ d.shouldLock /\ r.cleared
  \/ d.active = "no" /\ r.activeSeen
  \/ d.mode = "gdm" \/ d.sleeping \/ ~d.limits

Noted(r, d) ==
  [r EXCEPT !.cleared = @ \/ ~d.shouldLock,
            !.activeSeen = @ \/ d.active = "yes"]

(* Checked again when the idle callback runs.                               *)
Lapsed(r, d) ==
  r.age >= Lifetime \/ d.owner # r.owner \/ ~d.locked

Admits(d) ==
  /\ d.mode = "unlock-dialog" /\ ~d.sleeping /\ d.limits
  /\ d.active = "yes" /\ ~d.shouldLock
  /\ d.state = "active" /\ d.time

(* _finish removes both sources with the request.                           *)
Finish ==
  /\ request' = NoRequest
  /\ idle' = FALSE
  /\ timer' = NoTimer

(* _changed, with the desktop d just reached.                               *)
Changed(d) ==
  IF ~Pending THEN UNCHANGED control
  ELSE IF Over(request, d) THEN Finish
  ELSE /\ request' = Noted(request, d)
       /\ idle' = TRUE
       /\ UNCHANGED timer

(* A connected handler; an exception in it ends the request.                *)
Handled(d) == Changed(d) \/ (Pending /\ Finish)

-----------------------------------------------------------------------------
(* GNOME Shell and logind.                                                  *)

(* Ghost: what withdraws an earlier Unlock, whatever the controller has     *)
(* noticed of it.                                                           *)
Withdraws(d, e) ==
  \/ e.owner # d.owner
  \/ e.sleeping \/ ~e.limits
  \/ e.mode # "unlock-dialog" \/ ~e.locked
  \/ ~d.shouldLock /\ e.shouldLock
  \/ d.active = "yes" /\ e.active = "no"

Becomes(d) ==
  /\ desktop' = d
  /\ standing' = (standing /\ ~Withdraws(desktop, d))
  /\ UNCHANGED <<turn, closed, calls, age>>

(* The same without a handler for notify::daily-limit-time.                 *)
ManagerChangesUntimed ==
  \E s \in {"disabled", "active", "limit-reached"} :
    \E lock, lim, left \in BOOLEAN :
      LET d == [desktop EXCEPT !.state = s, !.shouldLock = lock,
                               !.limits = lim, !.time = left]
      IN  /\ d # desktop /\ Becomes(d)
          /\ IF [d EXCEPT !.time = desktop.time] = desktop
             THEN UNCHANGED control ELSE Handled(d)

(* timeLimitsManager: the four properties, each with its notification.      *)
ManagerChanges ==
  \E s \in {"disabled", "active", "limit-reached"} :
    \E lock, lim, left \in BOOLEAN :
      LET d == [desktop EXCEPT !.state = s, !.shouldLock = lock,
                               !.limits = lim, !.time = left]
      IN  d # desktop /\ Becomes(d) /\ Handled(d)

ModeChanges ==
  \E m \in {"user", "unlock-dialog", "gdm"} \ {desktop.mode} :
    LET d == [desktop EXCEPT !.mode = m] IN Becomes(d) /\ Handled(d)

ShieldChanges ==
  LET d == [desktop EXCEPT !.locked = ~@] IN Becomes(d) /\ Handled(d)

SessionChanges ==
  \E a \in {"yes", "no", "unknown"} \ {desktop.active} :
    LET d == [desktop EXCEPT !.active = a] IN Becomes(d) /\ Handled(d)

OwnerChanges ==
  \E o \in (Owners \cup {NoOwner}) \ {desktop.owner} :
    /\ Becomes([desktop EXCEPT !.owner = o])
    /\ Finish

(* prepare-for-sleep: only the way to sleep is acted upon.                  *)
Sleeps ==
  /\ ~desktop.sleeping
  /\ Becomes([desktop EXCEPT !.sleeping = TRUE])
  /\ Finish

Wakes ==
  /\ desktop.sleeping
  /\ Becomes([desktop EXCEPT !.sleeping = FALSE])
  /\ UNCHANGED control

(* The clock reaches the native deadline: nothing is notified.              *)
DeadlinePasses ==
  /\ turn = "loop" /\ desktop.time
  /\ Becomes([desktop EXCEPT !.time = FALSE])
  /\ UNCHANGED control

-----------------------------------------------------------------------------
(* logind's signals.                                                        *)

Lock(sender) ==
  /\ ~closed /\ Trusted(sender)
  /\ Finish
  /\ standing' = FALSE
  /\ UNCHANGED <<desktop, turn, closed, calls, age>>

(* A request is armed only on a limit-locked desktop, in which _changed     *)
(* finds nothing that ends it and queues the first idle callback.           *)
Arm(sender) ==
  IF LimitLocked(desktop)
  THEN /\ request' = [owner |-> sender, age |-> 0,
                      activeSeen |-> desktop.active = "yes",
                      cleared |-> FALSE, retried |-> FALSE, dispatched |-> FALSE]
       /\ idle' = TRUE
       /\ timer' = Lifetime
  ELSE Finish

Unlock(sender) ==
  /\ ~closed
  /\ IF Trusted(sender) THEN Arm(sender) ELSE UNCHANGED control
  /\ IF sender = desktop.owner
     THEN standing' = LimitLocked(desktop) /\ age' = 0
     ELSE UNCHANGED ghosts
  /\ UNCHANGED <<desktop, turn, closed, calls>>

-----------------------------------------------------------------------------
(* Main-loop sources.                                                       *)

Tick ==
  /\ turn = "loop"
  /\ age < Lifetime \/ timer \notin {0, NoTimer}
  /\ age' = IF age < Lifetime THEN age + 1 ELSE age
  /\ request' = IF Pending /\ request.age < Lifetime
                THEN [request EXCEPT !.age = @ + 1] ELSE request
  /\ timer' = IF timer \in {0, NoTimer} THEN timer ELSE timer - 1
  /\ UNCHANGED <<desktop, idle, turn, closed, calls, standing>>

Expire ==
  /\ turn = "loop" /\ timer = 0
  /\ Finish
  /\ UNCHANGED <<desktop, turn, closed, calls, ghosts>>

(* The idle callback up to the observer's call.  A queued callback means    *)
(* that there is a request: _finish removes it with the request.  A read of *)
(* the desktop may raise, which ends the request as a lapse does.           *)
Continue ==
  /\ turn = "loop" /\ idle /\ Pending
  /\ \/ /\ ~request.retried
        /\ Finish
        /\ UNCHANGED turn
     \/ /\ request.retried \/ ~(Lapsed(request, desktop) \/ Admits(desktop))
        /\ idle' = FALSE
        /\ UNCHANGED <<request, timer, turn>>
     \/ /\ ~request.retried /\ ~Lapsed(request, desktop) /\ Admits(desktop)
        /\ request' = [request EXCEPT !.retried = TRUE]
        /\ idle' = FALSE
        /\ turn' = "recording"
        /\ UNCHANGED timer
  /\ UNCHANGED <<desktop, closed, calls, ghosts>>

(* What ScreenShield.deactivate has done when it returns: nothing, started  *)
(* the animation or opened the desktop.                                     *)
Deactivated(d) ==
  {d, [d EXCEPT !.mode = "user"], [d EXCEPT !.mode = "user", !.locked = FALSE]}

HandOver(d) ==
  LET r == [request EXCEPT !.dispatched = TRUE]
  IN  IF Over(r, d) THEN Finish
      ELSE /\ request' = Noted(r, d)
           /\ idle' = TRUE
           /\ timer' = Observation

(* The rest of that callback.  The request is still the one that was taken  *)
(* iff it is marked: a newer one starts unmarked.                           *)
Dispatch ==
  /\ turn = "recording"
  /\ turn' = "loop"
  /\ \/ /\ Pending /\ request.retried
        /\ \/ \E d \in Deactivated(desktop) : desktop' = d /\ HandOver(d)
           \/ UNCHANGED desktop /\ Finish       \* the native call raised
        /\ calls' = 1 - calls
        /\ standing' = FALSE
     \/ /\ ~(Pending /\ request.retried)
        /\ Changed(desktop)
        /\ UNCHANGED <<desktop, calls, standing>>
  /\ UNCHANGED <<closed, age>>

-----------------------------------------------------------------------------
(* The extension is disabled and enabled again with a new controller.       *)

Close ==
  /\ ~closed
  /\ closed' = TRUE
  /\ Finish
  /\ standing' = FALSE
  /\ UNCHANGED <<desktop, turn, calls, age>>

Start ==
  /\ closed /\ turn = "loop"
  /\ closed' = FALSE
  /\ UNCHANGED <<desktop, control, turn, calls, ghosts>>

Signal ==
  \/ ManagerChanges \/ ModeChanges \/ ShieldChanges \/ SessionChanges
  \/ OwnerChanges \/ Sleeps \/ Wakes
  \/ \E sender \in Owners : Lock(sender) \/ Unlock(sender)

Next ==
  \/ Signal \/ DeadlinePasses
  \/ Tick \/ Expire \/ Continue \/ Dispatch
  \/ Close \/ Start

Spec == Init /\ [][Next]_vars

-----------------------------------------------------------------------------
(* Properties.                                                              *)

(* No request is left unattended and none outlives its sources: while one   *)
(* is pending its timer runs, whenever the desktop admits it a callback is  *)
(* queued (no wakeup is missed although GNOME's decision comes in several   *)
(* notifications), and without a request no idle or timer of an earlier one *)
(* is left that could end or continue a later one (_changed, _finish).      *)
RequestAttended ==
  /\ Pending => timer # NoTimer
  /\ Pending /\ turn = "loop" /\ ~request.retried /\ Admits(desktop) => idle
  /\ ~Pending => ~idle /\ timer = NoTimer

Permit == INSTANCE UnlockPermit
            WITH permit <- IF standing THEN "valid" ELSE "none",
                 elapsed <- age

(* Every native call stays within what a trusted Unlock entitles to: one    *)
(* call, within Lifetime even when the timer is late, and none after a      *)
(* Lock, sleep, a new logind owner, a departure, lifted limits, renewed     *)
(* exhaustion, an opened or opening desktop or a shutdown, in whatever      *)
(* order these and the idle callback come (Screen-Time.md:549-559).         *)
WithinPermit == Permit!Spec
=============================================================================
