------------------------ MODULE SessionUnlockProofs ------------------------
(***************************************************************************)
(* Proofs about the unlock controller: its types, that no request is left  *)
(* unattended, and that it implements UnlockPermit, for any bus owners and *)
(* any lifetimes.                                                          *)
(***************************************************************************)
EXTENDS SessionUnlock, TLAPS

\* What a request knows until it is handed over: the desktop still gives no
\* reason to end it, and the Unlock it stands for has not been withdrawn.
RequestInv ==
  Pending /\ ~request.dispatched =>
    /\ standing /\ age = request.age
    /\ ~Over(request, desktop)
    /\ request.cleared \/ desktop.shouldLock
    /\ request.activeSeen \/ desktop.active # "yes"

\* Where the one native call stands.
TurnInv ==
  /\ Pending => ~closed /\ request.owner = desktop.owner
  /\ Pending /\ turn = "recording" => ~request.dispatched
  /\ Pending /\ turn = "recording" /\ request.retried => request.age < Lifetime
  /\ Pending /\ turn = "loop" => request.retried = request.dispatched

Inv == TypeOK /\ RequestAttended /\ RequestInv /\ TurnInv

LEMMA NoRequestDiffers == NoRequest \notin Requests
<1>1. NoRequest.owner = NoOwner
  BY DEF NoRequest
<1>2. \A r \in Requests : r.owner \in Owners
  BY DEF Requests
<1> QED BY <1>1, <1>2, OwnersAssumption

\* Changes of the desktop that leave its owner.
LEMMA DesktopFields ==
  ASSUME NEW d \in Desktops
  PROVE  /\ \A m \in {"user", "unlock-dialog", "gdm"} :
              [d EXCEPT !.mode = m] \in Desktops /\ [d EXCEPT !.mode = m].owner = d.owner
         /\ [d EXCEPT !.locked = ~@] \in Desktops /\ [d EXCEPT !.locked = ~@].owner = d.owner
         /\ \A a \in {"yes", "no", "unknown"} :
              [d EXCEPT !.active = a] \in Desktops /\ [d EXCEPT !.active = a].owner = d.owner
         /\ \A b \in BOOLEAN : [d EXCEPT !.sleeping = b] \in Desktops
         /\ \A b \in BOOLEAN : [d EXCEPT !.time = b] \in Desktops
         /\ \A e \in Deactivated(d) : e \in Desktops /\ e.owner = d.owner
<1>1. [d EXCEPT !.locked = ~@] \in Desktops /\ [d EXCEPT !.locked = ~@].owner = d.owner
  BY DEF Desktops
<1>2. \A m \in {"user", "unlock-dialog", "gdm"} :
        [d EXCEPT !.mode = m] \in Desktops /\ [d EXCEPT !.mode = m].owner = d.owner
  BY DEF Desktops
<1>3. /\ [d EXCEPT !.mode = "user", !.locked = FALSE] \in Desktops
      /\ [d EXCEPT !.mode = "user", !.locked = FALSE].owner = d.owner
  BY DEF Desktops
<1>4. \A e \in Deactivated(d) : e \in Desktops /\ e.owner = d.owner
  BY <1>2, <1>3 DEF Deactivated
<1>5. \A a \in {"yes", "no", "unknown"} :
        [d EXCEPT !.active = a] \in Desktops /\ [d EXCEPT !.active = a].owner = d.owner
  BY DEF Desktops
<1>6. \A b \in BOOLEAN :
        [d EXCEPT !.sleeping = b] \in Desktops /\ [d EXCEPT !.time = b] \in Desktops
  BY DEF Desktops
<1> QED BY <1>1, <1>2, <1>4, <1>5, <1>6

LEMMA NotedRequest ==
  ASSUME NEW r \in Requests, NEW d \in Desktops
  PROVE  /\ Noted(r, d) \in Requests
         /\ Noted(r, d).owner = r.owner /\ Noted(r, d).age = r.age
         /\ Noted(r, d).retried = r.retried /\ Noted(r, d).dispatched = r.dispatched
         /\ Noted(r, d).cleared = (r.cleared \/ ~d.shouldLock)
         /\ Noted(r, d).activeSeen = (r.activeSeen \/ d.active = "yes")
  BY DEF Noted, Requests, Desktops

\* Ending the request restores every part of the invariant at once.
LEMMA FinishInv ==
  ASSUME Inv, Finish, desktop' \in Desktops,
         standing' \in BOOLEAN, age' \in 0..Lifetime, calls' \in {0, 1},
         closed' \in BOOLEAN, turn' \in {"loop", "recording"}
  PROVE  Inv'
  BY NoRequestDiffers
  DEF Inv, TypeOK, RequestAttended, RequestInv, TurnInv, Finish, Pending

\* A change of the desktop whose notification reaches _changed.
LEMMA HandledInv ==
  ASSUME Inv, NEW d \in Desktops, d.owner = desktop.owner, Becomes(d), Handled(d)
  PROVE  Inv'
<1> USE NoRequestDiffers DEF Becomes
<1>1. CASE Finish
  BY <1>1, FinishInv DEF Inv, TypeOK
<1>2. CASE ~Pending /\ UNCHANGED control
  BY <1>2 DEF control, Inv, TypeOK, RequestAttended, RequestInv, TurnInv, Pending
<1>3. CASE /\ Pending /\ ~Over(request, d)
           /\ request' = Noted(request, d) /\ idle' = TRUE /\ UNCHANGED timer
  <2>1. request \in Requests /\ request' \in Requests
    BY <1>3, NotedRequest DEF Inv, TypeOK, Pending
  <2>2. Pending' /\ TypeOK' /\ RequestAttended' /\ TurnInv'
    BY <1>3, <2>1, NotedRequest DEF Inv, TypeOK, RequestAttended, TurnInv, Pending
  <2>3. ASSUME ~request.dispatched
        PROVE  standing' /\ ~Over(request', d)
    BY <1>3, <2>1, <2>3, NotedRequest DEF Inv, RequestInv, Over, Withdraws, TypeOK, Desktops, Requests
  <2>4. RequestInv'
    BY <1>3, <2>1, <2>2, <2>3, NotedRequest DEF Inv, RequestInv
  <2> QED BY <2>2, <2>4 DEF Inv
<1> QED BY <1>1, <1>2, <1>3 DEF Handled, Changed

LEMMA InitInv == Init => Inv
<1> SUFFICES ASSUME Init PROVE Inv
  OBVIOUS
<1>1. TypeOK
  <2>1. age \in 0..Lifetime /\ calls \in {0, 1}
    BY DelayAssumption DEF Init
  <2> QED BY <2>1 DEF Init, TypeOK
<1>2. RequestAttended /\ RequestInv /\ TurnInv
  BY DEF Init, RequestAttended, RequestInv, TurnInv, Pending
<1> QED BY <1>1, <1>2 DEF Inv

LEMMA DesktopInv ==
  ASSUME Inv,
         \/ ManagerChanges \/ ModeChanges \/ ShieldChanges \/ SessionChanges
         \/ OwnerChanges \/ Sleeps \/ Wakes \/ DeadlinePasses
  PROVE  Inv'
<1>0. desktop \in Desktops /\ desktop.locked \in BOOLEAN
  BY DEF Inv, TypeOK, Desktops
<1>1. CASE ManagerChanges
  <2>1. PICK s \in {"disabled", "active", "limit-reached"}, lock, lim, left \in BOOLEAN :
          LET d == [desktop EXCEPT !.state = s, !.shouldLock = lock,
                                   !.limits = lim, !.time = left]
          IN  Becomes(d) /\ Handled(d)
    BY <1>1 DEF ManagerChanges
  <2> DEFINE d == [desktop EXCEPT !.state = s, !.shouldLock = lock,
                                  !.limits = lim, !.time = left]
  <2> DEFINE e == [desktop EXCEPT !.state = s, !.shouldLock = lock]
  <2>2. d \in Desktops /\ d.owner = desktop.owner
    <3>1. e \in Desktops /\ e.owner = desktop.owner
      BY <1>0 DEF Desktops
    <3>2. d = [e EXCEPT !.limits = lim, !.time = left]
      OBVIOUS
    <3>3. [e EXCEPT !.limits = lim, !.time = left] \in Desktops
          /\ [e EXCEPT !.limits = lim, !.time = left].owner = e.owner
      <4> HIDE DEF e
      <4> QED BY <3>1 DEF Desktops
    <3> QED BY <3>1, <3>2, <3>3
  <2> QED BY <2>1, <2>2, HandledInv
<1>2. CASE ModeChanges
  <2>1. PICK m \in {"user", "unlock-dialog", "gdm"} :
          Becomes([desktop EXCEPT !.mode = m]) /\ Handled([desktop EXCEPT !.mode = m])
    BY <1>2 DEF ModeChanges
  <2>2. /\ [desktop EXCEPT !.mode = m] \in Desktops
        /\ [desktop EXCEPT !.mode = m].owner = desktop.owner
    BY <1>0, DesktopFields
  <2> QED BY <2>1, <2>2, HandledInv
<1>3. CASE ShieldChanges
  <2>1. /\ [desktop EXCEPT !.locked = ~@] \in Desktops
        /\ [desktop EXCEPT !.locked = ~@].owner = desktop.owner
    BY <1>0, DesktopFields
  <2> QED BY <1>3, <2>1, HandledInv DEF ShieldChanges
<1>4. CASE SessionChanges
  <2>1. PICK a \in {"yes", "no", "unknown"} :
          Becomes([desktop EXCEPT !.active = a]) /\ Handled([desktop EXCEPT !.active = a])
    BY <1>4 DEF SessionChanges
  <2>2. /\ [desktop EXCEPT !.active = a] \in Desktops
        /\ [desktop EXCEPT !.active = a].owner = desktop.owner
    BY <1>0, DesktopFields
  <2> QED BY <2>1, <2>2, HandledInv
<1>5. CASE OwnerChanges
  <2>1. \A o \in Owners \cup {NoOwner} : [desktop EXCEPT !.owner = o] \in Desktops
    BY <1>0 DEF Desktops
  <2> QED BY <1>5, <2>1, FinishInv DEF OwnerChanges, Becomes, Inv, TypeOK
<1>6. CASE Sleeps
  BY <1>0, <1>6, DesktopFields, FinishInv DEF Sleeps, Becomes, Inv, TypeOK
\* Nothing else of the desktop changes and no request sees the sleep end.
<1>7. CASE Wakes
  <2>1. [desktop EXCEPT !.sleeping = FALSE] \in Desktops
    BY <1>0, DesktopFields
  <2> QED
    BY <1>0, <1>7, <2>1 DEF Wakes, Becomes, control, Inv, TypeOK, RequestAttended, RequestInv,
         TurnInv, Pending, Over, Admits, Withdraws, Desktops
<1>8. CASE DeadlinePasses
  <2>1. [desktop EXCEPT !.time = FALSE] \in Desktops
    BY <1>0, DesktopFields
  <2> QED
    BY <1>0, <1>8, <2>1 DEF DeadlinePasses, Becomes, control, Inv, TypeOK, RequestAttended,
         RequestInv, TurnInv, Pending, Over, Admits, Withdraws, Desktops
<1> QED BY <1>1, <1>2, <1>3, <1>4, <1>5, <1>6, <1>7, <1>8

LEMMA UnlockInv ==
  ASSUME Inv, NEW sender \in Owners, Unlock(sender)
  PROVE  Inv'
<1> USE DelayAssumption, NoRequestDiffers
<1>0. desktop' \in Desktops /\ standing' \in BOOLEAN /\ age' \in 0..Lifetime /\ calls' \in {0, 1}
      /\ closed' \in BOOLEAN /\ turn' \in {"loop", "recording"}
  <2>1. LimitLocked(desktop) \in BOOLEAN
    BY DEF LimitLocked, Inv, TypeOK, Desktops
  <2> QED BY <2>1 DEF Inv, TypeOK, Unlock, ghosts
<1>1. CASE sender # desktop.owner
  BY <1>1 DEF Unlock, Trusted, ghosts, control, Inv, TypeOK, RequestAttended, RequestInv,
              TurnInv, Pending
<1>2. CASE sender = desktop.owner /\ ~LimitLocked(desktop)
  BY <1>0, <1>2, FinishInv DEF Unlock, Trusted, Arm
<1>3. CASE sender = desktop.owner /\ LimitLocked(desktop)
  <2>1. request' = [owner |-> sender, age |-> 0, activeSeen |-> desktop.active = "yes",
                    cleared |-> FALSE, retried |-> FALSE, dispatched |-> FALSE]
        /\ idle' = TRUE /\ timer' = Lifetime /\ standing' = TRUE /\ age' = 0
        /\ UNCHANGED <<desktop, turn, closed, calls>> /\ ~closed
    BY <1>3 DEF Unlock, Trusted, Arm
  <2>2. request' \in Requests /\ Pending'
    <3>1. (desktop.active = "yes") \in BOOLEAN /\ 0 \in 0..Lifetime
      OBVIOUS
    <3>2. request' \in Requests
      BY <2>1, <3>1 DEF Requests
    <3> QED BY <3>2 DEF Pending
  <2>3. TypeOK' /\ RequestAttended' /\ TurnInv'
    BY <1>3, <2>1, <2>2 DEF Inv, TypeOK, RequestAttended, TurnInv, Pending, NoTimer
  <2>4. RequestInv'
    BY <1>3, <2>1 DEF RequestInv, LimitLocked, Over, Inv, TypeOK, Desktops
  <2> QED BY <2>3, <2>4 DEF Inv
<1> QED BY <1>1, <1>2, <1>3

LEMMA SourceInv ==
  ASSUME Inv, Tick \/ Expire \/ Continue
  PROVE  Inv'
<1> USE DelayAssumption, NoRequestDiffers
<1>1. CASE Tick
  <2>0. request \in Requests => [request EXCEPT !.age = @ + 1] # NoRequest
    BY DEF Requests, NoRequest
  <2>1. TypeOK'
    BY <1>1 DEF Tick, Inv, TypeOK, Requests, NoTimer, Pending
  <2>2. /\ Pending' <=> Pending
        /\ timer' = NoTimer <=> timer = NoTimer
    BY <1>1, <2>0 DEF Tick, Inv, TypeOK, NoTimer, Pending
  <2>3. Pending => /\ request \in Requests
                   /\ request'.owner = request.owner /\ request'.retried = request.retried
                   /\ request'.dispatched = request.dispatched /\ request'.cleared = request.cleared
                   /\ request'.activeSeen = request.activeSeen
    BY <1>1 DEF Tick, Inv, TypeOK, Requests, Pending
  <2>4. Pending /\ ~request.dispatched => request'.age = age'
    BY <1>1, <2>3 DEF Tick, Inv, TypeOK, RequestInv, Requests
  <2>5. RequestAttended' /\ TurnInv'
    BY <1>1, <2>2, <2>3 DEF Tick, Inv, RequestAttended, TurnInv, Admits
  <2>6. RequestInv'
    BY <1>1, <2>2, <2>3, <2>4 DEF Tick, Inv, RequestInv, Over
  <2> QED BY <2>1, <2>5, <2>6 DEF Inv
<1>2. CASE Expire
  BY <1>2, FinishInv DEF Expire, Inv, TypeOK, ghosts
<1>3. CASE Continue
  <2>0. request \in Requests
    BY <1>3 DEF Continue, Inv, TypeOK, Pending
  <2>1. CASE Finish /\ UNCHANGED turn
    BY <1>3, <2>1, FinishInv DEF Continue, Inv, TypeOK, ghosts
  <2>2. CASE /\ request.retried \/ ~(Lapsed(request, desktop) \/ Admits(desktop))
             /\ idle' = FALSE /\ UNCHANGED <<request, timer, turn>>
    BY <1>3, <2>2 DEF Continue, ghosts, Inv, TypeOK, RequestAttended, RequestInv, TurnInv,
                      Pending, Over, Admits
  <2>3. CASE /\ ~request.retried /\ ~Lapsed(request, desktop)
             /\ request' = [request EXCEPT !.retried = TRUE]
             /\ idle' = FALSE /\ turn' = "recording" /\ UNCHANGED timer
    <3>0. request.age < Lifetime
      BY <2>0, <2>3 DEF Requests, Lapsed
    <3>1. /\ request' \in Requests /\ request'.owner = request.owner
          /\ request'.age = request.age /\ request'.age < Lifetime
          /\ request'.dispatched = request.dispatched /\ request'.cleared = request.cleared
          /\ request'.activeSeen = request.activeSeen
      BY <2>0, <2>3, <3>0 DEF Requests
    <3>2. Pending' /\ TypeOK' /\ RequestAttended'
      BY <1>3, <2>3, <3>1 DEF Continue, ghosts, Inv, TypeOK, RequestAttended, Pending
    <3>3. TurnInv' /\ RequestInv'
      BY <1>3, <2>3, <3>1 DEF Continue, ghosts, Inv, TurnInv, RequestInv, Over, Pending
    <3> QED BY <3>2, <3>3 DEF Inv
  <2> QED BY <1>3, <2>1, <2>2, <2>3 DEF Continue
<1> QED BY <1>1, <1>2, <1>3

LEMMA DispatchInv ==
  ASSUME Inv, Dispatch
  PROVE  Inv'
<1> USE DelayAssumption, NoRequestDiffers
<1>0. desktop' \in Desktops /\ standing' \in BOOLEAN /\ calls' \in {0, 1} /\ age' = age
      /\ closed' = closed /\ turn = "recording" /\ turn' = "loop"
  <2>1. \A d \in Deactivated(desktop) : d \in Desktops
    <3>1. desktop \in Desktops
      BY DEF Inv, TypeOK
    <3> QED BY <3>1, DesktopFields
  <2>2. calls' \in {0, 1}
    <3>1. calls' = 1 - calls \/ calls' = calls
      BY DEF Dispatch
    <3> QED BY <3>1 DEF Inv, TypeOK
  <2>3. desktop' \in Desktops
    BY <2>1 DEF Dispatch, Inv, TypeOK
  <2>4. standing' \in BOOLEAN
    BY DEF Dispatch, Inv, TypeOK
  <2> QED BY <2>2, <2>3, <2>4 DEF Dispatch
<1>1. CASE Finish
  BY <1>0, <1>1, FinishInv DEF Inv, TypeOK
<1>2. CASE /\ Pending /\ request.retried
           /\ \E d \in Deactivated(desktop) : desktop' = d /\ HandOver(d)
           /\ ~Finish
  <2>1. request \in Requests
    BY <1>2 DEF Inv, TypeOK, Pending
  <2> DEFINE r == [request EXCEPT !.dispatched = TRUE]
  <2>2. r \in Requests /\ r.owner = request.owner /\ r.retried = request.retried /\ r.dispatched
    BY <2>1 DEF Requests
  <2>3. request' = Noted(r, desktop') /\ idle' = TRUE /\ timer' = Observation
    BY <1>2 DEF HandOver
  <2>4. request' \in Requests /\ request'.owner = request.owner /\ request'.retried
        /\ request'.dispatched
    BY <1>0, <1>2, <2>2, <2>3, NotedRequest
  <2>5. desktop'.owner = desktop.owner
    <3>1. desktop \in Desktops
      BY DEF Inv, TypeOK
    <3> QED BY <1>2, <3>1, DesktopFields
  <2>6. Pending' /\ Observation \in 0..Observation /\ timer' # NoTimer
    BY <2>3, <2>4 DEF Pending, NoTimer
  <2>7. TypeOK'
    BY <1>0, <2>3, <2>4, <2>6 DEF Inv, TypeOK
  <2>8. RequestAttended' /\ TurnInv' /\ RequestInv'
    BY <1>0, <1>2, <2>3, <2>4, <2>5, <2>6 DEF Inv, RequestAttended, TurnInv, RequestInv
  <2> QED BY <2>7, <2>8 DEF Inv
<1>3. CASE /\ ~(Pending /\ request.retried) /\ Changed(desktop)
           /\ UNCHANGED <<desktop, calls, standing>> /\ ~Finish
  <2>1. CASE ~Pending
    BY <1>0, <1>3, <2>1 DEF Changed, control, Inv, TypeOK, RequestAttended, RequestInv, TurnInv,
                            Pending
  <2>2. CASE Pending
    <3>1. /\ request \in Requests /\ ~Over(request, desktop)
          /\ request' = Noted(request, desktop) /\ idle' = TRUE /\ UNCHANGED timer
      BY <1>3, <2>2 DEF Changed, Inv, TypeOK, Pending
    <3>2. /\ request' \in Requests /\ request'.owner = request.owner
          /\ request'.age = request.age /\ request'.retried = request.retried
          /\ request'.dispatched = request.dispatched
          /\ request'.cleared = (request.cleared \/ ~desktop.shouldLock)
          /\ request'.activeSeen = (request.activeSeen \/ desktop.active = "yes")
      BY <1>0, <1>3, <3>1, NotedRequest DEF Inv, TypeOK
    <3>3. TypeOK' /\ RequestAttended' /\ Pending'
      BY <1>0, <1>3, <2>2, <3>1, <3>2 DEF Inv, TypeOK, RequestAttended, Pending
    <3>4. TurnInv'
      BY <1>0, <1>3, <2>2, <3>1, <3>2, <3>3 DEF Inv, TurnInv, Requests
    <3>5. RequestInv'
      BY <1>0, <1>3, <2>2, <3>1, <3>2 DEF Inv, RequestInv, Over, Pending, TypeOK, Desktops, Requests
    <3> QED BY <3>3, <3>4, <3>5 DEF Inv
  <2> QED BY <2>1, <2>2
<1> QED BY <1>1, <1>2, <1>3 DEF Dispatch

LEMMA NextInv == Inv /\ [Next]_vars => Inv'
<1> SUFFICES ASSUME Inv, [Next]_vars PROVE Inv'
  OBVIOUS
<1>1. CASE UNCHANGED vars
  BY <1>1 DEF vars, Inv, TypeOK, RequestAttended, RequestInv, TurnInv, Pending
<1>2. ASSUME NEW sender \in Owners, Lock(sender) PROVE Inv'
  BY <1>2, FinishInv DEF Lock, Inv, TypeOK
<1>3. CASE Close
  BY <1>3, FinishInv DEF Close, Inv, TypeOK
<1>4. CASE Start
  BY <1>4 DEF Start, control, ghosts, Inv, TypeOK, RequestAttended, RequestInv, TurnInv, Pending
<1>5. ASSUME NEW sender \in Owners, Unlock(sender) PROVE Inv'
  BY <1>5, UnlockInv
<1> QED
  BY <1>1, <1>2, <1>3, <1>4, <1>5, DesktopInv, SourceInv, DispatchInv DEF Next, Signal

\* The invariant of the controller: what a pending request knows of the
\* desktop and of the Unlock it stands for (RequestInv), and where its one
\* native call stands (TurnInv).
THEOREM UnlockInvariant == Spec => []Inv
  BY InitInv, NextInv, PTL DEF Spec

\* Every variable keeps to its domain.
THEOREM UnlockTypes == Spec => []TypeOK
  BY UnlockInvariant, PTL DEF Inv

\* No request of the controller is left without its timer, misses the wakeup
\* that admits it, or leaves a source behind.
THEOREM NeverUnattended == Spec => []RequestAttended
  BY UnlockInvariant, PTL DEF Inv

-----------------------------------------------------------------------------
(* The controller implements UnlockPermit.                                  *)

LEMMA InitPermit == Init => Permit!Init
  BY DEF Init, Permit!Init

LEMMA BecomesPermit ==
  ASSUME Inv, NEW d, Becomes(d)
  PROVE  [Permit!Next]_Permit!permitVars
  BY DEF Becomes, Inv, TypeOK, Permit!Next, Permit!Withdraw, Permit!permitVars

LEMMA NextPermit == Inv /\ [Next]_vars => [Permit!Next]_Permit!permitVars
<1> SUFFICES ASSUME Inv, [Next]_vars PROVE [Permit!Next]_Permit!permitVars
  OBVIOUS
<1> USE DEF Permit!permitVars
<1>1. CASE UNCHANGED vars
  BY <1>1 DEF vars
<1>2. CASE \/ ManagerChanges \/ ModeChanges \/ ShieldChanges \/ SessionChanges
           \/ OwnerChanges \/ Sleeps \/ Wakes \/ DeadlinePasses
  BY <1>2, BecomesPermit DEF ManagerChanges, ModeChanges, ShieldChanges, SessionChanges,
                             OwnerChanges, Sleeps, Wakes, DeadlinePasses
<1>3. CASE Close \/ \E sender \in Owners : Lock(sender)
  BY <1>3 DEF Close, Lock, Permit!Next, Permit!Withdraw
<1>4. ASSUME NEW sender \in Owners, Unlock(sender) PROVE [Permit!Next]_Permit!permitVars
  BY <1>4 DEF Unlock, ghosts, Permit!Next, Permit!Give, Permit!Withdraw
<1>5. CASE Tick
  BY <1>5 DEF Tick, Inv, TypeOK, Permit!Next, Permit!Age
<1>6. CASE Expire \/ Continue \/ Start
  BY <1>6 DEF Expire, Continue, Start, ghosts
\* A call is made for the request that was taken, which is pending, not yet
\* handed over and in time; its Unlock therefore still stands.
<1>7. CASE Dispatch
  <2>1. CASE Pending /\ request.retried
    <3>1. standing /\ age < Lifetime
      BY <1>7, <2>1 DEF Dispatch, Inv, RequestInv, TurnInv
    <3>2. standing' = FALSE /\ calls' = 1 - calls /\ age' = age
      BY <1>7, <2>1 DEF Dispatch
    <3> QED BY <3>1, <3>2 DEF Permit!Next, Permit!Use
  <2>2. CASE ~(Pending /\ request.retried)
    BY <1>7, <2>2 DEF Dispatch
  <2> QED BY <2>1, <2>2
<1> QED BY <1>1, <1>2, <1>3, <1>4, <1>5, <1>6, <1>7 DEF Next, Signal

\* Refinement: whatever the order of signals, idle callbacks and late timers,
\* the controller makes at most one native call per trusted Unlock, within its
\* lifetime and only while nothing has withdrawn it.
THEOREM ImplementsPermit == Spec => WithinPermit
  BY InitPermit, UnlockInvariant, NextPermit, PTL DEF Spec, WithinPermit, Permit!Spec
=============================================================================
