------------------------- MODULE PolicyTransactions -------------------------
(***************************************************************************)
(* The broker's account transactions for one managed child (core.py).      *)
(*                                                                         *)
(* Six operations share the nonblocking request lock: an approval, turning *)
(* screen-time control on or off, saving app policy, revoking a grant and  *)
(* preparing a session whose grant has expired.  Each one reads the native *)
(* record AccountsService keeps for Malcontent, writes it one property at  *)
(* a time, reads every write back, and on a failure undoes what it wrote.  *)
(* While the lock is held the clock moves, the child starts and stops      *)
(* applications, the request's owner may leave, and the broker may crash.  *)
(*                                                                         *)
(* A transaction is its lock holder's program counter txn.pc: the write    *)
(* it is about to make.  After(t, s) is the order of the writes.           *)
(***************************************************************************)
EXTENDS Naturals

CONSTANTS
  Apps,           \* applications of the child that a policy can name
  Policies,       \* BOUND: the app policies a parent saves, [Apps -> AppStates]
  DailyLimits,    \* daily allowances a parent can save
  Additions,      \* durations a request can ask for; 0 is "rest of the day"
  Used,           \* the child's recorded use of today, in the same unit
  Midnight,       \* the instant at which a rest-of-day grant ends
  MaxTime,        \* BOUND: the last clock reading, before Midnight
  MaxDuration,    \* BOUND: UINT32_MAX, the longest grant the record can hold
  Operations,     \* the operations that callers use
  LateFaults      \* <<operation, write>>: the write may raise although it took effect

AppStates == {"allowed", "conditional", "permanent"}

AllOperations == {"approve", "enable", "disable", "setPreferences", "revoke", "prepare"}

AccountSteps == {"full", "scheduleOnly", "daily", "grant", "limit", "schedule", "filter"}
WriteSteps   == AccountSteps \cup {"switch", "save", "activate"}
WaitSteps    == {"authorize", "calculate", "admit"}
Steps        == {"idle", "done", "kill"} \cup WaitSteps \cup WriteSteps

ASSUME TimeAssumption ==
  /\ DailyLimits \subseteq Nat /\ 0 \in DailyLimits
  /\ Additions \subseteq Nat
  /\ Used \in Nat /\ MaxTime \in Nat /\ MaxDuration \in Nat
  /\ Midnight \in Nat /\ MaxTime < Midnight

ASSUME InstanceAssumption ==
  /\ Policies \subseteq [Apps -> AppStates]
  /\ Operations \subseteq AllOperations
  /\ LateFaults \subseteq AllOperations \X WriteSteps

VARIABLES
  now,       \* the broker's wall clock
  account,   \* the child's AccountsService record
  prefs,     \* the child's preference record, without its request section
  switch,    \* whether the child's GNOME extension is enabled
  running,   \* the child's running applications
  txn,       \* the lock holder, or NoTransaction
  tainted    \* history: a crash or a reported rollback failure has happened

vars == <<now, account, prefs, switch, running, txn, tainted>>

-----------------------------------------------------------------------------
(* Types. LimitType is Malcontent's: 0 none, 1 schedule only, 2 daily only. *)
(* A grant is the instant it ends, 0 when ActiveExtension is (0, 0).        *)

Accounts == [limit : 0..2, daily : DailyLimits, schedule : {"own", "full"},
             filter : SUBSET Apps, grant : Nat]

Preferences == [enabled : BOOLEAN, daily : DailyLimits, apps : [Apps -> AppStates]]

Decisions == {"approved", "denied", "cancelled"}

Outcomes == {"running", "applied", "denied", "cancelled", "failed", "rollbackFailed"}

\* What SetParentControl undoes independently of one another.
Parts == {"account", "preferences", "extension"}

Transactions ==
  [op : AllOperations \cup {"none"},
   pc : Steps,
   status : Outcomes, undo : BOOLEAN,
   caller : {"kiosk", "child"}, soft : BOOLEAN, addition : Nat,
   gone : BOOLEAN, stale : BOOLEAN,
   old : Accounts, want : Accounts,
   oldPrefs : Preferences, wantPrefs : Preferences,
   kill : SUBSET Apps, closed : BOOLEAN, resave : BOOLEAN,
   lost : SUBSET Parts]                            \* parts whose undoing failed

NoAccount == [limit |-> 0, daily |-> 0, schedule |-> "own", filter |-> {}, grant |-> 0]
NoPrefs   == [enabled |-> FALSE, daily |-> 0, apps |-> [a \in Apps |-> "allowed"]]

NoTransaction ==
  [op |-> "none", pc |-> "idle", status |-> "running", undo |-> FALSE,
   caller |-> "kiosk", soft |-> FALSE, addition |-> 0, gone |-> FALSE, stale |-> FALSE,
   old |-> NoAccount, want |-> NoAccount, oldPrefs |-> NoPrefs, wantPrefs |-> NoPrefs,
   kill |-> {}, closed |-> FALSE, resave |-> FALSE, lost |-> {}]

-----------------------------------------------------------------------------
(* What the record means. *)

Idle == txn.pc = "idle"

GrantCurrent(a) == now < a.grant

DailyLeft(limit) == IF limit > Used THEN limit - Used ELSE 0

\* Whether Malcontent leaves the child's session open under this record.
Usable(a) ==
  \/ a.limit = 0
  \/ GrantCurrent(a)
  \/ a.limit = 1 /\ a.schedule = "full"
  \/ a.limit = 2 /\ DailyLeft(a.daily) > 0

BlockedTargets(apps, allowSoft) ==
  {a \in Apps : apps[a] = "permanent" \/ (apps[a] = "conditional" /\ ~allowSoft)}

\* What an app-policy save terminates: newly hard, or newly blocked at all.
NewlyBlocked(before, after) ==
  LET hard(apps) == BlockedTargets(apps, TRUE)
      all(apps)  == BlockedTargets(apps, FALSE)
  IN  (hard(after) \ hard(before)) \cup ((all(after) \ hard(after)) \ all(before))

Toggled(t) == t.oldPrefs.enabled # t.wantPrefs.enabled

\* An approval rewrites the time state when limits are off or the allowance moved.
InitializesTime(t) == t.old.limit = 0 \/ t.old.daily # t.want.daily

-----------------------------------------------------------------------------
(* The order of the writes. *)

\* _prepare_time_state skips the bridge when limits are off before and after.
PrepareStartUnbridged(goal) == "daily"
PrepareStartHalfBridge(goal) == IF account.limit # 0 \/ goal # 0 THEN "scheduleOnly" ELSE "daily"
PrepareStart(goal) == IF account.limit # 0 \/ goal # 0 THEN "full" ELSE "daily"

Concluding(t) == IF Toggled(t) THEN "switch" ELSE "done"

AfterDailyLimitFirst(t) == IF t.op = "approve" /\ ~t.undo THEN "filter" ELSE "limit"
AfterDaily(t) ==
  CASE t.op = "approve" /\ ~t.undo                 -> "filter"
    [] t.op = "enable" /\ ~t.undo /\ ~Toggled(t)   -> "limit"
    [] OTHER                                       -> "grant"

AfterFinish(t) ==
  IF t.caller = "kiosk" /\ t.oldPrefs.enabled THEN "activate" ELSE "done"

AfterGrant(t) ==
  CASE t.op = "revoke"                              -> IF t.undo THEN "filter" ELSE "done"
    [] t.op = "approve" /\ ~t.undo /\ ~InitializesTime(t) -> AfterFinish(t)
    [] OTHER                                        -> "limit"

AfterLimitKeepsBridge(t) ==
  IF t.op = "approve" /\ ~t.undo THEN AfterFinish(t) ELSE "filter"
AfterLimit(t) == IF t.op = "enable" /\ ~t.undo THEN "filter" ELSE "schedule"

AfterSchedule(t) == IF t.op = "approve" /\ ~t.undo THEN AfterFinish(t) ELSE "filter"

AfterKill(t) == IF t.op \in {"approve", "revoke"} THEN "grant" ELSE "done"

AfterFilterSkipsKill(t) ==
  IF t.op \in {"enable", "disable"}
  THEN IF t.undo /\ ~t.resave THEN Concluding(t) ELSE "save"
  ELSE IF t.undo THEN "done" ELSE AfterKill(t)
AfterFilter(t) ==
  IF t.op \in {"enable", "disable"}
  THEN IF t.undo /\ ~t.resave THEN Concluding(t) ELSE "save"
  ELSE IF t.undo THEN "done"
  ELSE IF t.kill = {} THEN AfterKill(t) ELSE "kill"

AfterSave(t) ==
  IF t.op = "setPreferences" THEN "filter" ELSE IF t.undo THEN Concluding(t) ELSE "done"

AfterSwitch(t) ==
  IF t.undo THEN "done" ELSE IF t.op = "enable" THEN "daily" ELSE PrepareStart(t.want.limit)

After(t, s) ==
  CASE s = "full"         -> "scheduleOnly"
    [] s = "scheduleOnly" -> "daily"
    [] s = "daily"        -> AfterDaily(t)
    [] s = "grant"        -> AfterGrant(t)
    [] s = "limit"        -> AfterLimit(t)
    [] s = "schedule"     -> AfterSchedule(t)
    [] s = "filter"       -> AfterFilter(t)
    [] s = "kill"         -> AfterKill(t)
    [] s = "save"         -> AfterSave(t)
    [] s = "switch"       -> AfterSwitch(t)
    [] OTHER              -> "done"

-----------------------------------------------------------------------------
(* What each write writes. *)

\* After a process may have been closed, the strict filter is what rollback keeps.
RollbackFilterAlwaysOld(t) == t.old.filter
RollbackFilter(t) == IF t.closed THEN t.want.filter ELSE t.old.filter

Goal(t) == IF t.undo THEN [t.old EXCEPT !.filter = RollbackFilter(t)] ELSE t.want

Written(a, s, goal) ==
  CASE s = "full"         -> [a EXCEPT !.schedule = "full"]
    [] s = "scheduleOnly" -> [a EXCEPT !.limit = 1]
    [] s = "daily"        -> [a EXCEPT !.daily = goal.daily]
    [] s = "grant"        -> [a EXCEPT !.grant = goal.grant]
    [] s = "limit"        -> [a EXCEPT !.limit = goal.limit]
    [] s = "schedule"     -> [a EXCEPT !.schedule = goal.schedule]
    [] s = "filter"       -> [a EXCEPT !.filter = goal.filter]
    [] OTHER              -> a

Effect(s) ==
  LET target == IF txn.undo THEN txn.oldPrefs ELSE txn.wantPrefs
  IN  /\ account' = Written(account, s, Goal(txn))
      /\ prefs' = IF s = "save" THEN target ELSE prefs
      /\ switch' = CASE s = "switch"   -> target.enabled
                     [] s = "activate" -> TRUE
                     [] OTHER          -> switch

NoEffect == UNCHANGED <<account, prefs, switch>>

Conclude(t, status) == [t EXCEPT !.pc = "done", !.status = status]

Advance(t, next) ==
  [t EXCEPT !.pc = next,
            !.status = IF next = "done" /\ @ = "running" THEN "applied" ELSE @]

-----------------------------------------------------------------------------
(* Failure of a write: what is undone, and where the undoing starts. *)

\* A read-back fault raises after the call returned; the others raise from the call.
Faults(s) ==
  {"early"} \cup (IF <<txn.op, s>> \in LateFaults THEN {"late"} ELSE {})
            \cup (IF s \in AccountSteps THEN {"readback"} ELSE {})

Undoes(t, s, fault) ==
  CASE t.op = "setPreferences"          -> s # "kill"
    [] t.op = "prepare"                 -> s = "filter" /\ fault = "readback"
    [] t.op \in {"enable", "disable"}   -> s # "switch"
    [] OTHER                            -> TRUE

\* Whether undoing must save the old preferences: SetParentControl marks the
\* save before it starts, SetPreferences only once it has returned.
ResavesNever(t, s) == FALSE
Resaves(t, s) ==
  CASE t.op = "setPreferences" -> s # "save"
    [] OTHER                   -> t.op \in {"enable", "disable"} /\ s = "save"

UndoStartAtFilter(t, resave) == IF resave THEN "save" ELSE "filter"
UndoStart(t, resave) ==
  CASE t.op = "revoke"         -> "grant"
    [] t.op = "prepare"        -> "filter"
    [] t.op = "setPreferences" -> IF resave THEN "save" ELSE "filter"
    [] OTHER -> IF account'.limit # 0 \/ t.old.limit # 0 THEN "full" ELSE "daily"

Aborted(t, s, fault) ==
  IF Undoes(t, s, fault)
  THEN [t EXCEPT !.undo = TRUE, !.status = "failed", !.resave = Resaves(t, s),
                 !.pc = UndoStart(t, Resaves(t, s))]
  ELSE Conclude(t, "failed")

\* Undoing stops at its first fault, except that SetParentControl undoes the
\* account, the preferences and the extension independently of one another.
PartOf(s) ==
  CASE s = "save" -> "preferences" [] s = "switch" -> "extension" [] OTHER -> "account"

UndoFaultRestarts(t, s) ==
  [t EXCEPT !.status = "rollbackFailed", !.pc = UndoStart(t, t.resave)]
UndoFaultStops(t, s) ==
  [t EXCEPT !.status = "rollbackFailed", !.pc = "done", !.lost = @ \cup {PartOf(s)}]
UndoFault(t, s) ==
  LET part == IF t.op \notin {"enable", "disable"} \/ s = "switch" THEN "done"
              ELSE IF t.resave /\ s # "save" THEN "save" ELSE Concluding(t)
  IN  [t EXCEPT !.status = "rollbackFailed", !.pc = part, !.lost = @ \cup {PartOf(s)}]

-----------------------------------------------------------------------------
(* Starting a transaction. *)

Keep == UNCHANGED <<now, account, prefs, switch, running, tainted>>

\* The lock is free; every value a rollback would restore is read under it.
Open(op) ==
  [NoTransaction EXCEPT !.op = op, !.old = account, !.want = account,
                        !.oldPrefs = prefs, !.wantPrefs = prefs]

Start(op) == op \in Operations /\ Idle /\ Keep

RequestAccess(caller, soft, addition) ==
  /\ Start("approve")
  /\ caller = "child" => prefs.enabled
  /\ txn' = [Open("approve") EXCEPT !.pc = "authorize", !.caller = caller,
                                    !.soft = soft, !.addition = addition]

SetParentControl(enabled, daily) ==
  LET toggled == enabled # prefs.enabled
      want == [account EXCEPT !.limit = IF enabled THEN 2 ELSE 0,
                              !.daily = IF enabled THEN daily ELSE 0,
                              !.grant = IF toggled THEN 0 ELSE @,
                              !.filter = BlockedTargets(prefs.apps, FALSE)]
  IN  /\ Start(IF enabled THEN "enable" ELSE "disable")
      \* Refused: native limits stay on under a grant kept by a saved-off toggle.
      /\ ~(~enabled /\ ~toggled /\ GrantCurrent(account))
      /\ txn' = [Open(IF enabled THEN "enable" ELSE "disable") EXCEPT
                   !.want = want,
                   !.wantPrefs = [prefs EXCEPT !.enabled = enabled, !.daily = daily],
                   !.pc = IF toggled THEN "switch"
                          ELSE IF enabled THEN "daily" ELSE PrepareStart(0)]

\* The parent's whole record replaces the saved one, except for the toggle.
SetPreferences(apps, daily) ==
  /\ Start("setPreferences")
  /\ txn' = [Open("setPreferences") EXCEPT
               !.want.filter = BlockedTargets(apps, FALSE),
               !.wantPrefs = [prefs EXCEPT !.apps = apps, !.daily = daily],
               !.kill = NewlyBlocked(prefs.apps, apps),
               !.pc = "save"]

RevokeOneTimeGrant ==
  LET strict == BlockedTargets(prefs.apps, FALSE)
  IN  /\ Start("revoke")
      /\ txn' = [Open("revoke") EXCEPT !.want.filter = strict, !.want.grant = 0,
                                       !.kill = strict, !.pc = "filter"]

PrepareOwnSession ==
  LET strict == BlockedTargets(prefs.apps, FALSE)
  IN  /\ Start("prepare")
      /\ account.grant # 0 /\ ~GrantCurrent(account)
      /\ txn' = [Open("prepare") EXCEPT !.want.filter = strict, !.kill = strict,
                                        !.pc = "filter"]

-----------------------------------------------------------------------------
(* An approval before its first write. *)

\* Limits that are off are switched on; any other limit type stays.
ApprovedLimit(t) == IF t.old.limit = 0 THEN 2 ELSE t.old.limit

\* The record an approval is to leave behind, if the grant it calculated fits.
Approved(t, grant) ==
  IF now < grant /\ grant <= now + MaxDuration
  THEN [t EXCEPT !.pc = "admit",
                 !.want = [limit |-> ApprovedLimit(t), daily |-> prefs.daily,
                           schedule |-> t.old.schedule,
                           filter |-> BlockedTargets(prefs.apps, t.soft), grant |-> grant],
                 !.kill = IF t.soft THEN {} ELSE BlockedTargets(prefs.apps, FALSE)]
  ELSE Conclude(t, "failed")

\* The caller and the selection are looked at again after every wait.
RecheckedCaller(t, next) == IF t.gone THEN Conclude(t, "cancelled") ELSE next
Rechecked(t, next) ==
  IF t.gone THEN Conclude(t, "cancelled") ELSE IF t.stale THEN Conclude(t, "failed") ELSE next

AuthorizationReturns(outcome) ==
  /\ txn.pc = "authorize"
  /\ txn' = IF outcome # "approved" THEN Conclude(txn, outcome)
            ELSE Rechecked(txn, IF txn.addition = 0 THEN Approved(txn, Midnight)
                                ELSE [txn EXCEPT !.pc = "calculate"])
  /\ Keep

\* calculate_active_extension_seconds: the larger remainder, plus the addition.
ExtendedFromDailyOnly(dailyLeft, grant, addition) == now + dailyLeft + addition
Extended(dailyLeft, grant, addition) ==
  LET grantLeft == IF grant > now THEN grant - now ELSE 0
  IN  now + (IF dailyLeft > grantLeft THEN dailyLeft ELSE grantLeft) + addition

\* A child's own request may see less daily time: the native deadline caps it.
DailyOperand(t) ==
  LET left == IF prefs.enabled THEN DailyLeft(prefs.daily) ELSE 0
  IN  IF t.caller = "child" THEN 0..left ELSE {left}

CalculateGrant ==
  /\ txn.pc = "calculate"
  /\ \/ txn' = Conclude(txn, "failed")                     \* the usage query failed
     \/ \E left \in DailyOperand(txn) :
          txn' = Rechecked(txn, Approved(txn, Extended(left, account.grant, txn.addition)))
  /\ Keep

\* admit_effect: the last look at caller and selection, then the first write.
AdmitEffect ==
  /\ txn.pc = "admit"
  /\ \/ txn' = Rechecked(txn, [txn EXCEPT !.pc =
                 IF InitializesTime(txn) THEN PrepareStart(txn.want.limit) ELSE "filter"])
     \/ \E status \in {"failed", "cancelled"} : txn' = Conclude(txn, status)
  /\ Keep

-----------------------------------------------------------------------------
(* The lock holder's writes, and its end. *)

Write(s) ==
  /\ txn.pc = s
  /\ Effect(s)
  /\ txn' = Advance(txn, After(txn, s))
  /\ UNCHANGED <<now, running, tainted>>

WriteFails(s, fault) ==
  /\ txn.pc = s
  /\ IF fault = "early" THEN NoEffect ELSE Effect(s)
  /\ txn' = IF txn.undo THEN UndoFault(txn, s) ELSE Aborted(txn, s, fault)
  /\ UNCHANGED <<now, running, tainted>>

\* Approval and revocation forget a termination that closed nothing.
TerminateApps ==
  /\ txn.pc = "kill"
  /\ running' = running \ txn.kill
  /\ txn' = Advance([txn EXCEPT !.closed = \/ txn.op \in {"setPreferences", "prepare"}
                                           \/ running \cap txn.kill # {}],
                    After(txn, "kill"))
  /\ UNCHANGED <<now, account, prefs, switch, tainted>>

TerminationFails(closed) ==
  /\ txn.pc = "kill"
  /\ running' = running \ closed
  /\ NoEffect
  /\ txn' = Aborted([txn EXCEPT !.closed = TRUE], "kill", "early")
  /\ UNCHANGED <<now, tainted>>

ReleaseLock ==
  /\ txn.pc = "done"
  /\ txn' = NoTransaction
  /\ tainted' = (tainted \/ txn.status = "rollbackFailed")
  /\ UNCHANGED <<now, account, prefs, switch, running>>

-----------------------------------------------------------------------------
(* Everything else that happens meanwhile. *)

Tick ==
  /\ now < MaxTime
  /\ now' = now + 1
  /\ UNCHANGED <<account, prefs, switch, running, txn, tainted>>

\* A request-section write takes no lock; an account can become ineligible.
SelectionChanges(stale) ==
  /\ txn.pc \in WaitSteps
  /\ txn' = [txn EXCEPT !.stale = stale]
  /\ Keep

CallerLeaves ==
  /\ txn.pc \in WaitSteps
  /\ txn' = [txn EXCEPT !.gone = TRUE]
  /\ Keep

\* The execution rules refuse what the live filter blocks, and nothing else.
LaunchApp(a) ==
  /\ a \notin running /\ a \notin account.filter
  /\ running' = running \cup {a}
  /\ UNCHANGED <<now, account, prefs, switch, txn, tainted>>

QuitApp(a) ==
  /\ a \in running
  /\ running' = running \ {a}
  /\ UNCHANGED <<now, account, prefs, switch, txn, tainted>>

\* The monitor and RecoverChildExtension, under the lock, for an enabled child.
RecoverChildExtension ==
  /\ Idle /\ prefs.enabled
  /\ switch' = TRUE
  /\ UNCHANGED <<now, account, prefs, running, txn, tainted>>

\* The lock and the transaction die with the process; what was written stays.
Crash ==
  /\ ~Idle
  /\ txn' = NoTransaction
  /\ tainted' = (tainted \/ txn.pc \notin WaitSteps \cup {"done"} \/ txn.status = "rollbackFailed")
  /\ UNCHANGED <<now, account, prefs, switch, running>>

-----------------------------------------------------------------------------
Init ==
  /\ now = 0
  /\ account = NoAccount
  /\ prefs = NoPrefs
  /\ switch = FALSE
  /\ running = {}
  /\ txn = NoTransaction
  /\ tainted = FALSE

Begin ==
  \/ \E caller \in {"kiosk", "child"}, soft \in BOOLEAN, addition \in Additions :
       RequestAccess(caller, soft, addition)
  \/ \E enabled \in BOOLEAN, daily \in DailyLimits : SetParentControl(enabled, daily)
  \/ \E apps \in Policies, daily \in DailyLimits : SetPreferences(apps, daily)
  \/ RevokeOneTimeGrant
  \/ PrepareOwnSession

\* The lock holder's own steps; a decision by the parent is not among them.
HolderStep ==
  \/ CalculateGrant
  \/ AdmitEffect
  \/ \E s \in WriteSteps : Write(s)
  \/ \E s \in WriteSteps : \E fault \in Faults(s) : WriteFails(s, fault)
  \/ TerminateApps
  \/ \E closed \in SUBSET txn.kill : TerminationFails(closed)
  \/ ReleaseLock

Environment ==
  \/ Tick
  \/ \E stale \in BOOLEAN : SelectionChanges(stale)
  \/ CallerLeaves
  \/ \E a \in Apps : LaunchApp(a) \/ QuitApp(a)
  \/ RecoverChildExtension
  \/ Crash

Next ==
  \/ Begin
  \/ \E outcome \in Decisions : AuthorizationReturns(outcome)
  \/ HolderStep
  \/ Environment

\* The worker thread that holds the lock runs until it releases it; a prompt
\* whose caller has left is cancelled (RequestLifetime models how).
Fairness ==
  /\ WF_vars(HolderStep)
  /\ WF_vars(txn.gone /\ AuthorizationReturns("cancelled"))

Spec == Init /\ [][Next]_vars /\ Fairness

-----------------------------------------------------------------------------
(* Properties. *)

\* Every variable keeps to its domain: the record holds what AccountsService can
\* hold, and the lock holder's plan and undo records are records of that kind.
TypeOK ==
  /\ now \in 0..MaxTime
  /\ account \in Accounts
  /\ prefs \in Preferences
  /\ switch \in BOOLEAN
  /\ running \in SUBSET Apps
  /\ txn \in Transactions
  /\ tainted \in BOOLEAN

\* Malcontent asserts that a current extension has enabled limits: no order of
\* writes, undo, failed undo or crash may leave LimitType 0 under a current grant.
NativeSafe == GrantCurrent(account) => account.limit # 0

\* The schedule-only limit type is only ever seen over the full-day schedule, so
\* a transaction cut short leaves the child a usable session, not a locked one.
BridgeIsFullDay == account.limit = 1 => account.schedule = "full"

\* A child who has time before and after a transaction is not locked out by a
\* record in between: the reason for the bridge in _prepare_time_state.
NoTransientLockout ==
  ~Idle => Usable(account) \/ ~Usable(txn.old) \/ ~Usable(txn.want)

\* A transaction that reports success has made every change it announced. One
\* that reports anything but a rollback failure has changed nothing, except that
\* once a process may have been closed the stricter app policy stays: the filter,
\* and for an app-policy save the preferences it was saved with. One that turns
\* control on or off and reports a rollback failure has undone every part whose
\* own undoing did not fail: no failure keeps the other parts from being undone.
AllOrNothing ==
  txn.pc = "done" =>
    CASE txn.status = "applied" -> account = txn.want /\ prefs = txn.wantPrefs
      [] txn.status = "rollbackFailed" ->
           txn.op \in {"enable", "disable"} =>
             /\ "account" \in txn.lost \/ account = txn.old
             /\ "preferences" \in txn.lost \/ prefs = txn.oldPrefs
             /\ "extension" \in txn.lost \/ ~Toggled(txn) \/ switch = txn.oldPrefs.enabled
      [] OTHER ->
           /\ account = [txn.old EXCEPT !.filter = IF txn.closed THEN txn.want.filter ELSE @]
           /\ prefs = IF txn.closed /\ txn.op = "setPreferences"
                      THEN txn.wantPrefs ELSE txn.oldPrefs

\* Between transactions, after no crash and no reported rollback failure: the
\* bridge is closed, a saved-on toggle has its daily limit in force and its
\* extension on, and the live filter is the saved policy, or the saved policy
\* without its soft blocks while a grant is on record to restore them at its end.
Settled ==
  Idle /\ ~tainted =>
    /\ account.schedule = "own" /\ account.limit # 1
    /\ prefs.enabled => account.limit = 2
    /\ switch = prefs.enabled
    /\ \/ account.filter = BlockedTargets(prefs.apps, FALSE)
       \/ account.filter = BlockedTargets(prefs.apps, TRUE) /\ account.grant # 0

\* "Restores hard and soft blocks and closes matching apps before making the new
\* grant available": from the write of such a grant to the end of its approval,
\* the saved policy is live and nothing it blocks is running.
GrantAfterCleanup ==
  /\ txn.op = "approve" /\ ~txn.soft /\ ~txn.undo
  /\ txn.pc \in {"limit", "schedule", "activate"} \/ txn.status = "applied"
  => /\ account.filter = BlockedTargets(prefs.apps, FALSE)
     /\ running \cap account.filter = {}

\* An approval acts only on what was looked at again after its last wait: no write
\* is made for a caller who has left or a selection that has changed since the
\* prompt was opened. The addition is then added in full: the new grant never ends
\* sooner than the current one would have ended with the addition on top of it.
ApprovalHonoured ==
  txn.op = "approve" =>
    /\ txn.pc \in WriteSteps \cup {"kill"} \/ txn.status = "applied" =>
         ~txn.gone /\ ~txn.stale
    /\ txn.status = "applied" /\ txn.addition # 0 =>
         account.grant >= txn.old.grant + txn.addition

\* Every transaction gives the lock back, whatever fails, once the parent has
\* decided or the caller has left.
LockReleased == (~Idle /\ (txn.pc # "authorize" \/ txn.gone)) ~> Idle

-----------------------------------------------------------------------------
(* What the documents say and the code does not do, one violation run each. *)

\* "App-policy save rollback: before termination, failure restores the old
\* preference record and filter" (Broker.md): a save that replaced the record
\* and then raised has not set preferences_saved, so nothing restores it.
SaveRollsBack ==
  txn.pc = "done" /\ txn.op = "setPreferences" /\ txn.status = "failed" /\ ~txn.closed =>
    account = txn.old /\ prefs = txn.oldPrefs

\* "Before that point, preserve the exact policy that preceded reconciliation"
\* (core.py): set_filter sets the filter, then synchronizes the rules; when that
\* raises, filter_changed is still False and the strict filter stays.
SessionRollsBack ==
  txn.pc = "done" /\ txn.op = "prepare" /\ txn.status = "failed" /\ ~txn.closed =>
    account = txn.old

\* "A failed rollback is a distinct error" (Specification.md): set_enabled that
\* cannot undo itself raises RuntimeError, which SetParentControl reports as an
\* ordinary failure, with the extension's state no longer that of the toggle.
ExtensionRollbackReported == Idle /\ ~tainted => switch = prefs.enabled

=============================================================================
