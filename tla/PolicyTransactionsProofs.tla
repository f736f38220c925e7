---------------------- MODULE PolicyTransactionsProofs ----------------------
(***************************************************************************)
(* Proofs about PolicyTransactions, for every value of its constants: the  *)
(* type invariant, that no state shows Malcontent a current grant without  *)
(* limits (NativeSafe) or a bridge without its full day (BridgeIsFullDay), *)
(* that a transaction is whole or nothing and settles (AllOrNothing,       *)
(* Settled), that it locks nobody out on its way (NoTransientLockout), and *)
(* what an approval grants and when (ApprovalHonoured, GrantAfterCleanup). *)
(*                                                                         *)
(* None of these is inductive: whether a write keeps it depends on the     *)
(* writes that are still to come.  TransactionInv says what each position  *)
(* of a transaction may rely on; PlanOK, what a transaction aims at and    *)
(* which way it takes; RecordInv, that every field no longer due shows the *)
(* goal; StoreInv, which preferences are stored.                           *)
(***************************************************************************)
EXTENDS PolicyTransactions, TLAPS

\* A record Malcontent accepts, and whose bridge is safe, at this instant.
Sound(a) ==
  /\ now < a.grant => a.limit # 0
  /\ a.limit = 1 => a.schedule = "full"

\* Positions from which the grant or the final limit type is still to be written.
BeforeFinish(t) ==
  \/ t.pc \in {"daily", "grant"}
  \/ t.pc \in {"filter", "kill"} /\ t.op \in {"approve", "revoke"} /\ ~t.undo

\* The operation's fixed part: what it started from and what it aims at.
PlanInv ==
  ~Idle =>
    /\ Sound(txn.old) /\ Sound(txn.want)
    /\ txn.op = "enable" => txn.want.limit = 2
    /\ txn.op = "approve" /\ ~txn.undo /\ txn.pc \notin {"authorize", "calculate", "done"} =>
         txn.want.limit # 0
    /\ txn.pc \in WaitSteps => txn.op = "approve" /\ ~txn.undo /\ account = txn.old
    /\ txn.pc = "admit" => txn.want.schedule = txn.old.schedule
    /\ txn.pc = "kill" => ~txn.undo
    /\ txn.pc = "switch" /\ ~txn.undo => txn.want.grant = 0
    /\ txn.op = "revoke" =>
         /\ account.limit = txn.old.limit /\ account.schedule = txn.old.schedule
         /\ txn.want.grant = 0 /\ txn.want.limit = txn.old.limit
         /\ txn.pc \in {"filter", "kill", "grant", "done"}

\* The moving part: what the record already shows when a write is due.
PositionInv ==
  LET g == Goal(txn) IN
  /\ BeforeFinish(txn) =>
       /\ account.limit # 0 \/ ~(now < g.grant)
       /\ g.limit = 1 => account.schedule = "full"
  /\ txn.pc = "scheduleOnly" => account.schedule = "full"
  /\ txn.pc = "limit" =>
       /\ g.limit = 0 => ~(now < account.grant)
       /\ g.limit = 1 => account.schedule = "full"
  /\ txn.pc = "schedule" => account.limit = g.limit

TransactionInv == TypeOK /\ Sound(account) /\ PlanInv /\ PositionInv

-----------------------------------------------------------------------------
(* What the operators return. *)

LEMMA WrittenType ==
  ASSUME NEW a \in Accounts, NEW g \in Accounts, NEW s
  PROVE  Written(a, s, g) \in Accounts
BY DEF Written, Accounts

LEMMA GoalType ==
  ASSUME NEW t \in Transactions
  PROVE  Goal(t) \in Accounts
BY DEF Goal, RollbackFilter, Transactions, Accounts

LEMMA AfterType ==
  ASSUME NEW t \in Transactions, NEW s
  PROVE  After(t, s) \in Steps
BY DEF After, AfterDaily, AfterGrant, AfterLimit, AfterSchedule, AfterFilter, AfterKill,
       AfterSave, AfterSwitch, AfterFinish, Concluding, PrepareStart, Steps, WaitSteps,
       WriteSteps, AccountSteps

LEMMA AdvanceType ==
  ASSUME NEW t \in Transactions, NEW next \in Steps
  PROVE  Advance(t, next) \in Transactions
BY DEF Advance, Transactions, Outcomes

LEMMA ConcludeType ==
  ASSUME NEW t \in Transactions, NEW status \in Outcomes
  PROVE  Conclude(t, status) \in Transactions
BY DEF Conclude, Transactions, Steps

LEMMA NoTransactionType == NoTransaction \in Transactions
BY TimeAssumption DEF NoTransaction, Transactions, NoAccount, NoPrefs, Accounts, Preferences,
   Steps, Outcomes, AppStates

LEMMA OpenType ==
  ASSUME TypeOK, NEW op \in AllOperations
  PROVE  Open(op) \in Transactions
BY NoTransactionType DEF Open, Transactions, TypeOK

LEMMA ApprovedType ==
  ASSUME TypeOK, NEW t \in Transactions, NEW grant \in Nat
  PROVE  Approved(t, grant) \in Transactions
<1> DEFINE want == [limit |-> ApprovedLimit(t), daily |-> prefs.daily, schedule |-> t.old.schedule,
                    filter |-> BlockedTargets(prefs.apps, t.soft), grant |-> grant]
           kill == IF t.soft THEN {} ELSE BlockedTargets(prefs.apps, FALSE)
           fits == now < grant /\ grant <= now + MaxDuration
<1>1. kill \in SUBSET Apps /\ BlockedTargets(prefs.apps, t.soft) \in SUBSET Apps
  BY DEF BlockedTargets
<1>2. want \in Accounts
  BY <1>1 DEF ApprovedLimit, TypeOK, Transactions, Accounts, Preferences
<1>3. Conclude(t, "failed") \in Transactions
  BY ConcludeType DEF Outcomes
<1>4. Approved(t, grant) =
        IF fits THEN [t EXCEPT !.pc = "admit", !.want = want, !.kill = kill] ELSE Conclude(t, "failed")
  BY DEF Approved
<1>5. [t EXCEPT !.pc = "admit", !.want = want, !.kill = kill] \in Transactions
  <2> HIDE DEF want, kill
  <2> QED
    BY <1>1, <1>2 DEF Transactions, Steps, WaitSteps
<1> QED
  BY <1>3, <1>4, <1>5

LEMMA RecheckedType ==
  ASSUME NEW t \in Transactions, NEW next \in Transactions
  PROVE  Rechecked(t, next) \in Transactions
BY ConcludeType DEF Rechecked, Outcomes

\* UndoStart reads the record as the failing write left it.
LEMMA UndoStartStep ==
  ASSUME NEW t, NEW resave
  PROVE  UndoStart(t, resave) \in {"grant", "filter", "save", "full", "daily"}
BY DEF UndoStart

LEMMA AbortedType ==
  ASSUME NEW t \in Transactions, NEW s, NEW fault
  PROVE  Aborted(t, s, fault) \in Transactions
<1> DEFINE resave == Resaves(t, s)
           start == UndoStart(t, resave)
<1>1. start \in Steps
  BY UndoStartStep DEF Steps, WriteSteps, AccountSteps
<1>2. resave \in BOOLEAN
  BY DEF Resaves
<1>3. Conclude(t, "failed") \in Transactions
  BY ConcludeType DEF Outcomes
<1>4. Aborted(t, s, fault) =
        IF Undoes(t, s, fault)
        THEN [t EXCEPT !.undo = TRUE, !.status = "failed", !.resave = resave, !.pc = start]
        ELSE Conclude(t, "failed")
  BY DEF Aborted
<1>5. [t EXCEPT !.undo = TRUE, !.status = "failed", !.resave = resave, !.pc = start] \in Transactions
  <2> HIDE DEF resave, start
  <2> QED
    BY <1>1, <1>2 DEF Transactions, Outcomes
<1> QED
  BY <1>3, <1>4, <1>5

LEMMA UndoFaultType ==
  ASSUME NEW t \in Transactions, NEW s
  PROVE  UndoFault(t, s) \in Transactions
BY DEF UndoFault, Concluding, Transactions, Steps, WriteSteps, Outcomes, PartOf, Parts

LEMMA EffectType ==
  ASSUME TypeOK, NEW s, Effect(s)
  PROVE  account' \in Accounts /\ prefs' \in Preferences /\ switch' \in BOOLEAN
<1>1. account' \in Accounts
  BY WrittenType, GoalType DEF Effect, TypeOK
<1>2. prefs' \in Preferences
  BY DEF Effect, TypeOK, Transactions
<1>3. switch' \in BOOLEAN
  BY DEF Effect, TypeOK, Transactions, Preferences
<1> QED
  BY <1>1, <1>2, <1>3

-----------------------------------------------------------------------------
(* Type correctness. *)

LEMMA TypeStart ==
  ASSUME TypeOK, Begin
  PROVE  TypeOK'
<1>1. ASSUME NEW caller \in {"kiosk", "child"}, NEW soft \in BOOLEAN, NEW addition \in Additions,
             RequestAccess(caller, soft, addition)
      PROVE  TypeOK'
  <2>1. Open("approve") \in Transactions
    BY OpenType DEF AllOperations
  <2>2. txn' \in Transactions
    BY <1>1, <2>1, TimeAssumption DEF RequestAccess, Transactions, Steps, WaitSteps
  <2> QED
    BY <1>1, <2>2 DEF RequestAccess, Start, Keep, TypeOK
<1>2. ASSUME NEW enabled \in BOOLEAN, NEW daily \in DailyLimits, SetParentControl(enabled, daily)
      PROVE  TypeOK'
  <2> DEFINE op == IF enabled THEN "enable" ELSE "disable"
             toggled == enabled # prefs.enabled
             want == [account EXCEPT !.limit = IF enabled THEN 2 ELSE 0,
                                     !.daily = IF enabled THEN daily ELSE 0,
                                     !.grant = IF toggled THEN 0 ELSE @,
                                     !.filter = BlockedTargets(prefs.apps, FALSE)]
             wantPrefs == [prefs EXCEPT !.enabled = enabled, !.daily = daily]
             pc == IF toggled THEN "switch" ELSE IF enabled THEN "daily" ELSE PrepareStart(0)
  <2>1. Open(op) \in Transactions
    BY OpenType DEF AllOperations
  <2>2. want \in Accounts
    <3> DEFINE limit == IF enabled THEN 2 ELSE 0
               limitDaily == IF enabled THEN daily ELSE 0
               grant == IF toggled THEN 0 ELSE account.grant
               filter == BlockedTargets(prefs.apps, FALSE)
    <3>1. limit \in 0..2 /\ limitDaily \in DailyLimits
      BY TimeAssumption
    <3>2. account \in Accounts /\ grant \in Nat
      BY DEF TypeOK, Accounts
    <3>3. filter \in SUBSET Apps
      BY DEF BlockedTargets
    <3>4. want = [account EXCEPT !.limit = limit, !.daily = limitDaily, !.grant = grant,
                                 !.filter = filter]
      BY <3>2 DEF Accounts
    <3> QED
      <4> HIDE DEF limit, limitDaily, grant, filter, want
      <4> QED
        BY <3>1, <3>2, <3>3, <3>4 DEF Accounts
  <2>3. wantPrefs \in Preferences
    BY DEF TypeOK, Preferences
  <2>4. pc \in Steps
    BY DEF PrepareStart, Steps, WriteSteps, AccountSteps
  <2>5. txn' = [Open(op) EXCEPT !.want = want, !.wantPrefs = wantPrefs, !.pc = pc]
    BY <1>2 DEF SetParentControl
  <2>6. txn' \in Transactions
    <3> HIDE DEF op, want, wantPrefs, pc
    <3> QED
      BY <2>1, <2>2, <2>3, <2>4, <2>5 DEF Transactions
  <2> QED
    BY <1>2, <2>6 DEF SetParentControl, Start, Keep, TypeOK
<1>3. ASSUME NEW apps \in Policies, NEW daily \in DailyLimits, SetPreferences(apps, daily)
      PROVE  TypeOK'
  <2>1. Open("setPreferences") \in Transactions
    BY OpenType DEF AllOperations
  <2>2. BlockedTargets(apps, FALSE) \in SUBSET Apps /\ NewlyBlocked(prefs.apps, apps) \in SUBSET Apps
    BY DEF BlockedTargets, NewlyBlocked
  <2>3. [prefs EXCEPT !.apps = apps, !.daily = daily] \in Preferences
    BY InstanceAssumption DEF TypeOK, Preferences
  <2>4. txn' \in Transactions
    BY <1>3, <2>1, <2>2, <2>3
       DEF SetPreferences, Transactions, Accounts, Steps, WriteSteps
  <2> QED
    BY <1>3, <2>4 DEF SetPreferences, Start, Keep, TypeOK
<1>4. ASSUME RevokeOneTimeGrant
      PROVE  TypeOK'
  <2>1. Open("revoke") \in Transactions /\ BlockedTargets(prefs.apps, FALSE) \in SUBSET Apps
    BY OpenType DEF AllOperations, BlockedTargets
  <2>2. txn' \in Transactions
    BY <1>4, <2>1 DEF RevokeOneTimeGrant, Transactions, Accounts, Steps, WriteSteps, AccountSteps
  <2> QED
    BY <1>4, <2>2 DEF RevokeOneTimeGrant, Start, Keep, TypeOK
<1>5. ASSUME PrepareOwnSession
      PROVE  TypeOK'
  <2>1. Open("prepare") \in Transactions /\ BlockedTargets(prefs.apps, FALSE) \in SUBSET Apps
    BY OpenType DEF AllOperations, BlockedTargets
  <2>2. txn' \in Transactions
    BY <1>5, <2>1 DEF PrepareOwnSession, Transactions, Accounts, Steps, WriteSteps, AccountSteps
  <2> QED
    BY <1>5, <2>2 DEF PrepareOwnSession, Start, Keep, TypeOK
<1> QED
  BY <1>1, <1>2, <1>3, <1>4, <1>5 DEF Begin

LEMMA ExtendedType ==
  ASSUME TypeOK, NEW left \in Nat, NEW grant \in Nat, NEW addition \in Nat
  PROVE  Extended(left, grant, addition) \in Nat
BY TimeAssumption DEF TypeOK, Extended

LEMMA DailyOperandType ==
  ASSUME TypeOK, NEW t \in Transactions
  PROVE  DailyOperand(t) \subseteq Nat
<1>1. prefs.daily \in Nat
  BY TimeAssumption DEF TypeOK, Preferences
<1>2. DailyLeft(prefs.daily) \in Nat
  BY <1>1, TimeAssumption DEF DailyLeft
<1> QED
  BY <1>2 DEF DailyOperand

\* A step of the lock holder moves txn and, in one write, the records it names.
LEMMA TypeHolder ==
  ASSUME TypeOK, HolderStep \/ \E outcome \in Decisions : AuthorizationReturns(outcome)
  PROVE  TypeOK'
<1> USE DEF TypeOK
<1>1. ASSUME NEW outcome \in Decisions, AuthorizationReturns(outcome)
      PROVE  TypeOK'
  <2>1. outcome # "approved" => Conclude(txn, outcome) \in Transactions
    BY ConcludeType DEF Outcomes, Decisions
  <2>2. Approved(txn, Midnight) \in Transactions
    BY ApprovedType, TimeAssumption
  <2>3. [txn EXCEPT !.pc = "calculate"] \in Transactions
    BY DEF Transactions, Steps, WaitSteps
  <2>4. txn' \in Transactions
    BY <1>1, <2>1, <2>2, <2>3, RecheckedType DEF AuthorizationReturns
  <2> QED
    BY <1>1, <2>4 DEF AuthorizationReturns, Keep
<1>2. ASSUME CalculateGrant
      PROVE  TypeOK'
  <2>1. Conclude(txn, "failed") \in Transactions
    BY ConcludeType DEF Outcomes
  <2>2. ASSUME NEW left \in DailyOperand(txn)
        PROVE  Rechecked(txn, Approved(txn, Extended(left, account.grant, txn.addition))) \in Transactions
    <3>1. Extended(left, account.grant, txn.addition) \in Nat
      BY ExtendedType, DailyOperandType DEF Accounts, Transactions
    <3> QED
      BY <3>1, ApprovedType, RecheckedType
  <2>3. txn' \in Transactions
    BY <1>2, <2>1, <2>2 DEF CalculateGrant
  <2> QED
    BY <1>2, <2>3 DEF CalculateGrant, Keep
<1>3. ASSUME AdmitEffect
      PROVE  TypeOK'
  <2> DEFINE start == IF InitializesTime(txn) THEN PrepareStart(txn.want.limit) ELSE "filter"
  <2>1. start \in Steps
    BY DEF PrepareStart, Steps, WriteSteps, AccountSteps
  <2>2. [txn EXCEPT !.pc = start] \in Transactions
    <3> HIDE DEF start
    <3> QED
      BY <2>1 DEF Transactions
  <2>3. \A status \in {"failed", "cancelled"} : Conclude(txn, status) \in Transactions
    BY ConcludeType DEF Outcomes
  <2>4. txn' \in Transactions
    BY <1>3, <2>2, <2>3, RecheckedType DEF AdmitEffect
  <2> QED
    BY <1>3, <2>4 DEF AdmitEffect, Keep
<1>4. ASSUME NEW s \in WriteSteps, Write(s)
      PROVE  TypeOK'
  <2>1. txn' \in Transactions
    BY <1>4, AdvanceType, AfterType DEF Write
  <2>2. account' \in Accounts /\ prefs' \in Preferences /\ switch' \in BOOLEAN
    BY <1>4, EffectType DEF Write
  <2> QED
    BY <1>4, <2>1, <2>2 DEF Write
<1>5. ASSUME NEW s \in WriteSteps, NEW fault, WriteFails(s, fault)
      PROVE  TypeOK'
  <2>1. txn' \in Transactions
    BY <1>5, AbortedType, UndoFaultType DEF WriteFails
  <2>2. account' \in Accounts /\ prefs' \in Preferences /\ switch' \in BOOLEAN
    <3>1. CASE NoEffect
      BY <3>1 DEF NoEffect
    <3>2. CASE Effect(s)
      BY <3>2, EffectType
    <3> QED
      BY <1>5, <3>1, <3>2 DEF WriteFails
  <2> QED
    BY <1>5, <2>1, <2>2 DEF WriteFails
<1>6. ASSUME TerminateApps
      PROVE  TypeOK'
  <2> DEFINE closed == \/ txn.op \in {"setPreferences", "prepare"}
                       \/ running \cap txn.kill # {}
  <2>1. [txn EXCEPT !.closed = closed] \in Transactions
    BY DEF Transactions
  <2>2. After(txn, "kill") \in Steps
    BY AfterType
  <2>3. txn' \in Transactions
    BY <1>6, <2>1, <2>2, AdvanceType DEF TerminateApps
  <2> QED
    BY <1>6, <2>3 DEF TerminateApps
<1>7. ASSUME NEW closed \in SUBSET txn.kill, TerminationFails(closed)
      PROVE  TypeOK'
  <2>1. [txn EXCEPT !.closed = TRUE] \in Transactions
    BY DEF Transactions
  <2>2. txn' \in Transactions
    BY <1>7, <2>1, AbortedType DEF TerminationFails
  <2> QED
    BY <1>7, <2>2 DEF TerminationFails, NoEffect
<1>8. ASSUME ReleaseLock
      PROVE  TypeOK'
  BY <1>8, NoTransactionType DEF ReleaseLock
<1> QED
  BY <1>1, <1>2, <1>3, <1>4, <1>5, <1>6, <1>7, <1>8 DEF HolderStep

LEMMA TypeEnvironment ==
  ASSUME TypeOK, Environment
  PROVE  TypeOK'
<1> USE DEF TypeOK
<1>1. CASE Tick
  BY <1>1, TimeAssumption DEF Tick
<1>2. ASSUME NEW stale \in BOOLEAN, SelectionChanges(stale)
      PROVE  TypeOK'
  <2>1. txn' \in Transactions
    BY <1>2 DEF SelectionChanges, Transactions
  <2> QED
    BY <1>2, <2>1 DEF SelectionChanges, Keep
<1>3. CASE CallerLeaves
  <2>1. txn' \in Transactions
    BY <1>3 DEF CallerLeaves, Transactions
  <2> QED
    BY <1>3, <2>1 DEF CallerLeaves, Keep
<1>4. ASSUME NEW a \in Apps, LaunchApp(a) \/ QuitApp(a)
      PROVE  TypeOK'
  BY <1>4 DEF LaunchApp, QuitApp
<1>5. CASE RecoverChildExtension
  BY <1>5 DEF RecoverChildExtension
<1>6. CASE Crash
  BY <1>6, NoTransactionType DEF Crash
<1> QED
  BY <1>1, <1>2, <1>3, <1>4, <1>5, <1>6 DEF Environment

LEMMA TypeInit == Init => TypeOK
<1>1. NoAccount \in Accounts /\ NoPrefs \in Preferences
  BY TimeAssumption DEF NoAccount, NoPrefs, Accounts, Preferences, AppStates
<1>2. 0 \in 0..MaxTime
  BY TimeAssumption
<1> QED
  BY NoTransactionType, <1>1, <1>2 DEF Init, TypeOK

LEMMA TypeNext == TypeOK /\ [Next]_vars => TypeOK'
<1>1. CASE UNCHANGED vars
  BY <1>1 DEF vars, TypeOK
<1>2. ASSUME TypeOK, Next
      PROVE  TypeOK'
  BY <1>2, TypeStart, TypeHolder, TypeEnvironment DEF Next
<1> QED
  BY <1>1, <1>2

\* Every reachable state is well typed: an approved grant is a natural number
\* whatever the operands, and what an undo restores is a record of that kind.
THEOREM TypeCorrect == Spec => []TypeOK
BY TypeInit, TypeNext, PTL DEF Spec

-----------------------------------------------------------------------------
(* The record a write leaves, field by field. *)

LEMMA GoalFields ==
  ASSUME NEW t \in Transactions
  PROVE  /\ Goal(t).limit = IF t.undo THEN t.old.limit ELSE t.want.limit
         /\ Goal(t).schedule = IF t.undo THEN t.old.schedule ELSE t.want.schedule
         /\ Goal(t).grant = IF t.undo THEN t.old.grant ELSE t.want.grant
BY DEF Goal, Transactions, Accounts

LEMMA WrittenFields ==
  ASSUME NEW a \in Accounts, NEW g \in Accounts, NEW s
  PROVE  /\ Written(a, s, g).limit = IF s = "scheduleOnly" THEN 1
                                     ELSE IF s = "limit" THEN g.limit ELSE a.limit
         /\ Written(a, s, g).schedule = IF s = "full" THEN "full"
                                        ELSE IF s = "schedule" THEN g.schedule ELSE a.schedule
         /\ Written(a, s, g).grant = IF s = "grant" THEN g.grant ELSE a.grant
BY DEF Written, Accounts

\* The goal is a record Malcontent accepts, as the two it is taken from are.
LEMMA GoalSound ==
  ASSUME TransactionInv, ~Idle
  PROVE  Sound(Goal(txn))
BY GoalFields DEF TransactionInv, TypeOK, PlanInv, Sound

\* The heart of the argument: the write that is due leaves the record sound.
LEMMA WriteSound ==
  ASSUME TransactionInv, NEW s \in WriteSteps, txn.pc = s
  PROVE  Sound(Written(account, s, Goal(txn)))
<1> DEFINE g == Goal(txn)
           a == Written(account, s, g)
<1>1. account \in Accounts /\ g \in Accounts /\ txn \in Transactions
  BY GoalType DEF TransactionInv, TypeOK
<1>2. ~Idle
  BY DEF Idle, WriteSteps, AccountSteps
<1>3. Sound(account) /\ Sound(g) /\ PositionInv
  BY <1>2, GoalSound DEF TransactionInv
<1>4. /\ a.limit = IF s = "scheduleOnly" THEN 1 ELSE IF s = "limit" THEN g.limit ELSE account.limit
      /\ a.schedule = IF s = "full" THEN "full"
                      ELSE IF s = "schedule" THEN g.schedule ELSE account.schedule
      /\ a.grant = IF s = "grant" THEN g.grant ELSE account.grant
  BY <1>1, WrittenFields
<1>5. /\ s = "grant" => account.limit # 0 \/ ~(now < g.grant)
      /\ s = "scheduleOnly" => account.schedule = "full"
      /\ s = "limit" => /\ g.limit = 0 => ~(now < account.grant)
                        /\ g.limit = 1 => account.schedule = "full"
      /\ s = "schedule" => account.limit = g.limit
  BY <1>3 DEF PositionInv, BeforeFinish
<1> HIDE DEF g, a
<1>6. now < a.grant => a.limit # 0
  BY <1>3, <1>4, <1>5 DEF Sound
<1>7. a.limit = 1 => a.schedule = "full"
  BY <1>3, <1>4, <1>5 DEF Sound
<1> QED
  BY <1>6, <1>7 DEF Sound, a, g

-----------------------------------------------------------------------------
(* TransactionInv is inductive: one lemma per kind of step. *)

SamePlan(t, u) == u.op = t.op /\ u.undo = t.undo /\ u.old = t.old /\ u.want = t.want

LEMMA AdvanceFields ==
  ASSUME NEW t \in Transactions, NEW next
  PROVE  SamePlan(t, Advance(t, next)) /\ Advance(t, next).pc = next
BY DEF SamePlan, Advance, Transactions

\* Aborting turns towards the old record, or gives up with nothing left to write.
LEMMA AbortedFields ==
  ASSUME NEW t \in Transactions, NEW s, NEW fault
  PROVE  LET u == Aborted(t, s, fault) IN
         /\ u.op = t.op /\ u.old = t.old /\ u.want = t.want
         /\ \/ u.undo /\ u.pc = UndoStart(t, Resaves(t, s))
            \/ u.undo = t.undo /\ u.pc = "done"
BY DEF Aborted, Conclude, Transactions

LEMMA AbortKeeps ==
  ASSUME TransactionInv, ~Idle, TypeOK', now' = now, Sound(account)',
         NEW t \in Transactions, SamePlan(txn, t), NEW s, NEW fault,
         txn' = Aborted(t, s, fault),
         txn.op = "revoke" => account'.limit = account.limit /\ account'.schedule = account.schedule
  PROVE  TransactionInv'
<1>1. /\ txn'.op = txn.op /\ txn'.old = txn.old /\ txn'.want = txn.want
      /\ \/ txn'.undo /\ txn'.pc = UndoStart(t, Resaves(t, s))
         \/ txn'.undo = txn.undo /\ txn'.pc = "done"
  BY AbortedFields DEF SamePlan
<1>2. PlanInv
  BY DEF TransactionInv
<1>3. Sound(txn.old)' /\ Sound(txn.want)'
  BY <1>1, <1>2 DEF PlanInv, Sound
<1>4. CASE txn'.pc = "done"
  <2>1. PlanInv'
    BY <1>1, <1>2, <1>3, <1>4 DEF PlanInv, Idle, WaitSteps
  <2>2. PositionInv'
    BY <1>4 DEF PositionInv, BeforeFinish
  <2> QED
    BY <2>1, <2>2 DEF TransactionInv
<1>5. CASE txn'.undo /\ txn'.pc = UndoStart(t, Resaves(t, s))
  <2>1. txn'.pc \in {"grant", "filter", "save", "full", "daily"}
    BY <1>5, UndoStartStep
  <2>2. txn'.op = "revoke" => txn'.pc = "grant"
    BY <1>1, <1>5 DEF UndoStart, SamePlan
  <2>3. PlanInv'
    BY <1>1, <1>2, <1>3, <1>5, <2>1, <2>2 DEF PlanInv, Idle, WaitSteps
  <2>4. /\ Goal(txn)'.limit = txn.old.limit
        /\ Goal(txn)'.grant = txn.old.grant
    BY <1>1, <1>5, GoalFields DEF TypeOK
  <2>5. txn'.pc = "daily" => account'.limit = 0 /\ txn.old.limit = 0
    BY <1>5 DEF UndoStart, SamePlan
  <2>6. txn'.pc = "grant" => account'.limit = txn.old.limit
    <3>1. txn'.pc = "grant" => txn.op = "revoke"
      BY <1>5 DEF UndoStart, SamePlan
    <3> QED
      BY <3>1, <1>2 DEF PlanInv
  <2>7. BeforeFinish(txn)' => account'.limit # 0 \/ ~(now' < Goal(txn)'.grant)
    BY <1>1, <1>3, <1>5, <2>1, <2>4, <2>5, <2>6 DEF BeforeFinish, Sound
  <2>8. BeforeFinish(txn)' => (Goal(txn)'.limit = 1 => account'.schedule = "full")
    BY <1>5, <2>1, <2>4, <2>5, <2>6 DEF BeforeFinish, Sound
  <2>9. PositionInv'
    BY <1>5, <2>1, <2>7, <2>8 DEF PositionInv
  <2> QED
    BY <2>3, <2>9 DEF TransactionInv
<1> QED
  BY <1>1, <1>4, <1>5

LEMMA WriteKeeps ==
  ASSUME TransactionInv, TypeOK', NEW s \in WriteSteps, Write(s)
  PROVE  TransactionInv'
<1> DEFINE g == Goal(txn)
           next == After(txn, s)
<1>1. /\ account \in Accounts /\ g \in Accounts /\ txn \in Transactions /\ txn' \in Transactions
      /\ PlanInv /\ PositionInv /\ ~Idle /\ txn.pc = s /\ now' = now /\ now \in Nat
  BY GoalType DEF TransactionInv, TypeOK, Write, Idle, WriteSteps, AccountSteps
<1>2. SamePlan(txn, txn') /\ txn'.pc = next
  BY <1>1, AdvanceFields DEF Write
<1>3. /\ account'.limit = IF s = "scheduleOnly" THEN 1 ELSE IF s = "limit" THEN g.limit ELSE account.limit
      /\ account'.schedule = IF s = "full" THEN "full"
                            ELSE IF s = "schedule" THEN g.schedule ELSE account.schedule
      /\ account'.grant = IF s = "grant" THEN g.grant ELSE account.grant
  BY <1>1, WrittenFields DEF Write, Effect
<1>4. Sound(account)'
  BY <1>1, WriteSound DEF Write, Effect, Sound
<1>5. Sound(g) /\ Sound(txn.old)' /\ Sound(txn.want)'
  BY <1>1, <1>2, GoalSound DEF PlanInv, Sound, SamePlan
<1>6. /\ g.limit = IF txn.undo THEN txn.old.limit ELSE txn.want.limit
      /\ g.grant = IF txn.undo THEN txn.old.grant ELSE txn.want.grant
      /\ Goal(txn)'.limit = g.limit /\ Goal(txn)'.grant = g.grant
  BY <1>1, <1>2, GoalFields DEF SamePlan
<1>7. /\ txn.op = "revoke" => s \in {"filter", "grant"}
      /\ txn.op = "revoke" => next \in {"filter", "kill", "grant", "done"}
  BY <1>1 DEF PlanInv, After, AfterGrant, AfterFilter, AfterKill, WriteSteps, AccountSteps
<1>8. next \notin WaitSteps \cup {"idle"} /\ (next = "kill" => ~txn.undo)
  BY DEF WaitSteps, After, AfterDaily, AfterGrant, AfterLimit, AfterSchedule, AfterFilter, AfterKill,
         AfterSave, AfterSwitch, AfterFinish, Concluding, PrepareStart
<1>9. next = "switch" => txn.undo
  BY <1>1 DEF After, AfterDaily, AfterGrant, AfterLimit, AfterSchedule, AfterFilter, AfterKill,
              AfterSave, AfterSwitch, AfterFinish, Concluding, PrepareStart, WriteSteps, AccountSteps
<1>10. PlanInv'
  <2>1. txn.op = "approve" /\ ~txn.undo => txn.want.limit # 0
    BY <1>1 DEF PlanInv, WriteSteps, AccountSteps
  <2>2. txn.op = "revoke" => account'.limit = account.limit /\ account'.schedule = account.schedule
    BY <1>3, <1>7
  <2> HIDE DEF next, g
  <2> QED
    BY <1>1, <1>2, <1>5, <1>7, <1>8, <1>9, <2>1, <2>2 DEF PlanInv, SamePlan, WaitSteps
<1>11. BeforeFinish(txn)' => account'.limit # 0 \/ ~(now' < g.grant)
  <2>1. CASE BeforeFinish(txn)
    <3>1. account.limit # 0 \/ ~(now < g.grant)
      BY <1>1, <2>1 DEF PositionInv
    <3>2. s \notin {"limit"}
      BY <1>1, <2>1 DEF BeforeFinish
    <3> HIDE DEF g
    <3> QED
      BY <1>1, <1>3, <3>1, <3>2
  <2>2. CASE s = "scheduleOnly"
    BY <1>3, <2>2
  <2>3. CASE s = "switch"
    <3>1. txn.undo => next = "done"
      BY <2>3 DEF After, AfterSwitch
    <3>2. ~txn.undo => g.grant = 0
      BY <1>1, <1>6, <2>3 DEF PlanInv
    <3> QED
      BY <1>1, <1>2, <3>1, <3>2 DEF BeforeFinish
  <2>4. CASE ~BeforeFinish(txn) /\ s \notin {"scheduleOnly", "switch"}
    <3>1. ~BeforeFinish(txn)'
      BY <1>1, <1>2, <1>7, <2>4
         DEF BeforeFinish, SamePlan, After, AfterDaily, AfterGrant, AfterLimit, AfterSchedule,
             AfterFilter, AfterKill, AfterSave, AfterFinish, Concluding, WriteSteps, AccountSteps
    <3> QED
      BY <3>1
  <2> QED
    BY <2>1, <2>2, <2>3, <2>4
<1>12. BeforeFinish(txn)' /\ g.limit = 1 => account'.schedule = "full"
  <2>1. CASE BeforeFinish(txn)
    BY <1>1, <1>3, <2>1 DEF PositionInv, BeforeFinish
  <2>2. CASE s = "scheduleOnly"
    BY <1>3, <1>4, <2>2 DEF Sound
  <2>3. CASE s = "switch"
    <3>1. txn.undo => next = "done"
      BY <2>3 DEF After, AfterSwitch
    <3>2. ~txn.undo /\ txn.op = "enable" => g.limit = 2
      BY <1>1, <1>6 DEF PlanInv
    <3>3. ~txn.undo /\ txn.op # "enable" /\ next = "daily" => g.limit = 0
      BY <1>6, <2>3 DEF After, AfterSwitch, PrepareStart
    <3>4. ~txn.undo => next \in {"daily", "full"}
      BY <2>3 DEF After, AfterSwitch, PrepareStart
    <3> QED
      BY <1>2, <3>1, <3>2, <3>3, <3>4 DEF BeforeFinish
  <2>4. CASE ~BeforeFinish(txn) /\ s \notin {"scheduleOnly", "switch"}
    <3>1. ~BeforeFinish(txn)'
      BY <1>1, <1>2, <1>7, <2>4
         DEF BeforeFinish, SamePlan, After, AfterDaily, AfterGrant, AfterLimit, AfterSchedule,
             AfterFilter, AfterKill, AfterSave, AfterFinish, Concluding, WriteSteps, AccountSteps
    <3> QED
      BY <3>1
  <2> QED
    BY <2>1, <2>2, <2>3, <2>4
<1>13. next = "scheduleOnly" => account'.schedule = "full"
  <2>1. next = "scheduleOnly" => s = "full"
    BY DEF After, AfterDaily, AfterGrant, AfterLimit, AfterSchedule, AfterFilter, AfterKill,
           AfterSave, AfterSwitch, AfterFinish, Concluding, PrepareStart
  <2> QED
    BY <1>3, <2>1
<1>14. next = "limit" => /\ g.limit = 0 => ~(now' < account'.grant)
                         /\ g.limit = 1 => account'.schedule = "full"
  <2>1. next = "limit" => s = "grant" \/ (s = "daily" /\ txn.op = "enable" /\ ~txn.undo)
    BY DEF After, AfterDaily, AfterGrant, AfterLimit, AfterSchedule, AfterFilter, AfterKill,
           AfterSave, AfterSwitch, AfterFinish, Concluding, PrepareStart
  <2>2. CASE s = "grant"
    BY <1>1, <1>3, <1>5, <2>2 DEF PositionInv, BeforeFinish, Sound
  <2>3. CASE txn.op = "enable" /\ ~txn.undo
    BY <1>1, <1>6, <2>3 DEF PlanInv
  <2> QED
    BY <2>1, <2>2, <2>3
<1>15. next = "schedule" => account'.limit = g.limit
  <2>1. next = "schedule" => s = "limit"
    BY DEF After, AfterDaily, AfterGrant, AfterLimit, AfterSchedule, AfterFilter, AfterKill,
           AfterSave, AfterSwitch, AfterFinish, Concluding, PrepareStart
  <2> QED
    BY <1>3, <2>1
<1>16. PositionInv'
  BY <1>2, <1>6, <1>11, <1>12, <1>13, <1>14, <1>15 DEF PositionInv
<1> QED
  BY <1>4, <1>10, <1>16 DEF TransactionInv

LEMMA UndoFaultFields ==
  ASSUME NEW t \in Transactions, NEW s
  PROVE  LET u == UndoFault(t, s) IN
         /\ SamePlan(t, u)
         /\ u.pc \in {"done", "save", "switch"}
         /\ t.op = "revoke" => u.pc = "done"
BY DEF UndoFault, Concluding, SamePlan, Transactions

\* A failing write leaves a sound record too, whether or not it took effect.
LEMMA WriteFailsKeeps ==
  ASSUME TransactionInv, TypeOK', NEW s \in WriteSteps, NEW fault, WriteFails(s, fault)
  PROVE  TransactionInv'
<1>1. /\ account \in Accounts /\ Goal(txn) \in Accounts /\ txn \in Transactions
      /\ PlanInv /\ ~Idle /\ txn.pc = s /\ now' = now /\ Sound(account)
  BY GoalType DEF TransactionInv, TypeOK, WriteFails, Idle, WriteSteps, AccountSteps
<1>2. account' = account \/ account' = Written(account, s, Goal(txn))
  BY DEF WriteFails, NoEffect, Effect
<1>3. Sound(account)'
  BY <1>1, <1>2, WriteSound DEF Sound
<1>4. txn.op = "revoke" => account'.limit = account.limit /\ account'.schedule = account.schedule
  <2>1. txn.op = "revoke" => s \in {"filter", "grant"}
    BY <1>1 DEF PlanInv, WriteSteps, AccountSteps
  <2> QED
    BY <1>1, <1>2, <2>1, WrittenFields
<1>5. CASE ~txn.undo
  <2>1. txn' = Aborted(txn, s, fault) /\ SamePlan(txn, txn)
    BY <1>5 DEF WriteFails, SamePlan
  <2> QED
    BY <1>1, <1>3, <1>4, <2>1, AbortKeeps
<1>6. CASE txn.undo
  <2>1. /\ SamePlan(txn, txn') /\ txn'.pc \in {"done", "save", "switch"}
        /\ txn.op = "revoke" => txn'.pc = "done"
    BY <1>1, <1>6, UndoFaultFields DEF WriteFails
  <2>2. Sound(txn.old)' /\ Sound(txn.want)'
    BY <1>1, <2>1 DEF PlanInv, Sound, SamePlan
  <2>3. PlanInv'
    BY <1>1, <1>4, <1>6, <2>1, <2>2 DEF PlanInv, SamePlan, Idle, WaitSteps
  <2>4. PositionInv'
    BY <2>1 DEF PositionInv, BeforeFinish
  <2> QED
    BY <1>3, <2>3, <2>4 DEF TransactionInv
<1> QED
  BY <1>5, <1>6

LEMMA TerminationKeeps ==
  ASSUME TransactionInv, TypeOK',
         TerminateApps \/ \E closed \in SUBSET txn.kill : TerminationFails(closed)
  PROVE  TransactionInv'
<1>1. /\ txn \in Transactions /\ txn.pc = "kill" /\ ~Idle /\ now' = now /\ account' = account
      /\ Sound(account) /\ PlanInv /\ PositionInv
  BY DEF TransactionInv, TypeOK, TerminateApps, TerminationFails, NoEffect, Idle
<1>2. Sound(account)'
  BY <1>1 DEF Sound
<1>3. CASE \E closed \in SUBSET txn.kill : TerminationFails(closed)
  <2> DEFINE t == [txn EXCEPT !.closed = TRUE]
  <2>1. t \in Transactions /\ SamePlan(txn, t)
    BY <1>1 DEF Transactions, SamePlan
  <2>2. txn' = Aborted(t, "kill", "early")
    BY <1>3 DEF TerminationFails
  <2> QED
    BY <1>1, <1>2, <2>1, <2>2, AbortKeeps
<1>4. CASE TerminateApps
  <2> DEFINE closed == \/ txn.op \in {"setPreferences", "prepare"}
                       \/ running \cap txn.kill # {}
             t == [txn EXCEPT !.closed = closed]
             next == After(txn, "kill")
  <2>1. t \in Transactions /\ SamePlan(txn, t)
    BY <1>1 DEF Transactions, SamePlan
  <2>2. SamePlan(txn, txn') /\ txn'.pc = next
    <3>1. txn' = Advance(t, next)
      BY <1>4 DEF TerminateApps
    <3> HIDE DEF t, next
    <3> QED
      BY <2>1, <3>1, AdvanceFields DEF SamePlan
  <2>3. /\ next \in {"grant", "done"}
        /\ next = "grant" => txn.op \in {"approve", "revoke"}
    BY DEF After, AfterKill
  <2>4. ~txn.undo
    BY <1>1 DEF PlanInv
  <2>5. next = "grant" => BeforeFinish(txn)
    BY <1>1, <2>3, <2>4 DEF BeforeFinish
  <2>6. Sound(txn.old)' /\ Sound(txn.want)'
    BY <1>1, <2>2 DEF PlanInv, Sound, SamePlan
  <2> HIDE DEF next
  <2>7. PlanInv'
    BY <1>1, <2>2, <2>3, <2>4, <2>6 DEF PlanInv, SamePlan, Idle, WaitSteps
  <2>8. Goal(txn)'.limit = Goal(txn).limit /\ Goal(txn)'.grant = Goal(txn).grant
    BY <1>1, <2>2, GoalFields DEF SamePlan, TypeOK
  <2>9. PositionInv'
    BY <1>1, <2>2, <2>3, <2>5, <2>8 DEF PositionInv, BeforeFinish
  <2> QED
    BY <1>2, <2>7, <2>9 DEF TransactionInv
<1> QED
  BY <1>3, <1>4

\* Waiting steps leave the record alone; what they decide is the plan.
LEMMA WaitKeeps ==
  ASSUME TransactionInv, TypeOK', txn.pc \in WaitSteps, Keep,
         txn'.op = "approve", ~txn'.undo, txn'.old = txn.old,
         txn'.pc \in WaitSteps \cup {"done"}, Sound(txn'.want),
         txn'.pc = "admit" => txn'.want.limit # 0 /\ txn'.want.schedule = txn.old.schedule
  PROVE  TransactionInv'
<1>1. now' = now /\ account' = account /\ account = txn.old /\ Sound(account) /\ Sound(txn.old)
  BY DEF TransactionInv, PlanInv, Keep, Idle, WaitSteps
<1>2. PlanInv'
  BY <1>1 DEF PlanInv, Sound, WaitSteps
<1>3. PositionInv'
  BY DEF PositionInv, BeforeFinish, WaitSteps
<1> QED
  BY <1>1, <1>2, <1>3 DEF TransactionInv, Sound

LEMMA ConcludeFields ==
  ASSUME NEW t \in Transactions, NEW status
  PROVE  SamePlan(t, Conclude(t, status)) /\ Conclude(t, status).pc = "done"
BY DEF SamePlan, Conclude, Transactions

\* The calculated plan: limits on, the schedule of before, and a grant that fits.
LEMMA ApprovedFields ==
  ASSUME TransactionInv, txn.pc \in WaitSteps, NEW grant \in Nat
  PROVE  LET u == Approved(txn, grant) IN
         /\ u.op = txn.op /\ u.undo = txn.undo /\ u.old = txn.old
         /\ u.pc \in {"admit", "done"} /\ Sound(u.want)
         /\ u.pc = "admit" => u.want.limit # 0 /\ u.want.schedule = txn.old.schedule
<1> DEFINE u == Approved(txn, grant)
<1>1. txn \in Transactions /\ Sound(txn.old) /\ Sound(txn.want) /\ txn.old.limit \in 0..2
  BY DEF TransactionInv, TypeOK, PlanInv, Idle, WaitSteps, Transactions, Accounts
<1>2. CASE now < grant /\ grant <= now + MaxDuration
  <2>1. /\ u.op = txn.op /\ u.undo = txn.undo /\ u.old = txn.old /\ u.pc = "admit"
        /\ u.want.limit = ApprovedLimit(txn) /\ u.want.schedule = txn.old.schedule
    BY <1>1, <1>2 DEF Approved, Transactions
  <2>2. ApprovedLimit(txn) # 0 /\ (ApprovedLimit(txn) = 1 => txn.old.limit = 1)
    BY <1>1 DEF ApprovedLimit
  <2> QED
    BY <1>1, <2>1, <2>2 DEF Sound
<1>3. CASE ~(now < grant /\ grant <= now + MaxDuration)
  <2>1. u = Conclude(txn, "failed")
    BY <1>3 DEF Approved
  <2>2. SamePlan(txn, u) /\ u.pc = "done"
    BY <1>1, <2>1, ConcludeFields
  <2> QED
    BY <1>1, <2>2 DEF SamePlan
<1> QED
  BY <1>2, <1>3

LEMMA DecisionKeeps ==
  ASSUME TransactionInv, TypeOK',
         CalculateGrant \/ \E outcome \in Decisions : AuthorizationReturns(outcome)
  PROVE  TransactionInv'
<1>1. /\ txn \in Transactions /\ txn.pc \in WaitSteps /\ Keep /\ TypeOK
      /\ txn.op = "approve" /\ ~txn.undo /\ Sound(txn.want)
  BY DEF TransactionInv, TypeOK, PlanInv, Idle, WaitSteps, CalculateGrant, AuthorizationReturns
<1>2. ASSUME NEW status, txn' = Conclude(txn, status)
      PROVE  TransactionInv'
  <2>1. SamePlan(txn, txn') /\ txn'.pc = "done"
    BY <1>1, <1>2, ConcludeFields
  <2> QED
    BY <1>1, <2>1, WaitKeeps DEF SamePlan
<1>3. ASSUME NEW grant \in Nat, txn' = Approved(txn, grant)
      PROVE  TransactionInv'
  <2>1. /\ txn'.op = txn.op /\ txn'.undo = txn.undo /\ txn'.old = txn.old
        /\ txn'.pc \in {"admit", "done"} /\ Sound(txn'.want)
        /\ txn'.pc = "admit" => txn'.want.limit # 0 /\ txn'.want.schedule = txn.old.schedule
    BY <1>1, <1>3, ApprovedFields
  <2> QED
    BY <1>1, <2>1, WaitKeeps DEF WaitSteps
<1>4. CASE txn' = [txn EXCEPT !.pc = "calculate"]
  <2>1. SamePlan(txn, txn') /\ txn'.pc = "calculate"
    BY <1>1, <1>4 DEF SamePlan, Transactions
  <2> QED
    BY <1>1, <2>1, WaitKeeps DEF SamePlan, WaitSteps
<1>5. CASE CalculateGrant
  <2>1. ASSUME NEW left \in DailyOperand(txn)
        PROVE  Extended(left, account.grant, txn.addition) \in Nat
    BY <1>1, ExtendedType, DailyOperandType DEF TypeOK, Accounts, Transactions
  <2>2. \/ \E status : txn' = Conclude(txn, status)
        \/ \E grant \in Nat : txn' = Approved(txn, grant)
    BY <1>5, <2>1 DEF CalculateGrant, Rechecked
  <2> QED
    BY <2>2, <1>2, <1>3
<1>6. ASSUME NEW outcome \in Decisions, AuthorizationReturns(outcome)
      PROVE  TransactionInv'
  <2>1. \/ \E status : txn' = Conclude(txn, status)
        \/ txn' = Approved(txn, Midnight)
        \/ txn' = [txn EXCEPT !.pc = "calculate"]
    BY <1>6 DEF AuthorizationReturns, Rechecked
  <2> QED
    BY <2>1, <1>2, <1>3, <1>4, TimeAssumption
<1> QED
  BY <1>5, <1>6

LEMMA AdmitKeeps ==
  ASSUME TransactionInv, TypeOK', AdmitEffect
  PROVE  TransactionInv'
<1>1. /\ txn \in Transactions /\ txn' \in Transactions /\ txn.pc = "admit" /\ Keep
      /\ txn.op = "approve" /\ ~txn.undo /\ account = txn.old
      /\ Sound(txn.old) /\ Sound(txn.want)
      /\ txn.want.limit # 0 /\ txn.want.schedule = txn.old.schedule
  BY DEF TransactionInv, TypeOK, PlanInv, Idle, WaitSteps, AdmitEffect
<1> DEFINE start == IF InitializesTime(txn) THEN PrepareStart(txn.want.limit) ELSE "filter"
<1>2. start = "full" \/ (start = "filter" /\ account.limit # 0)
  BY <1>1 DEF PrepareStart, InitializesTime
<1>3. CASE txn' = [txn EXCEPT !.pc = start]
  <2>1. SamePlan(txn, txn') /\ txn'.pc = start
    <3> HIDE DEF start
    <3> QED
      BY <1>1, <1>3 DEF SamePlan, Transactions
  <2> HIDE DEF start
  <2>2. now' = now /\ account' = account /\ Sound(account)'
    BY <1>1 DEF Keep, Sound
  <2>3. PlanInv'
    BY <1>1, <1>2, <2>1, <2>2 DEF PlanInv, SamePlan, Idle, WaitSteps, Sound
  <2>4. Goal(txn)'.limit = txn.want.limit /\ Goal(txn)'.grant = txn.want.grant
    BY <1>1, <2>1, GoalFields DEF SamePlan
  <2>5. PositionInv'
    BY <1>1, <1>2, <2>1, <2>2, <2>4 DEF PositionInv, BeforeFinish, Sound
  <2> QED
    BY <2>2, <2>3, <2>5 DEF TransactionInv
<1>4. ASSUME NEW status, txn' = Conclude(txn, status)
      PROVE  TransactionInv'
  <2>1. SamePlan(txn, txn') /\ txn'.pc = "done"
    BY <1>1, <1>4, ConcludeFields
  <2> QED
    BY <1>1, <2>1, WaitKeeps DEF SamePlan, WaitSteps
<1> QED
  BY <1>3, <1>4 DEF AdmitEffect, Rechecked

\* A transaction that is about to start: the record is still what it would undo to.
LEMMA StartKeeps ==
  ASSUME TransactionInv, TypeOK', Keep,
         txn'.old = account, ~txn'.undo, Sound(txn'.want),
         txn'.pc \in {"authorize", "switch", "daily", "full", "save", "filter"},
         txn'.op = "enable" => txn'.want.limit = 2,
         txn'.pc = "authorize" <=> txn'.op = "approve",
         txn'.pc = "switch" => txn'.want.grant = 0,
         txn'.op = "revoke" => /\ txn'.pc = "filter" /\ txn'.want.grant = 0
                               /\ txn'.want.limit = account.limit,
         txn'.pc = "daily" => /\ account.limit # 0 \/ ~(now < txn'.want.grant)
                              /\ txn'.want.limit # 1
  PROVE  TransactionInv'
<1>1. now' = now /\ account' = account /\ Sound(account) /\ Sound(account)'
  BY DEF TransactionInv, Keep, Sound
<1>2. PlanInv'
  BY <1>1 DEF PlanInv, Sound, WaitSteps, Idle
<1>3. Goal(txn)'.limit = txn'.want.limit /\ Goal(txn)'.grant = txn'.want.grant
  BY GoalFields DEF TypeOK
<1>4. txn'.op = "revoke" => ~(now < txn'.want.grant)
  BY <1>1 DEF TransactionInv, TypeOK
<1>5. PositionInv'
  BY <1>1, <1>3, <1>4 DEF PositionInv, BeforeFinish, Sound
<1> QED
  BY <1>1, <1>2, <1>5 DEF TransactionInv

LEMMA BeginKeeps ==
  ASSUME TransactionInv, TypeOK', Begin
  PROVE  TransactionInv'
<1>1. /\ TypeOK /\ Sound(account) /\ account \in Accounts /\ prefs \in Preferences /\ now \in Nat
  BY DEF TransactionInv, TypeOK
<1>2. ASSUME NEW caller \in {"kiosk", "child"}, NEW soft \in BOOLEAN, NEW addition \in Additions,
             RequestAccess(caller, soft, addition)
      PROVE  TransactionInv'
  <2>1. /\ Keep /\ txn'.op = "approve" /\ txn'.pc = "authorize" /\ ~txn'.undo
        /\ txn'.old = account /\ txn'.want = account
    BY <1>2 DEF RequestAccess, Start, Open, NoTransaction
  <2> QED
    BY <1>1, <2>1, StartKeeps
<1>3. ASSUME NEW enabled \in BOOLEAN, NEW daily \in DailyLimits, SetParentControl(enabled, daily)
      PROVE  TransactionInv'
  <2> DEFINE toggled == enabled # prefs.enabled
             want == [account EXCEPT !.limit = IF enabled THEN 2 ELSE 0,
                                     !.daily = IF enabled THEN daily ELSE 0,
                                     !.grant = IF toggled THEN 0 ELSE @,
                                     !.filter = BlockedTargets(prefs.apps, FALSE)]
             pc == IF toggled THEN "switch" ELSE IF enabled THEN "daily" ELSE PrepareStart(0)
  <2>1. /\ Keep /\ ~txn'.undo /\ txn'.op = IF enabled THEN "enable" ELSE "disable"
        /\ txn'.old = account /\ txn'.want = want /\ txn'.pc = pc
    BY <1>3 DEF SetParentControl, Start, Open, NoTransaction
  <2>2. /\ want.limit = IF enabled THEN 2 ELSE 0
        /\ want.grant = IF toggled THEN 0 ELSE account.grant
    BY <1>1 DEF Accounts
  <2>3. ~enabled /\ ~toggled => ~(now < account.grant)
    BY <1>3 DEF SetParentControl, GrantCurrent
  <2>4. pc \in {"switch", "daily", "full"} /\ (pc = "switch" => toggled)
    BY DEF PrepareStart
  <2> HIDE DEF want, pc, toggled
  <2>5. now < want.grant => want.limit # 0
    BY <1>1, <2>2, <2>3
  <2>6. Sound(want)
    BY <2>2, <2>5 DEF Sound
  <2>7. account.limit # 0 \/ ~(now < want.grant)
    BY <1>1, <2>2 DEF Sound
  <2> QED
    BY <2>1, <2>2, <2>4, <2>6, <2>7, StartKeeps
<1>4. ASSUME NEW apps \in Policies, NEW daily \in DailyLimits, SetPreferences(apps, daily)
      PROVE  TransactionInv'
  <2>1. /\ Keep /\ ~txn'.undo /\ txn'.op = "setPreferences" /\ txn'.pc = "save"
        /\ txn'.old = account
        /\ txn'.want = [account EXCEPT !.filter = BlockedTargets(apps, FALSE)]
    BY <1>4 DEF SetPreferences, Start, Open, NoTransaction
  <2>2. Sound(txn'.want)
    BY <1>1, <2>1 DEF Sound, Accounts
  <2> QED
    BY <2>1, <2>2, StartKeeps
<1>5. ASSUME RevokeOneTimeGrant
      PROVE  TransactionInv'
  <2>1. /\ Keep /\ ~txn'.undo /\ txn'.op = "revoke" /\ txn'.pc = "filter" /\ txn'.old = account
        /\ txn'.want = [account EXCEPT !.filter = BlockedTargets(prefs.apps, FALSE), !.grant = 0]
    BY <1>5 DEF RevokeOneTimeGrant, Start, Open, NoTransaction
  <2>2. txn'.want.grant = 0 /\ txn'.want.limit = account.limit
        /\ txn'.want.schedule = account.schedule
    BY <1>1, <2>1 DEF Accounts
  <2>3. Sound(txn'.want)
    BY <1>1, <2>2 DEF Sound
  <2> QED
    BY <2>1, <2>2, <2>3, StartKeeps
<1>6. ASSUME PrepareOwnSession
      PROVE  TransactionInv'
  <2>1. /\ Keep /\ ~txn'.undo /\ txn'.op = "prepare" /\ txn'.pc = "filter" /\ txn'.old = account
        /\ txn'.want = [account EXCEPT !.filter = BlockedTargets(prefs.apps, FALSE)]
    BY <1>6 DEF PrepareOwnSession, Start, Open, NoTransaction
  <2>2. Sound(txn'.want)
    BY <1>1, <2>1 DEF Sound, Accounts
  <2> QED
    BY <2>1, <2>2, StartKeeps
<1> QED
  BY <1>2, <1>3, <1>4, <1>5, <1>6 DEF Begin

\* The lock is given back, or nothing that the invariant reads moves but the clock.
LEMMA RestKeeps ==
  ASSUME TransactionInv, TypeOK', Environment \/ ReleaseLock \/ UNCHANGED vars
  PROVE  TransactionInv'
<1>1. /\ TypeOK /\ Sound(account) /\ PlanInv /\ PositionInv /\ txn \in Transactions
      /\ now \in Nat
  BY TimeAssumption DEF TransactionInv, TypeOK, Accounts
<1>2. ASSUME txn' = NoTransaction, now' = now, account' = account
      PROVE  TransactionInv'
  <2>1. txn'.pc = "idle"
    BY <1>2 DEF NoTransaction
  <2>2. PlanInv' /\ PositionInv'
    BY <2>1 DEF PlanInv, PositionInv, BeforeFinish, Idle
  <2> QED
    BY <1>1, <1>2, <2>2 DEF TransactionInv, Sound
<1>3. ASSUME SamePlan(txn, txn'), txn'.pc = txn.pc, now' = now, account' = account
      PROVE  TransactionInv'
  <2>1. /\ Goal(txn)'.limit = Goal(txn).limit /\ Goal(txn)'.grant = Goal(txn).grant
    BY <1>1, <1>3, GoalFields DEF SamePlan, TypeOK
  <2>2. PlanInv'
    BY <1>1, <1>3 DEF PlanInv, SamePlan, Sound, Idle
  <2>3. PositionInv'
    BY <1>1, <1>3, <2>1 DEF PositionInv, BeforeFinish, SamePlan
  <2> QED
    BY <1>1, <1>3, <2>2, <2>3 DEF TransactionInv, Sound
<1>4. CASE Tick
  <2>1. now' = now + 1 /\ account' = account /\ txn' = txn
    BY <1>4 DEF Tick
  <2>2. \A grant \in Nat : now' < grant => now < grant
    BY <1>1, <2>1
  <2>3. account.grant \in Nat /\ txn.old.grant \in Nat /\ txn.want.grant \in Nat /\ Goal(txn).grant \in Nat
    BY <1>1, GoalType DEF TypeOK, Transactions, Accounts
  <2>4. Sound(account)' /\ (~Idle => Sound(txn.old)' /\ Sound(txn.want)')
    BY <1>1, <2>1, <2>2, <2>3 DEF Sound, PlanInv
  <2>5. PlanInv'
    BY <1>1, <2>1, <2>4 DEF PlanInv, Idle
  <2>6. Goal(txn)' = Goal(txn)
    BY <2>1 DEF Goal, RollbackFilter
  <2>7. PositionInv'
    BY <1>1, <2>1, <2>2, <2>3, <2>6 DEF PositionInv, BeforeFinish
  <2> QED
    BY <2>4, <2>5, <2>7 DEF TransactionInv
<1>5. ASSUME NEW stale \in BOOLEAN, SelectionChanges(stale)
      PROVE  TransactionInv'
  <2>1. SamePlan(txn, txn') /\ txn'.pc = txn.pc
    BY <1>1, <1>5 DEF SelectionChanges, SamePlan, Transactions
  <2> QED
    BY <1>3, <1>5, <2>1 DEF SelectionChanges, Keep
<1>6. CASE CallerLeaves
  <2>1. SamePlan(txn, txn') /\ txn'.pc = txn.pc
    BY <1>1, <1>6 DEF CallerLeaves, SamePlan, Transactions
  <2> QED
    BY <1>3, <1>6, <2>1 DEF CallerLeaves, Keep
<1>7. CASE UNCHANGED <<now, account, txn>>
  BY <1>3, <1>7 DEF SamePlan
<1>8. CASE Crash \/ ReleaseLock
  BY <1>2, <1>8 DEF Crash, ReleaseLock
<1>9. Environment =>
        \/ Tick \/ CallerLeaves \/ Crash \/ UNCHANGED <<now, account, txn>>
        \/ \E stale \in BOOLEAN : SelectionChanges(stale)
  BY DEF Environment, LaunchApp, QuitApp, RecoverChildExtension
<1> QED
  BY <1>4, <1>5, <1>6, <1>7, <1>8, <1>9 DEF vars

\* The record is sound and every position of a transaction can rely on what the
\* writes still to come need: the strengthening that the two theorems below share.
THEOREM TransactionInvariant == Spec => []TransactionInv
<1>1. Init => TransactionInv
  <2> SUFFICES ASSUME Init PROVE TransactionInv
    OBVIOUS
  <2>1. TypeOK
    BY TypeInit
  <2>2. Sound(account) /\ PlanInv /\ PositionInv
    BY DEF Init, NoAccount, NoTransaction, Sound, PlanInv, PositionInv, BeforeFinish, Idle
  <2> QED
    BY <2>1, <2>2 DEF TransactionInv
<1>2. TransactionInv /\ [Next]_vars => TransactionInv'
  <2> SUFFICES ASSUME TransactionInv, [Next]_vars PROVE TransactionInv'
    OBVIOUS
  <2>1. TypeOK'
    BY TypeNext DEF TransactionInv
  <2>2. CASE Next
    BY <2>1, <2>2, BeginKeeps, DecisionKeeps, AdmitKeeps, WriteKeeps, WriteFailsKeeps,
       TerminationKeeps, RestKeeps DEF Next, HolderStep
  <2>3. CASE UNCHANGED vars
    BY <2>1, <2>3, RestKeeps
  <2> QED
    BY <2>2, <2>3
<1> QED
  BY <1>1, <1>2, PTL DEF Spec

\* No order of writes, undo, failed undo or crash, at any clock reading and for any
\* limits, leaves LimitType 0 under a current grant.
THEOREM NativeSafety == Spec => []NativeSafe
<1>1. TransactionInv => NativeSafe
  BY DEF TransactionInv, Sound, NativeSafe, GrantCurrent
<1> QED
  BY <1>1, TransactionInvariant, PTL

\* Whatever fails or crashes, the schedule-only limit type is in force only over
\* the full-day schedule.
THEOREM BridgeSafety == Spec => []BridgeIsFullDay
<1>1. TransactionInv => BridgeIsFullDay
  BY DEF TransactionInv, Sound, BridgeIsFullDay
<1> QED
  BY <1>1, TransactionInvariant, PTL

-----------------------------------------------------------------------------
(* The plans of the operations, and the way they go about them. *)

\* What the parent's policy blocks, with no grant that lets soft blocks rest.
Strict(p) == BlockedTargets(p.apps, FALSE)

\* Operations that write the whole time state, and undo it over the bridge.
TimeOperations == {"approve", "enable", "disable"}

\* Operations that save no preferences.
Unsaving == {"approve", "revoke", "prepare"}

\* An approval after admission, up to its failure: only it writes the grant after the filter.
Granting(t) == t.op = "approve" /\ ~t.undo

\* The aim of an approval that fits: a longer grant, over limits that are on.
Extends(t) ==
  /\ t.want.limit = ApprovedLimit(t) /\ t.want.daily = t.oldPrefs.daily
  /\ t.want.schedule = t.old.schedule
  /\ t.want.filter = BlockedTargets(t.oldPrefs.apps, t.soft)
  /\ t.want.grant # 0
  /\ t.addition # 0 => t.want.grant >= t.old.grant + t.addition
  /\ t.kill = IF t.soft THEN {} ELSE Strict(t.oldPrefs)

\* The aim of turning control on or off: the grant goes with the toggle.
Toggles(t) ==
  /\ t.wantPrefs.enabled = (t.op = "enable") /\ t.wantPrefs.apps = t.oldPrefs.apps
  /\ t.want.limit = IF t.op = "enable" THEN 2 ELSE 0
  /\ t.want.schedule = t.old.schedule
  /\ t.want.grant = IF Toggled(t) THEN 0 ELSE t.old.grant
  /\ t.want.filter = Strict(t.oldPrefs)

\* The other aims: nothing but the filter, and for a revocation the grant.
Tightens(t) ==
  /\ t.want.limit = t.old.limit /\ t.want.daily = t.old.daily
  /\ t.want.schedule = t.old.schedule
  /\ t.want.grant = IF t.op = "revoke" THEN 0 ELSE t.old.grant
  /\ t.want.filter = Strict(t.wantPrefs)
  /\ t.wantPrefs.enabled = t.oldPrefs.enabled

\* What an operation started from and aims at fit together.
Aim(t) ==
  /\ t.op \in AllOperations
  /\ t.op \in Unsaving => t.wantPrefs = t.oldPrefs
  /\ t.op = "approve" /\ (t.pc \notin {"authorize", "calculate", "done"} \/ t.undo
                          \/ t.status = "applied") => Extends(t)
  /\ t.op \in {"enable", "disable"} => Toggles(t)
  /\ t.op \in {"setPreferences", "revoke", "prepare"} => Tightens(t)

\* Where an operation can be, with which status, and when applications may be closed.
Route(t) ==
  /\ t.undo => t.status \in {"failed", "rollbackFailed"}
  /\ ~t.undo /\ t.pc # "done" => t.status = "running"
  /\ t.pc = "done" => t.status # "running" /\ (~t.undo => t.status # "rollbackFailed")
  /\ t.undo /\ t.status = "rollbackFailed" =>
       t.pc = "done" \/ (t.op \in {"enable", "disable"} /\ t.pc \in {"save", "switch"})
  /\ t.op = "approve" => t.pc \notin {"save", "switch"}
  /\ t.op \in {"enable", "disable"} =>
       t.pc \in {"full", "scheduleOnly", "daily", "grant", "limit", "schedule", "filter",
                 "save", "switch", "done"}
  /\ t.op = "setPreferences" => t.pc \in {"save", "filter", "kill", "done"}
  /\ t.op = "revoke" => t.pc \in {"filter", "kill", "grant", "done"}
  /\ t.op = "prepare" => t.pc \in {"filter", "kill", "done"}
  /\ t.pc \in WaitSteps \cup {"kill", "activate"} => ~t.undo
  /\ t.pc = "switch" => Toggled(t)
  /\ t.op = "enable" /\ ~t.undo => t.pc \notin {"full", "scheduleOnly", "schedule"}
  /\ t.op = "enable" /\ ~t.undo /\ t.pc = "grant" => Toggled(t)
  /\ Granting(t) /\ t.pc \in {"full", "scheduleOnly", "daily", "limit", "schedule"} => InitializesTime(t)
  /\ t.pc = "kill" => t.kill # {}
  /\ t.closed =>
       \/ t.op \in {"approve", "revoke"} /\ (t.undo \/ t.pc \in {"grant", "limit", "schedule", "activate"}
                                             \/ t.status = "applied")
       \/ t.op \in {"setPreferences", "prepare"} /\ ~t.undo /\ t.pc = "done"
  /\ t.closed /\ t.op = "approve" => ~t.soft

\* Aim and way of the lock holder; what it does not save is as it found it.
PlanOK ==
  ~Idle => Aim(txn) /\ Route(txn) /\ (txn.op \in Unsaving => prefs = txn.oldPrefs)

-----------------------------------------------------------------------------
(* Whether a field of the record is still to be written. *)

\* The toggle's extension comes before the record.
Unstarted(t) == t.pc = "switch" /\ ~t.undo

DailyDue(t) ==
  t.op \in TimeOperations /\ (Unstarted(t) \/ t.pc \in {"full", "scheduleOnly", "daily"})

GrantDue(t) ==
  \/ t.op = "revoke" /\ (t.pc = "grant" \/ (~t.undo /\ t.pc \in {"filter", "kill"}))
  \/ Granting(t) /\ t.pc \in {"full", "scheduleOnly", "daily", "filter", "kill", "grant"}
  \/ /\ t.op \in TimeOperations /\ ~Granting(t) /\ (t.op = "enable" /\ ~t.undo => Toggled(t))
     /\ Unstarted(t) \/ t.pc \in {"full", "scheduleOnly", "daily", "grant"}

LimitDue(t) ==
  \/ /\ Granting(t) /\ InitializesTime(t)
     /\ t.pc \in {"full", "scheduleOnly", "daily", "filter", "kill", "grant", "limit"}
  \/ /\ t.op \in TimeOperations /\ ~Granting(t)
     /\ (Unstarted(t) \/ t.pc \in {"full", "scheduleOnly", "daily", "grant", "limit"})

ScheduleDue(t) ==
  \/ /\ Granting(t) /\ InitializesTime(t)
     /\ t.pc \in {"full", "scheduleOnly", "daily", "filter", "kill", "grant", "limit", "schedule"}
  \/ /\ t.op \in TimeOperations /\ ~Granting(t) /\ (t.op = "enable" => t.undo)
     /\ (Unstarted(t) \/ t.pc \in {"full", "scheduleOnly", "daily", "grant", "limit", "schedule"})

FilterDue(t) ==
  \/ Granting(t) /\ t.pc \in {"full", "scheduleOnly", "daily", "filter"}
  \/ t.op \in TimeOperations /\ ~Granting(t) /\ (Unstarted(t) \/ t.pc \in AccountSteps)
  \/ t.op \in {"setPreferences", "prepare"} /\ t.pc \in {"save", "filter"}
  \/ t.op = "revoke" /\ (t.pc = "filter" \/ (t.undo /\ t.pc = "grant"))

\* A transaction that is writing, or has written all it was to write.
Writing(t) ==
  /\ t.pc \in WriteSteps \cup {"kill"} \/ t.undo \/ t.status = "applied"
  /\ t.status # "rollbackFailed"

\* What is no longer due shows the goal.
Match(r, t) ==
  LET g == Goal(t) IN
  /\ DailyDue(t) \/ r.daily = g.daily
  /\ GrantDue(t) \/ r.grant = g.grant
  /\ LimitDue(t) \/ r.limit = g.limit
  /\ ScheduleDue(t) \/ r.schedule = g.schedule
  /\ FilterDue(t) \/ r.filter = g.filter

\* Before its first write a transaction finds the record it may undo to.
Fresh(t) ==
  /\ ~t.undo
  /\ \/ t.pc \in WaitSteps \cup {"switch", "full"}
     \/ t.op = "enable" /\ t.pc = "daily"
     \/ t.op = "prepare" /\ t.pc = "filter"

\* The late failures that nothing undoes, by what they leave behind.
SaveStays   == <<"setPreferences", "save">> \in LateFaults
FilterStays == <<"prepare", "filter">> \in LateFaults
SwitchStays == <<"enable", "switch">> \in LateFaults \/ <<"disable", "switch">> \in LateFaults

\* What a failure that is not undone leaves of the record.
Given(r, t) ==
  t.pc = "done" /\ ~t.undo /\ t.status # "applied" =>
    IF t.closed THEN r = t.want
    ELSE /\ t.op # "setPreferences"
         /\ r = t.old \/ (t.op = "prepare" /\ FilterStays /\ r = t.want)

\* What the record shows of its transaction.
RecordInv ==
  ~Idle =>
    /\ Writing(txn) => Match(account, txn)
    /\ Fresh(txn) => account = txn.old
    /\ Given(account, txn)

\* Which preferences are stored.
Stored(t) ==
  /\ t.op \in Unsaving => prefs = t.oldPrefs
  /\ t.op = "setPreferences" =>
       IF t.undo THEN t.pc = "save" \/ t.status = "rollbackFailed" \/ SaveStays \/ prefs = t.oldPrefs
       ELSE prefs = IF t.pc = "save" THEN t.oldPrefs ELSE t.wantPrefs
  /\ t.op \in {"enable", "disable"} =>
       IF t.undo THEN (t.resave /\ t.pc \in AccountSteps \cup {"save"})
                      \/ t.status = "rollbackFailed" \/ prefs = t.oldPrefs
       ELSE prefs = IF t.status = "applied" THEN t.wantPrefs ELSE t.oldPrefs

StoreInv == ~Idle => Stored(txn)

\* The record a transaction takes its bearing from while limits are daily.
Under(x, r) == x.limit = 2 /\ x.daily = r.daily /\ x.grant <= r.grant

\* Over the bridge: limits are not daily until they are written last.
Bridged(t) ==
  \/ Granting(t) /\ InitializesTime(t) /\ t.pc \in {"daily", "filter", "kill", "grant", "limit"}
  \/ /\ t.op \in TimeOperations /\ ~Granting(t) /\ (t.op = "enable" => t.undo)
     /\ t.pc \in {"daily", "grant", "limit"}

\* Daily limits in force are the old ones or the new, with a grant no shorter.
LockoutInv ==
  ~Idle =>
    /\ account.limit = 2 => Under(txn.old, account) \/ Under(txn.want, account)
    /\ Bridged(txn) => account.limit # 2

\* From the end of its cleanup, nothing the grant of an approval blocks is running.
CleanInv ==
  Granting(txn) /\ ~txn.soft
    /\ (txn.pc \in {"grant", "limit", "schedule", "activate"} \/ txn.status = "applied") =>
    running \cap txn.want.filter = {}

\* The record and the preferences as a finished transaction leaves them.
Good(r, p) ==
  /\ r.schedule = "own" /\ r.limit # 1
  /\ p.enabled => r.limit = 2
  /\ \/ r.filter = Strict(p)
     \/ r.filter = BlockedTargets(p.apps, TRUE) /\ r.grant # 0

\* The extension has been set for the new toggle, and not yet set back.
Switched(t) ==
  Toggled(t) /\ IF t.undo THEN t.pc # "done"
                ELSE t.pc # "switch" /\ (t.pc = "done" => t.status = "applied")

\* What is good between transactions is what a transaction would undo to.
SettledInv ==
  ~tainted /\ ~SaveStays =>
    /\ Idle => Good(account, prefs)
    /\ ~Idle => Good(txn.old, txn.oldPrefs)

\* An activation is due only for a child whose control is on.
ActivateInv == txn.pc = "activate" => txn.oldPrefs.enabled

\* The extension's state is the toggle's, as far as its writes have come.
SwitchShows(t, value) == value <=> IF Switched(t) THEN t.wantPrefs.enabled ELSE t.oldPrefs.enabled

\* The extension shows the toggle, as far as a transaction has come.
SwitchInv ==
  ~tainted /\ ~SwitchStays /\ ~SaveStays =>
    /\ Idle => (switch <=> prefs.enabled)
    /\ ~Idle /\ txn.status # "rollbackFailed" => SwitchShows(txn, switch)
-----------------------------------------------------------------------------
(* What the steps of the lock holder leave of its plan. *)

\* What is fixed once a transaction has its plan.
SameAims(t, u) ==
  /\ u.op = t.op /\ u.old = t.old /\ u.want = t.want
  /\ u.oldPrefs = t.oldPrefs /\ u.wantPrefs = t.wantPrefs /\ u.kill = t.kill
  /\ u.caller = t.caller /\ u.soft = t.soft /\ u.addition = t.addition

\* A step that neither turns the transaction round nor closes applications.
Carries(t, u) ==
  SameAims(t, u) /\ u.undo = t.undo /\ u.closed = t.closed /\ u.resave = t.resave

LEMMA AdvanceDoes ==
  ASSUME NEW t \in Transactions, NEW next, NEW u, u = Advance(t, next)
  PROVE  /\ Carries(t, u)
         /\ u.pc = next
         /\ u.status = IF next = "done" /\ t.status = "running" THEN "applied" ELSE t.status
BY DEF Advance, Carries, SameAims, Transactions

LEMMA ConcludeDoes ==
  ASSUME NEW t \in Transactions, NEW status, NEW u, u = Conclude(t, status)
  PROVE  /\ Carries(t, u)
         /\ u.pc = "done" /\ u.status = status
BY DEF Conclude, Carries, SameAims, Transactions

LEMMA UndoFaultDoes ==
  ASSUME NEW t \in Transactions, NEW s, NEW u, u = UndoFault(t, s)
  PROVE  /\ Carries(t, u)
         /\ u.status = "rollbackFailed"
         /\ u.pc = IF t.op \notin {"enable", "disable"} \/ s = "switch" THEN "done"
                   ELSE IF t.resave /\ s # "save" THEN "save" ELSE Concluding(t)
BY DEF UndoFault, Carries, SameAims, Transactions

\* A failure turns the transaction round, or ends it.
TurnsRound(t, s, fault, u) ==
  /\ SameAims(t, u) /\ u.closed = t.closed /\ u.status = "failed"
  /\ Undoes(t, s, fault) =>
       u.undo /\ u.resave = Resaves(t, s) /\ u.pc = UndoStart(t, Resaves(t, s))
  /\ ~Undoes(t, s, fault) => u.undo = t.undo /\ u.resave = t.resave /\ u.pc = "done"

LEMMA AbortedDoes ==
  ASSUME NEW t \in Transactions, NEW s, NEW fault, NEW u, u = Aborted(t, s, fault)
  PROVE  TurnsRound(t, s, fault, u)
<1> DEFINE resave == Resaves(t, s)
           start == UndoStart(t, resave)
<1>1. u = IF Undoes(t, s, fault)
          THEN [t EXCEPT !.undo = TRUE, !.status = "failed", !.resave = resave, !.pc = start]
          ELSE Conclude(t, "failed")
  BY DEF Aborted
<1>2. CASE Undoes(t, s, fault)
  <2> HIDE DEF resave, start
  <2>1. u = [t EXCEPT !.undo = TRUE, !.status = "failed", !.resave = resave, !.pc = start]
    BY <1>1, <1>2
  <2>2. /\ SameAims(t, u) /\ u.closed = t.closed /\ u.status = "failed"
        /\ u.undo /\ u.resave = resave /\ u.pc = start
    BY <2>1 DEF SameAims, Transactions
  <2> QED BY <1>2, <2>2 DEF resave, start, TurnsRound
<1>3. CASE ~Undoes(t, s, fault)
  <2>1. u = Conclude(t, "failed")
    BY <1>1, <1>3
  <2> QED BY <1>3, <2>1, ConcludeDoes DEF Carries, TurnsRound
<1> QED BY <1>2, <1>3

\* Operators of a plan depend on nothing else of a transaction.
LEMMA AimsDecide ==
  ASSUME NEW t, NEW u, SameAims(t, u)
  PROVE  /\ Toggled(u) = Toggled(t) /\ InitializesTime(u) = InitializesTime(t)
         /\ ApprovedLimit(u) = ApprovedLimit(t)
         /\ Extends(u) = Extends(t) /\ Toggles(u) = Toggles(t) /\ Tightens(u) = Tightens(t)
<1> USE DEF SameAims
<1>1. Toggled(u) = Toggled(t)
  BY DEF Toggled
<1>2. InitializesTime(u) = InitializesTime(t)
  BY DEF InitializesTime
<1>3. ApprovedLimit(u) = ApprovedLimit(t)
  BY DEF ApprovedLimit
<1>4. Extends(u) = Extends(t)
  BY <1>3 DEF Extends
<1>5. Toggles(u) = Toggles(t)
  BY <1>1 DEF Toggles
<1>6. Tightens(u) = Tightens(t)
  BY DEF Tightens
<1> QED BY <1>1, <1>2, <1>3, <1>4, <1>5, <1>6

LEMMA AimKept ==
  ASSUME NEW t, NEW u, SameAims(t, u), Aim(t),
         u.op = "approve" /\ (u.pc \notin {"authorize", "calculate", "done"} \/ u.undo
                              \/ u.status = "applied") =>
           t.pc \notin {"authorize", "calculate", "done"} \/ t.undo \/ t.status = "applied"
  PROVE  Aim(u)
<1>1. u.op = t.op /\ u.wantPrefs = t.wantPrefs /\ u.oldPrefs = t.oldPrefs
  BY DEF SameAims
<1> QED BY <1>1, AimsDecide DEF Aim

-----------------------------------------------------------------------------
(* An operation keeps to its way. *)

\* The order of an approval's writes, and of the writes that undo it.
LEMMA AfterApprove ==
  ASSUME NEW t \in Transactions, Route(t), t.op = "approve", NEW s, t.pc = s, s \in WriteSteps \cup {"kill"}
  PROVE  LET next == After(t, s)
             end == {"activate", "done"}
         IN IF t.undo
            THEN /\ next \in AccountSteps \cup {"done"}
                 /\ s = "grant" => next = "limit"
                 /\ s = "daily" => next = "grant"
                 /\ s = "limit" => next = "schedule"
                 /\ s = "schedule" => next = "filter"
                 /\ s = "filter" => next = "done"
                 /\ s = "full" => next = "scheduleOnly"
                 /\ s = "scheduleOnly" => next = "daily"
            ELSE /\ s = "full" => next = "scheduleOnly"
                 /\ s = "scheduleOnly" => next = "daily"
                 /\ s = "daily" => next = "filter"
                 /\ s = "filter" => next = IF t.kill = {} THEN "grant" ELSE "kill"
                 /\ s = "kill" => next = "grant"
                 /\ s = "grant" => IF InitializesTime(t) THEN next = "limit" ELSE next \in end
                 /\ s = "limit" => next = "schedule"
                 /\ s = "schedule" => next \in end
                 /\ s = "activate" => next = "done"
BY DEF Route, After, AfterDaily, AfterGrant, AfterLimit, AfterSchedule, AfterFilter, AfterKill,
       AfterFinish, WriteSteps, AccountSteps

LEMMA AfterToggle ==
  ASSUME NEW t \in Transactions, Route(t), t.op \in {"enable", "disable"}, NEW s, t.pc = s,
         s \in WriteSteps \cup {"kill"}
  PROVE  LET next == After(t, s)
             on == t.op = "enable" /\ ~t.undo
         IN /\ s = "full" => next = "scheduleOnly"
            /\ s = "scheduleOnly" => next = "daily"
            /\ s = "daily" => next = IF on /\ ~Toggled(t) THEN "limit" ELSE "grant"
            /\ s = "grant" => next = "limit"
            /\ s = "limit" => next = IF on THEN "filter" ELSE "schedule"
            /\ s = "schedule" => next = "filter"
            /\ s = "filter" => next = IF t.undo /\ ~t.resave
                                      THEN IF Toggled(t) THEN "switch" ELSE "done"
                                      ELSE "save"
            /\ s = "save" => next = IF t.undo /\ Toggled(t) THEN "switch" ELSE "done"
            /\ s = "switch" => IF t.undo THEN next = "done"
                               ELSE IF on THEN next = "daily" ELSE next \in {"full", "daily"}
BY DEF Route, After, AfterDaily, AfterGrant, AfterLimit, AfterSchedule, AfterFilter, AfterKill,
       AfterSave, AfterSwitch, Concluding, PrepareStart, WriteSteps, AccountSteps

LEMMA AfterTighten ==
  ASSUME NEW t \in Transactions, Route(t), t.op \in {"setPreferences", "revoke", "prepare"},
         NEW s, t.pc = s, s \in WriteSteps \cup {"kill"}
  PROVE  LET next == After(t, s)
         IN /\ s = "save" => next = "filter"
            /\ s = "filter" => next = IF t.undo THEN "done"
                                      ELSE IF t.kill # {} THEN "kill"
                                      ELSE IF t.op = "revoke" THEN "grant" ELSE "done"
            /\ s = "kill" => next = IF t.op = "revoke" THEN "grant" ELSE "done"
            /\ s = "grant" => next = IF t.undo THEN "filter" ELSE "done"
            /\ t.op = "revoke" => s \in {"filter", "kill", "grant"}
            /\ t.op = "setPreferences" => s \in {"save", "filter", "kill"}
            /\ t.op = "prepare" => s \in {"filter", "kill"}
BY DEF Route, After, AfterGrant, AfterFilter, AfterKill, AfterSave, WriteSteps, AccountSteps

LEMMA AdvanceApprove ==
  ASSUME NEW t \in Transactions, Route(t), t.op = "approve", NEW s, t.pc = s,
         s \in WriteSteps \cup {"kill"},
         NEW u, SameAims(t, u), u.undo = t.undo, u.pc = After(t, s),
         u.status = IF u.pc = "done" /\ t.status = "running" THEN "applied" ELSE t.status,
         s # "kill" => u.closed = t.closed,
         t.kill # {} => ~t.soft
  PROVE  Route(u)
<1> DEFINE next == After(t, s)
           end == {"activate", "done"}
<1>1. u.op = "approve" /\ u.kill = t.kill /\ u.soft = t.soft /\ InitializesTime(u) = InitializesTime(t)
  BY AimsDecide DEF SameAims
<1>2. t.undo \in BOOLEAN /\ t.status \in Outcomes
     /\ s \notin WaitSteps \cup {"save", "switch", "idle", "done"}
  BY DEF Transactions, Route, WriteSteps, AccountSteps, WaitSteps
<1>3. CASE t.undo
  <2>1. /\ next \in AccountSteps \cup {"done"}
        /\ s = "filter" => next = "done"
    BY <1>3, AfterApprove
  <2>2. next \notin WaitSteps \cup {"kill", "activate", "save", "switch"}
    BY <2>1 DEF AccountSteps, WaitSteps
  <2>3. t.status = "failed"
    BY <1>2, <1>3 DEF Route
  <2>4. t.closed => ~t.soft
    BY DEF Route
  <2>5. s # "kill"
    BY <1>3 DEF Route
  <2> HIDE DEF next
  <2> QED BY <1>1, <1>3, <2>2, <2>3, <2>4, <2>5 DEF Route, Granting, next
<1>4. CASE ~t.undo
  <2>1. /\ s = "full" => next = "scheduleOnly"
        /\ s = "scheduleOnly" => next = "daily"
        /\ s = "daily" => next = "filter"
        /\ s = "filter" => next = IF t.kill = {} THEN "grant" ELSE "kill"
        /\ s = "kill" => next = "grant"
        /\ s = "grant" => IF InitializesTime(t) THEN next = "limit" ELSE next \in end
        /\ s = "limit" => next = "schedule"
        /\ s = "schedule" => next \in end
        /\ s = "activate" => next = "done"
    BY <1>4, AfterApprove
  <2>2. s \in {"full", "scheduleOnly", "daily", "filter", "kill", "grant", "limit", "schedule", "activate"}
    BY <1>2 DEF WriteSteps, AccountSteps
  <2>3. t.status = "running"
    BY <1>2, <1>4 DEF Route
  <2> HIDE DEF next
  <2>4. next \notin WaitSteps \cup {"save", "switch"}
    BY <2>1, <2>2 DEF WaitSteps
  <2>5. s \in {"full", "scheduleOnly", "daily", "limit", "schedule"} => InitializesTime(t)
    BY <1>4 DEF Route, Granting
  <2>6. next \in {"full", "scheduleOnly", "daily", "limit", "schedule"} => InitializesTime(t)
    BY <2>1, <2>2, <2>5
  <2>7. next = "kill" => t.kill # {}
    BY <2>1, <2>2
  <2>8. u.closed /\ s # "kill" => s \in {"grant", "limit", "schedule", "activate"}
    BY <1>2, <1>4, <2>3 DEF Route
  <2>9. u.closed => next \in {"grant", "limit", "schedule", "activate", "done"}
    BY <2>1, <2>8
  <2>10. u.closed => ~t.soft
    BY DEF Route
  <2>11. /\ u.pc = "done" => u.status = "applied"
         /\ u.pc # "done" => u.status = "running"
    BY <2>3
  <2> QED BY <1>1, <1>4, <2>4, <2>6, <2>7, <2>9, <2>10, <2>11 DEF Route, Granting, next
<1> QED BY <1>2, <1>3, <1>4

LEMMA AdvanceToggle ==
  ASSUME NEW t \in Transactions, Route(t), t.op \in {"enable", "disable"}, NEW s, t.pc = s,
         s \in WriteSteps \cup {"kill"},
         NEW u, SameAims(t, u), u.undo = t.undo, u.pc = After(t, s),
         u.status = IF u.pc = "done" /\ t.status = "running" THEN "applied" ELSE t.status,
         s # "kill" => u.closed = t.closed
  PROVE  Route(u)
<1> DEFINE next == After(t, s)
           on == t.op = "enable" /\ ~t.undo
<1>1. u.op = t.op /\ u.kill = t.kill /\ Toggled(u) = Toggled(t)
  BY AimsDecide DEF SameAims
<1>2. /\ t.undo \in BOOLEAN /\ t.status \in Outcomes /\ Toggled(t) \in BOOLEAN
      /\ s \in {"full", "scheduleOnly", "daily", "grant", "limit", "schedule", "filter", "save", "switch"}
  BY DEF Transactions, Route, WriteSteps, AccountSteps, Toggled
<1>3. /\ s = "full" => next = "scheduleOnly"
      /\ s = "scheduleOnly" => next = "daily"
      /\ s = "daily" => next = IF on /\ ~Toggled(t) THEN "limit" ELSE "grant"
      /\ s = "grant" => next = "limit"
      /\ s = "limit" => next = IF on THEN "filter" ELSE "schedule"
      /\ s = "schedule" => next = "filter"
      /\ s = "filter" => next = IF t.undo /\ ~t.resave
                                THEN IF Toggled(t) THEN "switch" ELSE "done"
                                ELSE "save"
      /\ s = "save" => next = IF t.undo /\ Toggled(t) THEN "switch" ELSE "done"
      /\ s = "switch" => IF t.undo THEN next = "done"
                         ELSE IF on THEN next = "daily" ELSE next \in {"full", "daily"}
  BY AfterToggle
<1>4. ~u.closed
  <2>1. s # "kill" /\ ~t.closed
    BY <1>2 DEF Route
  <2> QED BY <2>1
<1> HIDE DEF next
<1>5. next \in {"full", "scheduleOnly", "daily", "grant", "limit", "schedule",
               "filter", "save", "switch", "done"}
  BY <1>2, <1>3
<1>6. next = "switch" => Toggled(t)
  BY <1>2, <1>3
<1>7. on => s \notin {"full", "scheduleOnly", "schedule"} /\ (s = "grant" => Toggled(t))
  BY DEF Route
<1>8. on => next \notin {"full", "scheduleOnly", "schedule"} /\ (next = "grant" => Toggled(t))
  BY <1>2, <1>3, <1>7
<1>9. /\ t.undo => t.status \in {"failed", "rollbackFailed"}
      /\ ~t.undo => t.status = "running"
      /\ t.status = "rollbackFailed" => s \in {"save", "switch"}
  BY <1>2 DEF Route
<1>10. t.undo => u.status = t.status
  BY <1>9
<1>11. ~t.undo => u.status = IF u.pc = "done" THEN "applied" ELSE "running"
  BY <1>9
<1>12. t.status = "rollbackFailed" => next \in {"save", "switch", "done"}
  BY <1>3, <1>9
<1>13. u.pc \notin WaitSteps \cup {"kill", "activate"}
  BY <1>5 DEF WaitSteps, next
<1> QED BY <1>1, <1>2, <1>4, <1>5, <1>6, <1>8, <1>9, <1>10, <1>11, <1>12, <1>13 DEF Route, Granting, next

LEMMA AdvanceTighten ==
  ASSUME NEW t \in Transactions, Route(t), t.op \in {"setPreferences", "revoke", "prepare"},
         NEW s, t.pc = s, s \in WriteSteps \cup {"kill"},
         NEW u, SameAims(t, u), u.undo = t.undo, u.pc = After(t, s),
         u.status = IF u.pc = "done" /\ t.status = "running" THEN "applied" ELSE t.status,
         s # "kill" => u.closed = t.closed
  PROVE  Route(u)
<1> DEFINE next == After(t, s)
<1>1. u.op = t.op /\ u.kill = t.kill /\ Toggled(u) = Toggled(t)
  BY AimsDecide DEF SameAims
<1>2. /\ t.undo \in BOOLEAN /\ t.status \in Outcomes
      /\ s \in {"save", "filter", "kill", "grant"}
  BY DEF Transactions, Route, WriteSteps, AccountSteps
<1>3. /\ s = "save" => next = "filter"
      /\ s = "filter" => next = IF t.undo THEN "done"
                                ELSE IF t.kill # {} THEN "kill"
                                ELSE IF t.op = "revoke" THEN "grant" ELSE "done"
      /\ s = "kill" => next = IF t.op = "revoke" THEN "grant" ELSE "done"
      /\ s = "grant" => next = IF t.undo THEN "filter" ELSE "done"
      /\ t.op = "revoke" => s \in {"filter", "kill", "grant"}
      /\ t.op = "setPreferences" => s \in {"save", "filter", "kill"}
      /\ t.op = "prepare" => s \in {"filter", "kill"}
  BY AfterTighten
<1>4. /\ t.undo => t.status = "failed"
      /\ ~t.undo => t.status = "running"
  BY <1>2 DEF Route
<1> HIDE DEF next
<1>5. next \in {"filter", "kill", "grant", "done"}
  BY <1>2, <1>3
<1>6. /\ next = "kill" => ~t.undo /\ t.kill # {}
      /\ next = "grant" => t.op = "revoke"
  BY <1>2, <1>3
<1>7. u.pc \notin WaitSteps \cup {"activate", "save", "switch"}
  BY <1>5 DEF WaitSteps, next
<1>8. t.closed => t.op = "revoke" /\ (t.undo \/ s = "grant")
  BY <1>2, <1>4 DEF Route
<1>9. u.closed => \/ t.op = "revoke" /\ (t.undo \/ next \in {"grant", "done"})
                  \/ t.op # "revoke" /\ ~t.undo /\ next = "done"
  <2>1. CASE s = "kill"
    <3>1. ~t.undo
      BY <2>1 DEF Route
    <3> QED BY <2>1, <3>1, <1>3
  <2>2. CASE s # "kill"
    BY <2>2, <1>3, <1>8
  <2> QED BY <2>1, <2>2
<1>10. t.undo => u.status = t.status
  BY <1>4
<1>11. ~t.undo => u.status = IF u.pc = "done" THEN "applied" ELSE "running"
  BY <1>4
<1>12. t.status = "rollbackFailed" => ~(t.undo /\ u.pc # "done")
  BY <1>3, <1>4
<1>13. u.pc = next /\ u.undo = t.undo
  BY DEF next
<1>14. u.closed =>
         \/ u.op \in {"approve", "revoke"} /\ (u.undo \/ u.pc \in {"grant", "limit", "schedule", "activate"}
                                               \/ u.status = "applied")
         \/ u.op \in {"setPreferences", "prepare"} /\ ~u.undo /\ u.pc = "done"
  BY <1>1, <1>9, <1>11, <1>13
<1>15. /\ u.undo => u.status = "failed"
       /\ ~u.undo => u.status \in {"running", "applied"} /\ (u.pc = "done" <=> u.status = "applied")
  BY <1>4, <1>10, <1>11, <1>13
<1>16. /\ u.op = "setPreferences" => u.pc \in {"filter", "kill", "done"}
       /\ u.op = "revoke" => u.pc \in {"filter", "kill", "grant", "done"}
       /\ u.op = "prepare" => u.pc \in {"filter", "kill", "done"}
  BY <1>1, <1>5, <1>6, <1>13
<1>17. /\ u.pc = "kill" => ~u.undo /\ u.kill # {}
       /\ u.op \in {"setPreferences", "revoke", "prepare"}
  BY <1>1, <1>6, <1>13
<1> QED BY <1>7, <1>14, <1>15, <1>16, <1>17 DEF Route, Granting

LEMMA UndoStarts ==
  ASSUME NEW t \in Transactions, NEW resave \in BOOLEAN
  PROVE  /\ t.op = "revoke" => UndoStart(t, resave) = "grant"
         /\ t.op = "prepare" => UndoStart(t, resave) = "filter"
         /\ t.op = "setPreferences" => UndoStart(t, resave) = IF resave THEN "save" ELSE "filter"
         /\ t.op \in TimeOperations =>
              UndoStart(t, resave) = IF account'.limit # 0 \/ t.old.limit # 0 THEN "full" ELSE "daily"
BY DEF UndoStart, TimeOperations

\* Failing, an operation turns round, or ends where nothing is to be undone.
LEMMA AbortRoute ==
  ASSUME NEW t \in Transactions, t.op \in AllOperations, Route(t), ~t.undo,
         NEW s, t.pc = s, s \in WriteSteps \cup {"kill"}, NEW fault,
         NEW u, SameAims(t, u), u.status = "failed",
         u.closed = IF s = "kill" THEN TRUE ELSE t.closed,
         Undoes(t, s, fault) => u.undo /\ u.pc = UndoStart(t, Resaves(t, s)),
         ~Undoes(t, s, fault) => ~u.undo /\ u.pc = "done",
         t.op = "approve" /\ t.kill # {} => ~t.soft
  PROVE  Route(u)
<1>1. u.op = t.op /\ u.kill = t.kill /\ u.soft = t.soft
  BY DEF SameAims
<1>2. Resaves(t, s) \in BOOLEAN
  BY DEF Resaves
<1>3. CASE Undoes(t, s, fault)
  <2>1. /\ t.op = "revoke" => u.pc = "grant"
        /\ t.op = "prepare" => u.pc = "filter"
        /\ t.op = "setPreferences" => u.pc \in {"save", "filter"}
        /\ t.op \in TimeOperations => u.pc \in {"full", "daily"}
        /\ u.undo
    BY <1>2, <1>3, UndoStarts
  <2>2. t.closed => \/ t.op \in {"approve", "revoke"}
                    \/ s = "done"
    <3>1. t.op \in {"enable", "disable"} => ~t.closed
      BY DEF Route
    <3> QED BY <3>1 DEF Route, AllOperations
  <2>3. s = "kill" => t.op \in {"approve", "revoke"}
    BY <1>3 DEF Undoes, Route, AllOperations
  <2>4. u.closed => t.op \in {"approve", "revoke"}
    BY <2>2, <2>3 DEF WriteSteps, AccountSteps
  <2>5. u.closed /\ t.op = "approve" => ~t.soft
    BY DEF Route
  <2>6. /\ t.op \in AllOperations => \/ t.op \in TimeOperations /\ u.pc \in {"full", "daily"}
                                     \/ t.op = "revoke" /\ u.pc = "grant"
                                     \/ t.op = "prepare" /\ u.pc = "filter"
                                     \/ t.op = "setPreferences" /\ u.pc \in {"save", "filter"}
    BY <2>1 DEF AllOperations, TimeOperations
  <2> QED BY <1>1, <2>1, <2>4, <2>5, <2>6 DEF Route, Granting, TimeOperations, WaitSteps
<1>4. CASE ~Undoes(t, s, fault)
  <2>1. ~u.undo /\ u.pc = "done"
    BY <1>4
  <2>2. t.op \in {"setPreferences", "prepare", "enable", "disable"}
    BY <1>4 DEF Undoes, AllOperations
  <2>3. t.op \in {"enable", "disable"} => ~t.closed /\ s # "kill"
    BY DEF Route
  <2>4. u.closed => t.op \in {"setPreferences", "prepare"}
    BY <2>2, <2>3
  <2> QED BY <1>1, <2>1, <2>2, <2>4 DEF Route, Granting, WaitSteps
<1> QED BY <1>3, <1>4

\* The undoing of a toggle goes on past its faults; any other stops.
LEMMA UndoFaultRoute ==
  ASSUME NEW t \in Transactions, t.op \in AllOperations, Route(t), t.undo,
         NEW s, t.pc = s, s \in WriteSteps,
         NEW u, u = UndoFault(t, s)
  PROVE  Route(u)
<1>0. Carries(t, u) /\ u.status = "rollbackFailed"
  BY UndoFaultDoes
<1>1. u.pc = IF t.op \notin {"enable", "disable"} \/ s = "switch" THEN "done"
                ELSE IF t.resave /\ s # "save" THEN "save" ELSE Concluding(t)
  BY UndoFaultDoes
<1>2. u.op = t.op /\ u.kill = t.kill /\ u.soft = t.soft /\ Toggled(u) = Toggled(t)
  BY <1>0, AimsDecide DEF Carries, SameAims
<1>3. /\ u.pc = "done" \/ (t.op \in {"enable", "disable"} /\ u.pc \in {"save", "switch"})
      /\ u.pc = "switch" => Toggled(t)
  BY <1>1 DEF Concluding
<1>4. t.closed => t.op \in {"approve", "revoke"} /\ (t.op = "approve" => ~t.soft)
  BY DEF Route
<1>5. u.undo = t.undo /\ u.closed = t.closed
  BY <1>0 DEF Carries
<1> QED BY <1>0, <1>2, <1>3, <1>4, <1>5 DEF Route, Granting, WaitSteps, AllOperations

-----------------------------------------------------------------------------
(* PlanOK is inductive. *)

\* What every step of a transaction that writes starts from.
LEMMA Writer ==
  ASSUME TypeOK, PlanOK, NEW s \in WriteSteps \cup {"kill"}, txn.pc = s
  PROVE  /\ txn \in Transactions /\ ~Idle /\ Aim(txn) /\ Route(txn) /\ txn.op \in AllOperations
         /\ txn.op = "approve" => Extends(txn) /\ (txn.kill # {} => ~txn.soft)
         /\ txn.op \in {"enable", "disable"} => Toggles(txn)
         /\ txn.op \in {"setPreferences", "revoke", "prepare"} => Tightens(txn)
         /\ txn.undo \in BOOLEAN
<1>1. txn \in Transactions /\ ~Idle
  BY DEF TypeOK, Idle, WriteSteps, AccountSteps
<1>2. Aim(txn) /\ Route(txn)
  BY <1>1 DEF PlanOK
<1>3. s \notin {"authorize", "calculate", "done"}
  BY DEF WriteSteps, AccountSteps
<1>4. txn.op = "approve" => Extends(txn)
  BY <1>2, <1>3 DEF Aim
<1> QED BY <1>1, <1>2, <1>4 DEF Aim, Extends, Transactions

LEMMA UnsavingKeeps ==
  ASSUME PlanOK, ~Idle, NEW s, txn.pc = s, s \in WriteSteps \cup {"kill"}, SameAims(txn, txn'),
         s # "save" => prefs' = prefs
  PROVE  txn'.op \in Unsaving => prefs' = txn'.oldPrefs
<1>1. txn.op \in Unsaving => s # "save"
  BY DEF PlanOK, Route, Unsaving
<1> QED BY <1>1 DEF PlanOK, SameAims

\* What a write leaves of the preferences and the extension.
LEMMA WriteStores ==
  ASSUME NEW s, Write(s) \/ \E fault \in Faults(s) : WriteFails(s, fault)
  PROVE  /\ txn.pc = s
         /\ s # "save" => prefs' = prefs
         /\ s \notin {"switch", "activate"} => switch' = switch
BY DEF Write, WriteFails, Effect, NoEffect

\* A write, or a termination, that succeeds.
LEMMA AdvancePlan ==
  ASSUME TypeOK, PlanOK, NEW s \in WriteSteps \cup {"kill"}, txn.pc = s,
         SameAims(txn, txn'), txn'.undo = txn.undo, txn'.pc = After(txn, s),
         txn'.status = IF txn'.pc = "done" /\ txn.status = "running" THEN "applied" ELSE txn.status,
         s # "kill" => txn'.closed = txn.closed,
         s # "save" => prefs' = prefs
  PROVE  PlanOK'
<1>1. /\ txn \in Transactions /\ ~Idle /\ Aim(txn) /\ Route(txn) /\ txn.op \in AllOperations
      /\ txn.op = "approve" => (txn.kill # {} => ~txn.soft)
  BY Writer
<1>2. Aim(txn')
  BY <1>1, AimKept DEF WriteSteps, AccountSteps
<1>3. Route(txn')
  BY <1>1, AdvanceApprove, AdvanceToggle, AdvanceTighten DEF AllOperations
<1>4. txn'.op \in Unsaving => prefs' = txn'.oldPrefs
  BY <1>1, UnsavingKeeps
<1> QED BY <1>2, <1>3, <1>4 DEF PlanOK

LEMMA AbortPlan ==
  ASSUME TypeOK, PlanOK, NEW s \in WriteSteps \cup {"kill"}, txn.pc = s, ~txn.undo,
         NEW t \in Transactions, SameAims(txn, t), ~t.undo, NEW fault,
         t.closed = IF s = "kill" THEN TRUE ELSE txn.closed,
         txn' = Aborted(t, s, fault),
         s # "save" => prefs' = prefs
  PROVE  PlanOK'
<1>1. /\ txn \in Transactions /\ ~Idle /\ Aim(txn) /\ Route(txn) /\ txn.op \in AllOperations
      /\ txn.op = "approve" => (txn.kill # {} => ~txn.soft)
  BY Writer
<1>2. TurnsRound(t, s, fault, txn')
  BY AbortedDoes
<1>3. SameAims(txn, txn') /\ t.op = txn.op /\ t.old = txn.old
  BY <1>2 DEF TurnsRound, SameAims
<1>4. Aim(txn')
  BY <1>1, <1>3, AimKept DEF WriteSteps, AccountSteps
<1>5. /\ Undoes(txn, s, fault) <=> Undoes(t, s, fault)
      /\ UndoStart(txn, Resaves(txn, s)) = UndoStart(t, Resaves(t, s))
  <2>1. Undoes(txn, s, fault) <=> Undoes(t, s, fault)
    BY <1>3 DEF Undoes
  <2>2. Resaves(txn, s) = Resaves(t, s)
    BY <1>3 DEF Resaves
  <2>3. \A resave : UndoStart(txn, resave) = UndoStart(t, resave)
    BY <1>3 DEF UndoStart
  <2> QED BY <2>1, <2>2, <2>3
<1>6. Route(txn')
  BY <1>1, <1>2, <1>3, <1>5, AbortRoute DEF TurnsRound
<1>7. txn'.op \in Unsaving => prefs' = txn'.oldPrefs
  BY <1>1, <1>3, UnsavingKeeps
<1> QED BY <1>4, <1>6, <1>7 DEF PlanOK

LEMMA WritePlan ==
  ASSUME TypeOK, PlanOK, NEW s \in WriteSteps, Write(s)
  PROVE  PlanOK'
<1>1. txn.pc = s /\ txn \in Transactions
  BY DEF Write, TypeOK
<1>2. /\ Carries(txn, txn') /\ txn'.pc = After(txn, s)
      /\ txn'.status = IF After(txn, s) = "done" /\ txn.status = "running" THEN "applied" ELSE txn.status
  BY <1>1, AdvanceDoes DEF Write
<1>3. s # "save" => prefs' = prefs
  BY WriteStores
<1> QED BY <1>1, <1>2, <1>3, AdvancePlan DEF Carries

LEMMA WriteFailsPlan ==
  ASSUME TypeOK, PlanOK, NEW s \in WriteSteps, NEW fault \in Faults(s), WriteFails(s, fault)
  PROVE  PlanOK'
<1>1. /\ txn.pc = s /\ txn \in Transactions /\ ~Idle /\ Aim(txn) /\ Route(txn)
      /\ txn.op \in AllOperations
  BY Writer DEF WriteFails
<1>4. s # "save" => prefs' = prefs
  BY WriteStores
<1>2. CASE txn.undo
  <2>1. txn' = UndoFault(txn, s)
    BY <1>2 DEF WriteFails
  <2>2. Route(txn')
    BY <1>1, <1>2, <2>1, UndoFaultRoute
  <2>3. Carries(txn, txn')
    BY <1>1, <2>1, UndoFaultDoes
  <2>4. Aim(txn')
    BY <1>1, <1>2, <2>3, AimKept DEF Carries
  <2>5. txn'.op \in Unsaving => prefs' = txn'.oldPrefs
    BY <1>1, <1>4, <2>3, UnsavingKeeps DEF Carries
  <2> QED BY <2>2, <2>4, <2>5 DEF PlanOK
<1>3. CASE ~txn.undo
  <2>1. txn' = Aborted(txn, s, fault)
    BY <1>3 DEF WriteFails
  <2>2. SameAims(txn, txn) /\ s # "kill"
    BY DEF SameAims, WriteSteps, AccountSteps
  <2> QED BY <1>1, <1>3, <1>4, <2>1, <2>2, AbortPlan
<1> QED BY <1>2, <1>3

\* What a termination does to its transaction, but for how it ends.
LEMMA TerminateDoes ==
  ASSUME TypeOK, TerminateApps
  PROVE  /\ txn.pc = "kill" /\ SameAims(txn, txn') /\ txn'.undo = txn.undo /\ txn'.resave = txn.resave
         /\ txn'.closed <=> txn.op \in {"setPreferences", "prepare"} \/ running \cap txn.kill # {}
         /\ txn'.pc = After(txn, "kill")
         /\ txn'.status = IF After(txn, "kill") = "done" /\ txn.status = "running"
                          THEN "applied" ELSE txn.status
<1> DEFINE closed == txn.op \in {"setPreferences", "prepare"} \/ running \cap txn.kill # {}
           t == [txn EXCEPT !.closed = closed]
<1>1. txn \in Transactions /\ t \in Transactions
  BY DEF TypeOK, Transactions
<1>2. SameAims(txn, t) /\ t.undo = txn.undo /\ t.resave = txn.resave /\ t.status = txn.status
  BY <1>1 DEF SameAims, Transactions
<1>3. t.closed <=> closed
  BY <1>1 DEF Transactions
<1>4. txn' = Advance(t, After(txn, "kill")) /\ txn.pc = "kill"
  BY DEF TerminateApps
<1> HIDE DEF t, closed
<1>5. /\ Carries(t, txn') /\ txn'.pc = After(txn, "kill")
      /\ txn'.status = IF After(txn, "kill") = "done" /\ t.status = "running"
                       THEN "applied" ELSE t.status
  BY <1>1, <1>4, AdvanceDoes
<1>6. SameAims(txn, txn')
  BY <1>2, <1>5 DEF Carries, SameAims
<1>7. txn'.closed <=> closed
  BY <1>3, <1>5 DEF Carries
<1> QED BY <1>2, <1>4, <1>5, <1>6, <1>7 DEF Carries, closed

LEMMA TerminationPlan ==
  ASSUME TypeOK, PlanOK,
         TerminateApps \/ \E closed \in SUBSET txn.kill : TerminationFails(closed)
  PROVE  PlanOK'
<1>1. CASE TerminateApps
  <2>1. prefs' = prefs
    BY <1>1 DEF TerminateApps
  <2> QED BY <1>1, <2>1, TerminateDoes, AdvancePlan
<1>2. CASE \E closed \in SUBSET txn.kill : TerminationFails(closed)
  <2> DEFINE t == [txn EXCEPT !.closed = TRUE]
  <2>1. /\ txn.pc = "kill" /\ txn' = Aborted(t, "kill", "early") /\ prefs' = prefs
    BY <1>2 DEF TerminationFails, NoEffect
  <2>2. Route(txn)
    BY <2>1, Writer
  <2>3. t \in Transactions /\ SameAims(txn, t) /\ t.closed = TRUE /\ t.undo = txn.undo
    BY DEF TypeOK, Transactions, SameAims
  <2>4. ~txn.undo
    BY <2>1, <2>2 DEF Route
  <2> HIDE DEF t
  <2> QED BY <2>1, <2>3, <2>4, AbortPlan
<1> QED BY <1>1, <1>2

\* What a transaction starts with: the record and the preferences it found, and an aim.
Started ==
  /\ Idle /\ Keep
  /\ txn'.old = account /\ txn'.oldPrefs = prefs
  /\ ~txn'.undo /\ txn'.status = "running" /\ ~txn'.closed
  /\ Aim(txn') /\ Route(txn')
  /\ CASE txn'.op = "approve"        -> txn'.pc = "authorize"
       [] txn'.op = "setPreferences" -> txn'.pc = "save"
       [] txn'.op = "enable"         -> txn'.pc = IF Toggled(txn') THEN "switch" ELSE "daily"
       [] txn'.op = "disable"        -> txn'.pc = IF Toggled(txn') THEN "switch"
                                                  ELSE IF account.limit # 0 THEN "full" ELSE "daily"
       [] OTHER                      -> txn'.pc = "filter"

LEMMA BeginDoes ==
  ASSUME TypeOK, Begin
  PROVE  Started
<1>1. account \in Accounts /\ prefs \in Preferences
  BY DEF TypeOK
<1>2. ASSUME NEW caller \in {"kiosk", "child"}, NEW soft \in BOOLEAN, NEW addition \in Additions,
             RequestAccess(caller, soft, addition)
      PROVE  Started
  <2>1. /\ Idle /\ Keep /\ txn'.op = "approve" /\ txn'.pc = "authorize"
        /\ txn'.old = account /\ txn'.oldPrefs = prefs /\ txn'.wantPrefs = prefs
        /\ ~txn'.undo /\ txn'.status = "running" /\ ~txn'.closed
    BY <1>2 DEF RequestAccess, Start, Open, NoTransaction
  <2> QED BY <2>1 DEF Started, Aim, Unsaving, Route, Granting, AllOperations
<1>3. ASSUME NEW enabled \in BOOLEAN, NEW daily \in DailyLimits, SetParentControl(enabled, daily)
      PROVE  Started
  <2> DEFINE toggled == enabled # prefs.enabled
             op == IF enabled THEN "enable" ELSE "disable"
             want == [account EXCEPT !.limit = IF enabled THEN 2 ELSE 0,
                                     !.daily = IF enabled THEN daily ELSE 0,
                                     !.grant = IF toggled THEN 0 ELSE @,
                                     !.filter = BlockedTargets(prefs.apps, FALSE)]
             wantPrefs == [prefs EXCEPT !.enabled = enabled, !.daily = daily]
             pc == IF toggled THEN "switch" ELSE IF enabled THEN "daily" ELSE PrepareStart(0)
  <2>1. /\ Idle /\ Keep /\ txn'.op = op /\ txn'.pc = pc
        /\ txn'.old = account /\ txn'.oldPrefs = prefs
        /\ ~txn'.undo /\ txn'.status = "running" /\ ~txn'.closed
    BY <1>3 DEF SetParentControl, Start, Open, NoTransaction
  <2>2. txn'.want = want /\ txn'.wantPrefs = wantPrefs
    BY <1>3 DEF SetParentControl, Start, Open, NoTransaction
  <2>3. /\ want.limit = IF enabled THEN 2 ELSE 0
        /\ want.schedule = account.schedule
        /\ want.grant = IF toggled THEN 0 ELSE account.grant
        /\ want.filter = Strict(prefs)
    BY <1>1 DEF Accounts, Strict
  <2>4. wantPrefs.enabled = enabled /\ wantPrefs.apps = prefs.apps /\ prefs.enabled \in BOOLEAN
    BY <1>1 DEF Preferences
  <2> HIDE DEF want, wantPrefs
  <2>5. Toggled(txn') <=> toggled
    BY <2>1, <2>2, <2>4 DEF Toggled
  <2>6. Toggles(txn')
    BY <2>1, <2>2, <2>3, <2>4, <2>5 DEF Toggles
  <2>7. pc = IF toggled THEN "switch" ELSE IF enabled THEN "daily"
             ELSE IF account.limit # 0 THEN "full" ELSE "daily"
    BY DEF PrepareStart
  <2> HIDE DEF pc
  <2>8. Aim(txn')
    BY <2>1, <2>6 DEF Aim, Unsaving, AllOperations
  <2>9. Route(txn')
    BY <2>1, <2>5, <2>7 DEF Route, Granting, WaitSteps
  <2> QED BY <2>1, <2>5, <2>7, <2>8, <2>9 DEF Started
<1>4. ASSUME NEW apps \in Policies, NEW daily \in DailyLimits, SetPreferences(apps, daily)
      PROVE  Started
  <2> DEFINE wantPrefs == [prefs EXCEPT !.apps = apps, !.daily = daily]
  <2>1. /\ Idle /\ Keep /\ txn'.op = "setPreferences" /\ txn'.pc = "save"
        /\ txn'.old = account /\ txn'.oldPrefs = prefs
        /\ ~txn'.undo /\ txn'.status = "running" /\ ~txn'.closed
        /\ txn'.want = [account EXCEPT !.filter = BlockedTargets(apps, FALSE)]
    BY <1>4 DEF SetPreferences, Start, Open, NoTransaction
  <2>2. txn'.wantPrefs = wantPrefs
    BY <1>4 DEF SetPreferences, Start, Open, NoTransaction
  <2>3. wantPrefs.enabled = prefs.enabled /\ wantPrefs.apps = apps
    BY <1>1 DEF Preferences
  <2> HIDE DEF wantPrefs
  <2>4. Tightens(txn')
    BY <1>1, <2>1, <2>2, <2>3 DEF Tightens, Accounts, Strict
  <2> QED BY <2>1, <2>4 DEF Started, Aim, Unsaving, Route, Granting, AllOperations, WaitSteps
<1>5. ASSUME RevokeOneTimeGrant PROVE Started
  <2>1. /\ Idle /\ Keep /\ txn'.op = "revoke" /\ txn'.pc = "filter"
        /\ txn'.old = account /\ txn'.oldPrefs = prefs /\ txn'.wantPrefs = prefs
        /\ ~txn'.undo /\ txn'.status = "running" /\ ~txn'.closed
        /\ txn'.want = [account EXCEPT !.filter = BlockedTargets(prefs.apps, FALSE), !.grant = 0]
    BY <1>5 DEF RevokeOneTimeGrant, Start, Open, NoTransaction
  <2>2. Tightens(txn')
    BY <1>1, <2>1 DEF Tightens, Accounts, Strict
  <2> QED BY <2>1, <2>2 DEF Started, Aim, Unsaving, Route, Granting, AllOperations, WaitSteps
<1>6. ASSUME PrepareOwnSession PROVE Started
  <2>1. /\ Idle /\ Keep /\ txn'.op = "prepare" /\ txn'.pc = "filter"
        /\ txn'.old = account /\ txn'.oldPrefs = prefs /\ txn'.wantPrefs = prefs
        /\ ~txn'.undo /\ txn'.status = "running" /\ ~txn'.closed
        /\ txn'.want = [account EXCEPT !.filter = BlockedTargets(prefs.apps, FALSE)]
    BY <1>6 DEF PrepareOwnSession, Start, Open, NoTransaction
  <2>2. Tightens(txn')
    BY <1>1, <2>1 DEF Tightens, Accounts, Strict
  <2> QED BY <2>1, <2>2 DEF Started, Aim, Unsaving, Route, Granting, AllOperations, WaitSteps
<1> QED BY <1>2, <1>3, <1>4, <1>5, <1>6 DEF Begin

\* A request waiting for its decision changes nothing but itself.
Waited ==
  /\ txn.pc \in WaitSteps /\ txn.op = "approve" /\ ~txn.undo /\ ~txn.closed /\ Keep
  /\ account = txn.old /\ prefs = txn.oldPrefs
  /\ txn'.op = "approve" /\ ~txn'.undo /\ ~txn'.closed
  /\ txn'.old = txn.old /\ txn'.oldPrefs = txn.oldPrefs
  /\ \/ txn'.pc \in WaitSteps /\ txn'.status = "running"
     \/ txn'.pc = "done" /\ txn'.status \in {"denied", "cancelled", "failed"}
     \/ /\ txn.pc = "admit" /\ txn'.status = "running"
        /\ txn'.pc = IF InitializesTime(txn') THEN "full" ELSE "filter"
  /\ Aim(txn') /\ Route(txn')

LEMMA Waiting ==
  ASSUME TransactionInv, PlanOK, txn.pc \in WaitSteps
  PROVE  /\ txn \in Transactions /\ txn.op = "approve" /\ ~txn.undo /\ ~txn.closed
         /\ txn.status = "running" /\ account = txn.old /\ prefs = txn.oldPrefs
         /\ txn.wantPrefs = txn.oldPrefs /\ Aim(txn)
         /\ txn.old \in Accounts /\ now \in Nat /\ txn.addition \in Nat
<1>1. ~Idle /\ txn.pc # "done" /\ txn \in Transactions
  BY DEF Idle, WaitSteps, TransactionInv, TypeOK
<1>2. txn.op = "approve" /\ ~txn.undo /\ account = txn.old
  BY <1>1 DEF TransactionInv, PlanInv
<1>3. txn.status = "running" /\ ~txn.closed
  BY <1>1, <1>2 DEF PlanOK, Route, WaitSteps
<1>4. Aim(txn) /\ prefs = txn.oldPrefs /\ txn.wantPrefs = txn.oldPrefs
  BY <1>1, <1>2 DEF PlanOK, Aim, Unsaving
<1>5. txn.old \in Accounts /\ txn.addition \in Nat /\ now \in Nat
  BY <1>1, TimeAssumption DEF Transactions, TransactionInv, TypeOK
<1> QED BY <1>1, <1>2, <1>3, <1>4, <1>5

LEMMA ConcludeWaits ==
  ASSUME TransactionInv, PlanOK, txn.pc \in WaitSteps, Keep,
         NEW status \in {"denied", "cancelled", "failed"}, txn' = Conclude(txn, status)
  PROVE  Waited
<1>1. /\ txn \in Transactions /\ txn.op = "approve" /\ ~txn.undo /\ ~txn.closed
      /\ account = txn.old /\ prefs = txn.oldPrefs /\ txn.wantPrefs = txn.oldPrefs
  BY Waiting
<1>2. Carries(txn, txn') /\ txn'.pc = "done" /\ txn'.status = status
  BY <1>1, ConcludeDoes
<1>3. /\ txn'.op = "approve" /\ ~txn'.undo /\ ~txn'.closed
      /\ txn'.old = txn.old /\ txn'.oldPrefs = txn.oldPrefs /\ txn'.wantPrefs = txn.oldPrefs
  BY <1>1, <1>2 DEF Carries, SameAims
<1>4. Aim(txn') /\ Route(txn')
  BY <1>2, <1>3 DEF Aim, Route, Granting, AllOperations, WaitSteps
<1> QED BY <1>1, <1>2, <1>3, <1>4 DEF Waited

LEMMA ApprovedWaits ==
  ASSUME TransactionInv, PlanOK, txn.pc \in WaitSteps, Keep, NEW grant \in Nat,
         txn.addition # 0 => grant >= txn.old.grant + txn.addition,
         txn' = Approved(txn, grant)
  PROVE  Waited
<1>1. /\ txn \in Transactions /\ txn.op = "approve" /\ ~txn.undo /\ ~txn.closed
      /\ account = txn.old /\ prefs = txn.oldPrefs /\ txn.wantPrefs = txn.oldPrefs
      /\ txn.status = "running" /\ now \in Nat
  BY Waiting
<1>2. CASE now < grant /\ grant <= now + MaxDuration
  <2>1. /\ txn'.op = "approve" /\ ~txn'.undo /\ ~txn'.closed /\ txn'.status = "running"
        /\ txn'.old = txn.old /\ txn'.oldPrefs = txn.oldPrefs /\ txn'.wantPrefs = txn.oldPrefs
        /\ txn'.pc = "admit" /\ txn'.soft = txn.soft /\ txn'.addition = txn.addition
        /\ txn'.want = [limit |-> ApprovedLimit(txn), daily |-> prefs.daily,
                        schedule |-> txn.old.schedule,
                        filter |-> BlockedTargets(prefs.apps, txn.soft), grant |-> grant]
        /\ txn'.kill = IF txn.soft THEN {} ELSE BlockedTargets(prefs.apps, FALSE)
    BY <1>1, <1>2 DEF Approved, Transactions
  <2>2. grant # 0
    BY <1>1, <1>2
  <2>3. Extends(txn')
    BY <1>1, <2>1, <2>2 DEF Extends, ApprovedLimit, Strict
  <2>4. Aim(txn') /\ Route(txn')
    BY <2>1, <2>3 DEF Aim, Route, Granting, AllOperations, WaitSteps
  <2> QED BY <1>1, <2>1, <2>4 DEF Waited, WaitSteps
<1>3. CASE ~(now < grant /\ grant <= now + MaxDuration)
  <2>1. txn' = Conclude(txn, "failed")
    BY <1>3 DEF Approved
  <2> QED BY <2>1, ConcludeWaits
<1> QED BY <1>2, <1>3

\* The larger remainder of time never falls short of the grant's.
LEMMA ExtendedIsLonger ==
  ASSUME NEW left \in Nat, NEW grant \in Nat, NEW addition \in Nat, now \in Nat
  PROVE  Extended(left, grant, addition) >= grant + addition
BY DEF Extended

LEMMA DecisionWaits ==
  ASSUME TransactionInv, PlanOK,
         CalculateGrant \/ \E outcome \in Decisions : AuthorizationReturns(outcome)
  PROVE  Waited
<1>1. txn.pc \in WaitSteps /\ Keep /\ TypeOK
  BY DEF CalculateGrant, AuthorizationReturns, WaitSteps, TransactionInv
<1>2. /\ txn \in Transactions /\ account = txn.old /\ txn.old.grant \in Nat /\ txn.addition \in Nat
      /\ now \in Nat
  BY <1>1, Waiting DEF Accounts
<1>3. CASE CalculateGrant
  <2>1. ASSUME NEW left \in DailyOperand(txn)
        PROVE  /\ Extended(left, account.grant, txn.addition) \in Nat
               /\ Extended(left, account.grant, txn.addition) >= txn.old.grant + txn.addition
    <3>1. left \in Nat
      BY <1>1, <1>2, DailyOperandType
    <3> QED BY <1>1, <1>2, <3>1, ExtendedType, ExtendedIsLonger
  <2>2. \/ \E status \in {"cancelled", "failed"} : txn' = Conclude(txn, status)
        \/ \E left \in DailyOperand(txn) :
             txn' = Approved(txn, Extended(left, account.grant, txn.addition))
    BY <1>3 DEF CalculateGrant, Rechecked
  <2> QED BY <1>1, <2>1, <2>2, ConcludeWaits, ApprovedWaits
<1>4. ASSUME NEW outcome \in Decisions, AuthorizationReturns(outcome)
      PROVE  Waited
  <2>1. \/ \E status \in {"denied", "cancelled", "failed"} : txn' = Conclude(txn, status)
        \/ txn.addition = 0 /\ txn' = Approved(txn, Midnight)
        \/ txn' = [txn EXCEPT !.pc = "calculate"]
    BY <1>4 DEF AuthorizationReturns, Rechecked, Decisions
  <2>2. CASE txn' = [txn EXCEPT !.pc = "calculate"]
    <3>1. /\ txn.op = "approve" /\ ~txn.undo /\ ~txn.closed /\ txn.status = "running"
          /\ account = txn.old /\ prefs = txn.oldPrefs /\ txn.wantPrefs = txn.oldPrefs
      BY <1>1, Waiting
    <3>2. /\ txn'.op = "approve" /\ ~txn'.undo /\ ~txn'.closed /\ txn'.status = "running"
          /\ txn'.old = txn.old /\ txn'.oldPrefs = txn.oldPrefs /\ txn'.wantPrefs = txn.oldPrefs
          /\ txn'.pc = "calculate"
      BY <1>2, <2>2, <3>1 DEF Transactions
    <3>3. Aim(txn') /\ Route(txn')
      BY <3>2 DEF Aim, Route, Granting, AllOperations, WaitSteps
    <3> QED BY <1>1, <3>1, <3>2, <3>3 DEF Waited, WaitSteps
  <2> QED BY <1>1, <2>1, <2>2, ConcludeWaits, ApprovedWaits, TimeAssumption
<1> QED BY <1>3, <1>4

LEMMA AdmitWaits ==
  ASSUME TransactionInv, PlanOK, AdmitEffect
  PROVE  Waited
<1>1. txn.pc = "admit" /\ txn.pc \in WaitSteps /\ Keep
  BY DEF AdmitEffect, WaitSteps
<1>2. /\ txn \in Transactions /\ txn.op = "approve" /\ ~txn.undo /\ ~txn.closed
      /\ txn.status = "running" /\ account = txn.old /\ prefs = txn.oldPrefs /\ Aim(txn)
  BY <1>1, Waiting
<1>3. Extends(txn)
  BY <1>1, <1>2 DEF Aim
<1> DEFINE start == IF InitializesTime(txn) THEN PrepareStart(txn.want.limit) ELSE "filter"
<1>4. start = IF InitializesTime(txn) THEN "full" ELSE "filter"
  <2>1. txn.want.limit # 0
    BY <1>3 DEF Extends, ApprovedLimit
  <2> QED BY <2>1 DEF PrepareStart
<1>5. CASE txn' = [txn EXCEPT !.pc = start]
  <2> HIDE DEF start
  <2>1. SameAims(txn, txn') /\ txn'.undo = txn.undo /\ txn'.closed = txn.closed
        /\ txn'.status = txn.status /\ txn'.pc = start
    BY <1>2, <1>5 DEF SameAims, Transactions
  <2>2. Aim(txn')
    BY <1>1, <1>2, <2>1, AimKept
  <2>3. InitializesTime(txn') = InitializesTime(txn) /\ txn'.op = "approve"
    BY <1>2, <2>1, AimsDecide DEF SameAims
  <2>4. Route(txn')
    BY <1>2, <1>4, <2>1, <2>3 DEF Route, Granting, WaitSteps
  <2> QED BY <1>1, <1>2, <1>4, <2>1, <2>2, <2>3, <2>4 DEF Waited, SameAims
<1>6. ASSUME NEW status \in {"cancelled", "failed"}, txn' = Conclude(txn, status)
      PROVE  Waited
  BY <1>1, <1>6, ConcludeWaits
<1> QED BY <1>5, <1>6 DEF AdmitEffect, Rechecked

LEMMA LeavingWaits ==
  ASSUME TransactionInv, PlanOK, CallerLeaves \/ \E stale \in BOOLEAN : SelectionChanges(stale)
  PROVE  Waited
<1>1. txn.pc \in WaitSteps /\ Keep
  BY DEF CallerLeaves, SelectionChanges
<1>2. /\ txn \in Transactions /\ txn.op = "approve" /\ ~txn.undo /\ ~txn.closed
      /\ txn.status = "running" /\ account = txn.old /\ prefs = txn.oldPrefs /\ Aim(txn)
  BY <1>1, Waiting
<1>3. SameAims(txn, txn') /\ txn'.undo = txn.undo /\ txn'.closed = txn.closed
      /\ txn'.status = txn.status /\ txn'.pc = txn.pc
  BY <1>2 DEF CallerLeaves, SelectionChanges, SameAims, Transactions
<1>4. Aim(txn')
  BY <1>2, <1>3, AimKept
<1>5. txn'.op = "approve"
  BY <1>2, <1>3 DEF SameAims
<1>6. Route(txn')
  BY <1>1, <1>2, <1>3, <1>5 DEF Route, Granting, WaitSteps
<1> QED BY <1>1, <1>2, <1>3, <1>4, <1>5, <1>6 DEF Waited, SameAims

\* What happens beside a transaction: the clock, the child's applications, recovery.
Beside ==
  /\ UNCHANGED <<account, prefs, txn, tainted>>
  /\ running' \subseteq running \cup (Apps \ account.filter)
  /\ switch' = switch \/ (Idle /\ prefs.enabled /\ switch')

LEMMA StepCases ==
  ASSUME TransactionInv, PlanOK, [Next]_vars
  PROVE  \/ Started
         \/ Waited
         \/ \E s \in WriteSteps : Write(s)
         \/ \E s \in WriteSteps : \E fault \in Faults(s) : WriteFails(s, fault)
         \/ TerminateApps
         \/ \E closed \in SUBSET txn.kill : TerminationFails(closed)
         \/ ReleaseLock \/ Crash
         \/ Beside
<1>1. TypeOK
  BY DEF TransactionInv
<1>2. CASE Begin
  BY <1>1, <1>2, BeginDoes
<1>3. CASE CalculateGrant \/ \E outcome \in Decisions : AuthorizationReturns(outcome)
  BY <1>3, DecisionWaits
<1>4. CASE AdmitEffect
  BY <1>4, AdmitWaits
<1>5. CASE CallerLeaves \/ \E stale \in BOOLEAN : SelectionChanges(stale)
  BY <1>5, LeavingWaits
<1>6. CASE Tick \/ RecoverChildExtension \/ (\E a \in Apps : LaunchApp(a) \/ QuitApp(a)) \/ UNCHANGED vars
  BY <1>6 DEF Tick, RecoverChildExtension, LaunchApp, QuitApp, Beside, vars
<1> QED BY <1>2, <1>3, <1>4, <1>5, <1>6 DEF Next, HolderStep, Environment

LEMMA PlanNext ==
  ASSUME TransactionInv, PlanOK, [Next]_vars
  PROVE  PlanOK'
<1>1. TypeOK
  BY DEF TransactionInv
<1>2. CASE Started
  BY <1>2 DEF Started, PlanOK, Keep
<1>3. CASE Waited
  BY <1>3 DEF Waited, PlanOK, Keep
<1>4. CASE ReleaseLock \/ Crash
  BY <1>4 DEF ReleaseLock, Crash, PlanOK, Idle, NoTransaction
<1>5. CASE Beside
  BY <1>5 DEF Beside, PlanOK, Idle
<1> QED BY <1>1, <1>2, <1>3, <1>4, <1>5, StepCases, WritePlan, WriteFailsPlan, TerminationPlan

\* Whatever fails, an operation keeps to its way and to the aim it started with.
THEOREM PlanInvariant == Spec => []PlanOK
<1>1. Init => PlanOK
  BY DEF Init, PlanOK, Idle, NoTransaction
<1>2. TransactionInv /\ PlanOK /\ [Next]_vars => PlanOK'
  BY PlanNext
<1> QED BY <1>1, <1>2, TransactionInvariant, PTL DEF Spec

-----------------------------------------------------------------------------
(* What the record shows: RecordInv is inductive. *)

LEMMA GoalAll ==
  ASSUME NEW t \in Transactions
  PROVE  /\ t.undo => /\ Goal(t).limit = t.old.limit /\ Goal(t).daily = t.old.daily
                      /\ Goal(t).schedule = t.old.schedule /\ Goal(t).grant = t.old.grant
                      /\ Goal(t).filter = IF t.closed THEN t.want.filter ELSE t.old.filter
         /\ ~t.undo => Goal(t) = t.want
BY DEF Goal, RollbackFilter, Transactions, Accounts

\* b is what the write s makes of a on its way to the goal g.
Wrote(b, a, s, g) ==
  /\ b.limit = IF s = "scheduleOnly" THEN 1 ELSE IF s = "limit" THEN g.limit ELSE a.limit
  /\ b.daily = IF s = "daily" THEN g.daily ELSE a.daily
  /\ b.schedule = IF s = "full" THEN "full" ELSE IF s = "schedule" THEN g.schedule ELSE a.schedule
  /\ b.grant = IF s = "grant" THEN g.grant ELSE a.grant
  /\ b.filter = IF s = "filter" THEN g.filter ELSE a.filter

LEMMA WrittenWrote ==
  ASSUME NEW a \in Accounts, NEW g \in Accounts, NEW s
  PROVE  Wrote(Written(a, s, g), a, s, g)
BY DEF Written, Wrote, Accounts

\* Records with the same fields are the same.
LEMMA SameAccount ==
  ASSUME NEW a \in Accounts, NEW b \in Accounts,
         a.limit = b.limit, a.daily = b.daily, a.schedule = b.schedule,
         a.filter = b.filter, a.grant = b.grant
  PROVE  a = b
BY DEF Accounts

LEMMA GoalKept ==
  ASSUME NEW t \in Transactions, NEW u \in Transactions, SameAims(t, u), u.undo = t.undo,
         t.undo => u.closed = t.closed
  PROVE  Goal(u) = Goal(t)
<1>1. CASE ~t.undo
  BY <1>1, GoalAll DEF SameAims
<1>2. CASE t.undo
  BY <1>2 DEF Goal, RollbackFilter, SameAims
<1> QED BY <1>1, <1>2

LEMMA ApproveMatch ==
  ASSUME NEW t \in Transactions, Route(t), t.op = "approve", NEW s, t.pc = s,
         s \in WriteSteps \cup {"kill"},
         NEW u, SameAims(t, u), u.undo = t.undo, u.pc = After(t, s), Goal(u) = Goal(t),
         NEW a, NEW b, Match(a, t), Wrote(b, a, s, Goal(t))
  PROVE  Match(b, u)
<1> DEFINE next == After(t, s)
           end == {"activate", "done"}
           g == Goal(t)
           init == InitializesTime(t)
<1>1. u.op = "approve" /\ InitializesTime(u) = init
  BY AimsDecide DEF SameAims
<1>2. /\ DailyDue(t) \/ a.daily = g.daily
      /\ GrantDue(t) \/ a.grant = g.grant
      /\ LimitDue(t) \/ a.limit = g.limit
      /\ ScheduleDue(t) \/ a.schedule = g.schedule
      /\ FilterDue(t) \/ a.filter = g.filter
  BY DEF Match
<1>3. CASE t.undo
  <2>1. /\ s = "full" => next = "scheduleOnly"
        /\ s = "scheduleOnly" => next = "daily"
        /\ s = "daily" => next = "grant"
        /\ s = "grant" => next = "limit"
        /\ s = "limit" => next = "schedule"
        /\ s = "schedule" => next = "filter"
        /\ s = "filter" => next = "done"
        /\ s \in AccountSteps
    <3>1. s \in AccountSteps
      BY <1>3 DEF Route, WriteSteps
    <3> QED BY <1>3, <3>1, AfterApprove
  <2> HIDE DEF next, g, init
  <2>2. DailyDue(u) \/ b.daily = g.daily
    BY <1>1, <1>2, <1>3, <2>1 DEF DailyDue, Unstarted, Wrote, AccountSteps, TimeOperations, next, g
  <2>3. GrantDue(u) \/ b.grant = g.grant
    BY <1>1, <1>2, <1>3, <2>1 DEF GrantDue, Granting, Unstarted, Wrote, AccountSteps, TimeOperations, next, g
  <2>4. LimitDue(u) \/ b.limit = g.limit
    BY <1>1, <1>2, <1>3, <2>1 DEF LimitDue, Granting, Unstarted, Wrote, AccountSteps, TimeOperations, next, g
  <2>5. ScheduleDue(u) \/ b.schedule = g.schedule
    BY <1>1, <1>2, <1>3, <2>1 DEF ScheduleDue, Granting, Unstarted, Wrote,
         AccountSteps, TimeOperations, next, g
  <2>6. FilterDue(u) \/ b.filter = g.filter
    BY <1>1, <1>2, <1>3, <2>1 DEF FilterDue, Granting, Unstarted, Wrote, AccountSteps, TimeOperations, next, g
  <2> QED BY <2>2, <2>3, <2>4, <2>5, <2>6 DEF Match, g
<1>4. CASE ~t.undo
  <2>1. /\ s = "full" => next = "scheduleOnly"
        /\ s = "scheduleOnly" => next = "daily"
        /\ s = "daily" => next = "filter"
        /\ s = "filter" => next \in {"grant", "kill"}
        /\ s = "kill" => next = "grant"
        /\ s = "grant" => IF init THEN next = "limit" ELSE next \in end
        /\ s = "limit" => next = "schedule"
        /\ s = "schedule" => next \in end
        /\ s = "activate" => next = "done"
    BY <1>4, AfterApprove
  <2>2. s \in {"full", "scheduleOnly", "daily", "filter", "kill", "grant", "limit", "schedule", "activate"}
    BY DEF Route, WriteSteps, AccountSteps
  <2>3. s \in {"full", "scheduleOnly", "daily", "limit", "schedule"} => init
    BY <1>4 DEF Route, Granting
  <2> HIDE DEF next, g, init
  <2>4. DailyDue(u) \/ b.daily = g.daily
    BY <1>1, <1>2, <1>4, <2>1, <2>2 DEF DailyDue, Unstarted, Wrote, TimeOperations, next, g
  <2>5. GrantDue(u) \/ b.grant = g.grant
    BY <1>1, <1>2, <1>4, <2>1, <2>2 DEF GrantDue, Granting, Unstarted, Wrote, TimeOperations, next, g
  <2>6. LimitDue(u) \/ b.limit = g.limit
    BY <1>1, <1>2, <1>4, <2>1, <2>2, <2>3 DEF LimitDue, Granting, Unstarted, Wrote,
         TimeOperations, next, g, init
  <2>7. ScheduleDue(u) \/ b.schedule = g.schedule
    BY <1>1, <1>2, <1>4, <2>1, <2>2, <2>3 DEF ScheduleDue, Granting, Unstarted, Wrote,
         TimeOperations, next, g, init
  <2>8. FilterDue(u) \/ b.filter = g.filter
    BY <1>1, <1>2, <1>4, <2>1, <2>2 DEF FilterDue, Granting, Unstarted, Wrote, TimeOperations, next, g
  <2> QED BY <2>4, <2>5, <2>6, <2>7, <2>8 DEF Match, g
<1> QED BY <1>3, <1>4

LEMMA ToggleMatch ==
  ASSUME NEW t \in Transactions, Route(t), t.op \in {"enable", "disable"}, NEW s, t.pc = s,
         s \in WriteSteps \cup {"kill"},
         NEW u, SameAims(t, u), u.undo = t.undo, u.pc = After(t, s), Goal(u) = Goal(t),
         NEW a, NEW b, Match(a, t), Wrote(b, a, s, Goal(t))
  PROVE  Match(b, u)
<1> DEFINE next == After(t, s)
           on == t.op = "enable" /\ ~t.undo
           g == Goal(t)
<1>1. u.op = t.op /\ Toggled(u) = Toggled(t)
  BY AimsDecide DEF SameAims
<1>2. /\ DailyDue(t) \/ a.daily = g.daily
      /\ GrantDue(t) \/ a.grant = g.grant
      /\ LimitDue(t) \/ a.limit = g.limit
      /\ ScheduleDue(t) \/ a.schedule = g.schedule
      /\ FilterDue(t) \/ a.filter = g.filter
  BY DEF Match
<1>3. /\ s \in {"full", "scheduleOnly", "daily", "grant", "limit", "schedule", "filter", "save", "switch"}
      /\ on => s \notin {"full", "scheduleOnly", "schedule"} /\ (s = "grant" => Toggled(t))
  BY DEF Route, WriteSteps, AccountSteps
<1>4. /\ s = "full" => next = "scheduleOnly"
      /\ s = "scheduleOnly" => next = "daily"
      /\ s = "daily" => next = IF on /\ ~Toggled(t) THEN "limit" ELSE "grant"
      /\ s = "grant" => next = "limit"
      /\ s = "limit" => next = IF on THEN "filter" ELSE "schedule"
      /\ s = "schedule" => next = "filter"
      /\ s = "filter" => next \in {"switch", "done", "save"} /\ (next = "switch" => t.undo)
      /\ s = "save" => next \in {"switch", "done"} /\ (next = "switch" => t.undo)
      /\ s = "switch" => IF t.undo THEN next = "done"
                         ELSE IF on THEN next = "daily" ELSE next \in {"full", "daily"}
  BY AfterToggle
<1> HIDE DEF next, g
<1>5. DailyDue(u) \/ b.daily = g.daily
  BY <1>1, <1>2, <1>3, <1>4 DEF DailyDue, Unstarted, Wrote, TimeOperations, next, g
<1>6. GrantDue(u) \/ b.grant = g.grant
  BY <1>1, <1>2, <1>3, <1>4 DEF GrantDue, Granting, Unstarted, Wrote, TimeOperations, next, g
<1>7. LimitDue(u) \/ b.limit = g.limit
  BY <1>1, <1>2, <1>3, <1>4 DEF LimitDue, Granting, Unstarted, Wrote, TimeOperations, next, g
<1>8. ScheduleDue(u) \/ b.schedule = g.schedule
  BY <1>1, <1>2, <1>3, <1>4 DEF ScheduleDue, Granting, Unstarted, Wrote, TimeOperations, next, g
<1>9. FilterDue(u) \/ b.filter = g.filter
  BY <1>1, <1>2, <1>3, <1>4 DEF FilterDue, Granting, Unstarted, Wrote, TimeOperations, AccountSteps, next, g
<1> QED BY <1>5, <1>6, <1>7, <1>8, <1>9 DEF Match, g

LEMMA TightenMatch ==
  ASSUME NEW t \in Transactions, Route(t), t.op \in {"setPreferences", "revoke", "prepare"},
         NEW s, t.pc = s, s \in WriteSteps \cup {"kill"},
         NEW u, SameAims(t, u), u.undo = t.undo, u.pc = After(t, s), Goal(u) = Goal(t),
         NEW a, NEW b, Match(a, t), Wrote(b, a, s, Goal(t))
  PROVE  Match(b, u)
<1> DEFINE next == After(t, s)
           g == Goal(t)
<1>1. u.op = t.op
  BY DEF SameAims
<1>2. /\ DailyDue(t) \/ a.daily = g.daily
      /\ GrantDue(t) \/ a.grant = g.grant
      /\ LimitDue(t) \/ a.limit = g.limit
      /\ ScheduleDue(t) \/ a.schedule = g.schedule
      /\ FilterDue(t) \/ a.filter = g.filter
  BY DEF Match
<1>3. /\ t.op = "revoke" => s \in {"filter", "kill", "grant"}
      /\ t.op = "setPreferences" => s \in {"save", "filter", "kill"}
      /\ t.op = "prepare" => s \in {"filter", "kill"}
      /\ s = "kill" => ~t.undo
  BY DEF Route, WriteSteps, AccountSteps
<1>4. /\ s = "save" => next = "filter"
      /\ s = "filter" => next = IF t.undo THEN "done"
                                ELSE IF t.kill # {} THEN "kill"
                                ELSE IF t.op = "revoke" THEN "grant" ELSE "done"
      /\ s = "kill" => next = IF t.op = "revoke" THEN "grant" ELSE "done"
      /\ s = "grant" => next = IF t.undo THEN "filter" ELSE "done"
  BY AfterTighten
<1> HIDE DEF next, g
<1> USE <1>1, <1>2, <1>3, <1>4
<1>5. DailyDue(u) \/ b.daily = g.daily
  BY DEF DailyDue, Wrote, TimeOperations, next, g
<1>6. GrantDue(u) \/ b.grant = g.grant
  BY DEF GrantDue, Granting, Wrote, TimeOperations, next, g
<1>7. LimitDue(u) \/ b.limit = g.limit
  BY DEF LimitDue, Granting, Wrote, TimeOperations, next, g
<1>8. ScheduleDue(u) \/ b.schedule = g.schedule
  BY DEF ScheduleDue, Granting, Wrote, TimeOperations, next, g
<1>9. FilterDue(u) \/ b.filter = g.filter
  BY DEF FilterDue, Granting, Wrote, TimeOperations, next, g
<1> QED BY <1>5, <1>6, <1>7, <1>8, <1>9 DEF Match, g

LEMMA AdvanceMatch ==
  ASSUME NEW t \in Transactions, NEW u \in Transactions, Route(t), t.op \in AllOperations,
         NEW s \in WriteSteps \cup {"kill"}, t.pc = s,
         SameAims(t, u), u.undo = t.undo, u.pc = After(t, s), t.undo => u.closed = t.closed,
         NEW a, NEW b, Match(a, t), Wrote(b, a, s, Goal(t))
  PROVE  Match(b, u)
<1>1. Goal(u) = Goal(t)
  BY GoalKept
<1>2. t.op = "approve" \/ t.op \in {"enable", "disable"} \/ t.op \in {"setPreferences", "revoke", "prepare"}
  BY DEF AllOperations
<1>3. CASE t.op = "approve"
  BY <1>1, <1>3, ApproveMatch
<1>4. CASE t.op \in {"enable", "disable"}
  BY <1>1, <1>4, ToggleMatch
<1>5. CASE t.op \in {"setPreferences", "revoke", "prepare"}
  BY <1>1, <1>5, TightenMatch
<1> QED BY <1>2, <1>3, <1>4, <1>5

\* Turned round, an operation has still to write whatever it may have changed.
LEMMA AbortMatch ==
  ASSUME NEW t \in Transactions, NEW u \in Transactions, Route(t), t.op \in AllOperations, ~t.undo,
         t.op \in {"setPreferences", "revoke", "prepare"} => Tightens(t),
         NEW s \in WriteSteps \cup {"kill"}, t.pc = s,
         SameAims(t, u), u.undo, u.pc = UndoStart(t, Resaves(t, s)),
         NEW a, NEW b, Match(a, t), b = a \/ Wrote(b, a, s, t.want)
  PROVE  Match(b, u)
<1>1. u.op = t.op /\ u.old = t.old /\ u.want = t.want
  BY DEF SameAims
<1>2. Resaves(t, s) \in BOOLEAN
  BY DEF Resaves
<1>3. CASE t.op \in TimeOperations
  <2>1. u.pc \in {"full", "daily"}
    BY <1>2, <1>3, UndoStarts
  <2> QED BY <1>1, <1>3, <2>1
      DEF Match, DailyDue, GrantDue, LimitDue, ScheduleDue, FilterDue, Granting, AccountSteps
<1>4. CASE t.op \in {"setPreferences", "revoke", "prepare"}
  <2>1. /\ t.op = "revoke" => u.pc = "grant"
        /\ t.op = "prepare" => u.pc = "filter"
        /\ t.op = "setPreferences" => u.pc \in {"save", "filter"}
    BY <1>2, UndoStarts
  <2>2. /\ t.op = "revoke" => s \in {"filter", "kill", "grant"}
        /\ t.op = "setPreferences" => s \in {"save", "filter", "kill"}
        /\ t.op = "prepare" => s \in {"filter", "kill"}
    BY DEF Route, WriteSteps, AccountSteps
  <2>3. Goal(t) = t.want
    BY GoalAll
  <2>4. /\ a.daily = t.old.daily /\ a.limit = t.old.limit /\ a.schedule = t.old.schedule
        /\ t.op # "revoke" => a.grant = t.old.grant
    BY <1>4, <2>3 DEF Match, Tightens, DailyDue, GrantDue, LimitDue, ScheduleDue, Granting, TimeOperations
  <2>5. /\ b.daily = t.old.daily /\ b.limit = t.old.limit /\ b.schedule = t.old.schedule
        /\ t.op # "revoke" => b.grant = t.old.grant
    BY <1>4, <2>2, <2>4 DEF Wrote
  <2>6. /\ Goal(u).daily = t.old.daily /\ Goal(u).limit = t.old.limit
        /\ Goal(u).schedule = t.old.schedule /\ Goal(u).grant = t.old.grant
    BY <1>1, GoalAll
  <2>7. t.op = "revoke" => GrantDue(u)
    BY <1>1, <2>1 DEF GrantDue
  <2>8. FilterDue(u)
    BY <1>1, <1>4, <2>1 DEF FilterDue
  <2> QED BY <2>5, <2>6, <2>7, <2>8 DEF Match
<1> QED BY <1>3, <1>4 DEF AllOperations, TimeOperations

\* Nothing is due when a transaction ends.
LEMMA EndMatch ==
  ASSUME NEW t \in Transactions, t.pc = "done" \/ (t.pc = "kill" /\ t.op \in {"setPreferences", "prepare"}),
         NEW a \in Accounts, Match(a, t)
  PROVE  a = Goal(t)
<1>1. Goal(t) \in Accounts
  BY GoalType
<1>2. ~DailyDue(t) /\ ~GrantDue(t) /\ ~LimitDue(t) /\ ~ScheduleDue(t) /\ ~FilterDue(t)
  BY DEF DailyDue, GrantDue, LimitDue, ScheduleDue, FilterDue, Unstarted, Granting,
         AccountSteps, TimeOperations
<1> QED BY <1>1, <1>2, SameAccount DEF Match

\* Before its first write the record of a transaction shows what it leaves alone.
LEMMA StartedMatch ==
  ASSUME NEW t \in Transactions, Aim(t), ~t.undo, NEW a, a = t.old,
         CASE t.op = "approve" -> /\ Extends(t)
                                  /\ t.pc = IF InitializesTime(t) THEN "full" ELSE "filter"
           [] t.op = "setPreferences" -> t.pc = "save"
           [] t.op = "enable"         -> t.pc = IF Toggled(t) THEN "switch" ELSE "daily"
           [] t.op = "disable"        -> t.pc = IF Toggled(t) THEN "switch"
                                                ELSE IF a.limit # 0 THEN "full" ELSE "daily"
           [] OTHER                   -> t.pc = "filter"
  PROVE  Match(a, t)
<1>1. Goal(t) = t.want
  BY GoalAll
<1>2. CASE t.op = "approve"
  <2>1. t.pc = IF InitializesTime(t) THEN "full" ELSE "filter"
    BY <1>2
  <2>2. ~InitializesTime(t) => t.want.daily = t.old.daily /\ t.want.limit = t.old.limit
    BY <1>2 DEF Extends, InitializesTime, ApprovedLimit
  <2>3. t.want.schedule = t.old.schedule
    BY <1>2 DEF Extends
  <2> QED BY <1>1, <1>2, <2>1, <2>2, <2>3
      DEF Match, DailyDue, GrantDue, LimitDue, ScheduleDue, FilterDue, Granting, TimeOperations
<1>3. CASE t.op \in {"enable", "disable"}
  <2>1. t.pc \in {"switch", "full", "daily"}
    BY <1>3
  <2>2. t.op = "enable" => t.pc = IF Toggled(t) THEN "switch" ELSE "daily"
    OBVIOUS
  <2>3. t.want.schedule = t.old.schedule /\ t.want.grant = IF Toggled(t) THEN 0 ELSE t.old.grant
    BY <1>3 DEF Aim, Toggles
  <2> QED BY <1>1, <1>3, <2>1, <2>2, <2>3
      DEF Match, DailyDue, GrantDue, LimitDue, ScheduleDue, FilterDue, Granting, Unstarted,
          TimeOperations, AccountSteps
<1>4. CASE t.op \in {"setPreferences", "revoke", "prepare"}
  <2>1. t.pc = IF t.op = "setPreferences" THEN "save" ELSE "filter"
    BY <1>4
  <2>2. Tightens(t)
    BY <1>4 DEF Aim
  <2> QED BY <1>1, <1>4, <2>1, <2>2
      DEF Match, Tightens, GrantDue, FilterDue, Granting
<1> QED BY <1>2, <1>3, <1>4 DEF Aim, AllOperations

\* What a write that took effect makes of the record.
LEMMA EffectWrote ==
  ASSUME TypeOK, NEW s, Effect(s)
  PROVE  Wrote(account', account, s, Goal(txn))
<1>1. txn \in Transactions /\ account \in Accounts /\ account' = Written(account, s, Goal(txn))
  BY DEF TypeOK, Effect
<1>2. Goal(txn) \in Accounts
  BY <1>1, GoalType
<1> QED BY <1>1, <1>2, WrittenWrote

\* A write, or a termination, that succeeds.
LEMMA AdvanceRecord ==
  ASSUME TypeOK, TypeOK', PlanOK, RecordInv, NEW s \in WriteSteps \cup {"kill"}, txn.pc = s,
         SameAims(txn, txn'), txn'.undo = txn.undo, txn'.pc = After(txn, s),
         txn'.status = IF txn'.pc = "done" /\ txn.status = "running" THEN "applied" ELSE txn.status,
         s # "kill" => txn'.closed = txn.closed,
         Wrote(account', account, s, Goal(txn)),
         s = "switch" => account' = account
  PROVE  RecordInv'
<1>1. /\ txn \in Transactions /\ ~Idle /\ Aim(txn) /\ Route(txn) /\ txn.op \in AllOperations
      /\ txn' \in Transactions
  BY Writer DEF TypeOK
<1>2. s # "done" /\ s \notin WaitSteps
  BY DEF WriteSteps, AccountSteps, WaitSteps
<1>3. Writing(txn') => Match(account', txn')
  <2>1. SUFFICES ASSUME txn'.status # "rollbackFailed" PROVE Match(account', txn')
    BY DEF Writing
  <2>2. Writing(txn)
    BY <2>1 DEF Writing
  <2>3. Match(account, txn)
    BY <1>1, <2>2 DEF RecordInv
  <2>4. txn.undo => txn'.closed = txn.closed
    BY <1>1 DEF Route
  <2> QED BY <1>1, <2>3, <2>4, AdvanceMatch
<1>4. Fresh(txn') => account' = txn'.old
  <2>1. SUFFICES ASSUME Fresh(txn') PROVE account' = txn'.old
    OBVIOUS
  <2>2. ~txn.undo /\ txn'.op = txn.op /\ txn'.old = txn.old
    BY <2>1 DEF Fresh, SameAims
  <2>3. s = "switch"
    <3>1. CASE txn.op = "approve"
      BY <1>1, <1>2, <2>1, <2>2, <3>1, AfterApprove DEF Fresh, WaitSteps, Route, WriteSteps, AccountSteps
    <3>2. CASE txn.op \in {"enable", "disable"}
      BY <1>1, <1>2, <2>1, <2>2, <3>2, AfterToggle DEF Fresh, WaitSteps, Route, WriteSteps, AccountSteps
    <3>3. CASE txn.op \in {"setPreferences", "revoke", "prepare"}
      BY <1>1, <1>2, <2>1, <2>2, <3>3, AfterTighten DEF Fresh, WaitSteps, Route, WriteSteps, AccountSteps
    <3> QED BY <1>1, <3>1, <3>2, <3>3 DEF AllOperations
  <2>4. Fresh(txn)
    BY <2>2, <2>3 DEF Fresh
  <2> QED BY <1>1, <2>2, <2>3, <2>4 DEF RecordInv
<1>5. Given(account', txn')
  <2>1. ~txn.undo => txn.status = "running"
    BY <1>1, <1>2 DEF Route
  <2> QED BY <2>1 DEF Given
<1> QED BY <1>3, <1>4, <1>5 DEF RecordInv

\* A first failure: the undoing has everything to write that may have changed, and
\* what is not undone was not written, but for the late failure of a preparation.
LEMMA AbortRecord ==
  ASSUME TypeOK, TypeOK', PlanOK, RecordInv, NEW s \in WriteSteps \cup {"kill"}, txn.pc = s,
         ~txn.undo, NEW t \in Transactions, SameAims(txn, t), ~t.undo, NEW fault,
         t.closed = IF s = "kill" THEN TRUE ELSE txn.closed,
         txn' = Aborted(t, s, fault),
         account' = account \/ (s # "kill" /\ Wrote(account', account, s, txn.want)),
         account' = account \/ s # "switch",
         account' = account \/ fault = "readback" \/ <<txn.op, s>> \in LateFaults
  PROVE  RecordInv'
<1>1. /\ txn \in Transactions /\ ~Idle /\ Aim(txn) /\ Route(txn) /\ txn.op \in AllOperations
      /\ txn.op \in {"enable", "disable"} => Toggles(txn)
      /\ txn.op \in {"setPreferences", "revoke", "prepare"} => Tightens(txn)
      /\ txn' \in Transactions
  BY Writer DEF TypeOK
<1>2. s # "done" /\ s \notin WaitSteps /\ txn.status = "running"
  BY <1>1 DEF WriteSteps, AccountSteps, WaitSteps, Route
<1>3. Match(account, txn)
  BY <1>1, <1>2 DEF RecordInv, Writing
<1>4. TurnsRound(t, s, fault, txn')
  BY AbortedDoes
<1>5. /\ SameAims(txn, txn') /\ t.op = txn.op /\ txn'.op = txn.op /\ txn'.old = txn.old
      /\ txn'.want = txn.want
  BY <1>4 DEF TurnsRound, SameAims
<1>6. /\ Undoes(t, s, fault) <=> Undoes(txn, s, fault)
      /\ UndoStart(t, Resaves(t, s)) = UndoStart(txn, Resaves(txn, s))
  <2>1. Undoes(txn, s, fault) <=> Undoes(t, s, fault)
    BY <1>5 DEF Undoes
  <2>2. Resaves(txn, s) = Resaves(t, s)
    BY <1>5 DEF Resaves
  <2>3. \A resave : UndoStart(txn, resave) = UndoStart(t, resave)
    BY <1>4, <1>5 DEF UndoStart, SameAims
  <2> QED BY <2>1, <2>2, <2>3
<1>7. CASE Undoes(t, s, fault)
  <2>1. txn'.undo /\ txn'.pc = UndoStart(txn, Resaves(txn, s))
    BY <1>4, <1>6, <1>7 DEF TurnsRound
  <2>2. Match(account', txn')
    BY <1>1, <1>3, <1>5, <2>1, AbortMatch
  <2>3. ~Fresh(txn') /\ Given(account', txn')
    BY <2>1 DEF Fresh, Given
  <2> QED BY <2>2, <2>3 DEF RecordInv
<1>8. CASE ~Undoes(t, s, fault)
  <2>1. ~txn'.undo /\ txn'.pc = "done" /\ txn'.status = "failed" /\ txn'.closed = t.closed
    BY <1>4, <1>8 DEF TurnsRound
  <2>2. ~Writing(txn') /\ ~Fresh(txn')
    BY <2>1, <1>5 DEF Writing, Fresh, WriteSteps, AccountSteps, WaitSteps
  <2>3. Given(account', txn')
    <3>1. CASE txn.op \in {"enable", "disable"}
      <4>1. s = "switch" /\ ~txn'.closed
        BY <1>1, <1>5, <1>8, <2>1, <3>1 DEF Undoes, Route
      <4>2. Fresh(txn)
        BY <4>1 DEF Fresh
      <4>3. account' = txn.old
        BY <1>1, <4>1, <4>2 DEF RecordInv
      <4> QED BY <1>5, <3>1, <4>1, <4>3 DEF Given
    <3>2. CASE s = "kill"
      <4>1. txn.op \in {"setPreferences", "prepare"}
        BY <1>1, <1>5, <1>8, <3>2 DEF Undoes, AllOperations, Route
      <4>2. account = Goal(txn)
        BY <1>1, <1>3, <3>2, <4>1, EndMatch DEF TypeOK
      <4>3. account' = txn.want
        BY <1>1, <3>2, <4>2, GoalAll
      <4> QED BY <1>5, <2>1, <3>2, <4>3 DEF Given
    <3>3. CASE txn.op = "prepare" /\ s = "filter"
      <4>1. ~txn'.closed /\ fault # "readback"
        BY <1>1, <1>2, <1>5, <1>8, <2>1, <3>3 DEF Undoes, Route
      <4>2. account = txn.old
        BY <1>1, <3>3 DEF RecordInv, Fresh
      <4>3. account' # account => FilterStays
        BY <3>3, <4>1 DEF FilterStays
      <4>4. account' # account => account' = txn.want
        <5>1. account' \in Accounts /\ txn.want \in Accounts
          BY <1>1 DEF TypeOK, Transactions
        <5>2. Tightens(txn)
          BY <1>1, <3>3
        <5>3. SUFFICES ASSUME Wrote(account', account, "filter", txn.want) PROVE account' = txn.want
          BY <3>3
        <5>4. /\ account'.limit = txn.want.limit /\ account'.daily = txn.want.daily
              /\ account'.schedule = txn.want.schedule /\ account'.grant = txn.want.grant
              /\ account'.filter = txn.want.filter
          BY <3>3, <4>2, <5>2, <5>3 DEF Wrote, Tightens
        <5> QED BY <5>1, <5>4, SameAccount
      <4> QED BY <1>5, <3>3, <4>1, <4>2, <4>3, <4>4 DEF Given
    <3>4. \/ txn.op \in {"enable", "disable"} \/ s = "kill" \/ (txn.op = "prepare" /\ s = "filter")
      BY <1>1, <1>5, <1>8 DEF Undoes, AllOperations, Route, WriteSteps, AccountSteps
    <3> QED BY <3>1, <3>2, <3>3, <3>4
  <2> QED BY <2>2, <2>3 DEF RecordInv
<1> QED BY <1>7, <1>8

LEMMA WriteRecord ==
  ASSUME TypeOK, TypeOK', PlanOK, RecordInv, NEW s \in WriteSteps, Write(s)
  PROVE  RecordInv'
<1>1. /\ txn.pc = s /\ txn \in Transactions /\ Effect(s) /\ txn' = Advance(txn, After(txn, s))
  BY DEF Write, TypeOK
<1>2. /\ Carries(txn, txn') /\ txn'.pc = After(txn, s)
      /\ txn'.status = IF After(txn, s) = "done" /\ txn.status = "running" THEN "applied" ELSE txn.status
  BY <1>1, AdvanceDoes
<1>3. Wrote(account', account, s, Goal(txn))
  BY <1>1, EffectWrote
<1>4. s = "switch" => account' = account
  BY <1>1 DEF Effect, Written
<1> QED BY <1>1, <1>2, <1>3, <1>4, AdvanceRecord DEF Carries

\* A failed write left the record alone, or wrote it and says so only now.
LEMMA FaultWrote ==
  ASSUME TypeOK, NEW s \in WriteSteps, NEW fault \in Faults(s), WriteFails(s, fault)
  PROVE  /\ account' = account \/ Wrote(account', account, s, Goal(txn))
         /\ account' = account \/ s \in AccountSteps
         /\ account' = account \/ fault = "readback" \/ <<txn.op, s>> \in LateFaults
<1>1. CASE fault = "early"
  BY <1>1 DEF WriteFails, NoEffect
<1>2. CASE fault # "early"
  <2>1. Effect(s)
    BY <1>2 DEF WriteFails
  <2>2. Wrote(account', account, s, Goal(txn))
    BY <2>1, EffectWrote
  <2>3. account' = account \/ s \in AccountSteps
    BY <2>1 DEF Effect, Written, WriteSteps, AccountSteps
  <2>4. fault = "readback" \/ <<txn.op, s>> \in LateFaults
    BY <1>2 DEF Faults
  <2> QED BY <2>2, <2>3, <2>4
<1> QED BY <1>1, <1>2

LEMMA WriteFailsRecord ==
  ASSUME TypeOK, TypeOK', PlanOK, RecordInv,
         NEW s \in WriteSteps, NEW fault \in Faults(s), WriteFails(s, fault)
  PROVE  RecordInv'
<1>1. /\ txn.pc = s /\ txn \in Transactions /\ ~Idle /\ Route(txn)
  BY Writer DEF WriteFails
<1>2. CASE txn.undo
  <2>1. txn' = UndoFault(txn, s)
    BY <1>2 DEF WriteFails
  <2>2. txn'.undo /\ txn'.status = "rollbackFailed"
    BY <1>1, <1>2, <2>1, UndoFaultDoes DEF Carries
  <2>3. ~Writing(txn') /\ ~Fresh(txn') /\ Given(account', txn')
    BY <2>2 DEF Writing, Fresh, Given
  <2> QED BY <2>3 DEF RecordInv
<1>3. CASE ~txn.undo
  <2>1. txn' = Aborted(txn, s, fault)
    BY <1>3 DEF WriteFails
  <2>2. SameAims(txn, txn) /\ s # "kill" /\ "switch" \notin AccountSteps
    BY DEF SameAims, WriteSteps, AccountSteps
  <2>3. Goal(txn) = txn.want
    BY <1>1, <1>3, GoalAll
  <2>4. /\ account' = account \/ Wrote(account', account, s, txn.want)
        /\ account' = account \/ s # "switch"
        /\ account' = account \/ fault = "readback" \/ <<txn.op, s>> \in LateFaults
    BY <2>2, <2>3, FaultWrote
  <2> QED BY <1>1, <1>3, <2>1, <2>2, <2>4, AbortRecord
<1> QED BY <1>2, <1>3

LEMMA TerminationRecord ==
  ASSUME TypeOK, TypeOK', PlanOK, RecordInv,
         TerminateApps \/ \E closed \in SUBSET txn.kill : TerminationFails(closed)
  PROVE  RecordInv'
<1>1. CASE TerminateApps
  <2>1. account' = account
    BY <1>1 DEF TerminateApps
  <2>2. Wrote(account', account, "kill", Goal(txn))
    BY <2>1 DEF Wrote
  <2> QED BY <1>1, <2>1, <2>2, TerminateDoes, AdvanceRecord
<1>2. CASE \E closed \in SUBSET txn.kill : TerminationFails(closed)
  <2> DEFINE t == [txn EXCEPT !.closed = TRUE]
  <2>1. /\ txn.pc = "kill" /\ txn' = Aborted(t, "kill", "early") /\ account' = account
    BY <1>2 DEF TerminationFails, NoEffect
  <2>2. Route(txn)
    BY <2>1, Writer
  <2>3. t \in Transactions /\ SameAims(txn, t) /\ t.closed = TRUE /\ t.undo = txn.undo
    BY DEF TypeOK, Transactions, SameAims
  <2>4. ~txn.undo
    BY <2>1, <2>2 DEF Route
  <2> HIDE DEF t
  <2> QED BY <2>1, <2>3, <2>4, AbortRecord
<1> QED BY <1>1, <1>2

LEMMA StartedRecord ==
  ASSUME TypeOK', Started
  PROVE  RecordInv'
<1>1. /\ account' = account /\ txn'.old = account /\ ~txn'.undo /\ txn'.status = "running"
      /\ Aim(txn') /\ txn'.op \in AllOperations /\ txn' \in Transactions
  BY DEF Started, Keep, Aim, TypeOK
<1>2. Writing(txn') => Match(account', txn')
  <2>1. CASE txn'.op = "approve"
    BY <1>1, <2>1 DEF Started, Writing, WriteSteps, AccountSteps
  <2>2. CASE txn'.op # "approve"
    BY <1>1, <2>2, StartedMatch DEF Started
  <2> QED BY <2>1, <2>2
<1>3. Given(account', txn')
  BY <1>1 DEF Started, Given, AllOperations
<1> QED BY <1>1, <1>2, <1>3 DEF RecordInv

LEMMA WaitedRecord ==
  ASSUME TypeOK', Waited
  PROVE  RecordInv'
<1>1. /\ account' = txn'.old /\ ~txn'.undo /\ ~txn'.closed /\ txn'.op = "approve"
      /\ Aim(txn') /\ txn' \in Transactions
  BY DEF Waited, Keep, TypeOK
<1>2. Writing(txn') => Match(account', txn')
  <2>1. SUFFICES ASSUME Writing(txn') PROVE Match(account', txn')
    OBVIOUS
  <2>2. txn'.pc = IF InitializesTime(txn') THEN "full" ELSE "filter"
    BY <1>1, <2>1 DEF Waited, Writing, WriteSteps, WaitSteps, AccountSteps
  <2>3. Extends(txn')
    BY <1>1, <2>2 DEF Aim
  <2> QED BY <1>1, <2>2, <2>3, StartedMatch
<1>3. Given(account', txn')
  BY <1>1 DEF Given
<1> QED BY <1>1, <1>2, <1>3 DEF RecordInv

\* The record always shows how far the writes of its transaction have come, what
\* an undoing has still to write, and what a failure without one has left.
THEOREM RecordInvariant == Spec => []RecordInv
<1>1. Init => RecordInv
  BY DEF Init, RecordInv, Idle, NoTransaction
<1>2. TransactionInv /\ TransactionInv' /\ PlanOK /\ RecordInv /\ [Next]_vars => RecordInv'
  <2> SUFFICES ASSUME TransactionInv, TransactionInv', PlanOK, RecordInv, [Next]_vars PROVE RecordInv'
    OBVIOUS
  <2>1. TypeOK /\ TypeOK'
    BY DEF TransactionInv
  <2>2. CASE ReleaseLock \/ Crash
    BY <2>2 DEF ReleaseLock, Crash, RecordInv, Idle, NoTransaction
  <2>3. CASE Beside
    BY <2>3 DEF Beside, RecordInv, Idle
  <2> QED BY <2>1, <2>2, <2>3, StepCases, WriteRecord, WriteFailsRecord, TerminationRecord,
             StartedRecord, WaitedRecord
<1> QED BY <1>1, <1>2, TransactionInvariant, PlanInvariant, PTL DEF Spec

-----------------------------------------------------------------------------
(* Which preferences are stored: StoreInv is inductive. *)

LEMMA WriteStore ==
  ASSUME TypeOK, PlanOK, PlanOK', StoreInv, NEW s \in WriteSteps, Write(s)
  PROVE  Stored(txn)'
<1>1. /\ txn.pc = s /\ txn \in Transactions /\ ~Idle /\ Route(txn) /\ txn.op \in AllOperations
  BY Writer DEF Write
<1>2. /\ Carries(txn, txn') /\ txn'.pc = After(txn, s)
      /\ txn'.status = IF After(txn, s) = "done" /\ txn.status = "running" THEN "applied" ELSE txn.status
  BY <1>1, AdvanceDoes DEF Write
<1>3. /\ txn'.op = txn.op /\ txn'.undo = txn.undo /\ txn'.resave = txn.resave
      /\ txn'.oldPrefs = txn.oldPrefs /\ txn'.wantPrefs = txn.wantPrefs
  BY <1>2 DEF Carries, SameAims
<1>4. prefs' = IF s = "save" THEN IF txn.undo THEN txn.oldPrefs ELSE txn.wantPrefs ELSE prefs
  BY DEF Write, Effect
<1>5. s # "done" /\ (~txn.undo => txn.status = "running")
  BY <1>1 DEF WriteSteps, AccountSteps, Route
<1>6. txn'.op \in Unsaving => prefs' = txn'.oldPrefs
  BY <1>1, <1>3, <1>4 DEF PlanOK, Unsaving, Route
<1>7. txn'.op = "setPreferences" =>
       IF txn'.undo THEN txn'.pc = "save" \/ txn'.status = "rollbackFailed" \/ SaveStays
            \/ prefs' = txn'.oldPrefs
       ELSE prefs' = IF txn'.pc = "save" THEN txn'.oldPrefs ELSE txn'.wantPrefs
  <2>1. SUFFICES ASSUME txn.op = "setPreferences"
                 PROVE IF txn.undo THEN txn.status = "rollbackFailed" \/ SaveStays \/ prefs' = txn.oldPrefs
                       ELSE txn'.pc # "save" /\ prefs' = txn.wantPrefs
    BY <1>2, <1>3
  <2>2. txn'.pc # "save"
    BY <1>1, <1>2, <2>1, AfterTighten DEF WriteSteps, AccountSteps
  <2> QED BY <1>1, <1>4, <2>1, <2>2 DEF StoreInv, Stored
<1>8. txn'.op \in {"enable", "disable"} =>
       IF txn'.undo THEN (txn'.resave /\ txn'.pc \in AccountSteps \cup {"save"})
                         \/ txn'.status = "rollbackFailed" \/ prefs' = txn'.oldPrefs
       ELSE prefs' = IF txn'.status = "applied" THEN txn'.wantPrefs ELSE txn'.oldPrefs
  <2>1. SUFFICES ASSUME txn.op \in {"enable", "disable"}
                 PROVE IF txn.undo THEN (txn.resave /\ txn'.pc \in AccountSteps \cup {"save"})
                                        \/ txn.status = "rollbackFailed" \/ prefs' = txn.oldPrefs
                       ELSE prefs' = IF txn'.status = "applied" THEN txn.wantPrefs ELSE txn.oldPrefs
    BY <1>2, <1>3, <1>5
  <2>2. CASE txn.undo
    <3>1. s \in AccountSteps /\ txn.resave => txn'.pc \in AccountSteps \cup {"save"}
      BY <1>1, <1>2, <2>1, <2>2, AfterToggle DEF AccountSteps
    <3>2. s # "save" /\ (s \notin AccountSteps \/ ~txn.resave) =>
            txn.status = "rollbackFailed" \/ prefs = txn.oldPrefs
      BY <1>1, <2>1, <2>2 DEF StoreInv, Stored
    <3> QED BY <1>4, <2>2, <3>1, <3>2
  <2>3. CASE ~txn.undo
    <3>1. prefs = txn.oldPrefs
      BY <1>1, <1>5, <2>1, <2>3 DEF StoreInv, Stored
    <3>2. s = "save" <=> txn'.pc = "done"
      BY <1>1, <1>2, <2>1, <2>3, AfterToggle DEF Route, WriteSteps, AccountSteps
    <3> QED BY <1>2, <1>4, <1>5, <2>3, <3>1, <3>2
  <2> QED BY <2>2, <2>3
<1> QED BY <1>6, <1>7, <1>8 DEF Stored

LEMMA AbortStore ==
  ASSUME TypeOK, PlanOK, PlanOK', StoreInv, NEW s \in WriteSteps \cup {"kill"}, txn.pc = s, ~txn.undo,
         NEW t \in Transactions, SameAims(txn, t), ~t.undo, NEW fault, txn' = Aborted(t, s, fault),
         prefs' = prefs \/ (s = "save" /\ <<txn.op, s>> \in LateFaults)
  PROVE  Stored(txn)'
<1>1. /\ txn \in Transactions /\ ~Idle /\ Route(txn) /\ txn.op \in AllOperations
      /\ s \notin {"idle", "done"} /\ txn.status = "running"
  BY Writer DEF WriteSteps, AccountSteps, Route
<1>2. TurnsRound(t, s, fault, txn')
  BY AbortedDoes
<1>3. /\ t.op = txn.op /\ txn'.op = txn.op /\ txn'.status = "failed"
      /\ txn'.oldPrefs = txn.oldPrefs /\ txn'.wantPrefs = txn.wantPrefs
  BY <1>2 DEF TurnsRound, SameAims
<1>4. txn'.op \in Unsaving => prefs' = txn'.oldPrefs
  <2>1. txn.op \in Unsaving => s # "save"
    BY <1>1 DEF Route, Unsaving
  <2> QED BY <1>1, <1>3, <2>1 DEF PlanOK
<1>5. CASE txn.op = "setPreferences"
  <2>1. prefs = IF s = "save" THEN txn.oldPrefs ELSE txn.wantPrefs
    BY <1>1, <1>5 DEF StoreInv, Stored
  <2>2. CASE s = "kill"
    <3>1. ~txn'.undo /\ txn'.pc = "done"
      BY <1>2, <1>3, <1>5, <2>2 DEF TurnsRound, Undoes
    <3> QED BY <1>3, <1>5, <2>1, <2>2, <3>1 DEF Stored, Unsaving
  <2>3. CASE s # "kill"
    <3>1. txn'.undo /\ (s # "save" => txn'.pc = "save")
      <4>1. Undoes(t, s, fault) /\ (s # "save" => Resaves(t, s))
        BY <1>3, <1>5, <2>3 DEF Undoes, Resaves
      <4>2. txn'.undo /\ txn'.pc = UndoStart(t, Resaves(t, s))
        BY <1>2, <4>1 DEF TurnsRound
      <4>3. Resaves(t, s) \in BOOLEAN
        BY DEF Resaves
      <4> QED BY <1>3, <1>5, <4>1, <4>2, <4>3, UndoStarts
    <3>2. s = "save" => prefs' = txn.oldPrefs \/ SaveStays
      BY <1>5, <2>1 DEF SaveStays
    <3> QED BY <1>3, <1>5, <3>1, <3>2 DEF Stored, Unsaving
  <2> QED BY <2>2, <2>3
<1>6. CASE txn.op \in {"enable", "disable"}
  <2>1. prefs = txn.oldPrefs
    BY <1>1, <1>6 DEF StoreInv, Stored
  <2>2. CASE s = "switch"
    <3>1. ~txn'.undo
      BY <1>2, <1>3, <1>6, <2>2 DEF TurnsRound, Undoes
    <3> QED BY <1>3, <1>6, <2>1, <2>2, <3>1 DEF Stored, Unsaving
  <2>3. CASE s # "switch"
    <3>1. txn'.undo /\ txn'.pc \in AccountSteps /\ (s = "save" => txn'.resave)
      <4>1. Undoes(t, s, fault) /\ (s = "save" => Resaves(t, s)) /\ Resaves(t, s) \in BOOLEAN
        BY <1>3, <1>6, <2>3 DEF Undoes, Resaves
      <4>2. txn'.undo /\ txn'.pc = UndoStart(t, Resaves(t, s)) /\ txn'.resave = Resaves(t, s)
        BY <1>2, <4>1 DEF TurnsRound
      <4> QED BY <1>3, <1>6, <4>1, <4>2, UndoStarts DEF TimeOperations, AccountSteps
    <3> QED BY <1>3, <1>6, <2>1, <3>1 DEF Stored, Unsaving
  <2> QED BY <2>2, <2>3
<1>7. CASE txn.op \in Unsaving
  BY <1>3, <1>4, <1>7 DEF Stored, Unsaving
<1> QED BY <1>1, <1>5, <1>6, <1>7 DEF AllOperations, Unsaving

LEMMA WriteFailsStore ==
  ASSUME TypeOK, PlanOK, PlanOK', StoreInv,
         NEW s \in WriteSteps, NEW fault \in Faults(s), WriteFails(s, fault)
  PROVE  Stored(txn)'
<1>1. /\ txn.pc = s /\ txn \in Transactions /\ ~Idle
  BY Writer DEF WriteFails
<1>2. CASE txn.undo
  <2>1. txn' = UndoFault(txn, s)
    BY <1>2 DEF WriteFails
  <2>2. txn'.undo /\ txn'.status = "rollbackFailed" /\ SameAims(txn, txn')
    BY <1>1, <1>2, <2>1, UndoFaultDoes DEF Carries
  <2>3. s # "save" => prefs' = prefs
    BY WriteStores
  <2>4. txn'.op \in Unsaving => prefs' = txn'.oldPrefs
    BY <1>1, <2>2, <2>3, UnsavingKeeps
  <2> QED BY <2>2, <2>4 DEF Stored
<1>3. CASE ~txn.undo
  <2>1. txn' = Aborted(txn, s, fault)
    BY <1>3 DEF WriteFails
  <2>2. SameAims(txn, txn)
    BY DEF SameAims
  <2>3. prefs' = prefs \/ (s = "save" /\ <<txn.op, s>> \in LateFaults)
    <3>1. s = "save" => fault = "early" \/ <<txn.op, s>> \in LateFaults
      BY DEF Faults, AccountSteps
    <3>2. fault = "early" \/ s # "save" => prefs' = prefs
      BY WriteStores DEF WriteFails, NoEffect
    <3> QED BY <3>1, <3>2
  <2> QED BY <1>1, <1>3, <2>1, <2>2, <2>3, AbortStore
<1> QED BY <1>2, <1>3

LEMMA TerminationStore ==
  ASSUME TypeOK, PlanOK, PlanOK', StoreInv,
         TerminateApps \/ \E closed \in SUBSET txn.kill : TerminationFails(closed)
  PROVE  Stored(txn)'
<1>1. /\ txn.pc = "kill" /\ txn \in Transactions /\ ~Idle /\ Route(txn) /\ prefs' = prefs
      /\ ~txn.undo
  BY Writer DEF TerminateApps, TerminationFails, NoEffect, Route
<1>2. CASE TerminateApps
  <2>1. SameAims(txn, txn') /\ txn'.undo = txn.undo /\ txn'.pc \in {"grant", "done"}
    BY <1>2, TerminateDoes DEF After, AfterKill
  <2>2. txn.op \notin {"enable", "disable"} /\ txn.pc # "save"
    BY <1>1 DEF Route
  <2> QED BY <1>1, <2>1, <2>2 DEF Stored, StoreInv, SameAims
<1>3. CASE \E closed \in SUBSET txn.kill : TerminationFails(closed)
  <2> DEFINE t == [txn EXCEPT !.closed = TRUE]
  <2>1. txn' = Aborted(t, "kill", "early")
    BY <1>3 DEF TerminationFails
  <2>2. t \in Transactions /\ SameAims(txn, t) /\ t.undo = txn.undo
    BY <1>1 DEF Transactions, SameAims
  <2> HIDE DEF t
  <2> QED BY <1>1, <2>1, <2>2, AbortStore
<1> QED BY <1>2, <1>3

\* At every point it is known which preferences are stored: what a rollback saves again.
THEOREM StoreInvariant == Spec => []StoreInv
<1>1. Init => StoreInv
  BY DEF Init, StoreInv, Idle, NoTransaction
<1>2. TransactionInv /\ PlanOK /\ PlanOK' /\ StoreInv /\ [Next]_vars => StoreInv'
  <2> SUFFICES ASSUME TransactionInv, PlanOK, PlanOK', StoreInv, [Next]_vars PROVE StoreInv'
    OBVIOUS
  <2>1. TypeOK
    BY DEF TransactionInv
  <2>2. CASE ReleaseLock \/ Crash
    BY <2>2 DEF ReleaseLock, Crash, StoreInv, Idle, NoTransaction
  <2>3. CASE Beside
    BY <2>3 DEF Beside, StoreInv, Stored, Idle
  <2>4. CASE Started
    BY <2>4 DEF Started, StoreInv, Stored, Keep, Aim, AllOperations
  <2>5. CASE Waited
    BY <2>5 DEF Waited, StoreInv, Stored, Keep
  <2> QED BY <2>1, <2>2, <2>3, <2>4, <2>5, StepCases, WriteStore, WriteFailsStore, TerminationStore
             DEF StoreInv
<1> QED BY <1>1, <1>2, TransactionInvariant, PlanInvariant, PTL DEF Spec

-----------------------------------------------------------------------------
(* What turning control on or off has undone: PartsInv is inductive. *)

\* A step that keeps the operation and what it has seen leave or change.
Remembers(t, u) == u.op = t.op /\ u.gone = t.gone /\ u.stale = t.stale

LEMMA AbortedRemembers ==
  ASSUME NEW t \in Transactions, NEW s, NEW fault
  PROVE  Remembers(t, Aborted(t, s, fault))
BY DEF Aborted, Conclude, Remembers, Transactions

\* Every part an undoing has passed is as before, unless its own undoing failed.
Undone(t) ==
  /\ t.pc \in {"save", "switch", "done"} => "account" \in t.lost \/ account = t.old
  /\ t.pc \in {"switch", "done"} => "preferences" \in t.lost \/ prefs = t.oldPrefs
  /\ t.pc = "done" /\ Toggled(t) => "extension" \in t.lost \/ switch = t.oldPrefs.enabled

PartsInv == txn.op \in {"enable", "disable"} /\ txn.undo => Undone(txn)

\* Past its last write, the undoing of a toggle has brought the record back.
LEMMA AccountUndone ==
  ASSUME NEW t \in Transactions, NEW a \in Accounts, Route(t), Match(a, t),
         t.op \in {"enable", "disable"}, t.undo, t.pc \in {"save", "switch", "done"}
  PROVE  a = t.old
<1>1. t.old \in Accounts /\ ~t.closed
  BY DEF Transactions, Route
<1>2. ~DailyDue(t) /\ ~GrantDue(t) /\ ~LimitDue(t) /\ ~ScheduleDue(t) /\ ~FilterDue(t)
  BY DEF DailyDue, GrantDue, LimitDue, ScheduleDue, FilterDue, Unstarted, Granting,
         AccountSteps, TimeOperations
<1>3. /\ a.limit = t.old.limit /\ a.daily = t.old.daily /\ a.schedule = t.old.schedule
      /\ a.grant = t.old.grant /\ a.filter = t.old.filter
  BY <1>1, <1>2, GoalAll DEF Match
<1> QED BY <1>1, <1>3, SameAccount

LEMMA WriteUndone ==
  ASSUME TypeOK, TypeOK', PlanOK, PlanOK', RecordInv', StoreInv', PartsInv,
         NEW s \in WriteSteps, Write(s), txn.op \in {"enable", "disable"}, txn.undo
  PROVE  Undone(txn)'
<1>1. /\ txn.pc = s /\ txn \in Transactions /\ ~Idle /\ Route(txn)
      /\ txn' = Advance(txn, After(txn, s)) /\ Effect(s)
  BY Writer DEF Write
<1>2. /\ Carries(txn, txn') /\ txn'.pc = After(txn, s) /\ txn'.lost = txn.lost
      /\ txn'.status = txn.status /\ txn.status \in {"failed", "rollbackFailed"}
  BY <1>1, AdvanceDoes DEF Advance, Transactions, Route
<1>3. /\ txn'.op = txn.op /\ txn'.undo /\ txn'.old = txn.old /\ txn'.oldPrefs = txn.oldPrefs
      /\ Toggled(txn') = Toggled(txn)
  BY <1>2, AimsDecide DEF Carries, SameAims
<1>4. s \in AccountSteps \cup {"save", "switch"}
  BY <1>1 DEF Route, AccountSteps, WriteSteps
<1>5. /\ s \notin AccountSteps => account' = account
      /\ prefs' = IF s = "save" THEN txn.oldPrefs ELSE prefs
      /\ switch' = IF s = "switch" THEN txn.oldPrefs.enabled ELSE switch
  BY <1>1, <1>4 DEF Effect, Written, AccountSteps
<1>6. /\ s \in AccountSteps => txn'.pc \in AccountSteps \cup {"save"}
                                \/ txn'.pc = IF Toggled(txn) THEN "switch" ELSE "done"
      /\ s = "save" => txn'.pc = IF Toggled(txn) THEN "switch" ELSE "done"
      /\ s = "switch" => txn'.pc = "done"
  <2>1. s = "switch" => txn'.pc = "done"
    BY <1>1, <1>2 DEF After, AfterSwitch
  <2> QED BY <1>1, <1>2, <1>4, <2>1, AfterToggle DEF AccountSteps
<1>7. CASE s \in AccountSteps
  <2>1. txn.status = "failed"
    BY <1>1, <1>2, <1>7 DEF Route, AccountSteps
  <2>2. SUFFICES ASSUME txn'.pc \in {"save", "switch", "done"} PROVE Undone(txn)'
    BY DEF Undone
  <2>3. ~Idle'
    BY <2>2 DEF Idle
  <2>4. account' = txn'.old
    <3>1. txn' \in Transactions /\ account' \in Accounts /\ Route(txn')
      BY <2>3 DEF TypeOK, PlanOK
    <3>2. Match(account', txn')
      BY <1>2, <1>3, <2>1, <2>3 DEF RecordInv, Writing
    <3> QED BY <1>3, <2>2, <3>1, <3>2, AccountUndone
  <2>5. txn'.pc \in {"switch", "done"} => prefs' = txn'.oldPrefs
    BY <1>2, <1>3, <2>1, <2>3 DEF StoreInv, Stored, AccountSteps
  <2>6. ~(txn'.pc = "done" /\ Toggled(txn'))
    BY <1>3, <1>6, <1>7 DEF AccountSteps
  <2> QED BY <2>4, <2>5, <2>6 DEF Undone
<1>8. CASE s = "save"
  BY <1>1, <1>2, <1>3, <1>5, <1>6, <1>8 DEF PartsInv, Undone, AccountSteps
<1>9. CASE s = "switch"
  BY <1>1, <1>2, <1>3, <1>5, <1>6, <1>9 DEF PartsInv, Undone, AccountSteps
<1> QED BY <1>4, <1>7, <1>8, <1>9

LEMMA FaultUndone ==
  ASSUME TypeOK, PlanOK, StoreInv, PartsInv, txn.op \in {"enable", "disable"}, txn.undo,
         NEW s \in WriteSteps, NEW fault \in Faults(s), WriteFails(s, fault)
  PROVE  Undone(txn)'
<1>1. /\ txn.pc = s /\ txn \in Transactions /\ ~Idle /\ Route(txn)
      /\ txn' = UndoFault(txn, s) /\ (Effect(s) \/ NoEffect)
  BY Writer DEF WriteFails
<1>2. /\ Carries(txn, txn')
      /\ txn'.pc = IF s = "switch" THEN "done"
                   ELSE IF txn.resave /\ s # "save" THEN "save" ELSE Concluding(txn)
  BY <1>1, UndoFaultDoes
<1>3. txn'.lost = txn.lost \cup {PartOf(s)}
  BY <1>1 DEF UndoFault, Transactions
<1>4. /\ txn'.old = txn.old /\ txn'.oldPrefs = txn.oldPrefs /\ Toggled(txn') = Toggled(txn)
  BY <1>2, AimsDecide DEF Carries, SameAims
<1>5. s \in AccountSteps \cup {"save", "switch"} /\ "save" \notin AccountSteps /\ "switch" \notin AccountSteps
  BY <1>1 DEF Route, AccountSteps, WriteSteps
<1>6. /\ s \notin AccountSteps => account' = account
      /\ s # "save" => prefs' = prefs
  BY <1>1, <1>5 DEF Effect, NoEffect, Written, AccountSteps
<1>7. s # "switch" => ~(txn'.pc = "done" /\ Toggled(txn))
  BY <1>2 DEF Concluding
<1>8. CASE s \in AccountSteps
  <2>1. "account" \in txn'.lost
    BY <1>3, <1>8 DEF PartOf, AccountSteps
  <2>2. txn'.pc \in {"switch", "done"} => prefs' = txn'.oldPrefs
    <3>1. txn.status = "failed"
      BY <1>1, <1>8 DEF Route, AccountSteps
    <3>2. txn'.pc \in {"switch", "done"} => ~txn.resave
      BY <1>2, <1>5, <1>8
    <3> QED BY <1>1, <1>4, <1>5, <1>6, <1>8, <3>1, <3>2 DEF StoreInv, Stored
  <2> QED BY <1>4, <1>5, <1>7, <1>8, <2>1, <2>2 DEF Undone
<1>9. CASE s = "save"
  <2>1. "preferences" \in txn'.lost
    BY <1>3, <1>9 DEF PartOf
  <2>2. "account" \in txn'.lost \/ account' = txn'.old
    BY <1>1, <1>3, <1>4, <1>5, <1>6, <1>9 DEF PartsInv, Undone
  <2> QED BY <1>4, <1>7, <1>9, <2>1, <2>2 DEF Undone
<1>10. CASE s = "switch"
  <2>1. "extension" \in txn'.lost
    BY <1>3, <1>10 DEF PartOf
  <2>2. /\ "account" \in txn'.lost \/ account' = txn'.old
        /\ "preferences" \in txn'.lost \/ prefs' = txn'.oldPrefs
    BY <1>1, <1>3, <1>4, <1>5, <1>6, <1>10 DEF PartsInv, Undone
  <2> QED BY <2>1, <2>2 DEF Undone
<1> QED BY <1>5, <1>8, <1>9, <1>10

\* SetParentControl's three undoings do not keep one another from running: past
\* each of them its part is as before, or it is the one that failed.
THEOREM PartsInvariant == Spec => []PartsInv
<1>1. Init => PartsInv
  BY DEF Init, PartsInv, NoTransaction
<1>2. TransactionInv /\ TransactionInv' /\ PlanOK /\ PlanOK' /\ RecordInv' /\ StoreInv /\ StoreInv'
        /\ PartsInv /\ [Next]_vars => PartsInv'
  <2> SUFFICES ASSUME TransactionInv, TransactionInv', PlanOK, PlanOK', RecordInv', StoreInv, StoreInv',
                      PartsInv, [Next]_vars,
                      txn'.op \in {"enable", "disable"}, txn'.undo
               PROVE  Undone(txn)'
    BY DEF PartsInv
  <2>1. TypeOK /\ TypeOK' /\ txn \in Transactions
    BY DEF TransactionInv, TypeOK
  <2>2. ASSUME NEW s \in WriteSteps, Write(s) PROVE Undone(txn)'
    <3>1. txn.op = txn'.op /\ txn.undo
      BY <2>1, <2>2, AdvanceDoes DEF Write, Carries, SameAims
    <3> QED BY <2>1, <2>2, <3>1, WriteUndone
  <2>3. ASSUME NEW s \in WriteSteps, NEW fault \in Faults(s), WriteFails(s, fault) PROVE Undone(txn)'
    <3>1. CASE txn.undo
      <4>1. txn.op = txn'.op
        BY <2>1, <2>3, <3>1, UndoFaultDoes DEF WriteFails, Carries, SameAims
      <4> QED BY <2>1, <2>3, <3>1, <4>1, FaultUndone
    <3>2. CASE ~txn.undo
      <4>1. TurnsRound(txn, s, fault, txn')
        BY <2>1, <2>3, <3>2, AbortedDoes DEF WriteFails
      <4>2. Resaves(txn, s) \in BOOLEAN /\ txn'.op = txn.op
        BY <4>1 DEF Resaves, TurnsRound, SameAims
      <4>3. txn'.pc \in {"full", "daily"}
        BY <2>1, <3>2, <4>1, <4>2, UndoStarts DEF TurnsRound, TimeOperations
      <4> QED BY <4>3 DEF Undone
    <3> QED BY <3>1, <3>2
  <2>4. ASSUME TerminateApps \/ \E closed \in SUBSET txn.kill : TerminationFails(closed) PROVE FALSE
    <3>1. txn.pc = "kill" /\ txn.op \notin {"enable", "disable"}
      <4>1. txn.pc = "kill"
        BY <2>4 DEF TerminateApps, TerminationFails
      <4> QED BY <2>1, <4>1, Writer DEF Route
    <3>2. txn'.op = txn.op
      <4>1. CASE TerminateApps
        BY <2>1, <4>1, TerminateDoes DEF SameAims
      <4>2. CASE \E closed \in SUBSET txn.kill : TerminationFails(closed)
        <5> DEFINE t == [txn EXCEPT !.closed = TRUE]
        <5>1. txn' = Aborted(t, "kill", "early")
          BY <4>2 DEF TerminationFails
        <5>2. t \in Transactions /\ t.op = txn.op
          BY <2>1 DEF Transactions
        <5> HIDE DEF t
        <5> QED BY <5>1, <5>2, AbortedRemembers DEF Remembers
      <4> QED BY <2>4, <4>1, <4>2
    <3> QED BY <3>1, <3>2
  <2>5. CASE Started \/ Waited \/ ReleaseLock \/ Crash
    BY <2>5 DEF Started, Waited, ReleaseLock, Crash, NoTransaction
  <2>6. CASE Beside
    BY <2>6 DEF Beside, PartsInv, Undone, Idle, Toggled
  <2> QED BY <2>2, <2>3, <2>4, <2>5, <2>6, StepCases
<1> QED BY <1>1, <1>2, TransactionInvariant, PlanInvariant, RecordInvariant, StoreInvariant, PTL DEF Spec

-----------------------------------------------------------------------------
(* What a transaction reports and what it leaves. *)

\* The two late failures that are reported as ordinary ones and not undone.
Uncaught ==
  \/ txn.op = "setPreferences" /\ SaveStays
  \/ txn.op = "prepare" /\ FilterStays

LEMMA EndsWhole ==
  ASSUME TypeOK, PlanOK, RecordInv, StoreInv, PartsInv
  PROVE  AllOrNothing \/ Uncaught
<1> DEFINE left == [txn.old EXCEPT !.filter = IF txn.closed THEN txn.want.filter ELSE @]
           kept == IF txn.closed /\ txn.op = "setPreferences" THEN txn.wantPrefs ELSE txn.oldPrefs
<1>0. txn.pc = "done" /\ txn.status = "rollbackFailed" => AllOrNothing
  <2>1. txn.pc = "done" /\ txn.status = "rollbackFailed" => txn.undo
    BY DEF PlanOK, Route, Idle
  <2> QED BY <2>1 DEF AllOrNothing, PartsInv, Undone
<1>1. SUFFICES ASSUME txn.pc = "done", ~Uncaught, txn.status # "rollbackFailed"
               PROVE  IF txn.status = "applied" THEN account = txn.want /\ prefs = txn.wantPrefs
                      ELSE account = left /\ prefs = kept
  BY <1>0 DEF AllOrNothing
<1>2. /\ txn \in Transactions /\ ~Idle /\ Aim(txn) /\ Route(txn) /\ Stored(txn)
      /\ account \in Accounts /\ txn.old \in Accounts /\ txn.want \in Accounts
      /\ txn.op \in AllOperations
  BY <1>1 DEF TypeOK, Transactions, Idle, PlanOK, StoreInv, Aim
<1>3. CASE txn.status = "applied"
  <2>1. ~txn.undo
    BY <1>2, <1>3 DEF Route
  <2>2. Match(account, txn)
    BY <1>2, <1>3 DEF RecordInv, Writing
  <2>3. account = txn.want
    BY <1>1, <1>2, <2>1, <2>2, EndMatch, GoalAll
  <2>4. prefs = txn.wantPrefs
    BY <1>1, <1>2, <1>3, <2>1 DEF Stored, Aim, Unsaving, AllOperations
  <2> QED BY <1>3, <2>3, <2>4
<1>4. CASE txn.status # "applied" /\ txn.undo
  <2>1. Match(account, txn)
    BY <1>1, <1>2, <1>4 DEF RecordInv, Writing
  <2>2. account = Goal(txn)
    BY <1>1, <1>2, <2>1, EndMatch
  <2>3. account = left
    BY <1>2, <1>4, <2>2 DEF Goal, RollbackFilter, Accounts
  <2>4. ~(txn.closed /\ txn.op = "setPreferences")
    BY <1>2, <1>4 DEF Route
  <2>5. prefs = txn.oldPrefs
    BY <1>1, <1>2, <1>4 DEF Stored, Unsaving, AllOperations, Uncaught, AccountSteps
  <2> QED BY <1>4, <2>3, <2>4, <2>5
<1>5. CASE txn.status # "applied" /\ ~txn.undo
  <2>1. Given(account, txn)
    BY <1>2 DEF RecordInv
  <2>2. CASE txn.closed
    <3>1. txn.op \in {"setPreferences", "prepare"} /\ account = txn.want
      BY <1>1, <1>2, <1>5, <2>1, <2>2 DEF Route, Given
    <3>2. Tightens(txn)
      BY <1>2, <3>1 DEF Aim
    <3>3. account = left
      <4>1. left \in Accounts
        BY <1>2 DEF Accounts
      <4>2. /\ account.limit = left.limit /\ account.daily = left.daily
            /\ account.schedule = left.schedule /\ account.filter = left.filter
            /\ account.grant = left.grant
        BY <1>2, <2>2, <3>1, <3>2 DEF Tightens, Accounts
      <4> HIDE DEF left
      <4> QED BY <1>2, <4>1, <4>2, SameAccount
    <3>4. prefs = kept
      BY <1>1, <1>2, <1>5, <2>2, <3>1 DEF Stored, Unsaving
    <3> QED BY <1>5, <3>3, <3>4
  <2>3. CASE ~txn.closed
    <3>1. account = txn.old /\ txn.op # "setPreferences"
      BY <1>1, <1>5, <2>1, <2>3 DEF Given, Uncaught
    <3>2. account = left
      BY <1>2, <2>3, <3>1 DEF Accounts
    <3>3. prefs = txn.oldPrefs
      BY <1>1, <1>2, <1>5, <3>1 DEF Stored, Unsaving, AllOperations
    <3> QED BY <1>5, <2>3, <3>2, <3>3
  <2> QED BY <2>2, <2>3
<1> QED BY <1>3, <1>4, <1>5

\* Whatever fails, and wherever: a transaction that reports success has made every
\* change, and one that reports an ordinary failure none, up to what it must keep
\* once applications may have been closed; a toggle that reports a failed rollback
\* has undone every part whose own undoing did not fail.  The exceptions are the two failures
\* that SaveRollsBack and SessionRollsBack are violated by.
THEOREM Atomicity == Spec => [](AllOrNothing \/ Uncaught)
<1>1. TransactionInv => TypeOK
  BY DEF TransactionInv
<1> QED BY <1>1, EndsWhole, TransactionInvariant, PlanInvariant, RecordInvariant, StoreInvariant,
           PartsInvariant, PTL

\* Between transactions nothing is left of the last one.
IdleInv == Idle => txn = NoTransaction

LEMMA NeverIdle ==
  ASSUME TypeOK, PlanOK,
         \/ \E s \in WriteSteps : Write(s)
         \/ \E s \in WriteSteps : \E fault \in Faults(s) : WriteFails(s, fault)
         \/ TerminateApps
         \/ \E closed \in SUBSET txn.kill : TerminationFails(closed)
  PROVE  ~Idle'
<1>1. \A t, s : After(t, s) # "idle"
  BY DEF After, AfterDaily, AfterGrant, AfterLimit, AfterSchedule, AfterFilter, AfterKill,
         AfterSave, AfterSwitch, AfterFinish, Concluding, PrepareStart
<1>2. \A t, resave : UndoStart(t, resave) # "idle"
  BY DEF UndoStart
<1>3. txn \in Transactions
  BY DEF TypeOK
<1>4. ASSUME NEW t \in Transactions, NEW s, NEW fault, txn' = Aborted(t, s, fault)
      PROVE  txn'.pc # "idle"
  <2>1. TurnsRound(t, s, fault, txn')
    BY <1>4, AbortedDoes
  <2> QED BY <1>2, <2>1 DEF TurnsRound
<1>5. ASSUME NEW s \in WriteSteps, Write(s)
      PROVE  txn'.pc # "idle"
  BY <1>1, <1>3, <1>5, AdvanceDoes DEF Write
<1>6. ASSUME NEW s \in WriteSteps, NEW fault, WriteFails(s, fault)
      PROVE  txn'.pc # "idle"
  <2>1. CASE txn' = UndoFault(txn, s)
    BY <1>3, <2>1, UndoFaultDoes DEF Concluding
  <2> QED BY <1>3, <1>4, <1>6, <2>1 DEF WriteFails
<1>7. ASSUME TerminateApps PROVE txn'.pc # "idle"
  BY <1>1, <1>7, TerminateDoes
<1>8. ASSUME NEW closed, TerminationFails(closed) PROVE txn'.pc # "idle"
  <2>1. [txn EXCEPT !.closed = TRUE] \in Transactions
    BY <1>3 DEF Transactions
  <2> QED BY <1>4, <1>8, <2>1 DEF TerminationFails
<1> QED BY <1>5, <1>6, <1>7, <1>8 DEF Idle

\* A transaction ends with nothing of it left in the lock holder's state.
THEOREM IdleInvariant == Spec => []IdleInv
<1>1. Init => IdleInv
  BY DEF Init, IdleInv
<1>2. TransactionInv /\ PlanOK /\ IdleInv /\ [Next]_vars => IdleInv'
  <2> SUFFICES ASSUME TransactionInv, PlanOK, IdleInv, [Next]_vars PROVE IdleInv'
    OBVIOUS
  <2>1. TypeOK
    BY DEF TransactionInv
  <2>2. CASE ReleaseLock \/ Crash
    BY <2>2 DEF ReleaseLock, Crash, IdleInv
  <2>3. CASE Beside
    BY <2>3 DEF Beside, IdleInv, Idle
  <2>4. CASE Started
    <3>1. ~Idle'
      BY <2>4 DEF Started, Idle
    <3> QED BY <3>1 DEF IdleInv
  <2>5. CASE Waited
    <3>1. ~Idle'
      BY <2>5 DEF Waited, Idle, WaitSteps
    <3> QED BY <3>1 DEF IdleInv
  <2> QED BY <2>1, <2>2, <2>3, <2>4, <2>5, StepCases, NeverIdle DEF IdleInv
<1> QED BY <1>1, <1>2, TransactionInvariant, PlanInvariant, PTL DEF Spec

\* An approval that writes, or has written, knows of no departure and no change.
LookedInv ==
  txn.op = "approve" /\ (txn.pc \in WriteSteps \cup {"kill"} \/ txn.status = "applied") =>
    ~txn.gone /\ ~txn.stale

\* Only what a look after the last wait has found in place goes on to write.
LEMMA WaitedLooked ==
  ASSUME TransactionInv, PlanOK,
         \/ CalculateGrant \/ AdmitEffect
         \/ \E outcome \in Decisions : AuthorizationReturns(outcome)
         \/ CallerLeaves \/ \E stale \in BOOLEAN : SelectionChanges(stale)
  PROVE  LookedInv'
<1>1. txn \in Transactions /\ txn.pc \in WaitSteps
  BY DEF TransactionInv, TypeOK, CalculateGrant, AdmitEffect, AuthorizationReturns,
         CallerLeaves, SelectionChanges, WaitSteps
<1>2. txn.op = "approve" /\ txn.status = "running"
  BY <1>1, Waiting
<1>3. WaitSteps \cap (WriteSteps \cup {"kill", "done"}) = {} /\ "done" \notin WriteSteps
  BY DEF WaitSteps, WriteSteps, AccountSteps
<1>4. \A status : status # "applied" /\ txn' = Conclude(txn, status) => LookedInv'
  BY <1>1, <1>3 DEF Conclude, LookedInv, Transactions
<1>5. \A grant : LET u == Approved(txn, grant)
                 IN  u = Conclude(txn, "failed") \/ (u.pc = "admit" /\ u.status = "running")
  BY <1>1, <1>2 DEF Approved, Transactions
<1>6. \A u : u.pc \in WaitSteps /\ u.status = "running" /\ txn' = u => LookedInv'
  BY <1>3 DEF LookedInv
<1>7. \A u : txn' = Rechecked(txn, u) => \/ txn' = Conclude(txn, "cancelled")
                                         \/ txn' = Conclude(txn, "failed")
                                         \/ txn' = u /\ ~txn.gone /\ ~txn.stale
  BY DEF Rechecked
<1>8. CASE \E outcome \in Decisions : AuthorizationReturns(outcome)
  <2>1. PICK outcome \in Decisions : AuthorizationReturns(outcome)
    BY <1>8
  <2>2. CASE outcome # "approved"
    BY <1>4, <2>1, <2>2 DEF AuthorizationReturns, Decisions
  <2>3. CASE outcome = "approved"
    <3>1. [txn EXCEPT !.pc = "calculate"].pc \in WaitSteps
          /\ [txn EXCEPT !.pc = "calculate"].status = "running"
      BY <1>1, <1>2 DEF Transactions, WaitSteps
    <3>2. \/ txn' = Conclude(txn, "cancelled") \/ txn' = Conclude(txn, "failed")
          \/ txn' = Approved(txn, Midnight) \/ txn' = [txn EXCEPT !.pc = "calculate"]
      BY <1>7, <2>1, <2>3 DEF AuthorizationReturns
    <3> QED BY <1>4, <1>5, <1>6, <3>1, <3>2 DEF WaitSteps
  <2> QED BY <2>2, <2>3
<1>9. CASE CalculateGrant
  <2>1. \/ txn' = Conclude(txn, "cancelled") \/ txn' = Conclude(txn, "failed")
        \/ \E grant : txn' = Approved(txn, grant)
    BY <1>7, <1>9 DEF CalculateGrant
  <2> QED BY <1>4, <1>5, <1>6, <2>1 DEF WaitSteps
<1>10. CASE AdmitEffect
  <2>1. PICK u : /\ u = [txn EXCEPT !.pc = IF InitializesTime(txn) THEN PrepareStart(txn.want.limit)
                                           ELSE "filter"]
                 /\ \/ txn' = Rechecked(txn, u)
                    \/ \E status \in {"failed", "cancelled"} : txn' = Conclude(txn, status)
    BY <1>10 DEF AdmitEffect
  <2>2. u.gone = txn.gone /\ u.stale = txn.stale
    BY <1>1, <2>1 DEF Transactions
  <2>3. txn' = u /\ ~txn.gone /\ ~txn.stale => LookedInv'
    BY <2>2 DEF LookedInv
  <2> QED BY <1>4, <1>7, <2>1, <2>3
<1>11. CASE CallerLeaves \/ \E stale \in BOOLEAN : SelectionChanges(stale)
  <2>1. txn'.pc = txn.pc /\ txn'.status = txn.status
    BY <1>1, <1>11 DEF CallerLeaves, SelectionChanges, Transactions
  <2> QED BY <1>1, <1>2, <1>6, <2>1
<1> QED BY <1>8, <1>9, <1>10, <1>11

LEMMA LookedNext ==
  ASSUME TransactionInv, PlanOK, LookedInv, [Next]_vars
  PROVE  LookedInv'
<1>1. txn \in Transactions
  BY DEF TransactionInv, TypeOK
<1>2. CASE Begin
  <2>1. txn'.status = "running" /\ (txn'.op = "approve" => txn'.pc = "authorize")
    BY <1>2, BeginDoes DEF TransactionInv, Started
  <2> QED BY <2>1 DEF LookedInv, WriteSteps, AccountSteps
<1>3. ASSUME txn.pc \in WriteSteps \cup {"kill"}, Remembers(txn, txn') PROVE LookedInv'
  BY <1>3 DEF LookedInv, Remembers
<1>4. ASSUME NEW s \in WriteSteps, Write(s) PROVE LookedInv'
  <2>1. Remembers(txn, txn')
    BY <1>1, <1>4 DEF Write, Advance, Remembers, Transactions
  <2> QED BY <1>3, <1>4, <2>1 DEF Write
<1>5. ASSUME NEW s \in WriteSteps, NEW fault \in Faults(s), WriteFails(s, fault) PROVE LookedInv'
  <2>1. Remembers(txn, UndoFault(txn, s))
    BY <1>1 DEF UndoFault, Remembers, Transactions
  <2>2. Remembers(txn, txn')
    BY <1>1, <1>5, <2>1, AbortedRemembers DEF WriteFails
  <2> QED BY <1>3, <1>5, <2>2 DEF WriteFails
<1>6. CASE TerminateApps
  <2>1. Remembers(txn, txn')
    BY <1>1, <1>6 DEF TerminateApps, Advance, Remembers, Transactions
  <2> QED BY <1>3, <1>6, <2>1 DEF TerminateApps
<1>7. ASSUME NEW closed \in SUBSET txn.kill, TerminationFails(closed) PROVE LookedInv'
  <2> DEFINE t == [txn EXCEPT !.closed = TRUE]
  <2>1. txn' = Aborted(t, "kill", "early")
    BY <1>7 DEF TerminationFails
  <2>2. t \in Transactions /\ Remembers(txn, t)
    BY <1>1 DEF Transactions, Remembers
  <2> HIDE DEF t
  <2>3. Remembers(t, txn')
    BY <2>1, <2>2, AbortedRemembers
  <2>4. Remembers(txn, txn')
    BY <2>2, <2>3 DEF Remembers
  <2> QED BY <1>3, <1>7, <2>4 DEF TerminationFails
<1>8. CASE ReleaseLock \/ Crash
  BY <1>8 DEF ReleaseLock, Crash, NoTransaction, LookedInv
<1>9. CASE Tick \/ RecoverChildExtension \/ (\E a \in Apps : LaunchApp(a) \/ QuitApp(a)) \/ UNCHANGED vars
  BY <1>9 DEF Tick, RecoverChildExtension, LaunchApp, QuitApp, LookedInv, vars
<1> QED BY <1>2, <1>4, <1>5, <1>6, <1>7, <1>8, <1>9, WaitedLooked DEF Next, HolderStep, Environment

\* No approval writes for a caller who has left or over a selection that has
\* changed, and no approved addition is lost, however the clock, the allowance and
\* the current grant lie, and whatever fails on the way.
THEOREM Honoured == Spec => []ApprovalHonoured
<1>1. Init => LookedInv
  BY DEF Init, NoTransaction, LookedInv
<1>2. Spec => []LookedInv
  BY <1>1, LookedNext, TransactionInvariant, PlanInvariant, PTL DEF Spec
<1>3. TransactionInv /\ PlanOK /\ IdleInv /\ RecordInv /\ LookedInv => ApprovalHonoured
  <2> SUFFICES ASSUME TransactionInv, PlanOK, IdleInv, RecordInv,
                      txn.op = "approve", txn.status = "applied", txn.addition # 0
               PROVE  account.grant >= txn.old.grant + txn.addition
    BY DEF ApprovalHonoured, LookedInv
  <2>1. /\ txn \in Transactions /\ ~Idle /\ Aim(txn) /\ Route(txn) /\ account \in Accounts
    BY DEF TransactionInv, TypeOK, PlanOK, IdleInv, NoTransaction
  <2>2. ~txn.undo /\ txn.pc = "done"
    BY <2>1 DEF Route
  <2>3. account = txn.want
    BY <2>1, <2>2, EndMatch, GoalAll DEF RecordInv, Writing
  <2>4. Extends(txn)
    BY <2>1 DEF Aim
  <2> QED BY <2>3, <2>4 DEF Extends
<1> QED BY <1>2, <1>3, TransactionInvariant, PlanInvariant, IdleInvariant, RecordInvariant, PTL

-----------------------------------------------------------------------------
(* A grant is written over a clean session: CleanInv is inductive. *)

LEMMA CleanNext ==
  ASSUME TransactionInv, PlanOK, PlanOK', IdleInv, RecordInv, CleanInv, [Next]_vars
  PROVE  CleanInv'
<1> DEFINE clean == {"grant", "limit", "schedule", "activate"}
           Position(t) == Granting(t) /\ ~t.soft /\ (t.pc \in clean \/ t.status = "applied")
<1>1. TypeOK
  BY DEF TransactionInv
<1>2. SUFFICES ASSUME Position(txn') PROVE running' \cap txn'.want.filter = {}
  BY DEF CleanInv
<1>3. ASSUME NEW s \in WriteSteps \cup {"kill"}, txn.pc = s
      PROVE  /\ txn \in Transactions /\ ~Idle /\ Route(txn)
             /\ txn.op = "approve" => Extends(txn)
  BY <1>1, <1>3, Writer
<1>4. ASSUME NEW s \in WriteSteps, Write(s)
      PROVE  running' \cap txn'.want.filter = {}
  <2>1. /\ txn.pc = s /\ txn \in Transactions /\ Route(txn) /\ running' = running
        /\ txn.op = "approve" => Extends(txn)
    BY <1>3, <1>4 DEF Write
  <2>2. Carries(txn, txn') /\ txn'.pc = After(txn, s)
        /\ txn'.status = IF After(txn, s) = "done" /\ txn.status = "running" THEN "applied" ELSE txn.status
    BY <1>4, <2>1, AdvanceDoes DEF Write
  <2>3. /\ txn.op = "approve" /\ ~txn.undo /\ ~txn.soft /\ txn'.want = txn.want
    BY <1>2, <2>2 DEF Granting, Carries, SameAims
  <2>4. txn.status = "running" /\ s \notin WaitSteps
    BY <2>1, <2>3 DEF Route, WriteSteps, AccountSteps, WaitSteps
  <2>5. CASE s \in clean
    BY <2>1, <2>3, <2>5 DEF CleanInv, Granting
  <2>6. CASE s \notin clean
    <3>1. s = "filter" /\ txn.kill = {}
      BY <1>2, <2>1, <2>2, <2>3, <2>4, <2>6, AfterApprove DEF Route, WriteSteps, AccountSteps
    <3>2. txn.want.filter = {}
      BY <2>1, <2>3, <3>1 DEF Extends, Strict, Transactions
    <3> QED BY <2>3, <3>2
  <2> QED BY <2>5, <2>6
<1>5. ASSUME NEW s \in WriteSteps, NEW fault \in Faults(s), WriteFails(s, fault)
      PROVE  FALSE
  <2>1. txn.pc = s /\ txn \in Transactions /\ Route(txn)
    BY <1>3, <1>5 DEF WriteFails
  <2>2. CASE txn.undo
    BY <1>2, <1>5, <2>1, <2>2, UndoFaultDoes DEF WriteFails, Carries, Granting
  <2>3. CASE ~txn.undo
    <3>1. TurnsRound(txn, s, fault, txn')
      BY <1>5, <2>1, <2>3, AbortedDoes DEF WriteFails
    <3>2. txn.op = "approve"
      BY <1>2, <3>1 DEF Granting, TurnsRound, SameAims
    <3> QED BY <1>2, <3>1, <3>2 DEF Granting, TurnsRound, Undoes
  <2> QED BY <2>2, <2>3
<1>6. ASSUME TerminateApps
      PROVE  running' \cap txn'.want.filter = {}
  <2>1. txn.pc = "kill" /\ SameAims(txn, txn') /\ running' = running \ txn.kill
    BY <1>1, <1>6, TerminateDoes DEF TerminateApps
  <2>2. txn.op = "approve" /\ ~txn.soft /\ txn'.want = txn.want
    BY <1>2, <2>1 DEF Granting, SameAims
  <2>3. txn.want.filter = txn.kill
    BY <1>3, <2>1, <2>2 DEF Extends, Strict, Transactions
  <2> QED BY <2>1, <2>2, <2>3
<1>7. ASSUME NEW closed \in SUBSET txn.kill, TerminationFails(closed)
      PROVE  FALSE
  <2> DEFINE t == [txn EXCEPT !.closed = TRUE]
  <2>1. t \in Transactions /\ SameAims(txn, t)
    BY <1>1 DEF TypeOK, Transactions, SameAims
  <2>2. txn' = Aborted(t, "kill", "early")
    BY <1>7 DEF TerminationFails
  <2> HIDE DEF t
  <2>3. TurnsRound(t, "kill", "early", txn')
    BY <2>1, <2>2, AbortedDoes
  <2>4. t.op = "approve"
    BY <1>2, <2>3 DEF Granting, TurnsRound, SameAims
  <2> QED BY <1>2, <2>3, <2>4 DEF Granting, TurnsRound, Undoes
<1>8. CASE Started
  BY <1>2, <1>8 DEF Started, Granting
<1>9. CASE Waited
  BY <1>2, <1>9 DEF Waited, Granting, WaitSteps
<1>10. CASE ReleaseLock \/ Crash
  BY <1>2, <1>10 DEF ReleaseLock, Crash, NoTransaction, Granting
<1>11. CASE Beside
  <2>1. txn' = txn /\ running' \subseteq running \cup (Apps \ account.filter)
    BY <1>11 DEF Beside
  <2>2. running \cap txn.want.filter = {} /\ txn \in Transactions /\ ~Idle /\ ~txn.undo
    BY <1>1, <1>2, <2>1 DEF CleanInv, TypeOK, IdleInv, NoTransaction, Granting
  <2>3. Route(txn)
    BY <2>2 DEF PlanOK
  <2>4. Writing(txn) /\ ~FilterDue(txn)
    BY <1>2, <2>1, <2>3 DEF Writing, FilterDue, Granting, Route, WriteSteps, AccountSteps
  <2>5. account.filter = txn.want.filter
    BY <2>2, <2>4, GoalAll DEF RecordInv, Match
  <2> QED BY <2>1, <2>2, <2>5
<1> QED BY <1>4, <1>5, <1>6, <1>7, <1>8, <1>9, <1>10, <1>11, StepCases

\* Once its cleanup is over, an approval keeps what it blocks from running.
THEOREM CleanInvariant == Spec => []CleanInv
<1>1. Init => CleanInv
  BY DEF Init, CleanInv, Granting, NoTransaction
<1> QED BY <1>1, CleanNext, TransactionInvariant, PlanInvariant, IdleInvariant, RecordInvariant, PTL DEF Spec

\* A grant under which soft blocks do not rest is written after the strict filter
\* and the termination it calls for, and the child starts nothing blocked behind it.
THEOREM CleanGrant == Spec => []GrantAfterCleanup
<1>1. TransactionInv /\ PlanOK /\ IdleInv /\ RecordInv /\ CleanInv => GrantAfterCleanup
  <2> SUFFICES ASSUME TransactionInv, PlanOK, IdleInv, RecordInv, CleanInv,
                      txn.op = "approve", ~txn.soft, ~txn.undo,
                      txn.pc \in {"limit", "schedule", "activate"} \/ txn.status = "applied"
               PROVE  /\ account.filter = BlockedTargets(prefs.apps, FALSE)
                      /\ running \cap account.filter = {}
    BY DEF GrantAfterCleanup
  <2>1. txn \in Transactions /\ ~Idle /\ Aim(txn) /\ Route(txn) /\ prefs = txn.oldPrefs
    BY DEF TransactionInv, TypeOK, IdleInv, NoTransaction, PlanOK, Unsaving
  <2>2. Extends(txn)
    BY <2>1 DEF Aim
  <2>3. Writing(txn) /\ ~FilterDue(txn)
    BY <2>1 DEF Writing, FilterDue, Granting, Route, WriteSteps, AccountSteps, TimeOperations
  <2>4. account.filter = txn.want.filter
    BY <2>1, <2>3, GoalAll DEF RecordInv, Match
  <2>5. running \cap txn.want.filter = {}
    BY DEF CleanInv, Granting
  <2>6. txn.soft = FALSE
    BY <2>1 DEF Transactions
  <2> QED BY <2>1, <2>2, <2>4, <2>5, <2>6 DEF Extends
<1> QED BY <1>1, TransactionInvariant, PlanInvariant, IdleInvariant, RecordInvariant, CleanInvariant, PTL

-----------------------------------------------------------------------------
(* No record in between locks the child out: LockoutInv is inductive. *)

\* A write that ends in daily limits shows the old time or the new.
LEMMA WroteUnder ==
  ASSUME TypeOK, PlanOK, RecordInv, LockoutInv, NEW s \in WriteSteps, txn.pc = s,
         Wrote(account', account, s, Goal(txn)), account'.limit = 2
  PROVE  Under(txn.old, account') \/ Under(txn.want, account')
<1> DEFINE g == Goal(txn)
<1>1. /\ txn \in Transactions /\ ~Idle /\ Aim(txn) /\ Route(txn) /\ txn.op \in AllOperations
      /\ txn.op = "approve" => Extends(txn)
      /\ txn.op \in {"enable", "disable"} => Toggles(txn)
      /\ account \in Accounts /\ txn.old \in Accounts /\ txn.want \in Accounts
  BY Writer DEF TypeOK, Transactions
<1>2. CASE s \notin {"scheduleOnly", "daily", "grant", "limit"}
  <2>1. account'.limit = account.limit /\ account'.daily = account.daily /\ account'.grant = account.grant
    BY <1>2 DEF Wrote
  <2> QED BY <1>1, <2>1 DEF LockoutInv, Under
<1>3. CASE s = "scheduleOnly"
  BY <1>3 DEF Wrote
<1>4. CASE s \in {"daily", "grant", "limit"}
  <2>1. txn.status # "rollbackFailed"
    BY <1>1, <1>4 DEF Route
  <2>2. Match(account, txn)
    BY <1>1, <2>1 DEF RecordInv, Writing
  <2>3. g \in {txn.old, txn.want} \/ (txn.undo /\ g.limit = txn.old.limit /\ g.daily = txn.old.daily
                                       /\ g.grant = txn.old.grant)
    BY <1>1, GoalAll
  <2>4. g.grant \in Nat
    BY <1>1, GoalType DEF Accounts
  <2>5. SUFFICES g.limit = 2 /\ g.daily = account'.daily /\ g.grant <= account'.grant
    BY <2>3 DEF Under
  <2> HIDE DEF g
  <2>6. CASE s = "limit"
    <3>1. account'.limit = g.limit /\ account'.daily = account.daily /\ account'.grant = account.grant
      BY <2>6 DEF Wrote, g
    <3>2. account.daily = g.daily /\ account.grant = g.grant
      BY <1>1, <2>2, <2>6 DEF Match, DailyDue, GrantDue, Unstarted, Route, g
    <3> QED BY <2>4, <3>1, <3>2
  <2>7. CASE s = "grant"
    <3>1. account'.limit = account.limit /\ account'.daily = account.daily /\ account'.grant = g.grant
      BY <2>7 DEF Wrote, g
    <3>2. ~Bridged(txn)
      BY <1>1, <3>1 DEF LockoutInv
    <3>3. account.daily = g.daily
      BY <2>2, <2>7 DEF Match, DailyDue, Unstarted, g
    <3>4. g.limit = 2
      <4>1. CASE txn.op = "enable" /\ ~txn.undo
        BY <1>1, <4>1, GoalAll DEF Toggles, g
      <4>2. CASE ~(txn.op = "enable" /\ ~txn.undo)
        <5>1. ~LimitDue(txn)
          BY <1>1, <2>7, <3>2, <4>2 DEF LimitDue, Bridged, Route, Unstarted
        <5> QED BY <2>2, <3>1, <5>1 DEF Match, g
      <4> QED BY <4>1, <4>2
    <3> QED BY <2>4, <3>1, <3>3, <3>4
  <2>8. CASE s = "daily"
    <3>1. account'.limit = account.limit /\ account'.daily = g.daily /\ account'.grant = account.grant
      BY <2>8 DEF Wrote, g
    <3>2. ~Bridged(txn)
      BY <1>1, <3>1 DEF LockoutInv
    <3>3. txn.op = "enable" /\ ~txn.undo
      BY <1>1, <2>8, <3>2 DEF Bridged, Route, Granting, TimeOperations, AllOperations
    <3>4. account = txn.old
      BY <1>1, <2>8, <3>3 DEF RecordInv, Fresh
    <3>5. g.limit = 2 /\ g.grant <= account.grant
      BY <1>1, <2>4, <3>3, <3>4, GoalAll DEF Toggles, g, Accounts
    <3> QED BY <3>1, <3>5
  <2> QED BY <1>4, <2>6, <2>7, <2>8
<1> QED BY <1>2, <1>3, <1>4

\* A success goes on over the bridge only where it is on it, or limits are off.
LEMMA AdvanceBridged ==
  ASSUME TypeOK, PlanOK, LockoutInv, NEW s \in WriteSteps \cup {"kill"}, txn.pc = s,
         SameAims(txn, txn'), txn'.undo = txn.undo, txn'.pc = After(txn, s),
         Wrote(account', account, s, Goal(txn)), Bridged(txn')
  PROVE  account'.limit # 2
<1>1. /\ txn \in Transactions /\ ~Idle /\ Route(txn) /\ txn.op \in AllOperations
      /\ txn.op \in {"enable", "disable"} => Toggles(txn)
  BY Writer
<1>2. txn'.op = txn.op /\ InitializesTime(txn') = InitializesTime(txn)
  BY AimsDecide DEF SameAims
<1>3. CASE s = "scheduleOnly"
  BY <1>3 DEF Wrote
<1>4. CASE s # "scheduleOnly" /\ Bridged(txn) /\ s # "limit"
  BY <1>1, <1>4 DEF LockoutInv, Wrote
<1>5. CASE s = "switch" /\ ~txn.undo
  <2>1. txn.op = "disable" /\ txn'.pc = "daily"
    BY <1>1, <1>2, <1>5, AfterToggle DEF Bridged, Granting, Route, TimeOperations, AllOperations
  <2>2. txn'.pc = PrepareStart(txn.want.limit)
    BY <1>1, <1>5, <2>1 DEF After, AfterSwitch
  <2>3. account.limit = 0
    BY <2>1, <2>2 DEF PrepareStart
  <2> QED BY <1>5, <2>3 DEF Wrote
<1>6. s = "scheduleOnly" \/ (Bridged(txn) /\ s # "limit") \/ (s = "switch" /\ ~txn.undo)
  <2>1. CASE txn.op = "approve"
    BY <1>1, <1>2, <2>1, AfterApprove DEF Bridged, Granting, Route, TimeOperations, WriteSteps, AccountSteps
  <2>2. CASE txn.op \in {"enable", "disable"}
    BY <1>1, <1>2, <2>2, AfterToggle DEF Bridged, Granting, Route, TimeOperations, WriteSteps, AccountSteps
  <2> QED BY <1>1, <1>2, <2>1, <2>2 DEF Bridged, Granting, TimeOperations
<1> QED BY <1>3, <1>4, <1>5, <1>6

\* Undoing starts over the bridge only where limits are off.
LEMMA AbortBridged ==
  ASSUME NEW t \in Transactions, NEW s, NEW fault, ~t.undo, txn' = Aborted(t, s, fault), Bridged(txn'),
         t.op \in AllOperations
  PROVE  account'.limit # 2
<1>1. TurnsRound(t, s, fault, txn')
  BY AbortedDoes
<1>2. txn'.op = t.op /\ t.op \in TimeOperations
  BY <1>1 DEF TurnsRound, SameAims, Bridged, Granting, TimeOperations
<1>3. txn'.undo /\ txn'.pc = UndoStart(t, Resaves(t, s))
  BY <1>1 DEF TurnsRound, Bridged
<1>4. Resaves(t, s) \in BOOLEAN
  BY DEF Resaves
<1>5. txn'.pc = IF account'.limit # 0 \/ t.old.limit # 0 THEN "full" ELSE "daily"
  BY <1>2, <1>3, <1>4, UndoStarts
<1> QED BY <1>5 DEF Bridged

LEMMA LockoutNext ==
  ASSUME TransactionInv, TypeOK', PlanOK, RecordInv, LockoutInv, [Next]_vars
  PROVE  LockoutInv'
<1>1. TypeOK /\ account \in Accounts
  BY DEF TransactionInv, TypeOK
<1>2. ASSUME SameAims(txn, txn'), ~Idle,
             account' = account \/ (account'.limit = 2 => Under(txn.old, account')
                                   \/ Under(txn.want, account')),
             Bridged(txn') => account'.limit # 2
      PROVE  LockoutInv'
  <2>1. txn'.old = txn.old /\ txn'.want = txn.want
    BY <1>2 DEF SameAims
  <2>2. account'.limit = 2 => Under(txn'.old, account') \/ Under(txn'.want, account')
    BY <1>2, <2>1 DEF LockoutInv
  <2> QED BY <1>2, <2>2 DEF LockoutInv
<1>3. ASSUME NEW s \in WriteSteps, Write(s) PROVE LockoutInv'
  <2>1. txn.pc = s /\ txn \in Transactions /\ ~Idle /\ Wrote(account', account, s, Goal(txn))
    BY <1>1, <1>3, Writer, EffectWrote DEF Write
  <2>2. Carries(txn, txn') /\ txn'.pc = After(txn, s)
    BY <1>3, <2>1, AdvanceDoes DEF Write
  <2>3. account'.limit = 2 => Under(txn.old, account') \/ Under(txn.want, account')
    BY <1>1, <2>1, WroteUnder
  <2>4. Bridged(txn') => account'.limit # 2
    BY <1>1, <2>1, <2>2, AdvanceBridged DEF Carries
  <2> QED BY <1>2, <2>1, <2>2, <2>3, <2>4 DEF Carries
<1>4. ASSUME NEW s \in WriteSteps, NEW fault \in Faults(s), WriteFails(s, fault) PROVE LockoutInv'
  <2>1. txn.pc = s /\ txn \in Transactions /\ ~Idle /\ txn.op \in AllOperations
    BY <1>1, <1>4, Writer DEF WriteFails
  <2>2. account' = account \/ Wrote(account', account, s, Goal(txn))
    BY <1>1, <1>4, FaultWrote
  <2>3. account' = account \/ (account'.limit = 2 => Under(txn.old, account') \/ Under(txn.want, account'))
    BY <1>1, <2>1, <2>2, WroteUnder
  <2>4. CASE txn.undo
    <3>1. /\ Carries(txn, txn')
          /\ txn'.pc = IF txn.op \notin {"enable", "disable"} \/ s = "switch" THEN "done"
                       ELSE IF txn.resave /\ s # "save" THEN "save" ELSE Concluding(txn)
      BY <1>4, <2>1, <2>4, UndoFaultDoes DEF WriteFails
    <3>2. ~Bridged(txn')
      BY <3>1 DEF Bridged, Concluding
    <3> QED BY <1>2, <2>1, <2>3, <3>1, <3>2 DEF Carries
  <2>5. CASE ~txn.undo
    <3>1. txn' = Aborted(txn, s, fault)
      BY <1>4, <2>5 DEF WriteFails
    <3>2. SameAims(txn, txn')
      BY <2>1, <3>1, AbortedDoes DEF TurnsRound
    <3>3. Bridged(txn') => account'.limit # 2
      BY <2>1, <2>5, <3>1, AbortBridged
    <3> QED BY <1>2, <2>1, <2>3, <3>2, <3>3
  <2> QED BY <2>4, <2>5
<1>5. ASSUME TerminateApps PROVE LockoutInv'
  <2>1. txn.pc = "kill" /\ SameAims(txn, txn') /\ txn'.undo = txn.undo /\ txn'.pc = After(txn, "kill")
        /\ account' = account
    BY <1>1, <1>5, TerminateDoes DEF TerminateApps
  <2>2. Wrote(account', account, "kill", Goal(txn))
    BY <2>1 DEF Wrote
  <2>3. Bridged(txn') => account'.limit # 2
    BY <1>1, <2>1, <2>2, AdvanceBridged
  <2> QED BY <1>2, <2>1, <2>3 DEF Idle
<1>6. ASSUME NEW closed \in SUBSET txn.kill, TerminationFails(closed) PROVE LockoutInv'
  <2> DEFINE t == [txn EXCEPT !.closed = TRUE]
  <2>1. txn.pc = "kill" /\ txn' = Aborted(t, "kill", "early") /\ account' = account
    BY <1>6 DEF TerminationFails, NoEffect
  <2>2. /\ t \in Transactions /\ SameAims(txn, t) /\ t.undo = txn.undo
    BY <1>1 DEF TypeOK, Transactions, SameAims
  <2>3. ~txn.undo /\ txn.op \in AllOperations
    BY <1>1, <2>1, Writer DEF Route
  <2> HIDE DEF t
  <2>4. SameAims(t, txn')
    BY <2>1, <2>2, AbortedDoes DEF TurnsRound
  <2>5. SameAims(txn, txn') /\ t.op = txn.op
    BY <2>2, <2>4 DEF SameAims
  <2>6. Bridged(txn') => account'.limit # 2
    BY <2>1, <2>2, <2>3, <2>5, AbortBridged
  <2> QED BY <1>2, <2>1, <2>5, <2>6 DEF Idle
<1>7. ASSUME account' = txn'.old, account' = account, Bridged(txn') => account.limit # 2 PROVE LockoutInv'
  <2>1. account.grant <= account.grant
    BY <1>1 DEF Accounts
  <2>2. account.limit = 2 => Under(account, account)
    BY <2>1 DEF Under
  <2> QED BY <1>7, <2>2 DEF LockoutInv
<1>8. CASE Started
  <2>1. Bridged(txn') => account.limit # 2
    BY <1>8 DEF Started, Bridged, Granting, TimeOperations
  <2> QED BY <1>7, <1>8, <2>1 DEF Started, Keep
<1>9. CASE Waited
  <2>1. ~Bridged(txn')
    BY <1>9 DEF Waited, Bridged, Granting, WaitSteps, TimeOperations
  <2> QED BY <1>7, <1>9, <2>1 DEF Waited, Keep
<1>10. CASE ReleaseLock \/ Crash
  BY <1>10 DEF ReleaseLock, Crash, LockoutInv, Idle, NoTransaction
<1>11. CASE Beside
  BY <1>11 DEF Beside, LockoutInv, Idle
<1> QED BY <1>3, <1>4, <1>5, <1>6, <1>8, <1>9, <1>10, <1>11, StepCases

\* Every write over the bridge keeps daily limits off until the time they read is there.
THEOREM LockoutInvariant == Spec => []LockoutInv
<1>1. Init => LockoutInv
  BY DEF Init, LockoutInv, Idle, NoTransaction
<1>2. TransactionInv' => TypeOK'
  BY DEF TransactionInv
<1> QED BY <1>1, <1>2, LockoutNext, TransactionInvariant, PlanInvariant, RecordInvariant, PTL DEF Spec

\* The bridge works: whatever the limits, the allowance and the clock, and whatever
\* fails, a child with time before and after a transaction has time throughout.
THEOREM NoLockout == Spec => []NoTransientLockout
<1>1. TransactionInv /\ LockoutInv => NoTransientLockout
  <2> SUFFICES ASSUME TransactionInv, LockoutInv, ~Idle, Usable(txn.old), Usable(txn.want)
               PROVE  Usable(account)
    BY DEF NoTransientLockout
  <2>1. /\ account \in Accounts /\ txn.old \in Accounts /\ txn.want \in Accounts /\ now \in Nat
        /\ account.limit = 1 => account.schedule = "full"
    BY TimeAssumption DEF TransactionInv, TypeOK, Transactions, Sound
  <2>2. ASSUME NEW x \in Accounts, Usable(x), Under(x, account) PROVE Usable(account)
    BY <2>1, <2>2 DEF Usable, Under, GrantCurrent, Accounts
  <2>3. CASE account.limit = 2
    BY <2>1, <2>2, <2>3 DEF LockoutInv
  <2>4. CASE account.limit # 2
    <3>1. account.limit \in {0, 1}
      BY <2>1, <2>4 DEF Accounts
    <3> QED BY <2>1, <3>1 DEF Usable
  <2> QED BY <2>3, <2>4
<1> QED BY <1>1, TransactionInvariant, LockoutInvariant, PTL

-----------------------------------------------------------------------------
(* What is left between transactions: SettledInv and SwitchInv are inductive. *)

\* What only turning control on or off does.
LEMMA OnlyToggles ==
  ASSUME NEW t, Aim(t), t.op \notin {"enable", "disable"}
  PROVE  ~Toggled(t) /\ ~Switched(t) /\ t.wantPrefs.enabled = t.oldPrefs.enabled
BY DEF Aim, Tightens, Toggled, Switched, Unsaving, AllOperations

LEMMA GoodApplied ==
  ASSUME NEW t, Aim(t), t.op = "approve" => Extends(t), Good(t.old, t.oldPrefs),
         t.soft \in BOOLEAN, t.old \in Accounts, t.oldPrefs \in Preferences
  PROVE  Good(t.want, t.wantPrefs)
<1>1. CASE t.op = "approve"
  <2>1. t.wantPrefs = t.oldPrefs
    BY <1>1 DEF Aim, Unsaving
  <2>2. /\ t.want.limit = IF t.old.limit = 0 THEN 2 ELSE t.old.limit
        /\ t.want.schedule = t.old.schedule /\ t.want.grant # 0
        /\ t.want.filter = BlockedTargets(t.oldPrefs.apps, t.soft)
    BY <1>1 DEF Extends, ApprovedLimit
  <2>3. t.soft = TRUE \/ t.soft = FALSE
    OBVIOUS
  <2>4. t.want.filter = Strict(t.oldPrefs) \/ t.want.filter = BlockedTargets(t.oldPrefs.apps, TRUE)
    BY <2>2, <2>3 DEF Strict
  <2>5. /\ t.old.schedule = "own" /\ t.old.limit # 1
        /\ t.oldPrefs.enabled => t.old.limit = 2
    BY DEF Good
  <2>6. /\ t.want.schedule = "own" /\ t.want.limit # 1
        /\ t.wantPrefs.enabled => t.want.limit = 2
    BY <2>1, <2>2, <2>5
  <2>7. \/ t.want.filter = Strict(t.wantPrefs)
        \/ t.want.filter = BlockedTargets(t.wantPrefs.apps, TRUE) /\ t.want.grant # 0
    BY <2>1, <2>2, <2>4
  <2> QED BY <2>6, <2>7 DEF Good
<1>2. CASE t.op \in {"enable", "disable"}
  <2>1. /\ t.wantPrefs.enabled <=> t.op = "enable"
        /\ t.wantPrefs.apps = t.oldPrefs.apps
        /\ t.want.limit = IF t.op = "enable" THEN 2 ELSE 0
        /\ t.want.schedule = t.old.schedule
        /\ t.want.filter = Strict(t.oldPrefs)
    BY <1>2 DEF Aim, Toggles
  <2> QED BY <2>1 DEF Good, Strict
<1>3. CASE t.op \in {"setPreferences", "revoke", "prepare"}
  BY <1>3 DEF Aim, Tightens, Good, Strict
<1> QED BY <1>1, <1>2, <1>3 DEF Aim, AllOperations

\* A transaction that ends as it should leaves the record and the preferences in order.
LEMMA EndGood ==
  ASSUME TypeOK, PlanOK, RecordInv, StoreInv, ~SaveStays,
         txn.pc = "done", txn.status # "rollbackFailed", Good(txn.old, txn.oldPrefs)
  PROVE  Good(account, prefs)
<1>1. /\ txn \in Transactions /\ ~Idle /\ Aim(txn) /\ Route(txn) /\ Stored(txn)
      /\ account \in Accounts /\ txn.old \in Accounts /\ txn.oldPrefs \in Preferences
      /\ txn.soft \in BOOLEAN /\ txn.op \in AllOperations
  BY DEF TypeOK, Transactions, Idle, PlanOK, StoreInv, Aim
<1>2. CASE txn.status = "applied"
  <2>1. account = txn.want /\ prefs = txn.wantPrefs
    <3>1. ~txn.undo
      BY <1>1, <1>2 DEF Route
    <3>2. Match(account, txn)
      BY <1>1, <1>2 DEF RecordInv, Writing
    <3>3. account = txn.want
      BY <1>1, <3>1, <3>2, EndMatch, GoalAll
    <3>4. prefs = txn.wantPrefs
      BY <1>1, <1>2, <3>1 DEF Stored, Aim, Unsaving, AllOperations
    <3> QED BY <3>3, <3>4
  <2>2. txn.op = "approve" => Extends(txn)
    BY <1>1, <1>2 DEF Aim
  <2> QED BY <1>1, <2>1, <2>2, GoodApplied
<1>3. CASE txn.status # "applied" /\ txn.undo
  <2>1. account = Goal(txn)
    BY <1>1, <1>3, EndMatch DEF RecordInv, Writing
  <2>2. prefs = txn.oldPrefs
    BY <1>1, <1>3 DEF Stored, Unsaving, AllOperations, AccountSteps
  <2>3. /\ account.limit = txn.old.limit /\ account.schedule = txn.old.schedule
        /\ account.grant = txn.old.grant
        /\ account.filter = IF txn.closed THEN txn.want.filter ELSE txn.old.filter
    BY <1>1, <1>3, <2>1, GoalAll
  <2>4. txn.closed => txn.want.filter = Strict(txn.oldPrefs)
    <3>1. txn.closed => txn.op \in {"approve", "revoke"} /\ (txn.op = "approve" => ~txn.soft)
      BY <1>1, <1>3 DEF Route
    <3>2. txn.op = "approve" => Extends(txn)
      BY <1>1, <1>3 DEF Aim
    <3>3. txn.op = "revoke" => Tightens(txn) /\ txn.wantPrefs = txn.oldPrefs
      BY <1>1 DEF Aim, Unsaving
    <3>4. ~txn.soft => txn.soft = FALSE
      BY <1>1
    <3> QED BY <3>1, <3>2, <3>3, <3>4 DEF Extends, Tightens, Strict
  <2> QED BY <2>2, <2>3, <2>4 DEF Good
<1>4. CASE txn.status # "applied" /\ ~txn.undo
  <2>1. Given(account, txn)
    BY <1>1 DEF RecordInv
  <2>2. CASE txn.closed \/ account # txn.old
    <3>1. account = txn.want /\ txn.op \in {"setPreferences", "prepare"}
      BY <1>1, <1>4, <2>1, <2>2 DEF Given, Route
    <3>2. prefs = txn.wantPrefs
      BY <1>1, <1>4, <3>1 DEF Stored, Unsaving, Aim
    <3> QED BY <1>1, <3>1, <3>2, GoodApplied
  <2>3. CASE ~txn.closed /\ account = txn.old
    <3>1. txn.op # "setPreferences"
      BY <1>4, <2>1, <2>3 DEF Given
    <3>2. prefs = txn.oldPrefs
      BY <1>1, <1>4, <3>1 DEF Stored, Unsaving, AllOperations
    <3> QED BY <2>3, <3>2
  <2> QED BY <2>2, <2>3
<1> QED BY <1>2, <1>3, <1>4

\* The steps of a transaction between its start and its end.
Proceeds ==
  \/ \E s \in WriteSteps : Write(s)
  \/ \E s \in WriteSteps : \E fault \in Faults(s) : WriteFails(s, fault)
  \/ TerminateApps
  \/ \E closed \in SUBSET txn.kill : TerminationFails(closed)

LEMMA ProceedsAims ==
  ASSUME TypeOK, PlanOK, Proceeds
  PROVE  SameAims(txn, txn') /\ ~Idle /\ ~Idle' /\ tainted' = tainted
<1>1. ~Idle'
  BY NeverIdle DEF Proceeds
<1>2. tainted' = tainted
  BY DEF Proceeds, Write, WriteFails, TerminateApps, TerminationFails
<1>3. ~Idle
  BY DEF Proceeds, Write, WriteFails, TerminateApps, TerminationFails, Idle, WriteSteps, AccountSteps
<1>4. txn \in Transactions
  BY DEF TypeOK
<1>5. ASSUME NEW s, Write(s) PROVE SameAims(txn, txn')
  BY <1>4, <1>5, AdvanceDoes DEF Write, Carries
<1>6. ASSUME NEW s, NEW fault, WriteFails(s, fault) PROVE SameAims(txn, txn')
  BY <1>4, <1>6, UndoFaultDoes, AbortedDoes DEF WriteFails, Carries, TurnsRound
<1>7. ASSUME TerminateApps PROVE SameAims(txn, txn')
  BY <1>7, TerminateDoes
<1>8. ASSUME NEW closed, TerminationFails(closed) PROVE SameAims(txn, txn')
  <2> DEFINE t == [txn EXCEPT !.closed = TRUE]
  <2>1. t \in Transactions /\ SameAims(txn, t)
    BY <1>4 DEF Transactions, SameAims
  <2>2. txn' = Aborted(t, "kill", "early")
    BY <1>8 DEF TerminationFails
  <2> HIDE DEF t
  <2>3. SameAims(t, txn')
    BY <2>1, <2>2, AbortedDoes DEF TurnsRound
  <2> QED BY <2>1, <2>3 DEF SameAims
<1> QED BY <1>1, <1>2, <1>3, <1>5, <1>6, <1>7, <1>8 DEF Proceeds

\* The lock is only given up untainted at the end, or before the first write.
LEMMA EndsUntainted ==
  ASSUME TransactionInv, PlanOK, ReleaseLock \/ Crash, ~tainted'
  PROVE  /\ ~tainted /\ ~Idle /\ Idle' /\ UNCHANGED <<account, prefs, switch>>
         /\ \/ txn.pc = "done" /\ txn.status # "rollbackFailed"
            \/ txn.pc \in WaitSteps /\ account = txn.old /\ prefs = txn.oldPrefs /\ txn.op = "approve"
               /\ txn.status # "rollbackFailed"
<1>1. ~Idle /\ Idle' /\ UNCHANGED <<account, prefs, switch>>
  BY DEF ReleaseLock, Crash, Idle, NoTransaction
<1>2. ~tainted /\ txn.status # "rollbackFailed"
  BY DEF ReleaseLock, Crash
<1>3. txn.pc \in WaitSteps \cup {"done"}
  BY DEF ReleaseLock, Crash
<1> QED BY <1>1, <1>2, <1>3, Waiting

LEMMA SettledNext ==
  ASSUME TransactionInv, PlanOK, RecordInv, StoreInv, SettledInv, [Next]_vars
  PROVE  SettledInv'
<1>1. TypeOK
  BY DEF TransactionInv
<1>2. SUFFICES ASSUME ~tainted', ~SaveStays
               PROVE  /\ Idle' => Good(account', prefs')
                      /\ ~Idle' => Good(txn'.old, txn'.oldPrefs)
  BY DEF SettledInv
<1>3. CASE Started
  <2>1. ~tainted /\ Good(account, prefs)
    BY <1>2, <1>3 DEF Started, Keep, SettledInv
  <2> QED BY <1>3, <2>1 DEF Started, Idle, Aim, AllOperations
<1>4. CASE Waited
  <2>1. ~tainted /\ ~Idle /\ ~Idle'
    BY <1>2, <1>4 DEF Waited, Keep, Idle, WaitSteps
  <2> QED BY <1>2, <1>4, <2>1 DEF Waited, SettledInv
<1>5. CASE Proceeds
  <2>1. SameAims(txn, txn') /\ ~Idle /\ ~Idle' /\ ~tainted
    BY <1>1, <1>2, <1>5, ProceedsAims
  <2> QED BY <1>2, <2>1 DEF SettledInv, SameAims
<1>6. CASE ReleaseLock \/ Crash
  <2>1. ~tainted /\ ~Idle /\ Idle' /\ account' = account /\ prefs' = prefs
    BY <1>2, <1>6, EndsUntainted
  <2>2. Good(txn.old, txn.oldPrefs)
    BY <1>2, <2>1 DEF SettledInv
  <2>3. CASE txn.pc = "done" /\ txn.status # "rollbackFailed"
    BY <1>1, <1>2, <2>1, <2>2, <2>3, EndGood
  <2>4. CASE account = txn.old /\ prefs = txn.oldPrefs
    BY <2>1, <2>2, <2>4
  <2> QED BY <1>2, <1>6, <2>3, <2>4, EndsUntainted
<1>7. CASE Beside
  BY <1>2, <1>7 DEF Beside, SettledInv, Idle
<1> QED BY <1>3, <1>4, <1>5, <1>6, <1>7, StepCases DEF Proceeds

\* What a transaction finds is in order, and so is what it leaves, or undoes to.
THEOREM SettledInvariant == Spec => []SettledInv
<1>1. Init => SettledInv
  <2> SUFFICES ASSUME Init PROVE Good(account, prefs) /\ Idle
    BY DEF SettledInv
  <2>1. NoPrefs.enabled = FALSE /\ \A a \in Apps : NoPrefs.apps[a] = "allowed"
    BY DEF NoPrefs
  <2>2. Strict(NoPrefs) = {}
    BY <2>1 DEF Strict, BlockedTargets
  <2>3. Good(NoAccount, NoPrefs)
    BY <2>1, <2>2 DEF Good, NoAccount
  <2> QED BY <2>3 DEF Init, NoTransaction, Idle
<1> QED BY <1>1, SettledNext, TransactionInvariant, PlanInvariant, RecordInvariant, StoreInvariant,
       PTL DEF Spec

LEMMA ActivateNext ==
  ASSUME TransactionInv, PlanOK, ActivateInv, [Next]_vars
  PROVE  ActivateInv'
<1>1. TypeOK /\ txn \in Transactions
  BY DEF TransactionInv, TypeOK
<1>2. \A t, s : After(t, s) = "activate" => t.oldPrefs.enabled
  BY DEF After, AfterDaily, AfterGrant, AfterLimit, AfterSchedule, AfterFilter, AfterKill,
         AfterSave, AfterSwitch, AfterFinish, Concluding, PrepareStart
<1>3. \A t, resave : UndoStart(t, resave) # "activate"
  BY DEF UndoStart
<1>4. ASSUME NEW t \in Transactions, NEW s, NEW fault, txn' = Aborted(t, s, fault)
      PROVE  txn'.pc # "activate"
  <2>1. TurnsRound(t, s, fault, txn')
    BY <1>4, AbortedDoes
  <2> QED BY <1>3, <2>1 DEF TurnsRound
<1>5. ASSUME NEW s \in WriteSteps, Write(s)
      PROVE  ActivateInv'
  <2>1. Carries(txn, txn') /\ txn'.pc = After(txn, s)
    BY <1>1, <1>5, AdvanceDoes DEF Write
  <2> QED BY <1>2, <2>1 DEF ActivateInv, Carries, SameAims
<1>6. ASSUME NEW s \in WriteSteps, NEW fault, WriteFails(s, fault)
      PROVE  ActivateInv'
  <2>1. CASE txn' = UndoFault(txn, s)
    BY <1>1, <2>1, UndoFaultDoes DEF Concluding, ActivateInv
  <2>2. CASE txn' = Aborted(txn, s, fault)
    BY <1>1, <1>4, <2>2 DEF ActivateInv
  <2> QED BY <1>6, <2>1, <2>2 DEF WriteFails
<1>7. CASE TerminateApps
  BY <1>1, <1>2, <1>7, TerminateDoes DEF ActivateInv, SameAims
<1>8. ASSUME NEW closed, TerminationFails(closed)
      PROVE  ActivateInv'
  <2>1. [txn EXCEPT !.closed = TRUE] \in Transactions
    BY <1>1 DEF Transactions
  <2> QED BY <1>4, <1>8, <2>1 DEF TerminationFails, ActivateInv
<1>9. CASE Started
  BY <1>9 DEF Started, ActivateInv
<1>10. CASE Waited
  BY <1>10 DEF Waited, ActivateInv, WaitSteps
<1>11. CASE ReleaseLock \/ Crash
  BY <1>11 DEF ReleaseLock, Crash, ActivateInv, NoTransaction
<1>12. CASE Beside
  BY <1>12 DEF Beside, ActivateInv
<1> QED BY <1>5, <1>6, <1>7, <1>8, <1>9, <1>10, <1>11, <1>12, StepCases

LEMMA WriteSwitch ==
  ASSUME TypeOK, PlanOK, ActivateInv, NEW s \in WriteSteps, Write(s),
         SwitchShows(txn, switch), txn.status # "rollbackFailed"
  PROVE  SwitchShows(txn', switch')
<1>1. /\ txn.pc = s /\ txn \in Transactions /\ ~Idle /\ Aim(txn) /\ Route(txn)
      /\ txn.op \in AllOperations
  BY Writer DEF Write
<1>2. /\ Carries(txn, txn') /\ txn'.pc = After(txn, s)
      /\ txn'.status = IF After(txn, s) = "done" /\ txn.status = "running" THEN "applied" ELSE txn.status
  BY <1>1, AdvanceDoes DEF Write
<1>3. /\ txn'.op = txn.op /\ txn'.undo = txn.undo /\ Toggled(txn') = Toggled(txn)
      /\ txn'.oldPrefs = txn.oldPrefs /\ txn'.wantPrefs = txn.wantPrefs
  BY <1>2, AimsDecide DEF Carries, SameAims
<1>4. switch' = CASE s = "switch"   -> IF txn.undo THEN txn.oldPrefs.enabled ELSE txn.wantPrefs.enabled
                  [] s = "activate" -> TRUE
                  [] OTHER          -> switch
  BY DEF Write, Effect
<1>5. ~txn.undo => txn.status = "running"
  BY <1>1 DEF Route, WriteSteps, AccountSteps
<1>6. s \notin {"done", "idle"}
  BY DEF WriteSteps, AccountSteps
<1>7. CASE txn.op \notin {"enable", "disable"}
  <2>1. s # "switch"
    BY <1>1, <1>7 DEF Route, AllOperations
  <2>2. ~Toggled(txn)
    BY <1>1, <1>7, OnlyToggles
  <2>3. ~Switched(txn) /\ ~Switched(txn')
    BY <1>3, <2>2 DEF Switched
  <2>4. switch <=> txn.oldPrefs.enabled
    BY <2>3 DEF SwitchShows
  <2>5. s = "activate" => txn.oldPrefs.enabled
    BY <1>1 DEF ActivateInv
  <2>6. switch' <=> txn.oldPrefs.enabled
    BY <1>4, <2>1, <2>4, <2>5
  <2> QED BY <1>3, <2>3, <2>6 DEF SwitchShows
<1>8. CASE txn.op \in {"enable", "disable"}
  <2>1. s # "activate"
    BY <1>1, <1>8 DEF Route
  <2>2. CASE s = "switch"
    <3>1. Toggled(txn) /\ IF txn.undo THEN txn'.pc = "done" ELSE txn'.pc \in {"daily", "full"}
      BY <1>1, <1>2, <1>8, <2>2, AfterToggle DEF Route
    <3>2. Switched(txn') <=> ~txn.undo
      BY <1>3, <3>1 DEF Switched
    <3>3. switch' = IF txn.undo THEN txn.oldPrefs.enabled ELSE txn.wantPrefs.enabled
      BY <1>4, <2>2
    <3> QED BY <1>3, <3>2, <3>3 DEF SwitchShows
  <2>3. CASE s # "switch"
    <3>1. /\ Toggled(txn) /\ txn.undo => txn'.pc # "done"
          /\ ~txn.undo => txn'.pc # "switch" /\ (txn'.pc = "done" => txn'.status = "applied")
      BY <1>1, <1>2, <1>5, <1>8, <2>3, AfterToggle DEF Route, WriteSteps, AccountSteps
    <3>2. Switched(txn') <=> Switched(txn)
      BY <1>1, <1>3, <1>6, <2>3, <3>1 DEF Switched
    <3>3. switch' = switch
      BY <1>4, <2>1, <2>3
    <3> QED BY <1>3, <3>2, <3>3 DEF SwitchShows
  <2> QED BY <2>2, <2>3
<1> QED BY <1>7, <1>8

LEMMA AbortSwitch ==
  ASSUME TypeOK, PlanOK, NEW s \in WriteSteps \cup {"kill"}, txn.pc = s, ~txn.undo,
         NEW t \in Transactions, SameAims(txn, t), ~t.undo, NEW fault, txn' = Aborted(t, s, fault),
         SwitchShows(txn, switch), switch' = switch \/ (s = "activate" /\ switch' /\ txn.oldPrefs.enabled)
  PROVE  SwitchShows(txn', switch')
<1>1. /\ txn \in Transactions /\ ~Idle /\ Aim(txn) /\ Route(txn) /\ txn.op \in AllOperations
      /\ s \notin {"idle", "done"}
  BY Writer DEF WriteSteps, AccountSteps
<1>2. TurnsRound(t, s, fault, txn')
  BY AbortedDoes
<1>3. SameAims(txn, txn')
  BY <1>2 DEF TurnsRound, SameAims
<1>4. /\ t.op = txn.op /\ txn'.op = txn.op /\ Toggled(txn') = Toggled(txn)
      /\ txn'.oldPrefs = txn.oldPrefs /\ txn'.wantPrefs = txn.wantPrefs
  BY <1>3, AimsDecide DEF SameAims
<1>5. CASE txn.op \notin {"enable", "disable"}
  <2>1. ~Switched(txn) /\ ~Switched(txn')
    BY <1>1, <1>4, <1>5, OnlyToggles DEF Switched
  <2> QED BY <1>4, <2>1 DEF SwitchShows
<1>6. CASE txn.op \in {"enable", "disable"}
  <2>1. switch' = switch
    BY <1>1, <1>6 DEF Route
  <2>2. CASE s = "switch"
    <3>1. ~txn'.undo /\ txn'.pc = "done" /\ txn'.status = "failed"
      BY <1>2, <1>4, <1>6, <2>2 DEF TurnsRound, Undoes
    <3>2. ~Switched(txn) /\ ~Switched(txn')
      BY <1>1, <2>2, <3>1 DEF Switched
    <3> QED BY <1>4, <2>1, <3>2 DEF SwitchShows
  <2>3. CASE s # "switch"
    <3>1. Undoes(t, s, fault)
      BY <1>4, <1>6, <2>3 DEF Undoes
    <3>2. txn'.undo /\ txn'.pc = UndoStart(t, Resaves(t, s)) /\ Resaves(t, s) \in BOOLEAN
      BY <1>2, <3>1 DEF TurnsRound, Resaves
    <3>3. txn'.pc \in {"full", "daily"}
      BY <1>4, <1>6, <3>2, UndoStarts DEF TimeOperations
    <3>4. Switched(txn') <=> Switched(txn)
      BY <1>1, <1>4, <2>3, <3>2, <3>3 DEF Switched
    <3> QED BY <1>4, <2>1, <3>4 DEF SwitchShows
  <2> QED BY <2>2, <2>3
<1> QED BY <1>5, <1>6

\* A transaction that ends as it should leaves the extension as the toggle is saved.
LEMMA EndSwitch ==
  ASSUME TypeOK, PlanOK, StoreInv, ~SaveStays, txn.pc = "done", txn.status # "rollbackFailed",
         SwitchShows(txn, switch)
  PROVE  switch <=> prefs.enabled
<1>1. /\ txn \in Transactions /\ ~Idle /\ Aim(txn) /\ Route(txn) /\ Stored(txn)
      /\ txn.op \in AllOperations
  BY DEF TypeOK, Idle, PlanOK, StoreInv, Aim
<1>2. CASE txn.op \in {"enable", "disable"}
  <2>1. CASE txn.undo
    <3>1. ~Switched(txn) /\ prefs = txn.oldPrefs
      BY <1>1, <1>2, <2>1 DEF Switched, Stored, AccountSteps
    <3> QED BY <3>1 DEF SwitchShows
  <2>2. CASE ~txn.undo
    <3>1. prefs = IF txn.status = "applied" THEN txn.wantPrefs ELSE txn.oldPrefs
      BY <1>1, <1>2, <2>2 DEF Stored
    <3>2. Switched(txn) <=> Toggled(txn) /\ txn.status = "applied"
      BY <2>2 DEF Switched
    <3>3. ~Toggled(txn) => txn.wantPrefs.enabled = txn.oldPrefs.enabled
      BY DEF Toggled
    <3> QED BY <3>1, <3>2, <3>3 DEF SwitchShows
  <2> QED BY <2>1, <2>2
<1>3. CASE txn.op \notin {"enable", "disable"}
  <2>1. ~Switched(txn) /\ txn.wantPrefs.enabled = txn.oldPrefs.enabled
    BY <1>1, <1>3, OnlyToggles
  <2>2. prefs = txn.oldPrefs \/ prefs = txn.wantPrefs
    BY <1>1, <1>3 DEF Stored, Unsaving, AllOperations
  <2> QED BY <2>1, <2>2 DEF SwitchShows
<1> QED BY <1>2, <1>3

LEMMA ProceedsSwitch ==
  ASSUME TypeOK, PlanOK, ActivateInv, Proceeds, ~SwitchStays,
         txn.status # "rollbackFailed" => SwitchShows(txn, switch), txn'.status # "rollbackFailed"
  PROVE  SwitchShows(txn', switch')
<1>1. txn \in Transactions
  BY DEF TypeOK
<1>2. ASSUME NEW s \in WriteSteps, Write(s) PROVE SwitchShows(txn', switch')
  <2>1. txn.status # "rollbackFailed"
    BY <1>1, <1>2, AdvanceDoes DEF Write
  <2> QED BY <1>2, <2>1, WriteSwitch
<1>3. ASSUME NEW s \in WriteSteps, NEW fault \in Faults(s), WriteFails(s, fault)
      PROVE  SwitchShows(txn', switch')
  <2>1. /\ txn.pc = s /\ ~Idle /\ Route(txn) /\ txn.op \in AllOperations
    BY <1>3, Writer DEF WriteFails
  <2>2. ~txn.undo
    BY <1>1, <1>3, UndoFaultDoes DEF WriteFails
  <2>3. txn' = Aborted(txn, s, fault) /\ SameAims(txn, txn)
    BY <1>3, <2>2 DEF WriteFails, SameAims
  <2>4. SwitchShows(txn, switch)
    BY <2>1, <2>2 DEF Route, WriteSteps, AccountSteps
  <2>5. switch' = switch \/ (s = "activate" /\ switch' /\ txn.oldPrefs.enabled)
    <3>1. s \notin {"switch", "activate"} => switch' = switch
      BY <1>3, WriteStores
    <3>2. s = "activate" => switch' = switch \/ (switch' = TRUE /\ txn.oldPrefs.enabled)
      BY <1>3, <2>1 DEF WriteFails, NoEffect, Effect, ActivateInv
    <3>3. CASE s = "switch"
      <4>1. txn.op \in {"enable", "disable"}
        BY <2>1, <3>3 DEF Route, AllOperations
      <4>2. fault = "early"
        BY <3>3, <4>1 DEF Faults, AccountSteps, SwitchStays
      <4> QED BY <1>3, <4>2 DEF WriteFails, NoEffect
    <3> QED BY <3>1, <3>2, <3>3
  <2> QED BY <1>1, <2>1, <2>2, <2>3, <2>4, <2>5, AbortSwitch
<1>4. ASSUME TerminateApps PROVE SwitchShows(txn', switch')
  <2>1. /\ txn.pc = "kill" /\ SameAims(txn, txn') /\ switch' = switch
    BY <1>4, TerminateDoes DEF TerminateApps
  <2>2. Aim(txn) /\ Route(txn)
    BY <2>1, Writer
  <2>3. txn.op \notin {"enable", "disable"} /\ txn.status # "rollbackFailed"
    BY <2>1, <2>2 DEF Route
  <2>4. Toggled(txn') = Toggled(txn) /\ txn'.oldPrefs = txn.oldPrefs
    BY <2>1, AimsDecide DEF SameAims
  <2>5. ~Switched(txn) /\ ~Switched(txn')
    BY <2>2, <2>3, <2>4, OnlyToggles DEF Switched
  <2> QED BY <2>1, <2>3, <2>4, <2>5 DEF SwitchShows
<1>5. ASSUME NEW closed \in SUBSET txn.kill, TerminationFails(closed) PROVE SwitchShows(txn', switch')
  <2> DEFINE t == [txn EXCEPT !.closed = TRUE]
  <2>1. txn.pc = "kill" /\ txn' = Aborted(t, "kill", "early") /\ switch' = switch
    BY <1>5 DEF TerminationFails, NoEffect
  <2>2. Route(txn)
    BY <2>1, Writer
  <2>3. ~txn.undo /\ SwitchShows(txn, switch)
    BY <2>1, <2>2 DEF Route
  <2>4. t \in Transactions /\ SameAims(txn, t) /\ t.undo = txn.undo
    BY <1>1 DEF Transactions, SameAims
  <2> HIDE DEF t
  <2> QED BY <2>1, <2>3, <2>4, AbortSwitch
<1> QED BY <1>2, <1>3, <1>4, <1>5 DEF Proceeds

LEMMA SwitchNext ==
  ASSUME TransactionInv, PlanOK, StoreInv, ActivateInv, SwitchInv, [Next]_vars
  PROVE  SwitchInv'
<1>1. TypeOK
  BY DEF TransactionInv
<1>2. SUFFICES ASSUME ~tainted', ~SwitchStays, ~SaveStays
               PROVE  /\ Idle' => (switch' <=> prefs'.enabled)
                      /\ ~Idle' /\ txn'.status # "rollbackFailed" => SwitchShows(txn', switch')
  BY DEF SwitchInv
<1>3. CASE Started
  <2>1. (switch <=> prefs.enabled) /\ switch' = switch /\ txn'.oldPrefs = prefs /\ ~Idle'
    BY <1>2, <1>3 DEF Started, Keep, SwitchInv, Idle, Aim, AllOperations
  <2>2. ~Switched(txn')
    <3>1. CASE txn'.op \in {"enable", "disable"}
      BY <1>3, <3>1 DEF Started, Switched
    <3>2. CASE txn'.op \notin {"enable", "disable"}
      BY <1>3, <3>2, OnlyToggles DEF Started
    <3> QED BY <3>1, <3>2
  <2> QED BY <2>1, <2>2 DEF SwitchShows
<1>4. CASE Waited
  <2>1. /\ ~tainted /\ ~Idle /\ ~Idle' /\ switch' = switch /\ txn'.oldPrefs = txn.oldPrefs
        /\ txn.op = "approve" /\ txn'.op = "approve" /\ Aim(txn')
    BY <1>2, <1>4 DEF Waited, Keep, Idle, WaitSteps
  <2>2. Aim(txn) /\ txn.status = "running"
    BY <1>4, Waiting DEF Waited
  <2>3. ~Switched(txn) /\ ~Switched(txn')
    BY <2>1, <2>2, OnlyToggles
  <2>4. SwitchShows(txn, switch)
    BY <1>2, <2>1, <2>2 DEF SwitchInv
  <2> QED BY <2>1, <2>3, <2>4 DEF SwitchShows
<1>5. CASE Proceeds
  <2>1. ~Idle /\ ~Idle' /\ ~tainted
    BY <1>1, <1>2, <1>5, ProceedsAims
  <2>2. txn.status # "rollbackFailed" => SwitchShows(txn, switch)
    BY <1>2, <2>1 DEF SwitchInv
  <2> QED BY <1>1, <1>2, <1>5, <2>1, <2>2, ProceedsSwitch
<1>6. CASE ReleaseLock \/ Crash
  <2>1. ~tainted /\ ~Idle /\ Idle' /\ prefs' = prefs /\ switch' = switch /\ txn.status # "rollbackFailed"
    BY <1>2, <1>6, EndsUntainted
  <2>2. SwitchShows(txn, switch)
    BY <1>2, <2>1 DEF SwitchInv
  <2>3. CASE txn.pc = "done"
    BY <1>1, <1>2, <2>1, <2>2, <2>3, EndSwitch
  <2>4. CASE txn.pc \in WaitSteps
    <3>1. Aim(txn) /\ txn.op = "approve" /\ prefs = txn.oldPrefs
      BY <2>4, Waiting
    <3>2. ~Switched(txn)
      BY <3>1, OnlyToggles
    <3> QED BY <2>1, <2>2, <3>1, <3>2 DEF SwitchShows
  <2> QED BY <1>2, <1>6, <2>3, <2>4, EndsUntainted
<1>7. CASE Beside
  <2>1. txn' = txn /\ prefs' = prefs /\ tainted' = tainted /\ (Idle' <=> Idle)
    BY <1>7 DEF Beside, Idle
  <2>2. CASE switch' = switch
    BY <1>2, <2>1, <2>2 DEF SwitchInv
  <2>3. CASE Idle /\ prefs.enabled /\ switch'
    BY <2>1, <2>3
  <2> QED BY <1>7, <2>2, <2>3 DEF Beside
<1> QED BY <1>3, <1>4, <1>5, <1>6, <1>7, StepCases DEF Proceeds

\* The extension follows the toggle through a transaction, and back when it is undone.
THEOREM SwitchInvariant == Spec => [](ActivateInv /\ SwitchInv)
<1>1. Init => ActivateInv /\ SwitchInv
  BY DEF Init, ActivateInv, SwitchInv, NoTransaction, NoPrefs, Idle
<1> QED BY <1>1, ActivateNext, SwitchNext, TransactionInvariant, PlanInvariant, StoreInvariant, PTL
       DEF Spec

\* Between transactions, after no crash and no reported rollback failure, the record,
\* the saved policy and the extension are in order, unless an operation that is not
\* undone fails after it took effect: the failures behind SaveRollsBack and
\* ExtensionRollbackReported.
THEOREM SettledOrder == Spec => [](Settled \/ SaveStays \/ SwitchStays)
<1>1. TransactionInv /\ SettledInv /\ SwitchInv => Settled \/ SaveStays \/ SwitchStays
  <2> SUFFICES ASSUME TransactionInv, SettledInv, SwitchInv, ~SaveStays, ~SwitchStays,
                      Idle, ~tainted
               PROVE  /\ account.schedule = "own" /\ account.limit # 1
                      /\ prefs.enabled => account.limit = 2
                      /\ switch = prefs.enabled
                      /\ \/ account.filter = BlockedTargets(prefs.apps, FALSE)
                         \/ account.filter = BlockedTargets(prefs.apps, TRUE) /\ account.grant # 0
    BY DEF Settled
  <2>1. Good(account, prefs) /\ (switch <=> prefs.enabled)
    BY DEF SettledInv, SwitchInv
  <2>2. switch \in BOOLEAN /\ prefs.enabled \in BOOLEAN
    BY DEF TransactionInv, TypeOK, Preferences
  <2>3. switch = prefs.enabled
    BY <2>1, <2>2
  <2> QED BY <2>1, <2>3 DEF Good, Strict
<1> QED BY <1>1, TransactionInvariant, SettledInvariant, SwitchInvariant, PTL

=============================================================================
