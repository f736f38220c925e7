-------------------------- MODULE ExtensionMonitor --------------------------
(***************************************************************************)
(* The broker's monitor of one child's GNOME extension                     *)
(* (extension_monitor.py), with the request lock of core.py and the        *)
(* connection attempts of child_bus.py.                                    *)
(*                                                                         *)
(* One thread owns the watch: a connection to the child's session bus, one *)
(* timer, and what it knows of the Shell.  A check observes the extension  *)
(* without the request lock, takes the lock, and recovers or reports if    *)
(* the policy still wants it.  Meanwhile the child changes its settings,   *)
(* its Shell and bus come and go, and other transactions hold the lock:    *)
(* saves by the parent, and explicit recoveries that re-arm the watch.     *)
(*                                                                         *)
(* Time passes in ticks of the debounce delay; only timers count it.       *)
(***************************************************************************)
EXTENDS Integers, Sequences, SequencesExt, ChildBus

CONSTANTS
  Interval,   \* ticks between two observations, and before a busy retry
  MaxLevel,   \* the highest backoff level
  MaxMoves    \* BOUND: changes of the child's session and its eligibility, failed steps

Debounce == 1
Off == -1

ASSUME MonitorAssumption ==
  Interval \in Nat /\ MaxLevel \in Nat \ {0} /\ MaxMoves \in Nat /\ Debounce <= Interval

VARIABLES
  session,   \* the child's session: its bus, its Shell, the extension's state
  policy,    \* whether the child is eligible and its saved control is on
  lock,      \* the holder of the request lock
  watch,     \* the monitor's watch of the child
  inbox,     \* signals of the child's bus that the monitor's context holds
  attempt,   \* the connection attempt that is not yet settled
  check,     \* the check the monitor's thread runs
  refresh,   \* a refresh of the watches is due
  rearm,     \* an explicit recovery's callback, not yet run
  stopped,   \* the broker is shutting down
  moves,     \* changes made so far
  history    \* history: whether a fault bars recovery (barred), and whether a Shell
             \* was lost soon after a recovery, and such a loss lifted (suspect)

vars == <<session, policy, lock, watch, inbox, attempt, check, refresh, rearm, stopped,
          moves, history>>

-----------------------------------------------------------------------------
(* Types. "loading" is ERROR without a recorded error; "changing" a state   *)
(* in between; "inactive" any other in which the extension does not run.   *)

ExtensionStates == {"active", "inactive", "error", "loading", "changing"}

\* No extension is active while the global switch is off.
Shells == {s \in [ext : ExtensionStates, global : BOOLEAN] : s.ext = "active" => s.global}

\* A Shell that starts has not yet finished with the extension.
NewShells == {s \in Shells : s.ext \in {"inactive", "loading"}}

Sessions == [bus : BOOLEAN, up : BOOLEAN, answers : BOOLEAN, shell : Shells]

Ticks == Off..(Interval + MaxLevel)

Watches ==
  [present : BOOLEAN, connecting : BOOLEAN, connection : BOOLEAN,
   source : Ticks, next : Ticks, shell : BOOLEAN, level : 0..MaxLevel,
   failed : BOOLEAN, reported : BOOLEAN, report : BOOLEAN, faultRecent : BOOLEAN,
   recoveryRecent : BOOLEAN, interrupted : BOOLEAN]

NoWatch ==
  [present |-> FALSE, connecting |-> FALSE, connection |-> FALSE,
   source |-> Off, next |-> 0, shell |-> FALSE, level |-> 0,
   failed |-> FALSE, reported |-> FALSE, report |-> FALSE, faultRecent |-> FALSE,
   recoveryRecent |-> FALSE, interrupted |-> FALSE]

CheckStages == {"idle", "info", "switch", "acquire", "reconcile", "enable", "report", "ended"}

\* overtaken: a transaction took the lock since the check read the revision.
Checks ==
  [stage : CheckStages, ext : ExtensionStates, global : BOOLEAN, overtaken : BOOLEAN]

NoCheck == [stage |-> "idle", ext |-> "inactive", global |-> FALSE, overtaken |-> FALSE]

\* The fault generation and the watch's identity only matter by comparison.
Rearms == [due : BOOLEAN, newerFault : BOOLEAN, replaced : BOOLEAN]
NoRearm == [due |-> FALSE, newerFault |-> FALSE, replaced |-> FALSE]

Becomes(stage) == check' = [check EXCEPT !.stage = stage]

Idle == check.stage = "idle" /\ ~stopped

-----------------------------------------------------------------------------
(* The watch's timer. *)

Least(a, b) == IF a < b THEN a ELSE b
Most(a, b)  == IF a > b THEN a ELSE b

\* One source per watch: whatever asks for a check meanwhile finds it armed.
ScheduleMovesAhead(w) == IF stopped THEN w ELSE [w EXCEPT !.source = Debounce]
Schedule(w) ==
  IF stopped \/ w.source # Off THEN w ELSE [w EXCEPT !.source = Most(Debounce, w.next)]

Retry(w) ==
  LET level == Least(MaxLevel, w.level + 1)
  IN  Schedule([w EXCEPT !.level = level, !.next = Interval + level - 1])

Busy(w) == Schedule([w EXCEPT !.next = Interval])

-----------------------------------------------------------------------------
(* Connections. *)

Disconnected(w) ==
  [w EXCEPT !.source = Off, !.connecting = FALSE, !.connection = FALSE, !.shell = FALSE]

\* A connection hears its bus until that closes; its successor needs a new one.
LossQueued == {"lost", "replaced", "closed"} \cap Range(inbox) # {}
Hears == watch.connection /\ "closed" \notin Range(inbox)
Observable == Hears /\ session.bus /\ session.up

Settled(a) == IF a.pending THEN a ELSE NoAttempt

\* A removed watch's attempt lives on by itself until it is settled.
Abandoned(a) == IF a.owner = "watch" THEN Settled(Cancel([a EXCEPT !.owner = "orphan"])) ELSE a

\* The callback of an attempt, for the watch that still waits for it.
Connected(a) ==
  IF a.owner # "watch" THEN {watch}
  ELSE LET w == [watch EXCEPT !.connecting = FALSE]
       IN  IF a.result = "error" \/ ~session.bus THEN {Retry(w)}
           ELSE {Schedule([w EXCEPT !.connection = TRUE, !.shell = session.up, !.level = 0])}
                \cup (IF session.answers THEN {} ELSE {Retry(Disconnected(w))})

\* A step of the attempt; its callback runs as soon as it is settled.
AttemptBecomes(a) ==
  /\ attempt' = Settled(a)
  /\ watch' \in IF a.pending THEN {watch} ELSE Connected(a)

\* Whether the helper, the socket and its peer turn out as they should.
BusLooks == (IF session.bus THEN {TRUE} ELSE {})
            \cup (IF session.bus /\ session.answers THEN {} ELSE {FALSE})

BetweenChecks == check.stage = "idle" \/ check.stage = "ended"

AttemptPolls ==
  /\ attempt.pending /\ BetweenChecks
  /\ \E sound \in BusLooks : Poll(attempt, sound) # attempt /\ AttemptBecomes(Poll(attempt, sound))
  /\ UNCHANGED <<session, policy, lock, inbox, check, refresh, rearm, stopped, moves, history>>

\* A bus that does not answer keeps the Hello waiting until the socket is cut.
HelloEnds ==
  /\ attempt.pending /\ attempt.hello = "pending" /\ BetweenChecks
  /\ \E success \in BOOLEAN :
       /\ success => session.bus /\ session.answers /\ ~attempt.cut
       /\ ~success => attempt.cut \/ ~session.bus
       /\ AttemptBecomes(HelloReturns(attempt, success))
  /\ UNCHANGED <<session, policy, lock, inbox, check, refresh, rearm, stopped, moves, history>>

HelperRuns ==
  /\ \E a \in HelperSteps(attempt) :
       /\ a.packet = "socket" => session.bus
       /\ a.helper = "failure" => attempt.killed \/ FALSE \in BusLooks
       /\ attempt' = a
  /\ UNCHANGED <<session, policy, lock, watch, inbox, check, refresh, rearm, stopped, moves, history>>

\* A bus that answers does so before the deadline.
DeadlinePasses ==
  /\ attempt.pending /\ ~attempt.expired
  /\ ~session.bus \/ ~session.answers \/ attempt.done
  /\ attempt' = [attempt EXCEPT !.expired = TRUE]
  /\ UNCHANGED <<session, policy, lock, watch, inbox, check, refresh, rearm, stopped, moves, history>>

-----------------------------------------------------------------------------
(* What runs on the monitor's context between two checks. *)

ReplacedRearm == [rearm EXCEPT !.replaced = TRUE]

Refresh ==
  /\ Idle /\ refresh
  /\ refresh' = FALSE
  /\ IF policy.eligible
     THEN /\ LET w == IF watch.present THEN watch ELSE [NoWatch EXCEPT !.present = TRUE]
             IN  watch' = Schedule(IF w.connection THEN w ELSE [w EXCEPT !.level = 0])
          /\ UNCHANGED <<inbox, attempt, rearm, history>>
     ELSE /\ watch' = NoWatch /\ inbox' = <<>>
          /\ attempt' = Abandoned(attempt)
          /\ rearm' = ReplacedRearm
          /\ history' = [barred |-> FALSE, suspect |-> "no"]
  /\ UNCHANGED <<session, policy, lock, check, stopped, moves>>

\* A fault confirmed after the recovery, or another watch, is left as it is.
Rearmed(w) ==
  IF rearm.newerFault \/ rearm.replaced THEN w ELSE Schedule([w EXCEPT !.failed = FALSE])

Rearm ==
  /\ Idle /\ rearm.due
  /\ rearm' = NoRearm
  /\ watch' = Rearmed(watch)
  /\ UNCHANGED <<session, policy, lock, inbox, attempt, check, refresh, stopped, moves, history>>

\* Losing the Shell soon after a recovery may be that recovery's doing.
LostForgotten(w) == w
Lost(w) == [w EXCEPT !.interrupted = @ \/ w.recoveryRecent]

Dispatch ==
  /\ Idle /\ inbox # <<>>
  /\ LET m == Head(inbox)
         lost == IF m \in {"lost", "replaced"} THEN Lost(watch) ELSE watch
     IN  CASE m = "changed" -> watch' = Schedule(watch) /\ inbox' = Tail(inbox)
           [] m = "lost" ->
                watch' = [lost EXCEPT !.shell = FALSE, !.level = 0] /\ inbox' = Tail(inbox)
           [] m \in {"gained", "replaced"} ->
                /\ watch' = Schedule([lost EXCEPT !.shell = TRUE, !.level = 0])
                /\ inbox' = Tail(inbox)
           [] m = "closed" ->
                /\ watch' = Retry(Disconnected(IF watch.shell THEN Lost(watch) ELSE watch))
                /\ inbox' = <<>>
  /\ UNCHANGED <<session, policy, lock, attempt, check, refresh, rearm, stopped, moves, history>>

\* _check without a connection starts an attempt, if the last one is settled.
Connect ==
  /\ Idle /\ watch.source = 0 /\ ~watch.connection
  /\ LET w == [watch EXCEPT !.source = Off]
     IN  IF watch.connecting THEN watch' = w /\ UNCHANGED attempt
         ELSE IF attempt.pending \/ ~session.bus THEN watch' = Retry(w) /\ UNCHANGED attempt
         ELSE watch' = [w EXCEPT !.connecting = TRUE] /\ attempt' = NewAttempt
  /\ UNCHANGED <<session, policy, lock, inbox, check, refresh, rearm, stopped, moves, history>>

\* _check with one reads the revision and, unless the broker is busy, observes.
BeginCheck ==
  /\ Idle /\ watch.source = 0 /\ watch.connection
  /\ LET w == [watch EXCEPT !.source = Off]
     IN  IF ~watch.shell THEN watch' = w /\ UNCHANGED check
         ELSE IF lock # "free" THEN watch' = Busy(w) /\ UNCHANGED check
         ELSE /\ watch' = [w EXCEPT !.next = Interval]
              /\ Becomes("info")
  /\ UNCHANGED <<session, policy, lock, inbox, attempt, refresh, rearm, stopped, moves, history>>

-----------------------------------------------------------------------------
(* A check: observation without the lock, decision and effects under it. *)

\* A step that fails although the child's session answers is counted with the
\* changes of that session: an unreadable record, an effect not verified in time.
Move == moves < MaxMoves /\ moves' = moves + 1 /\ ~stopped

GiveUp(w) == watch' = w /\ check' = NoCheck

\* Two calls to the Shell, which may change between them or not answer at all.
ObserveInfo ==
  /\ check.stage = "info"
  /\ \/ /\ Observable
        /\ check' = [check EXCEPT !.stage = "switch", !.ext = session.shell.ext]
        /\ UNCHANGED watch
     \/ /\ ~session.answers \/ ~Observable
        /\ GiveUp(Retry(watch))
  /\ UNCHANGED <<session, policy, lock, inbox, attempt, refresh, rearm, stopped, moves, history>>

ObserveSwitch ==
  /\ check.stage = "switch"
  /\ \/ /\ Observable /\ check.ext # "loading"
        /\ check' = [check EXCEPT !.stage = "acquire", !.global = session.shell.global]
        /\ UNCHANGED watch
     \/ /\ check.ext = "loading" \/ ~session.answers \/ ~Observable
        /\ GiveUp(Retry(watch))
  /\ UNCHANGED <<session, policy, lock, inbox, attempt, refresh, rearm, stopped, moves, history>>

\* Any other acquisition since the revision was read makes the observation stale.
FreshIfFree == TRUE
Fresh == ~check.overtaken

Acquire ==
  /\ check.stage = "acquire"
  /\ IF lock # "free" \/ ~Fresh THEN GiveUp(Busy(watch)) /\ UNCHANGED <<lock, history>>
     ELSE IF ~policy.eligible \/ ~policy.on
     THEN /\ GiveUp([watch EXCEPT !.failed = FALSE, !.reported = FALSE, !.report = FALSE,
                                  !.recoveryRecent = FALSE, !.interrupted = FALSE, !.level = 0])
          /\ history' = [barred |-> FALSE, suspect |-> "no"]
          /\ UNCHANGED lock
     ELSE lock' = "monitor" /\ Becomes("reconcile") /\ UNCHANGED <<watch, history>>
  /\ UNCHANGED <<session, policy, inbox, attempt, refresh, rearm, stopped, moves>>

\* The configuration, the account or the record could not be read under the lock.
AcquireFails ==
  /\ check.stage = "acquire" /\ lock = "free" /\ Fresh /\ Move
  /\ GiveUp(Retry(watch))
  /\ UNCHANGED <<session, policy, lock, inbox, attempt, refresh, rearm, stopped, history>>

\* The same failure is reported once a minute at most, while it lasts once.
Fault(w) ==
  LET reported == w.reported /\ (w.failed \/ w.faultRecent)
  IN  [w EXCEPT !.failed = TRUE, !.reported = reported, !.report = ~reported,
                !.faultRecent = @ \/ ~w.failed]

Noted == [rearm EXCEPT !.newerFault = TRUE]
Barred == [history EXCEPT !.barred = TRUE]

Healthy == check.ext = "active" /\ check.global

\* The global switch found on ends the suspicion, a healthy extension the bar.
Observed == [history EXCEPT !.barred = @ /\ ~Healthy,
                            !.suspect = IF Healthy \/ (~watch.failed /\ check.global) THEN "no" ELSE @]

\* _reconcile: the fault flag first, then the hold for crash protection.
ReconciledLifts(w) ==
  IF check.ext = "error" THEN Fault(w) ELSE [w EXCEPT !.failed = FALSE, !.interrupted = FALSE]
Reconciled(w) ==
  CASE check.ext = "error" -> Fault(w)
    [] Healthy             -> [w EXCEPT !.failed = FALSE, !.interrupted = FALSE]
    [] OTHER               -> [w EXCEPT !.interrupted = @ /\ (w.failed \/ ~check.global)]

\* The transaction ends: its lock is released and the check is over.
Ends(w) == GiveUp(w) /\ lock' = "free"

\* _check after a transaction that succeeded: whatever was pending is reported.
DoneUnlessRetried(w) ==
  IF w.report /\ w.level = 0 THEN watch' = w /\ Becomes("report") /\ UNCHANGED lock
  ELSE Ends([w EXCEPT !.level = 0])
Done(w) ==
  IF w.report THEN watch' = w /\ Becomes("report") /\ UNCHANGED lock
  ELSE Ends([w EXCEPT !.level = 0])

Reconcile ==
  /\ check.stage = "reconcile"
  /\ IF stopped THEN Ends([watch EXCEPT !.level = 0]) /\ UNCHANGED <<rearm, history>>
     ELSE /\ LET w    == Reconciled(watch)
                 held == w.failed \/ w.interrupted
             IN  IF held \/ Healthy THEN Done(w)
                 ELSE IF check.ext = "changing" THEN Ends(Retry(w))
                 ELSE /\ watch' = [w EXCEPT !.recoveryRecent = TRUE]
                      /\ Becomes("enable") /\ UNCHANGED lock
          /\ rearm' = IF check.ext = "error" THEN Noted ELSE rearm
          /\ history' = IF check.ext = "error" THEN Barred ELSE Observed
  /\ UNCHANGED <<session, policy, inbox, attempt, refresh, stopped, moves>>

\* A signal that is still queued arms the timer for this change as well.
SignalChange == IF ~Hears \/ {"changed", "gained", "replaced"} \cap Range(inbox) # {}
                THEN inbox ELSE Append(inbox, "changed")

FailedLive == session.up /\ session.shell.ext = "error"
Recovered == [session EXCEPT !.shell = [ext |-> "active", global |-> TRUE]]

\* set_enabled: it verifies what it did, and undoes what it cannot verify.
Enable ==
  /\ check.stage = "enable"
  /\ \/ /\ session.bus /\ ~FailedLive /\ ~stopped
        /\ session' = Recovered
        /\ inbox' = SignalChange
        /\ Done(watch) /\ UNCHANGED <<rearm, history>>
     \/ /\ FailedLive
        /\ Done(Fault(watch)) /\ rearm' = Noted /\ history' = Barred
        /\ UNCHANGED <<session, inbox>>
     \/ /\ ~session.answers \/ ~session.bus \/ stopped
        /\ Ends(Retry(watch))
        /\ UNCHANGED <<session, inbox, rearm, history>>
  /\ UNCHANGED <<policy, attempt, refresh, stopped, moves>>

\* What it did shows too late or not at all; the undo, which may fail as well,
\* can leave the switch on.
EnableUnverified ==
  /\ check.stage = "enable" /\ session.bus /\ Move
  /\ session' \in {session, [session EXCEPT !.shell.global = TRUE]}
  /\ inbox' = SignalChange
  /\ Ends(Retry(watch))
  /\ UNCHANGED <<policy, attempt, refresh, rearm, stopped, history>>

\* The report needs the child's graphical session; until then it stays pending.
Report ==
  /\ check.stage = "report"
  /\ \/ /\ session.bus /\ ~stopped
        /\ Ends([watch EXCEPT !.reported = TRUE, !.report = FALSE, !.level = 0])
     \/ /\ ~session.answers \/ ~session.bus \/ stopped
        /\ Ends(Retry(watch))
  /\ UNCHANGED <<session, policy, inbox, attempt, refresh, rearm, stopped, moves, history>>

\* A session that answers can lack its graphical environment, or the command fail.
ReportFails ==
  /\ check.stage = "report" /\ session.bus /\ Move
  /\ Ends(Retry(watch))
  /\ UNCHANGED <<session, policy, inbox, attempt, refresh, rearm, stopped, history>>

CheckStep ==
  \/ ObserveInfo \/ ObserveSwitch \/ Acquire \/ Reconcile \/ Enable \/ Report
  \/ AcquireFails \/ EnableUnverified \/ ReportFails

-----------------------------------------------------------------------------
(* The rest of the broker. *)

\* Taking the lock advances the revision, whatever the transaction does then.
Begin ==
  /\ lock = "free" /\ ~stopped
  /\ lock' = "other"
  /\ check' = [check EXCEPT !.overtaken = check.stage \in {"info", "switch", "acquire"}]
  /\ UNCHANGED <<session, policy, watch, inbox, attempt, refresh, rearm, stopped, moves, history>>

End ==
  /\ lock = "other" /\ lock' = "free"
  /\ UNCHANGED <<session, policy, watch, inbox, attempt, check, refresh, rearm, stopped, moves, history>>

\* A save that turns the child's control on or off.
ParentSaves ==
  /\ lock = "other" /\ moves < MaxMoves /\ moves' = moves + 1
  /\ policy' = [policy EXCEPT !.on = ~@]
  /\ session' = IF policy.on THEN [session EXCEPT !.shell.ext = "inactive"]
                ELSE IF session.shell.ext = "error" THEN [session EXCEPT !.shell.global = TRUE]
                ELSE Recovered
  /\ inbox' = SignalChange /\ refresh' = TRUE
  /\ UNCHANGED <<lock, watch, attempt, check, rearm, stopped, history>>

\* recover_child_extension; recovered() runs before the lock is released.
ExplicitRecovery ==
  /\ lock = "other" /\ policy.eligible /\ policy.on
  /\ ~rearm.due /\ ~FailedLive
  /\ session' = Recovered
  /\ inbox' = SignalChange
  /\ rearm' = IF watch.present /\ ~stopped THEN [NoRearm EXCEPT !.due = TRUE] ELSE rearm
  /\ history' = [barred |-> FALSE,
                 suspect |-> IF history.suspect = "no" \/ LossQueued THEN history.suspect
                             ELSE "lifted"]
  /\ UNCHANGED <<policy, lock, watch, attempt, check, refresh, stopped, moves>>

\* close() sets the stop event; the thread leaves its loop between two callbacks.
Stop ==
  /\ ~stopped /\ stopped' = TRUE
  /\ UNCHANGED <<session, policy, lock, watch, inbox, attempt, check, refresh, rearm, moves, history>>

ShutDown ==
  /\ stopped /\ check.stage = "idle"
  /\ watch' = Disconnected(watch)
  /\ attempt' = Abandoned(attempt)
  /\ inbox' = <<>> /\ refresh' = FALSE /\ rearm' = NoRearm
  /\ Becomes("ended")
  /\ UNCHANGED <<session, policy, lock, stopped, moves, history>>

-----------------------------------------------------------------------------
(* The child's session, and time. *)

Signal(m) == inbox' = IF Hears THEN Append(inbox, m) ELSE inbox

ChildChanges(shell) ==
  /\ Move /\ session.up /\ shell # session.shell /\ shell.ext # "error"
  /\ session' = [session EXCEPT !.shell = shell]
  /\ inbox' = SignalChange
  /\ UNCHANGED <<policy, lock, watch, attempt, check, refresh, rearm, stopped, history>>

\* What a Shell finishes by itself is not a move of the child.
ShellSettles ==
  /\ session.up /\ session.shell.ext \in {"loading", "changing"} /\ ~stopped
  /\ \E ext \in {"active", "inactive", "error"} :
       /\ ext = "active" => session.shell.global
       /\ session' = [session EXCEPT !.shell.ext = ext]
  /\ inbox' = SignalChange
  /\ UNCHANGED <<policy, lock, watch, attempt, check, refresh, rearm, stopped, moves, history>>

ShellLost ==
  history' = [history EXCEPT !.suspect =
                IF watch.recoveryRecent THEN "lost" ELSE IF @ = "lifted" THEN "no" ELSE @]

ShellDies ==
  /\ Move /\ session.up
  /\ session' = [session EXCEPT !.up = FALSE]
  /\ Signal("lost") /\ ShellLost
  /\ UNCHANGED <<policy, lock, watch, attempt, check, refresh, rearm, stopped>>

BusDies ==
  /\ Move /\ session.bus
  /\ session' = [session EXCEPT !.bus = FALSE, !.up = FALSE]
  /\ Signal("closed")
  /\ IF session.up THEN ShellLost ELSE UNCHANGED history
  /\ attempt' = CutOff(attempt)
  /\ UNCHANGED <<policy, lock, watch, check, refresh, rearm, stopped>>

\* A new Shell takes longer to start than an idle monitor to handle the loss.
ShellStarts(shell) ==
  /\ ~session.up /\ ~stopped
  /\ check.stage = "idle" => inbox = <<>>
  /\ session' = [session EXCEPT !.bus = TRUE, !.up = TRUE, !.shell = shell]
  /\ inbox' = IF Hears THEN Append(inbox, "gained") ELSE inbox
  /\ refresh' = (refresh \/ ~session.bus)
  /\ UNCHANGED <<policy, lock, watch, attempt, check, rearm, stopped, moves, history>>

ShellReplaced(shell) ==
  /\ Move /\ session.up /\ check.stage = "idle"
  /\ session' = [session EXCEPT !.shell = shell]
  /\ Signal("replaced") /\ ShellLost
  /\ UNCHANGED <<policy, lock, watch, attempt, check, refresh, rearm, stopped>>

AnswersChange ==
  /\ IF session.answers THEN Move ELSE ~stopped /\ UNCHANGED moves
  /\ session' = [session EXCEPT !.answers = ~@]
  /\ UNCHANGED <<policy, lock, watch, inbox, attempt, check, refresh, rearm, stopped, history>>

EligibilityChanges ==
  /\ IF policy.eligible THEN Move ELSE ~stopped /\ UNCHANGED moves
  /\ policy' = [policy EXCEPT !.eligible = ~@]
  /\ refresh' = TRUE
  /\ UNCHANGED <<session, lock, watch, inbox, attempt, check, rearm, stopped, history>>

\* Queued signals are handled within a tick. What a check takes counts when it is over.
Tick ==
  /\ Idle /\ inbox = <<>>
  /\ watch.source > 0 \/ (watch.next > 0 /\ watch.source = Off)
  /\ watch' = [watch EXCEPT !.source = IF @ > 0 THEN @ - 1 ELSE @,
                            !.next = IF @ > 0 THEN @ - 1 ELSE @]
  /\ UNCHANGED <<session, policy, lock, inbox, attempt, check, refresh, rearm, stopped, moves, history>>

\* Sixty seconds after a recovery, or after a fault, as seen when signals are handled.
MinutePasses ==
  /\ inbox = <<>>
  /\ \/ watch.recoveryRecent /\ watch' = [watch EXCEPT !.recoveryRecent = FALSE]
     \/ watch.faultRecent /\ watch' = [watch EXCEPT !.faultRecent = FALSE]
  /\ UNCHANGED <<session, policy, lock, inbox, attempt, check, refresh, rearm, stopped, moves, history>>

-----------------------------------------------------------------------------
Init ==
  /\ \E shell \in Shells :
       session = [bus |-> TRUE, up |-> TRUE, answers |-> TRUE, shell |-> shell]
  /\ policy = [eligible |-> TRUE, on |-> TRUE]
  /\ lock = "free" /\ watch = NoWatch /\ inbox = <<>> /\ attempt = NoAttempt
  /\ check = NoCheck /\ refresh = TRUE /\ rearm = NoRearm /\ stopped = FALSE /\ moves = 0
  /\ history = [barred |-> FALSE, suspect |-> "no"]

Environment ==
  \/ \E shell \in Shells : ChildChanges(shell)
  \/ \E shell \in NewShells : ShellStarts(shell) \/ ShellReplaced(shell)
  \/ ShellSettles \/ ShellDies \/ BusDies \/ AnswersChange \/ EligibilityChanges
  \/ MinutePasses

MonitorStep == Refresh \/ Rearm \/ Dispatch \/ Connect \/ BeginCheck \/ ShutDown

MonitorRuns == MonitorStep \/ CheckStep \/ Tick
AttemptRuns == AttemptPolls \/ HelloEnds \/ HelperRuns \/ DeadlinePasses

Next ==
  \/ MonitorRuns \/ AttemptRuns
  \/ Begin \/ End \/ ParentSaves \/ ExplicitRecovery \/ Stop
  \/ Environment

\* The monitor's thread serves its checks and its attempts, and time passes:
\* helpers exit, deadlines and timers expire. Nobody has to release the request lock: a prompt may stay open.
Fairness == WF_vars(MonitorRuns) /\ WF_vars(AttemptRuns)

Spec == Init /\ [][Next]_vars /\ Fairness

-----------------------------------------------------------------------------
(* Properties. *)

\* Every variable keeps to its domain; in particular no delay exceeds the cap.
TypeOK ==
  /\ session \in Sessions
  /\ policy \in [eligible : BOOLEAN, on : BOOLEAN]
  /\ lock \in {"free", "monitor", "other"}
  /\ watch \in Watches
  /\ inbox \in Seq({"changed", "lost", "gained", "replaced", "closed"})
  /\ attempt \in Attempts
  /\ check \in Checks
  /\ refresh \in BOOLEAN /\ rearm \in Rearms /\ stopped \in BOOLEAN
  /\ moves \in 0..MaxMoves
  /\ history \in [barred : BOOLEAN, suspect : {"no", "lost", "lifted"}]

\* The monitor acts only on an observation no transaction has overlapped, also
\* none that began after the revision was read and has ended since.
ActsOnFreshObservation ==
  check.stage \in {"reconcile", "enable", "report"} => ~check.overtaken

\* A confirmed fault ends recovery until the extension was seen healthy, or an
\* explicit recovery succeeded after it: an earlier one must not erase the fault.
FaultEndsRecovery == check.stage = "enable" => ~history.barred

\* A Shell whose predecessor was lost soon after a recovery keeps its crash
\* switch: the monitor does not turn it on again, unless the loss is still queued
\* behind the very check that observes the successor.
CrashSwitchKept ==
  check.stage = "enable" /\ ~check.global => history.suspect # "lost" \/ LossQueued

\* Whoever gave an attempt up, and whenever: it is over, and another one begins,
\* only when its helper has been reaped and its Hello has returned, so neither
\* outlives its owner nor meets its successor.
AttemptsSettle ==
  [][attempt.pending /\ (~attempt'.pending \/ attempt' = NewAttempt)
       => ~Unreaped(attempt) /\ (attempt.hello = "pending" => HelloEnds)]_vars

\* "At most two probes per second even under a user signal flood": a check never
\* begins before the time set by the one before it.
ProbesSpaced == [][check.stage = "idle" /\ check'.stage = "info" => watch.next = 0]_vars

\* The monitor can act: the child is eligible, its Shell is up, answers and is
\* not changing, and nobody else holds the lock.
CanRecover ==
  /\ policy.eligible /\ policy.on /\ ~stopped
  /\ session.bus /\ session.up /\ session.answers
  /\ session.shell.ext \notin {"loading", "changing"}
  /\ lock \in {"free", "monitor"}


\* A fault once found is reported, even if the extension has recovered since.
FaultReported == <>[]CanRecover => []<>(~watch.report)

\* Shutdown, which is never revoked, ends with every helper reaped and every
\* Hello over, also on a bus that never answers.
ShutdownEnds == <>[]stopped => <>[](check.stage = "ended" /\ ~attempt.pending)

-----------------------------------------------------------------------------
\* "Successful explicit recovery rearms monitoring even if its brief healthy
\* transition is missed" (Screen-Time.md): after one, the monitor holds back only
\* for a Shell that was lost since, or for a fault.
RecoveryLiftsHold ==
  check.stage = "reconcile" /\ ~check.global /\ watch.interrupted /\ ~watch.failed /\ ~rearm.due
    => history.suspect # "lifted" \/ check.ext = "error"

=============================================================================
