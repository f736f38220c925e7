-------------------------- MODULE ExecutionPolicy --------------------------
(***************************************************************************)
(* How the application rules of all children reach the kernel policy       *)
(* daemon (execution_policy.py, the synchronization of adapters.py and its  *)
(* callers in core.py and service.py).                                     *)
(*                                                                         *)
(* Transactions, signals, the periodic rescan and the start of the broker  *)
(* all rebuild the same two rule files from every child's filter and       *)
(* preference record, under one lock.  A sync reads the sources one after  *)
(* the other, replaces the early and the main file, compiles them, and     *)
(* notifies the daemon, which loads the compiled rules later.  A failure   *)
(* writes the previous files back the same way, but an account that cannot *)
(* be looked up is no failure: the sync goes on without its rules.         *)
(*                                                                         *)
(* A rule stands for all that one child's filter, or one child's wildcard  *)
(* patterns, contribute to the files; rules are numbered in the order the  *)
(* sources are read.                                                       *)
(***************************************************************************)
EXTENDS Integers, FiniteSets

CONSTANTS
  Sources,      \* how many filters and records there are
  Patterns,     \* the rules that come from a preference record
  Accounts,     \* the rules of each child, in a set
  Own,          \* the rules of the child whose policy is saved
  EarlyGuards,  \* whether pattern rules go to the early file too
  MaxTroubles   \* BOUND: saves, changes from outside, crashes, restarts and failures

ASSUME PolicyAssumption ==
  /\ Sources \in Nat /\ Patterns \subseteq 1..Sources
  /\ Accounts \subseteq SUBSET (1..Sources) /\ Own \in Accounts
  /\ EarlyGuards \in BOOLEAN
  /\ MaxTroubles \in Nat

Rules == 1..Sources

Callers == {"start", "transaction", "signal", "rescan"}

VARIABLES
  wanted,    \* the rules the filters and records ask for now
  disk,      \* the two rule files
  compiled,  \* the rules the compile command last assembled
  live,      \* the rules the daemon has loaded
  due,       \* the daemon has been notified and has not loaded yet
  notified,  \* the layers of the last successful notification, in a set
  waiting,   \* the callers that wait for the lock
  sync,      \* the synchronization that holds the lock
  tx,        \* the save of an app policy
  broker,    \* how far the broker has started
  troubles,  \* saves, changes, crashes, restarts and failures so far
  settled,   \* history: rules that came into force and are wanted ever since
  missed,    \* history: rules a sync left out unread, and not in force again since
  seen       \* history: rules that were wanted since the broker began to start

vars == <<wanted, disk, compiled, live, due, notified, waiting, sync, tx, broker,
          troubles, settled, missed, seen>>

-----------------------------------------------------------------------------
(* The files. *)

Layers == [early : SUBSET Rules, main : SUBSET Rules]

Rendered(rules) ==
  [early |-> IF EarlyGuards THEN rules ELSE rules \ Patterns, main |-> rules]

\* The daemon's policy is what either file denies.
Denied(layers) == layers.early \cup layers.main

\* The rules in force once the daemon has handled its notifications.
Upcoming == IF due THEN compiled ELSE live

-----------------------------------------------------------------------------
(* A sync and a save. *)

SyncStages == {"idle", "read", "early", "main", "compile", "notify"}

\* listed: the rules of the children whose accounts were found.
Syncs ==
  [by : Callers \cup {"nobody"}, stage : SyncStages, next : 1..(Sources + 1),
   listed : SUBSET Rules, read : SUBSET Rules, previous : Layers, forward : BOOLEAN]

NoSync ==
  [by |-> "nobody", stage |-> "idle", next |-> 1, listed |-> Rules, read |-> {},
   previous |-> Rendered({}), forward |-> TRUE]

\* What the sync is writing: the new rules, or the old ones back.
Target == IF sync.forward THEN Rendered(sync.read) ELSE sync.previous

TxStages ==
  {"idle", "record", "filter", "first", "readback", "second",
   "undoRecord", "undoFilter", "undo", "undoReadback"}

\* kept: the child's rules nobody else changed since the save wrote them.
Txs ==
  [stage : TxStages, goal : SUBSET Own, old : SUBSET Own, saved : BOOLEAN,
   kept : SUBSET Own]

NoTx == [stage |-> "idle", goal |-> {}, old |-> {}, saved |-> FALSE, kept |-> {}]

TxAt(stage) == tx' = [tx EXCEPT !.stage = stage]

\* A record is kept behind the filter of the same child, and both by source.
Replace(rules, from) == (wanted \ (Own \cap from)) \cup (rules \cap from)

-----------------------------------------------------------------------------

Init ==
  /\ wanted \in SUBSET Rules
  /\ disk \in {Rendered(rules) : rules \in SUBSET Rules}
  /\ compiled = Denied(disk) /\ live = Denied(disk) /\ due = FALSE
  /\ notified = {}
  /\ waiting = {"start"} /\ sync = NoSync /\ tx = NoTx /\ broker = "starting"
  /\ troubles = 0
  /\ settled = wanted \cap live /\ missed = {} /\ seen = wanted

Trouble == troubles < MaxTroubles /\ troubles' = troubles + 1

-----------------------------------------------------------------------------
(* How a sync ends, for each of its callers. *)

\* A broker whose first sync fails does not go on; it is started again.
StartedAnyway(ok) == IF sync.by = "start" THEN "synced" ELSE broker
Started(ok) ==
  IF sync.by # "start" THEN broker ELSE IF ok THEN "synced" ELSE "starting"

Saved(ok) ==
  CASE tx.stage = "first" /\ ok  -> [tx EXCEPT !.stage = "readback"]
    [] tx.stage = "second" /\ ok -> NoTx
    [] tx.stage \in {"first", "second"} /\ ~ok ->
         [tx EXCEPT !.stage = IF tx.saved THEN "undoRecord" ELSE "undoFilter"]
    [] tx.stage = "undo" /\ ok   -> [tx EXCEPT !.stage = "undoReadback"]
    [] OTHER                     -> NoTx

Ended(ok) ==
  /\ sync' = NoSync
  /\ broker' = Started(ok)
  /\ waiting' = IF sync.by = "start" /\ ~ok THEN waiting \cup {"start"} ELSE waiting
  /\ tx' = IF sync.by = "transaction" THEN Saved(ok) ELSE tx

Continues(stage) ==
  /\ sync' = [sync EXCEPT !.stage = stage]
  /\ UNCHANGED <<broker, waiting, tx>>

\* A failure on the way forward writes the previous layers back; one on the
\* way back ends the sync, with nothing remembered of the daemon.
Fails ==
  IF sync.forward
  THEN /\ sync' = [sync EXCEPT !.stage = "early", !.forward = FALSE]
       /\ UNCHANGED <<broker, waiting, tx>>
  ELSE Ended(FALSE)

-----------------------------------------------------------------------------
(* The sync, in its order. *)

\* The rescan thread needs no place in the queue: it may come at any time.
EnterCoalesced(caller) ==
  /\ caller \in waiting
  /\ waiting' = waiting \ {caller}
  /\ IF sync.by = "nobody"
     THEN sync' = [NoSync EXCEPT !.by = caller, !.stage = "read"] /\ UNCHANGED tx
     ELSE /\ UNCHANGED sync
          /\ tx' = IF caller # "transaction" THEN tx
                   ELSE IF tx.stage = "first" THEN [tx EXCEPT !.stage = "readback"]
                   ELSE IF tx.stage = "second" THEN NoTx ELSE [tx EXCEPT !.stage = "undoReadback"]
  /\ UNCHANGED <<wanted, disk, compiled, live, due, notified, broker, troubles>>
Enter(caller) ==
  /\ sync.by = "nobody"
  /\ caller \in waiting \/ (caller = "rescan" /\ broker = "serving")
  /\ sync' = [NoSync EXCEPT !.by = caller, !.stage = "read"]
  /\ waiting' = waiting \ {caller}
  /\ UNCHANGED <<wanted, disk, compiled, live, due, notified, tx, broker, troubles>>

\* Every account is looked up before the first filter is read, and one whose
\* lookup fails, by a timeout for instance, is left out of the enumeration.
AccountSkipped(account) ==
  /\ sync.stage = "read" /\ sync.next = 1 /\ Trouble
  /\ sync' = [sync EXCEPT !.listed = @ \ account]
  /\ UNCHANGED <<wanted, disk, compiled, live, due, notified, waiting, tx, broker>>

Read ==
  /\ sync.stage = "read" /\ sync.next \in Rules
  /\ sync' = [sync EXCEPT !.next = @ + 1,
                          !.read = @ \cup ({sync.next} \cap sync.listed \cap wanted)]
  /\ UNCHANGED <<wanted, disk, compiled, live, due, notified, waiting, tx, broker,
                 troubles>>

ReadFailsSkips ==
  /\ sync.stage = "read" /\ sync.next \in Rules /\ Trouble
  /\ sync' = [sync EXCEPT !.next = @ + 1]
  /\ UNCHANGED <<wanted, disk, compiled, live, due, notified, waiting, tx, broker>>

\* The filter of a listed account, its record, or a rule file is unreadable, or
\* the enumeration itself fails: the whole sync fails and has changed nothing.
ReadFails ==
  /\ sync.stage = "read" /\ Trouble
  /\ Ended(FALSE)
  /\ UNCHANGED <<wanted, disk, compiled, live, due, notified>>

UpToDate == disk = Rendered(sync.read) /\ notified = {Rendered(sync.read)}

Skip ==
  /\ sync.stage = "read" /\ sync.next \notin Rules /\ UpToDate
  /\ Ended(TRUE)
  /\ UNCHANGED <<wanted, disk, compiled, live, due, notified, troubles>>

BeginWriteRemembering ==
  /\ sync.stage = "read" /\ sync.next \notin Rules /\ ~UpToDate
  /\ sync' = [sync EXCEPT !.stage = "early", !.previous = disk]
  /\ UNCHANGED <<wanted, disk, compiled, live, due, notified, waiting, tx, broker,
                 troubles>>
BeginWrite ==
  /\ sync.stage = "read" /\ sync.next \notin Rules /\ ~UpToDate
  /\ sync' = [sync EXCEPT !.stage = "early", !.previous = disk]
  /\ notified' = {}
  /\ UNCHANGED <<wanted, disk, compiled, live, due, waiting, tx, broker, troubles>>

WriteEarly ==
  /\ sync.stage = "early"
  /\ disk' = [disk EXCEPT !.early = Target.early]
  /\ Continues("main")
  /\ UNCHANGED <<wanted, compiled, live, due, notified, troubles>>

WriteMain ==
  /\ sync.stage = "main"
  /\ disk' = [disk EXCEPT !.main = Target.main]
  /\ Continues("compile")
  /\ UNCHANGED <<wanted, compiled, live, due, notified, troubles>>

\* A file is replaced by a rename: a write that fails has changed nothing.
WriteFails ==
  /\ sync.stage \in {"early", "main"} /\ Trouble
  /\ Fails
  /\ UNCHANGED <<wanted, disk, compiled, live, due, notified>>

Compile ==
  /\ sync.stage = "compile"
  /\ compiled' = Denied(disk)
  /\ Continues("notify")
  /\ UNCHANGED <<wanted, disk, live, due, notified, troubles>>

\* A command that fails, or overruns its 15 s, may have done its work.
CompileFails ==
  /\ sync.stage = "compile" /\ Trouble
  /\ compiled' \in {compiled, Denied(disk)}
  /\ Fails
  /\ UNCHANGED <<wanted, disk, live, due, notified>>

Notify ==
  /\ sync.stage = "notify"
  /\ due' = TRUE
  /\ notified' = {Target}
  /\ Ended(sync.forward)
  /\ UNCHANGED <<wanted, disk, compiled, live, troubles>>

NotifyFailsRemembered ==
  /\ sync.stage = "notify" /\ Trouble
  /\ due' \in {due, TRUE} /\ notified' = {Target}
  /\ Fails
  /\ UNCHANGED <<wanted, disk, compiled, live>>
NotifyFails ==
  /\ sync.stage = "notify" /\ Trouble
  /\ due' \in {due, TRUE}
  /\ Fails
  /\ UNCHANGED <<wanted, disk, compiled, live, notified>>

-----------------------------------------------------------------------------
(* The save of one child's app policy: record, filter with its own sync,    *)
(* read-back, sync.  Stopping applications comes after and is left out.     *)

\* AccountsService signals every write of a filter, the broker's included.
Signalled ==
  IF broker = "serving" THEN waiting \cup {"signal"} ELSE waiting

BeginSave(goal) ==
  /\ broker = "serving" /\ tx.stage = "idle" /\ Trouble
  /\ tx' = [NoTx EXCEPT !.stage = "record", !.goal = goal, !.old = wanted \cap Own]
  /\ UNCHANGED <<wanted, disk, compiled, live, due, notified, waiting, sync, broker>>

SaveRecord ==
  /\ tx.stage = "record"
  /\ wanted' = Replace(tx.goal, Patterns)
  /\ tx' = [tx EXCEPT !.stage = "filter", !.saved = TRUE, !.kept = Own \cap Patterns]
  /\ UNCHANGED <<disk, compiled, live, due, notified, waiting, sync, broker, troubles>>

SaveRecordFails ==
  /\ tx.stage = "record" /\ Trouble
  /\ TxAt("undoFilter")
  /\ UNCHANGED <<wanted, disk, compiled, live, due, notified, waiting, sync, broker>>

SetFilter ==
  /\ tx.stage = "filter"
  /\ wanted' = Replace(tx.goal, Rules \ Patterns)
  /\ tx' = [tx EXCEPT !.stage = "first", !.kept = @ \cup (Own \ Patterns)]
  /\ waiting' = Signalled \cup {"transaction"}
  /\ UNCHANGED <<disk, compiled, live, due, notified, sync, broker, troubles>>

SetFilterFails ==
  /\ tx.stage = "filter" /\ Trouble
  /\ TxAt("undoRecord")
  /\ UNCHANGED <<wanted, disk, compiled, live, due, notified, waiting, sync, broker>>

\* Another administrator may have changed the filter during the first sync.
FilterIs(rules) == (wanted \cap Own) \ Patterns = rules \ Patterns

ReadBack ==
  /\ tx.stage = "readback"
  /\ IF FilterIs(tx.goal)
     THEN TxAt("second") /\ waiting' = waiting \cup {"transaction"}
     ELSE TxAt("undoRecord") /\ UNCHANGED waiting
  /\ UNCHANGED <<wanted, disk, compiled, live, due, notified, sync, broker, troubles>>

UndoRecord ==
  /\ tx.stage = "undoRecord"
  /\ wanted' = Replace(tx.old, Patterns)
  /\ TxAt("undoFilter")
  /\ UNCHANGED <<disk, compiled, live, due, notified, waiting, sync, broker, troubles>>

UndoFilter ==
  /\ tx.stage = "undoFilter"
  /\ wanted' = Replace(tx.old, Rules \ Patterns)
  /\ TxAt("undo")
  /\ waiting' = Signalled \cup {"transaction"}
  /\ UNCHANGED <<disk, compiled, live, due, notified, sync, broker, troubles>>

\* A failed undo step and the undo's read-back both end the transaction.
UndoFails ==
  /\ tx.stage \in {"undoRecord", "undoFilter"} /\ Trouble
  /\ tx' = NoTx
  /\ UNCHANGED <<wanted, disk, compiled, live, due, notified, waiting, sync, broker>>

UndoReadBack ==
  /\ tx.stage = "undoReadback"
  /\ tx' = NoTx
  /\ UNCHANGED <<wanted, disk, compiled, live, due, notified, waiting, sync, broker,
                 troubles>>

-----------------------------------------------------------------------------
(* The broker process, the other callers, and the daemon. *)

\* Filter signals and rescans begin only after the first sync is over.
Subscribe ==
  /\ broker = "synced"
  /\ broker' = "serving"
  /\ UNCHANGED <<wanted, disk, compiled, live, due, notified, waiting, sync, tx, troubles>>

\* The files and the daemon outlive the broker; its memory of them does not.
Crash ==
  /\ Trouble
  /\ notified' = {} /\ sync' = NoSync /\ tx' = NoTx
  /\ waiting' = {"start"} /\ broker' = "starting"
  /\ UNCHANGED <<wanted, disk, compiled, live, due>>

\* Another program changes a filter through AccountsService.
FilterChanges(rule) ==
  /\ Trouble
  /\ wanted' = IF rule \in wanted THEN wanted \ {rule} ELSE wanted \cup {rule}
  /\ waiting' = Signalled
  /\ tx' = [tx EXCEPT !.kept = @ \ {rule}]
  /\ UNCHANGED <<disk, compiled, live, due, notified, sync, broker>>

Load ==
  /\ due /\ due' = FALSE
  /\ live' = compiled
  /\ UNCHANGED <<wanted, disk, compiled, notified, waiting, sync, tx, broker, troubles>>

\* A daemon that starts compiles the files as they are and loads them.
DaemonRestarts ==
  /\ Trouble
  /\ compiled' = Denied(disk) /\ live' = Denied(disk) /\ due' = FALSE
  /\ UNCHANGED <<wanted, disk, notified, waiting, sync, tx, broker>>

-----------------------------------------------------------------------------

SyncStep ==
  \/ \E caller \in Callers : Enter(caller)
  \/ Read \/ Skip \/ BeginWrite \/ WriteEarly \/ WriteMain \/ Compile \/ Notify

TxStep ==
  \/ SaveRecord \/ SetFilter \/ ReadBack
  \/ UndoRecord \/ UndoFilter \/ UndoReadBack

Faulty ==
  \/ \E account \in Accounts : AccountSkipped(account)
  \/ ReadFails \/ WriteFails \/ CompileFails \/ NotifyFails
  \/ SaveRecordFails \/ SetFilterFails \/ UndoFails

Outside ==
  \/ \E goal \in SUBSET Own : BeginSave(goal)
  \/ \E rule \in Rules \ Patterns : FilterChanges(rule)
  \/ Crash \/ DaemonRestarts

\* A rule is in force when it is wanted, in every place, and no sync that
\* began to read before it was wanted can still take it away.
InForce(rule) ==
  sync.by = "nobody" /\ rule \in wanted \cap live \cap compiled \cap disk.main

Next ==
  /\ SyncStep \/ TxStep \/ Faulty \/ Outside \/ Subscribe \/ Load
  /\ settled' = (settled \cup {rule \in Rules : InForce(rule)'}) \cap wanted'
  /\ missed' = (missed \cup (Rules \ sync'.listed)) \ {rule \in Rules : InForce(rule)'}
  /\ seen' = IF broker # "starting" /\ broker' = "starting" THEN wanted' ELSE seen \cup wanted'

\* The threads run and the daemon handles a notification it has received;
\* nothing obliges anyone to change a policy.
Fairness ==
  /\ WF_vars(SyncStep /\ Next) /\ WF_vars(TxStep /\ Next)
  /\ WF_vars(Subscribe /\ Next) /\ WF_vars(Load /\ Next)

Spec == Init /\ [][Next]_vars /\ Fairness

-----------------------------------------------------------------------------
(* Properties. *)

\* Every variable keeps to its domain.
TypeOK ==
  /\ wanted \subseteq Rules /\ disk \in Layers
  /\ compiled \subseteq Rules /\ live \subseteq Rules /\ due \in BOOLEAN
  /\ notified \subseteq Layers
  /\ waiting \subseteq Callers /\ sync \in Syncs /\ tx \in Txs
  /\ broker \in {"starting", "synced", "serving"}
  /\ troubles \in 0..MaxTroubles
  /\ settled \subseteq Rules /\ missed \subseteq Rules /\ seen \subseteq Rules

\* The memory of the last notification, which lets reconcile() return without
\* doing anything, never outlives its truth: while it is set, the files are
\* those it remembers and the daemon has loaded them or is about to.
NotifiedIsLoaded ==
  \A layers \in notified : disk = layers /\ Upcoming = Denied(layers)

\* A block that came into force and is still asked for stays in force, through
\* syncs for other children, unreadable records, half-written files, failed
\* commands and rollbacks, and restarts of the broker and of the daemon, until a
\* sync cannot look its account up and goes on without it (list_users()); from
\* the moment the block is back in force it is to stay again.
NoGap == settled \ missed \subseteq live

\* Once the broker accepts calls (_start_policy before register), no rule is
\* or will be in force that nobody has asked for since it began to start.
ServesFresh == broker = "serving" => Upcoming \subseteq seen

\* A save of an app policy reports success only when the rules the daemon has,
\* or is about to load, are the requested ones, whichever syncs ran in between,
\* wherever nobody else has changed the child's policy meanwhile and the save's
\* last sync found the child's account.
SaveLoaded ==
  [][tx.stage = "second" /\ tx'.stage = "idle" /\ broker' = "serving"
       => \A rule \in tx.kept \cap sync.listed :
             rule \in tx.goal <=> rule \in Upcoming']_vars

\* After the last change and the last fault the daemon comes to enforce exactly
\* what the filters and records ask for: no lost signal, skipped sync, crash or
\* rollback leaves stale rules in force for good.
Converges == <>[](live = wanted)

=============================================================================
