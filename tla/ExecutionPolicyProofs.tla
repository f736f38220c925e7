----------------------- MODULE ExecutionPolicyProofs -----------------------
(***************************************************************************)
(* Proofs about the synchronization of the execution rules: the types, and *)
(* four facts for every number of sources, every split into records and    *)
(* filters, and any number of changes, crashes and failures.               *)
(***************************************************************************)
EXTENDS ExecutionPolicy, TLAPS

Writing == sync.stage \in {"early", "main", "compile", "notify"}

\* While the memory of the daemon is set it is true, and a sync that writes
\* has cleared it; each stage knows how much of its target is in place.
MemoryInv ==
  /\ notified # {} => notified = {disk} /\ compiled = Denied(disk) /\ Upcoming = Denied(disk)
  /\ Writing => notified = {}
  /\ sync.stage = "main" => disk.early = Target.early
  /\ sync.stage \in {"compile", "notify"} => disk = Target
  /\ sync.stage = "notify" => compiled = Denied(disk)

\* The rules that are to stay in force: no sync has left them out since they were.
Held == settled \ missed

\* The main file alone keeps a held rule in force: what a sync has read or can
\* write back always holds it, and a sync that left an account out has none of it.
GapInv ==
  /\ Held \subseteq wanted \cap live \cap compiled \cap disk.main
  /\ sync.stage = "read" =>
       /\ \A rule \in Held : rule < sync.next => rule \in sync.read
       /\ Held \subseteq sync.listed
  /\ Writing => Held \subseteq sync.read \cap sync.previous.main

\* After the first sync nothing from before the start is left anywhere.
FreshInv ==
  /\ wanted \subseteq seen /\ sync.read \subseteq seen
  /\ broker # "starting" =>
       /\ Denied(disk) \subseteq seen /\ compiled \subseteq seen /\ Upcoming \subseteq seen
       /\ Writing => Denied(sync.previous) \subseteq seen

\* The goal of a save holds in the sources for what nobody else changed, and
\* the save's own sync reads it there for the accounts it has found.
SaveInv ==
  /\ "transaction" \in waiting \/ sync.by = "transaction"
       => tx.stage \in {"first", "second", "undo"}
  /\ ~("transaction" \in waiting /\ sync.by = "transaction")
  /\ tx.stage \in {"record", "filter", "first", "readback", "second"} =>
       \A rule \in tx.kept : rule \in tx.goal <=> rule \in wanted
  /\ sync.by = "transaction" /\ tx.stage = "second" =>
       \A rule \in tx.kept \cap sync.listed :
          Writing \/ rule < sync.next => (rule \in tx.goal <=> rule \in sync.read)
  /\ sync.stage = "read" => \A rule \in sync.read : rule < sync.next
  /\ sync.by = "nobody" <=> sync.stage = "idle"

IInv == TypeOK /\ MemoryInv /\ GapInv /\ FreshInv /\ SaveInv

-----------------------------------------------------------------------------
\* Every step computes the histories in the same way.
LEMMA GhostStep ==
  ASSUME Next
  PROVE  /\ settled' = (settled \cup {rule \in Rules : InForce(rule)'}) \cap wanted'
         /\ missed' = (missed \cup (Rules \ sync'.listed)) \ {rule \in Rules : InForce(rule)'}
         /\ seen' = IF broker # "starting" /\ broker' = "starting" THEN wanted' ELSE seen \cup wanted'
  BY DEF Next

LEMMA HistoryTypes ==
  ASSUME TypeOK, Next, wanted' \subseteq Rules
  PROVE  settled' \subseteq Rules /\ missed' \subseteq Rules /\ seen' \subseteq Rules
  BY GhostStep DEF TypeOK

LEMMA NullTypes ==
  NoSync \in Syncs /\ NoTx \in Txs
  BY PolicyAssumption DEF Syncs, NoSync, SyncStages, Rendered, Layers, Rules, NoTx, Txs, TxStages

LEMMA DeniedType ==
  ASSUME NEW layers \in Layers
  PROVE  Denied(layers) \in SUBSET Rules
  BY DEF Denied, Layers

LEMMA TroubleType ==
  ASSUME TypeOK, Trouble
  PROVE  troubles' \in 0..MaxTroubles
  BY PolicyAssumption DEF TypeOK, Trouble

\* A sync that ends leaves its caller in a proper stage.
LEMMA EndedTypes ==
  ASSUME TypeOK, NEW ok \in BOOLEAN, Ended(ok)
  PROVE  /\ sync' = NoSync /\ sync' \in Syncs
         /\ broker' \in {"starting", "synced", "serving"}
         /\ waiting' \subseteq Callers /\ tx' \in Txs
  <1>1. NoSync \in Syncs
    BY NullTypes
  <1>3. Saved(ok) \in Txs
    BY NullTypes DEF Saved, TypeOK, Txs, TxStages
  <1>4. Started(ok) \in {"starting", "synced", "serving"}
    BY DEF Started, TypeOK
  <1>5. waiting' \subseteq Callers
    BY DEF Ended, TypeOK, Callers
  <1> QED
    BY <1>1, <1>3, <1>4, <1>5 DEF Ended, TypeOK

LEMMA TargetType ==
  ASSUME TypeOK
  PROVE  Target \in Layers
  BY DEF TypeOK, Target, Rendered, Layers, Syncs

\* Every action keeps every variable in its domain.
LEMMA TypeStep ==
  ASSUME TypeOK, Next
  PROVE  TypeOK'
  <1>1. ASSUME NEW caller \in Callers, Enter(caller) PROVE TypeOK'
    <2>1. sync' \in Syncs
      BY <1>1, NullTypes DEF Enter, Syncs, SyncStages
    <2> QED
      BY <1>1, <2>1, HistoryTypes DEF Enter, TypeOK
  <1>2. CASE Read
    <2>1. sync.next + 1 \in 1..(Sources + 1) /\ sync.read \cup ({sync.next} \cap sync.listed \cap wanted) \in SUBSET Rules
      BY <1>2, PolicyAssumption DEF Read, TypeOK, Syncs, Rules
    <2>2. sync' \in Syncs
      BY <1>2, <2>1 DEF Read, TypeOK, Syncs
    <2> QED
      BY <1>2, <2>2, HistoryTypes DEF Read, TypeOK
  <1>3. CASE Skip
    <2>1. Ended(TRUE)
      BY <1>3 DEF Skip
    <2> QED
      BY <1>3, <2>1, EndedTypes, HistoryTypes, TroubleType DEF Skip, TypeOK
  <1>4. CASE BeginWrite
    BY <1>4, PolicyAssumption, HistoryTypes DEF BeginWrite, UpToDate, TypeOK, Layers,
      Syncs, Txs, NoSync, NoTx, SyncStages, TxStages, Callers, Rules, Rendered, Target,
      Denied
  <1>5. CASE WriteEarly
    BY <1>5, PolicyAssumption, HistoryTypes DEF WriteEarly, Continues, TypeOK, Layers,
      Syncs, Txs, NoSync, NoTx, SyncStages, TxStages, Callers, Rules, Rendered, Target,
      Denied
  <1>6. CASE WriteMain
    BY <1>6, PolicyAssumption, HistoryTypes DEF WriteMain, Continues, TypeOK, Layers,
      Syncs, Txs, NoSync, NoTx, SyncStages, TxStages, Callers, Rules, Rendered, Target,
      Denied
  <1>7. CASE Compile
    <2>1. sync' \in Syncs
      BY <1>7 DEF Compile, Continues, TypeOK, Syncs, SyncStages
    <2> QED
      BY <1>7, <2>1, HistoryTypes, DeniedType DEF Compile, Continues, TypeOK
  <1>8. CASE Notify
    <2>1. Ended(sync.forward) /\ sync.forward \in BOOLEAN
      BY <1>8 DEF Notify, TypeOK, Syncs
    <2> QED
      BY <1>8, <2>1, EndedTypes, TargetType, HistoryTypes DEF Notify, TypeOK
  <1>9. CASE SaveRecord
    BY <1>9, PolicyAssumption, HistoryTypes DEF SaveRecord, TxAt, Replace, TypeOK,
      Layers, Syncs, Txs, NoSync, NoTx, SyncStages, TxStages, Callers, Rules, Rendered,
      Target, Denied
  <1>10. CASE SetFilter
    BY <1>10, PolicyAssumption, HistoryTypes DEF SetFilter, TxAt, Replace, Signalled,
      TypeOK, Layers, Syncs, Txs, NoSync, NoTx, SyncStages, TxStages, Callers, Rules,
      Rendered, Target, Denied
  <1>11. CASE ReadBack
    BY <1>11, PolicyAssumption, HistoryTypes DEF ReadBack, TxAt, FilterIs, TypeOK,
      Layers, Syncs, Txs, NoSync, NoTx, SyncStages, TxStages, Callers, Rules, Rendered,
      Target, Denied
  <1>12. CASE UndoRecord
    BY <1>12, PolicyAssumption, HistoryTypes DEF UndoRecord, TxAt, Replace, TypeOK,
      Layers, Syncs, Txs, NoSync, NoTx, SyncStages, TxStages, Callers, Rules, Rendered,
      Target, Denied
  <1>13. CASE UndoFilter
    BY <1>13, PolicyAssumption, HistoryTypes DEF UndoFilter, TxAt, Replace, Signalled,
      TypeOK, Layers, Syncs, Txs, NoSync, NoTx, SyncStages, TxStages, Callers, Rules,
      Rendered, Target, Denied
  <1>14. CASE UndoReadBack
    BY <1>14, PolicyAssumption, HistoryTypes DEF UndoReadBack, TypeOK, Layers, Syncs,
      Txs, NoSync, NoTx, SyncStages, TxStages, Callers, Rules, Rendered, Target, Denied
  <1>15. CASE ReadFails
    <2>1. Ended(FALSE)
      BY <1>15 DEF ReadFails
    <2> QED
      BY <1>15, <2>1, EndedTypes, HistoryTypes, TroubleType DEF ReadFails, TypeOK
  <1>16. CASE WriteFails
    <2>1. /\ sync' \in Syncs /\ broker' \in {"starting", "synced", "serving"}
          /\ waiting' \subseteq Callers /\ tx' \in Txs
      <3>1. CASE sync.forward
        BY <1>16, <3>1 DEF WriteFails, Fails, TypeOK, Syncs, SyncStages
      <3>2. CASE ~sync.forward
        BY <1>16, <3>2, EndedTypes DEF WriteFails, Fails
      <3> QED
        BY <3>1, <3>2
    <2> QED
      BY <1>16, <2>1, HistoryTypes, TroubleType, DeniedType DEF WriteFails, TypeOK
  <1>17. CASE CompileFails
    <2>1. /\ sync' \in Syncs /\ broker' \in {"starting", "synced", "serving"}
          /\ waiting' \subseteq Callers /\ tx' \in Txs
      <3>1. CASE sync.forward
        BY <1>17, <3>1 DEF CompileFails, Fails, TypeOK, Syncs, SyncStages
      <3>2. CASE ~sync.forward
        BY <1>17, <3>2, EndedTypes DEF CompileFails, Fails
      <3> QED
        BY <3>1, <3>2
    <2> QED
      BY <1>17, <2>1, HistoryTypes, TroubleType, DeniedType DEF CompileFails, TypeOK
  <1>18. CASE NotifyFails
    <2>1. /\ sync' \in Syncs /\ broker' \in {"starting", "synced", "serving"}
          /\ waiting' \subseteq Callers /\ tx' \in Txs
      <3>1. CASE sync.forward
        BY <1>18, <3>1 DEF NotifyFails, Fails, TypeOK, Syncs, SyncStages
      <3>2. CASE ~sync.forward
        BY <1>18, <3>2, EndedTypes DEF NotifyFails, Fails
      <3> QED
        BY <3>1, <3>2
    <2> QED
      BY <1>18, <2>1, HistoryTypes, TroubleType, DeniedType DEF NotifyFails, TypeOK
  <1>19. CASE SaveRecordFails
    BY <1>19, PolicyAssumption, HistoryTypes DEF SaveRecordFails, TxAt, Trouble, TypeOK,
      Layers, Syncs, Txs, NoSync, NoTx, SyncStages, TxStages, Callers, Rules, Rendered,
      Target, Denied
  <1>20. CASE SetFilterFails
    BY <1>20, PolicyAssumption, HistoryTypes DEF SetFilterFails, TxAt, Trouble, TypeOK,
      Layers, Syncs, Txs, NoSync, NoTx, SyncStages, TxStages, Callers, Rules, Rendered,
      Target, Denied
  <1>21. CASE UndoFails
    <2> QED
      BY <1>21, NullTypes, HistoryTypes, PolicyAssumption DEF UndoFails, Trouble, TypeOK
  <1>22. ASSUME NEW goal \in SUBSET Own, BeginSave(goal) PROVE TypeOK'
    <2>1. tx' \in Txs
      BY <1>22 DEF BeginSave, NoTx, Txs, TxStages
    <2> QED
      BY <1>22, <2>1, HistoryTypes, PolicyAssumption DEF BeginSave, Trouble, TypeOK
  <1>23. ASSUME NEW rule \in Rules \ Patterns, FilterChanges(rule) PROVE TypeOK'
    BY <1>23, PolicyAssumption, HistoryTypes DEF FilterChanges, Signalled, Trouble,
      TypeOK, Layers, Syncs, Txs, NoSync, NoTx, SyncStages, TxStages, Callers, Rules,
      Rendered, Target, Denied
  <1>24. CASE Crash
    <2> QED
      BY <1>24, NullTypes, HistoryTypes, PolicyAssumption DEF Crash, Trouble, TypeOK, Callers
  <1>25. CASE DaemonRestarts
    BY <1>25, HistoryTypes, TroubleType, DeniedType DEF DaemonRestarts, TypeOK
  <1>26. CASE Subscribe
    BY <1>26, HistoryTypes DEF Subscribe, TypeOK
  <1>27. CASE Load
    BY <1>27, HistoryTypes DEF Load, TypeOK
  <1>28. ASSUME NEW account \in Accounts, AccountSkipped(account) PROVE TypeOK'
    <2>1. sync' \in Syncs
      BY <1>28 DEF AccountSkipped, TypeOK, Syncs
    <2> QED
      BY <1>28, <2>1, HistoryTypes, TroubleType DEF AccountSkipped, TypeOK
  <1> QED
    BY <1>1, <1>2, <1>3, <1>4, <1>5, <1>6, <1>7, <1>8, <1>9, <1>10, <1>11, <1>12, <1>13,
       <1>14, <1>15, <1>16, <1>17, <1>18, <1>19, <1>20, <1>21, <1>22, <1>23, <1>24,
       <1>25, <1>26, <1>27, <1>28
       DEF Next, SyncStep, TxStep, Faulty, Outside

LEMMA MemoryKept ==
  ASSUME MemoryInv, UNCHANGED <<disk, compiled, live, due, notified, sync>>
  PROVE  MemoryInv'
  BY DEF MemoryInv, Writing, Target, Upcoming

\* The memory is cleared before the first write and set after the notification.
LEMMA MemoryStep ==
  ASSUME TypeOK, MemoryInv, Next
  PROVE  MemoryInv'
  <1>1. ASSUME NEW caller \in Callers, Enter(caller) PROVE MemoryInv'
    BY <1>1, PolicyAssumption DEF Enter, TypeOK, MemoryInv, Writing, Layers, Syncs, Txs,
      NoSync, SyncStages, Callers, Rendered, Target, Denied, Upcoming
  <1>2. CASE Read
    BY <1>2, PolicyAssumption DEF Read, TypeOK, MemoryInv, Writing, Layers, Syncs, Txs,
      NoSync, SyncStages, Callers, Rendered, Target, Denied, Upcoming
  <1>3. CASE Skip
    BY <1>3, PolicyAssumption DEF Skip, Ended, Saved, Started, UpToDate, TypeOK,
      MemoryInv, Writing, Layers, Syncs, Txs, NoSync, SyncStages, Callers, Rendered,
      Target, Denied, Upcoming
  <1>4. CASE BeginWrite
    BY <1>4, PolicyAssumption DEF BeginWrite, UpToDate, TypeOK, MemoryInv, Writing,
      Layers, Syncs, Txs, NoSync, SyncStages, Callers, Rendered, Target, Denied,
      Upcoming
  <1>5. CASE WriteEarly
    BY <1>5, PolicyAssumption DEF WriteEarly, Continues, TypeOK, MemoryInv, Writing,
      Layers, Syncs, Txs, NoSync, SyncStages, Callers, Rendered, Target, Denied,
      Upcoming
  <1>6. CASE WriteMain
    <2>1. Target' = Target /\ sync'.stage = "compile"
      BY <1>6 DEF WriteMain, Continues, TypeOK, Syncs, Target
    <2>2. disk' = Target
      BY <1>6, TargetType DEF WriteMain, TypeOK, MemoryInv, Layers
    <2> QED
      BY <1>6, <2>1, <2>2 DEF WriteMain, Continues, MemoryInv, Writing
  <1>7. CASE Compile
    BY <1>7, PolicyAssumption DEF Compile, Continues, TypeOK, MemoryInv, Writing,
      Layers, Syncs, Txs, NoSync, SyncStages, Callers, Rendered, Target, Denied,
      Upcoming
  <1>8. CASE Notify
    <2>1. sync' = NoSync
      BY <1>8 DEF Notify, Ended
    <2> QED
      BY <1>8, <2>1 DEF Notify, MemoryInv, Writing, NoSync, Upcoming
  <1>9. CASE SaveRecord
    BY <1>9, MemoryKept DEF SaveRecord
  <1>10. CASE SetFilter
    BY <1>10, MemoryKept DEF SetFilter
  <1>11. CASE ReadBack
    BY <1>11, MemoryKept DEF ReadBack
  <1>12. CASE UndoRecord
    BY <1>12, MemoryKept DEF UndoRecord
  <1>13. CASE UndoFilter
    BY <1>13, MemoryKept DEF UndoFilter
  <1>14. CASE UndoReadBack
    BY <1>14, MemoryKept DEF UndoReadBack
  <1>15. CASE ReadFails
    BY <1>15, PolicyAssumption DEF ReadFails, Ended, Saved, Started, TypeOK, MemoryInv,
      Writing, Layers, Syncs, Txs, NoSync, SyncStages, Callers, Rendered, Target,
      Denied, Upcoming
  <1>16. CASE WriteFails
    <2>1. notified' = {}
      BY <1>16 DEF WriteFails, MemoryInv, Writing
    <2>2. sync'.stage \in {"idle", "early"}
      <3>1. CASE sync.forward
        BY <1>16, <3>1 DEF WriteFails, Fails, TypeOK, Syncs
      <3>2. CASE ~sync.forward
        BY <1>16, <3>2 DEF WriteFails, Fails, Ended, NoSync
      <3> QED
        BY <3>1, <3>2
    <2> QED
      BY <2>1, <2>2 DEF MemoryInv
  <1>17. CASE CompileFails
    <2>1. notified' = {}
      BY <1>17 DEF CompileFails, MemoryInv, Writing
    <2>2. sync'.stage \in {"idle", "early"}
      <3>1. CASE sync.forward
        BY <1>17, <3>1 DEF CompileFails, Fails, TypeOK, Syncs
      <3>2. CASE ~sync.forward
        BY <1>17, <3>2 DEF CompileFails, Fails, Ended, NoSync
      <3> QED
        BY <3>1, <3>2
    <2> QED
      BY <2>1, <2>2 DEF MemoryInv
  <1>18. CASE NotifyFails
    <2>1. notified' = {}
      BY <1>18 DEF NotifyFails, MemoryInv, Writing
    <2>2. sync'.stage \in {"idle", "early"}
      <3>1. CASE sync.forward
        BY <1>18, <3>1 DEF NotifyFails, Fails, TypeOK, Syncs
      <3>2. CASE ~sync.forward
        BY <1>18, <3>2 DEF NotifyFails, Fails, Ended, NoSync
      <3> QED
        BY <3>1, <3>2
    <2> QED
      BY <2>1, <2>2 DEF MemoryInv
  <1>19. CASE SaveRecordFails
    BY <1>19, MemoryKept DEF SaveRecordFails
  <1>20. CASE SetFilterFails
    BY <1>20, MemoryKept DEF SetFilterFails
  <1>21. CASE UndoFails
    BY <1>21, MemoryKept DEF UndoFails
  <1>22. ASSUME NEW goal \in SUBSET Own, BeginSave(goal) PROVE MemoryInv'
    BY <1>22, MemoryKept DEF BeginSave
  <1>23. ASSUME NEW rule \in Rules \ Patterns, FilterChanges(rule) PROVE MemoryInv'
    BY <1>23, MemoryKept DEF FilterChanges
  <1>24. CASE Crash
    BY <1>24, PolicyAssumption DEF Crash, TypeOK, MemoryInv, Writing, Layers, Syncs,
      Txs, NoSync, SyncStages, Callers, Rendered, Target, Denied, Upcoming
  <1>25. CASE DaemonRestarts
    BY <1>25, PolicyAssumption DEF DaemonRestarts, TypeOK, MemoryInv, Writing, Layers,
      Syncs, Txs, NoSync, SyncStages, Callers, Rendered, Target, Denied, Upcoming
  <1>26. CASE Subscribe
    BY <1>26, MemoryKept DEF Subscribe
  <1>27. CASE Load
    BY <1>27, PolicyAssumption DEF Load, TypeOK, MemoryInv, Writing, Layers, Syncs, Txs,
      NoSync, SyncStages, Callers, Rendered, Target, Denied, Upcoming
  <1>28. ASSUME NEW account \in Accounts, AccountSkipped(account) PROVE MemoryInv'
    BY <1>28 DEF AccountSkipped, TypeOK, MemoryInv, Writing, Syncs, Target, Upcoming
  <1> QED
    BY <1>1, <1>2, <1>3, <1>4, <1>5, <1>6, <1>7, <1>8, <1>9, <1>10, <1>11, <1>12, <1>13,
       <1>14, <1>15, <1>16, <1>17, <1>18, <1>19, <1>20, <1>21, <1>22, <1>23, <1>24,
       <1>25, <1>26, <1>27, <1>28
       DEF Next, SyncStep, TxStep, Faulty, Outside

\* A rule can only settle, or be forgiven its absence, while no sync runs, so a
\* running sync has what was held when it began and loses what it leaves out.
LEMMA GapFrame ==
  ASSUME TypeOK, Next,
         Held \cap wanted' \subseteq live' \cap compiled' \cap disk'.main,
         sync'.by = "nobody" => sync'.stage = "idle",
         sync'.stage = "read" => \A rule \in Held \cap wanted' : rule < sync'.next => rule \in sync'.read,
         Writing' => Held \cap wanted' \subseteq sync'.read \cap sync'.previous.main
  PROVE  GapInv'
  <1>1. sync'.by # "nobody" => Held' \subseteq Held \cap wanted'
    BY GhostStep DEF InForce, Held
  <1>2. Held' \subseteq wanted' \cap live' \cap compiled' \cap disk'.main
    BY GhostStep DEF InForce, Held
  <1>3. sync'.by # "nobody" => Held' \subseteq sync'.listed
    BY GhostStep DEF InForce, Held, TypeOK
  <1> QED
    BY <1>1, <1>2, <1>3 DEF GapInv, Writing

LEMMA GapKept ==
  ASSUME TypeOK, SaveInv, GapInv, Next, UNCHANGED <<live, compiled, disk, sync>>
  PROVE  GapInv'
  BY GapFrame DEF GapInv, SaveInv, Writing, TypeOK, Syncs

LEMMA GapEnded ==
  ASSUME TypeOK, GapInv, Next, UNCHANGED <<wanted, disk>>, sync' = NoSync,
         Held \subseteq live' \cap compiled'
  PROVE  GapInv'
  BY GapFrame DEF GapInv, NoSync, Writing

LEMMA GapRewind ==
  ASSUME TypeOK, SaveInv, GapInv, Next, Writing, UNCHANGED <<wanted, disk>>, Fails,
         Held \subseteq live' \cap compiled'
  PROVE  GapInv'
  <1>1. CASE sync.forward
    <2>1. sync' = [sync EXCEPT !.stage = "early", !.forward = FALSE]
      BY <1>1 DEF Fails
    <2> QED
      BY <2>1, GapFrame DEF GapInv, SaveInv, Writing, TypeOK, Syncs
  <1>2. CASE ~sync.forward
    BY <1>2, GapEnded DEF Fails, Ended
  <1> QED
    BY <1>1, <1>2

\* No action takes a held rule from a place that can still reach the daemon.
LEMMA GapStep ==
  ASSUME TypeOK, MemoryInv, SaveInv, GapInv, Next
  PROVE  GapInv'
  <1>1. ASSUME NEW caller \in Callers, Enter(caller) PROVE GapInv'
    BY <1>1, GapFrame, PolicyAssumption DEF Enter, GapInv, Writing, NoSync, TypeOK, Callers, Rules
  <1>2. CASE Read
    BY <1>2, GapFrame, PolicyAssumption DEF Read, GapInv, SaveInv, Writing, TypeOK, Syncs, Rules
  <1>3. CASE Skip
    BY <1>3, GapEnded DEF Skip, Ended, GapInv
  <1>4. CASE BeginWrite
    BY <1>4, GapFrame, PolicyAssumption DEF BeginWrite, GapInv, SaveInv, Writing, TypeOK, Syncs, Rules
  <1>5. CASE WriteEarly
    <2>1. sync' = [sync EXCEPT !.stage = "main"] /\ sync'.stage = "main" /\ wanted' = wanted
      BY <1>5 DEF WriteEarly, Continues, TypeOK, Syncs
    <2>2. Held \subseteq live' \cap compiled' \cap disk'.main
      BY <1>5 DEF WriteEarly, GapInv, Writing, Target, Rendered, Denied, TypeOK, Layers
    <2> QED
      BY <1>5, <2>1, <2>2, GapFrame DEF WriteEarly, GapInv, SaveInv, Writing, TypeOK, Syncs
  <1>6. CASE WriteMain
    <2>1. sync' = [sync EXCEPT !.stage = "compile"] /\ sync'.stage = "compile" /\ wanted' = wanted
      BY <1>6 DEF WriteMain, Continues, TypeOK, Syncs
    <2>2. Held \subseteq live' \cap compiled' \cap disk'.main
      BY <1>6 DEF WriteMain, GapInv, Writing, Target, Rendered, Denied, TypeOK, Layers
    <2> QED
      BY <1>6, <2>1, <2>2, GapFrame DEF WriteMain, GapInv, SaveInv, Writing, TypeOK, Syncs
  <1>7. CASE Compile
    <2>1. sync' = [sync EXCEPT !.stage = "notify"] /\ sync'.stage = "notify" /\ wanted' = wanted
      BY <1>7 DEF Compile, Continues, TypeOK, Syncs
    <2>2. Held \subseteq live' \cap compiled' \cap disk'.main
      BY <1>7 DEF Compile, GapInv, Writing, Target, Rendered, Denied, TypeOK, Layers
    <2> QED
      BY <1>7, <2>1, <2>2, GapFrame DEF Compile, GapInv, SaveInv, Writing, TypeOK, Syncs
  <1>8. CASE Notify
    BY <1>8, GapEnded DEF Notify, Ended, GapInv
  <1>9. CASE SaveRecord
    BY <1>9, GapKept DEF SaveRecord
  <1>10. CASE SetFilter
    BY <1>10, GapKept DEF SetFilter
  <1>11. CASE ReadBack
    BY <1>11, GapKept DEF ReadBack
  <1>12. CASE UndoRecord
    BY <1>12, GapKept DEF UndoRecord
  <1>13. CASE UndoFilter
    BY <1>13, GapKept DEF UndoFilter
  <1>14. CASE UndoReadBack
    BY <1>14, GapKept DEF UndoReadBack
  <1>15. CASE ReadFails
    BY <1>15, GapEnded DEF ReadFails, Ended, GapInv
  <1>16. CASE WriteFails
    BY <1>16, GapRewind DEF WriteFails, Writing, GapInv
  <1>17. CASE CompileFails
    BY <1>17, GapRewind DEF CompileFails, Writing, GapInv, Denied
  <1>18. CASE NotifyFails
    BY <1>18, GapRewind DEF NotifyFails, Writing, GapInv
  <1>19. CASE SaveRecordFails
    BY <1>19, GapKept DEF SaveRecordFails
  <1>20. CASE SetFilterFails
    BY <1>20, GapKept DEF SetFilterFails
  <1>21. CASE UndoFails
    BY <1>21, GapKept DEF UndoFails
  <1>22. ASSUME NEW goal \in SUBSET Own, BeginSave(goal) PROVE GapInv'
    BY <1>22, GapKept DEF BeginSave
  <1>23. ASSUME NEW rule \in Rules \ Patterns, FilterChanges(rule) PROVE GapInv'
    BY <1>23, GapKept DEF FilterChanges
  <1>24. CASE Crash
    BY <1>24, GapEnded DEF Crash, GapInv
  <1>25. CASE DaemonRestarts
    BY <1>25, GapFrame DEF DaemonRestarts, GapInv, SaveInv, Writing, Denied, TypeOK, Syncs
  <1>26. CASE Subscribe
    BY <1>26, GapKept DEF Subscribe
  <1>27. CASE Load
    BY <1>27, GapFrame DEF Load, GapInv, SaveInv, Writing, TypeOK, Syncs
  <1>28. ASSUME NEW account \in Accounts, AccountSkipped(account) PROVE GapInv'
    BY <1>28, GapFrame DEF AccountSkipped, GapInv, SaveInv, Writing, TypeOK, Syncs
  <1> QED
    BY <1>1, <1>2, <1>3, <1>4, <1>5, <1>6, <1>7, <1>8, <1>9, <1>10, <1>11, <1>12, <1>13,
       <1>14, <1>15, <1>16, <1>17, <1>18, <1>19, <1>20, <1>21, <1>22, <1>23, <1>24,
       <1>25, <1>26, <1>27, <1>28
       DEF Next, SyncStep, TxStep, Faulty, Outside

\* What was not wanted since the start is gone with the first sync.
LEMMA FreshStep ==
  ASSUME TypeOK, MemoryInv, FreshInv, Next
  PROVE  FreshInv'
  <1>1. ASSUME NEW caller \in Callers, Enter(caller) PROVE FreshInv'
    BY <1>1, PolicyAssumption, GhostStep DEF Enter, TypeOK, FreshInv, MemoryInv,
      Writing, Layers, Syncs, NoSync, SyncStages, Callers, Rules, Rendered, Target,
      Denied, Upcoming
  <1>2. CASE Read
    BY <1>2, PolicyAssumption, GhostStep DEF Read, TypeOK, FreshInv, MemoryInv, Writing,
      Layers, Syncs, NoSync, SyncStages, Callers, Rules, Rendered, Target, Denied,
      Upcoming
  <1>3. CASE Skip
    BY <1>3, PolicyAssumption, GhostStep DEF Skip, Ended, Saved, Started, UpToDate,
      TypeOK, FreshInv, MemoryInv, Writing, Layers, Syncs, NoSync, SyncStages, Callers,
      Rules, Rendered, Target, Denied, Upcoming
  <1>4. CASE BeginWrite
    BY <1>4, PolicyAssumption, GhostStep DEF BeginWrite, UpToDate, TypeOK, FreshInv,
      MemoryInv, Writing, Layers, Syncs, NoSync, SyncStages, Callers, Rules, Rendered,
      Target, Denied, Upcoming
  <1>5. CASE WriteEarly
    BY <1>5, PolicyAssumption, GhostStep DEF WriteEarly, Continues, TypeOK, FreshInv,
      MemoryInv, Writing, Layers, Syncs, NoSync, SyncStages, Callers, Rules, Rendered,
      Target, Denied, Upcoming
  <1>6. CASE WriteMain
    BY <1>6, PolicyAssumption, GhostStep DEF WriteMain, Continues, TypeOK, FreshInv,
      MemoryInv, Writing, Layers, Syncs, NoSync, SyncStages, Callers, Rules, Rendered,
      Target, Denied, Upcoming
  <1>7. CASE Compile
    BY <1>7, PolicyAssumption, GhostStep DEF Compile, Continues, TypeOK, FreshInv,
      MemoryInv, Writing, Layers, Syncs, NoSync, SyncStages, Callers, Rules, Rendered,
      Target, Denied, Upcoming
  <1>8. CASE Notify
    BY <1>8, PolicyAssumption, GhostStep DEF Notify, Ended, Saved, Started, TypeOK,
      FreshInv, MemoryInv, Writing, Layers, Syncs, NoSync, SyncStages, Callers, Rules,
      Rendered, Target, Denied, Upcoming
  <1>9. CASE SaveRecord
    BY <1>9, PolicyAssumption, GhostStep DEF SaveRecord, TxAt, Replace, TypeOK,
      FreshInv, MemoryInv, Writing, Layers, Syncs, NoSync, SyncStages, Callers, Rules,
      Rendered, Target, Denied, Upcoming
  <1>10. CASE SetFilter
    BY <1>10, PolicyAssumption, GhostStep DEF SetFilter, TxAt, Replace, Signalled,
      TypeOK, FreshInv, MemoryInv, Writing, Layers, Syncs, NoSync, SyncStages, Callers,
      Rules, Rendered, Target, Denied, Upcoming
  <1>11. CASE ReadBack
    BY <1>11, PolicyAssumption, GhostStep DEF ReadBack, TxAt, FilterIs, TypeOK,
      FreshInv, MemoryInv, Writing, Layers, Syncs, NoSync, SyncStages, Callers, Rules,
      Rendered, Target, Denied, Upcoming
  <1>12. CASE UndoRecord
    BY <1>12, PolicyAssumption, GhostStep DEF UndoRecord, TxAt, Replace, TypeOK,
      FreshInv, MemoryInv, Writing, Layers, Syncs, NoSync, SyncStages, Callers, Rules,
      Rendered, Target, Denied, Upcoming
  <1>13. CASE UndoFilter
    BY <1>13, PolicyAssumption, GhostStep DEF UndoFilter, TxAt, Replace, Signalled,
      TypeOK, FreshInv, MemoryInv, Writing, Layers, Syncs, NoSync, SyncStages, Callers,
      Rules, Rendered, Target, Denied, Upcoming
  <1>14. CASE UndoReadBack
    BY <1>14, PolicyAssumption, GhostStep DEF UndoReadBack, TypeOK, FreshInv, MemoryInv,
      Writing, Layers, Syncs, NoSync, SyncStages, Callers, Rules, Rendered, Target,
      Denied, Upcoming
  <1>15. CASE ReadFails
    BY <1>15, PolicyAssumption, GhostStep DEF ReadFails, Ended, Saved, Started, TypeOK,
      FreshInv, MemoryInv, Writing, Layers, Syncs, NoSync, SyncStages, Callers, Rules,
      Rendered, Target, Denied, Upcoming
  <1>16. CASE WriteFails
    <2>00. compiled' \cup Upcoming' \subseteq compiled \cup Denied(disk) \cup Upcoming
      BY <1>16 DEF WriteFails, Upcoming
    <2>0. Denied(disk) \cup compiled \cup Upcoming \subseteq seen \/ broker = "starting"
      BY DEF FreshInv
    <2>1. CASE sync.forward
      <3>1. /\ sync'.stage = "early" /\ sync'.read = sync.read /\ sync'.previous = sync.previous
            /\ broker' = broker /\ wanted' = wanted
        BY <1>16, <2>1 DEF WriteFails, Fails, TypeOK, Syncs
      <3>2. Writing /\ Denied(disk') = Denied(disk)
        BY <1>16 DEF WriteFails, Writing
      <3>3. broker # "starting" => compiled' \cup Upcoming' \subseteq seen
        BY <1>16, <2>0, <2>00
      <3>4. seen' = seen \cup wanted'
        BY <3>1, GhostStep
      <3> QED
        BY <3>1, <3>2, <3>3, <3>4 DEF FreshInv
    <2>2. CASE ~sync.forward
      <3>1. sync' = NoSync /\ broker' \in {broker, "starting"}
        BY <1>16, <2>2 DEF WriteFails, Fails, Ended, Started
      <3>2. CASE broker' = "starting"
        BY <1>16, <3>1, <3>2, GhostStep DEF WriteFails, FreshInv, NoSync
      <3>3. CASE broker' = broker
        <4>1. broker # "starting" => compiled' \cup Upcoming' \subseteq seen
          BY <1>16, <2>0, <2>00
        <4>2. disk' = disk /\ wanted' = wanted /\ sync'.read = {} /\ sync'.stage = "idle"
          BY <1>16, <3>1 DEF WriteFails, NoSync
        <4>3. seen' = seen \cup wanted'
          BY <3>3, GhostStep
        <4> QED
          BY <3>3, <4>1, <4>2, <4>3 DEF FreshInv, Writing
      <3> QED
        BY <3>1, <3>2, <3>3
    <2> QED
      BY <2>1, <2>2
  <1>17. CASE CompileFails
    <2>00. compiled' \cup Upcoming' \subseteq compiled \cup Denied(disk) \cup Upcoming
      BY <1>17 DEF CompileFails, Upcoming
    <2>0. Denied(disk) \cup compiled \cup Upcoming \subseteq seen \/ broker = "starting"
      BY DEF FreshInv
    <2>1. CASE sync.forward
      <3>1. /\ sync'.stage = "early" /\ sync'.read = sync.read /\ sync'.previous = sync.previous
            /\ broker' = broker /\ wanted' = wanted
        BY <1>17, <2>1 DEF CompileFails, Fails, TypeOK, Syncs
      <3>2. Writing /\ Denied(disk') = Denied(disk)
        BY <1>17 DEF CompileFails, Writing
      <3>3. broker # "starting" => compiled' \cup Upcoming' \subseteq seen
        BY <1>17, <2>0, <2>00
      <3>4. seen' = seen \cup wanted'
        BY <3>1, GhostStep
      <3> QED
        BY <3>1, <3>2, <3>3, <3>4 DEF FreshInv
    <2>2. CASE ~sync.forward
      <3>1. sync' = NoSync /\ broker' \in {broker, "starting"}
        BY <1>17, <2>2 DEF CompileFails, Fails, Ended, Started
      <3>2. CASE broker' = "starting"
        BY <1>17, <3>1, <3>2, GhostStep DEF CompileFails, FreshInv, NoSync
      <3>3. CASE broker' = broker
        <4>1. broker # "starting" => compiled' \cup Upcoming' \subseteq seen
          BY <1>17, <2>0, <2>00
        <4>2. disk' = disk /\ wanted' = wanted /\ sync'.read = {} /\ sync'.stage = "idle"
          BY <1>17, <3>1 DEF CompileFails, NoSync
        <4>3. seen' = seen \cup wanted'
          BY <3>3, GhostStep
        <4> QED
          BY <3>3, <4>1, <4>2, <4>3 DEF FreshInv, Writing
      <3> QED
        BY <3>1, <3>2, <3>3
    <2> QED
      BY <2>1, <2>2
  <1>18. CASE NotifyFails
    <2>00. compiled' \cup Upcoming' \subseteq compiled \cup Denied(disk) \cup Upcoming
      <3>1. (due' = due \/ due' = TRUE) /\ compiled' = compiled /\ live' = live
        BY <1>18 DEF NotifyFails
      <3> QED
        BY <3>1 DEF Upcoming
    <2>0. Denied(disk) \cup compiled \cup Upcoming \subseteq seen \/ broker = "starting"
      BY DEF FreshInv
    <2>1. CASE sync.forward
      <3>1. /\ sync'.stage = "early" /\ sync'.read = sync.read /\ sync'.previous = sync.previous
            /\ broker' = broker /\ wanted' = wanted
        BY <1>18, <2>1 DEF NotifyFails, Fails, TypeOK, Syncs
      <3>2. Writing /\ Denied(disk') = Denied(disk)
        BY <1>18 DEF NotifyFails, Writing
      <3>3. broker # "starting" => compiled' \cup Upcoming' \subseteq seen
        BY <1>18, <2>0, <2>00
      <3>4. seen' = seen \cup wanted'
        BY <3>1, GhostStep
      <3> QED
        BY <3>1, <3>2, <3>3, <3>4 DEF FreshInv
    <2>2. CASE ~sync.forward
      <3>1. sync' = NoSync /\ broker' \in {broker, "starting"}
        BY <1>18, <2>2 DEF NotifyFails, Fails, Ended, Started
      <3>2. CASE broker' = "starting"
        BY <1>18, <3>1, <3>2, GhostStep DEF NotifyFails, FreshInv, NoSync
      <3>3. CASE broker' = broker
        <4>1. broker # "starting" => compiled' \cup Upcoming' \subseteq seen
          BY <1>18, <2>0, <2>00
        <4>2. disk' = disk /\ wanted' = wanted /\ sync'.read = {} /\ sync'.stage = "idle"
          BY <1>18, <3>1 DEF NotifyFails, NoSync
        <4>3. seen' = seen \cup wanted'
          BY <3>3, GhostStep
        <4> QED
          BY <3>3, <4>1, <4>2, <4>3 DEF FreshInv, Writing
      <3> QED
        BY <3>1, <3>2, <3>3
    <2> QED
      BY <2>1, <2>2
  <1>19. CASE SaveRecordFails
    BY <1>19, PolicyAssumption, GhostStep DEF SaveRecordFails, TxAt, TypeOK, FreshInv,
      MemoryInv, Writing, Layers, Syncs, NoSync, SyncStages, Callers, Rules, Rendered,
      Target, Denied, Upcoming
  <1>20. CASE SetFilterFails
    BY <1>20, PolicyAssumption, GhostStep DEF SetFilterFails, TxAt, TypeOK, FreshInv,
      MemoryInv, Writing, Layers, Syncs, NoSync, SyncStages, Callers, Rules, Rendered,
      Target, Denied, Upcoming
  <1>21. CASE UndoFails
    BY <1>21, PolicyAssumption, GhostStep DEF UndoFails, TypeOK, FreshInv, MemoryInv,
      Writing, Layers, Syncs, NoSync, SyncStages, Callers, Rules, Rendered, Target,
      Denied, Upcoming
  <1>22. ASSUME NEW goal \in SUBSET Own, BeginSave(goal) PROVE FreshInv'
    BY <1>22, PolicyAssumption, GhostStep DEF BeginSave, TypeOK, FreshInv, MemoryInv,
      Writing, Layers, Syncs, NoSync, SyncStages, Callers, Rules, Rendered, Target,
      Denied, Upcoming
  <1>23. ASSUME NEW rule \in Rules \ Patterns, FilterChanges(rule) PROVE FreshInv'
    BY <1>23, PolicyAssumption, GhostStep DEF FilterChanges, Signalled, TypeOK,
      FreshInv, MemoryInv, Writing, Layers, Syncs, NoSync, SyncStages, Callers, Rules,
      Rendered, Target, Denied, Upcoming
  <1>24. CASE Crash
    BY <1>24, PolicyAssumption, GhostStep DEF Crash, TypeOK, FreshInv, MemoryInv,
      Writing, Layers, Syncs, NoSync, SyncStages, Callers, Rules, Rendered, Target,
      Denied, Upcoming
  <1>25. CASE DaemonRestarts
    BY <1>25, PolicyAssumption, GhostStep DEF DaemonRestarts, TypeOK, FreshInv,
      MemoryInv, Writing, Layers, Syncs, NoSync, SyncStages, Callers, Rules, Rendered,
      Target, Denied, Upcoming
  <1>26. CASE Subscribe
    BY <1>26, PolicyAssumption, GhostStep DEF Subscribe, TypeOK, FreshInv, MemoryInv,
      Writing, Layers, Syncs, NoSync, SyncStages, Callers, Rules, Rendered, Target,
      Denied, Upcoming
  <1>27. CASE Load
    BY <1>27, PolicyAssumption, GhostStep DEF Load, TypeOK, FreshInv, MemoryInv,
      Writing, Layers, Syncs, NoSync, SyncStages, Callers, Rules, Rendered, Target,
      Denied, Upcoming
  <1>28. ASSUME NEW account \in Accounts, AccountSkipped(account) PROVE FreshInv'
    BY <1>28, GhostStep DEF AccountSkipped, TypeOK, FreshInv, Writing, Syncs, Upcoming
  <1> QED
    BY <1>1, <1>2, <1>3, <1>4, <1>5, <1>6, <1>7, <1>8, <1>9, <1>10, <1>11, <1>12, <1>13,
       <1>14, <1>15, <1>16, <1>17, <1>18, <1>19, <1>20, <1>21, <1>22, <1>23, <1>24,
       <1>25, <1>26, <1>27, <1>28
       DEF Next, SyncStep, TxStep, Faulty, Outside

\* Only the save's own sync moves the save on.
LEMMA SaveEnded ==
  ASSUME TypeOK, SaveInv, NEW ok \in BOOLEAN, Ended(ok), wanted' = wanted
  PROVE  SaveInv'
  <1>1. sync' = NoSync /\ sync'.by = "nobody" /\ sync'.stage = "idle"
    BY DEF Ended, NoSync
  <1>2. "transaction" \in waiting' <=> "transaction" \in waiting
    BY DEF Ended
  <1>3. CASE sync.by = "transaction"
    <2>1. "transaction" \notin waiting' /\ tx' = Saved(ok) /\ tx.stage \in {"first", "second", "undo"}
      BY <1>2, <1>3 DEF SaveInv, Ended
    <2>2. \/ tx'.stage = "readback" /\ tx.stage = "first" /\ tx'.kept = tx.kept /\ tx'.goal = tx.goal
          \/ tx'.stage \in {"idle", "undoRecord", "undoFilter", "undoReadback"}
      BY <2>1 DEF Saved, NoTx, TypeOK, Txs
    <2> QED
      BY <1>1, <2>1, <2>2 DEF SaveInv
  <1>4. CASE sync.by # "transaction"
    <2>1. tx' = tx
      BY <1>4 DEF Ended
    <2> QED
      BY <1>1, <1>2, <2>1 DEF SaveInv
  <1> QED
    BY <1>3, <1>4

\* Only other programs move the sources away from the goal of a save.
LEMMA SaveStep ==
  ASSUME TypeOK, SaveInv, Next
  PROVE  SaveInv'
  <1>1. ASSUME NEW caller \in Callers, Enter(caller) PROVE SaveInv'
    BY <1>1, PolicyAssumption DEF Enter, TypeOK, SaveInv, Writing, Layers, Syncs,
      NoSync, SyncStages, Txs, NoTx, TxStages, Callers, Rules
  <1>2. CASE Read
    <2>1. sync' = [sync EXCEPT !.next = @ + 1, !.read = @ \cup ({sync.next} \cap sync.listed \cap wanted)]
      BY <1>2 DEF Read
    <2>2. sync.next \in Nat /\ sync'.next = sync.next + 1 /\ sync'.stage = "read" /\ sync'.by = sync.by
         /\ sync'.listed = sync.listed
      BY <1>2, <2>1, PolicyAssumption DEF Read, TypeOK, Syncs, Rules
    <2>3. \A rule \in Rules : rule < sync'.next => rule < sync.next \/ rule = sync.next
      BY <2>2, PolicyAssumption DEF Rules
    <2>4. \A rule \in Rules : rule \in sync'.read <=> rule \in sync.read \/ (rule = sync.next /\ rule \in sync.listed \cap wanted)
      BY <2>1 DEF TypeOK, Syncs
    <2>5. tx.kept \subseteq Rules /\ wanted' = wanted /\ tx' = tx /\ waiting' = waiting /\ sync.stage = "read"
      BY <1>2, PolicyAssumption DEF Read, TypeOK, Txs, Rules
    <2>6. ASSUME sync.by = "transaction", tx.stage = "second", NEW rule \in tx.kept \cap sync.listed, rule < sync'.next
          PROVE  rule \in tx.goal <=> rule \in sync'.read
      <3>1. rule \in tx.goal <=> rule \in wanted
        BY <2>6 DEF SaveInv
      <3>2. CASE rule = sync.next
        <4>1. rule \notin sync.read
          BY <2>2, <2>5, <3>2 DEF SaveInv
        <4> QED
          BY <2>4, <2>5, <3>1, <3>2, <4>1
      <3>3. CASE rule < sync.next
        <4>1. rule \in tx.goal <=> rule \in sync.read
          BY <2>6, <3>3 DEF SaveInv
        <4>2. rule # sync.next
          BY <2>2, <2>5, <3>3, PolicyAssumption DEF Rules
        <4> QED
          BY <2>4, <2>5, <4>1, <4>2
      <3> QED
        BY <2>3, <2>5, <2>6, <3>2, <3>3
    <2>7. \A rule \in sync'.read : rule < sync'.next
      <3>1. sync'.read \subseteq Rules /\ \A rule \in sync.read : rule \in Rules /\ rule < sync.next
        BY <1>2, <2>1, <2>5, PolicyAssumption DEF Read, SaveInv, TypeOK, Syncs
      <3> QED
        BY <2>2, <2>4, <3>1, PolicyAssumption DEF Rules
    <2> QED
      BY <2>2, <2>5, <2>6, <2>7 DEF SaveInv, Writing
  <1>3. CASE Skip
    BY <1>3, SaveEnded DEF Skip
  <1>4. CASE BeginWrite
    BY <1>4, PolicyAssumption DEF BeginWrite, UpToDate, TypeOK, SaveInv, Writing,
      Layers, Syncs, NoSync, SyncStages, Txs, NoTx, TxStages, Callers, Rules
  <1>5. CASE WriteEarly
    BY <1>5, PolicyAssumption DEF WriteEarly, Continues, TypeOK, SaveInv, Writing,
      Layers, Syncs, NoSync, SyncStages, Txs, NoTx, TxStages, Callers, Rules
  <1>6. CASE WriteMain
    BY <1>6, PolicyAssumption DEF WriteMain, Continues, TypeOK, SaveInv, Writing,
      Layers, Syncs, NoSync, SyncStages, Txs, NoTx, TxStages, Callers, Rules
  <1>7. CASE Compile
    BY <1>7, PolicyAssumption DEF Compile, Continues, TypeOK, SaveInv, Writing, Layers,
      Syncs, NoSync, SyncStages, Txs, NoTx, TxStages, Callers, Rules
  <1>8. CASE Notify
    BY <1>8, SaveEnded DEF Notify, TypeOK, Syncs
  <1>9. CASE SaveRecord
    BY <1>9, PolicyAssumption DEF SaveRecord, TxAt, Replace, TypeOK, SaveInv, Writing,
      Layers, Syncs, NoSync, SyncStages, Txs, NoTx, TxStages, Callers, Rules
  <1>10. CASE SetFilter
    BY <1>10, PolicyAssumption DEF SetFilter, TxAt, Replace, Signalled, TypeOK, SaveInv,
      Writing, Layers, Syncs, NoSync, SyncStages, Txs, NoTx, TxStages, Callers, Rules
  <1>11. CASE ReadBack
    BY <1>11, PolicyAssumption DEF ReadBack, TxAt, FilterIs, TypeOK, SaveInv, Writing,
      Layers, Syncs, NoSync, SyncStages, Txs, NoTx, TxStages, Callers, Rules
  <1>12. CASE UndoRecord
    BY <1>12, PolicyAssumption DEF UndoRecord, TxAt, Replace, TypeOK, SaveInv, Writing,
      Layers, Syncs, NoSync, SyncStages, Txs, NoTx, TxStages, Callers, Rules
  <1>13. CASE UndoFilter
    BY <1>13, PolicyAssumption DEF UndoFilter, TxAt, Replace, Signalled, TypeOK,
      SaveInv, Writing, Layers, Syncs, NoSync, SyncStages, Txs, NoTx, TxStages, Callers,
      Rules
  <1>14. CASE UndoReadBack
    BY <1>14, PolicyAssumption DEF UndoReadBack, TypeOK, SaveInv, Writing, Layers,
      Syncs, NoSync, SyncStages, Txs, NoTx, TxStages, Callers, Rules
  <1>15. CASE ReadFails
    BY <1>15, SaveEnded DEF ReadFails
  <1>16. CASE WriteFails
    <2>1. CASE sync.forward
      BY <1>16, <2>1 DEF WriteFails, Fails, SaveInv, Writing, TypeOK, Syncs
    <2>2. CASE ~sync.forward
      BY <1>16, <2>2, SaveEnded DEF WriteFails, Fails
    <2> QED
      BY <2>1, <2>2
  <1>17. CASE CompileFails
    <2>1. CASE sync.forward
      BY <1>17, <2>1 DEF CompileFails, Fails, SaveInv, Writing, TypeOK, Syncs
    <2>2. CASE ~sync.forward
      BY <1>17, <2>2, SaveEnded DEF CompileFails, Fails
    <2> QED
      BY <2>1, <2>2
  <1>18. CASE NotifyFails
    <2>1. CASE sync.forward
      BY <1>18, <2>1 DEF NotifyFails, Fails, SaveInv, Writing, TypeOK, Syncs
    <2>2. CASE ~sync.forward
      BY <1>18, <2>2, SaveEnded DEF NotifyFails, Fails
    <2> QED
      BY <2>1, <2>2
  <1>19. CASE SaveRecordFails
    BY <1>19, PolicyAssumption DEF SaveRecordFails, TxAt, TypeOK, SaveInv, Writing,
      Layers, Syncs, NoSync, SyncStages, Txs, NoTx, TxStages, Callers, Rules
  <1>20. CASE SetFilterFails
    BY <1>20, PolicyAssumption DEF SetFilterFails, TxAt, TypeOK, SaveInv, Writing,
      Layers, Syncs, NoSync, SyncStages, Txs, NoTx, TxStages, Callers, Rules
  <1>21. CASE UndoFails
    BY <1>21, PolicyAssumption DEF UndoFails, TypeOK, SaveInv, Writing, Layers, Syncs,
      NoSync, SyncStages, Txs, NoTx, TxStages, Callers, Rules
  <1>22. ASSUME NEW goal \in SUBSET Own, BeginSave(goal) PROVE SaveInv'
    BY <1>22, PolicyAssumption DEF BeginSave, TypeOK, SaveInv, Writing, Layers, Syncs,
      NoSync, SyncStages, Txs, NoTx, TxStages, Callers, Rules
  <1>23. ASSUME NEW rule \in Rules \ Patterns, FilterChanges(rule) PROVE SaveInv'
    BY <1>23, PolicyAssumption DEF FilterChanges, Signalled, TypeOK, SaveInv, Writing,
      Layers, Syncs, NoSync, SyncStages, Txs, NoTx, TxStages, Callers, Rules
  <1>24. CASE Crash
    BY <1>24, PolicyAssumption DEF Crash, TypeOK, SaveInv, Writing, Layers, Syncs,
      NoSync, SyncStages, Txs, NoTx, TxStages, Callers, Rules
  <1>25. CASE DaemonRestarts
    BY <1>25, PolicyAssumption DEF DaemonRestarts, TypeOK, SaveInv, Writing, Layers,
      Syncs, NoSync, SyncStages, Txs, NoTx, TxStages, Callers, Rules
  <1>26. CASE Subscribe
    BY <1>26, PolicyAssumption DEF Subscribe, TypeOK, SaveInv, Writing, Layers, Syncs,
      NoSync, SyncStages, Txs, NoTx, TxStages, Callers, Rules
  <1>27. CASE Load
    BY <1>27, PolicyAssumption DEF Load, TypeOK, SaveInv, Writing, Layers, Syncs,
      NoSync, SyncStages, Txs, NoTx, TxStages, Callers, Rules
  <1>28. ASSUME NEW account \in Accounts, AccountSkipped(account) PROVE SaveInv'
    BY <1>28 DEF AccountSkipped, TypeOK, SaveInv, Writing, Syncs
  <1> QED
    BY <1>1, <1>2, <1>3, <1>4, <1>5, <1>6, <1>7, <1>8, <1>9, <1>10, <1>11, <1>12, <1>13,
       <1>14, <1>15, <1>16, <1>17, <1>18, <1>19, <1>20, <1>21, <1>22, <1>23, <1>24,
       <1>25, <1>26, <1>27, <1>28
       DEF Next, SyncStep, TxStep, Faulty, Outside

-----------------------------------------------------------------------------
(* The inductive invariant. *)

LEMMA InitInv ==
  Init => IInv
  <1> SUFFICES ASSUME Init PROVE IInv
    OBVIOUS
  <1> USE PolicyAssumption
  <1>1. PICK rules \in SUBSET Rules : disk = Rendered(rules)
    BY DEF Init
  <1>2. disk \in Layers /\ disk.main = rules /\ Denied(disk) = rules
    BY <1>1 DEF Rendered, Layers, Denied
  <1>3. TypeOK
    <2>1. /\ compiled \subseteq Rules /\ live \subseteq Rules /\ notified \subseteq Layers
          /\ wanted \subseteq Rules /\ settled \subseteq Rules /\ missed \subseteq Rules
          /\ seen \subseteq Rules
      BY <1>2 DEF Init
    <2>2. due \in BOOLEAN /\ waiting \subseteq Callers /\ sync \in Syncs /\ tx \in Txs
      BY NullTypes DEF Init, Callers
    <2>3. broker \in {"starting", "synced", "serving"} /\ troubles \in 0..MaxTroubles
      BY DEF Init
    <2> QED
      BY <1>2, <2>1, <2>2, <2>3 DEF TypeOK
  <1>4. sync.stage = "idle" /\ sync.by = "nobody" /\ sync.read = {} /\ tx.stage = "idle"
    BY DEF Init, NoSync, NoTx
  <1>5. MemoryInv
    BY <1>4 DEF Init, MemoryInv, Writing
  <1>6. GapInv
    BY <1>2, <1>4 DEF Init, GapInv, Held, Writing
  <1>7. FreshInv
    BY <1>4 DEF Init, FreshInv
  <1>8. SaveInv
    BY <1>4 DEF Init, SaveInv
  <1> QED
    BY <1>3, <1>5, <1>6, <1>7, <1>8 DEF IInv

LEMMA StutterInv ==
  ASSUME IInv, UNCHANGED vars
  PROVE  IInv'
  BY DEF IInv, vars, TypeOK, MemoryInv, GapInv, Held, FreshInv, SaveInv, Writing, Target, Upcoming

LEMMA NextInv ==
  ASSUME IInv, [Next]_vars
  PROVE  IInv'
  <1>1. CASE Next
    BY <1>1, TypeStep, MemoryStep, GapStep, FreshStep, SaveStep DEF IInv
  <1>2. CASE UNCHANGED vars
    BY <1>2, StutterInv
  <1> QED
    BY <1>1, <1>2

\* The inductive invariant of the rules' synchronization: what each stage of a
\* sync knows of the files, the daemon, the history and the save.
THEOREM PolicyInvariant == Spec => []IInv
  BY InitInv, NextInv, PTL DEF Spec

\* Every variable keeps to its domain.
THEOREM PolicyTypes == Spec => []TypeOK
  BY PolicyInvariant, PTL DEF IInv

\* The memory that lets reconcile() return early is never wrong.
THEOREM MemorySafety == Spec => []NotifiedIsLoaded
  <1>1. IInv => NotifiedIsLoaded
    BY DEF IInv, MemoryInv, NotifiedIsLoaded
  <1> QED
    BY <1>1, PolicyInvariant, PTL

\* A block in force that is still asked for is in force at every moment, until a
\* sync leaves its account out.
THEOREM GapSafety == Spec => []NoGap
  <1>1. IInv => NoGap
    BY DEF IInv, GapInv, Held, NoGap
  <1> QED
    BY <1>1, PolicyInvariant, PTL

\* A broker that accepts calls enforces nothing from before its start.
THEOREM FreshSafety == Spec => []ServesFresh
  <1>1. IInv => ServesFresh
    BY DEF IInv, FreshInv, ServesFresh
  <1> QED
    BY <1>1, PolicyInvariant, PTL

-----------------------------------------------------------------------------
(* A successful save. *)

SaveReported ==
  tx.stage = "second" /\ tx'.stage = "idle" /\ broker' = "serving"
    => \A rule \in tx.kept \cap sync.listed : rule \in tx.goal <=> rule \in Upcoming'

\* Of all actions, only the end of the save's own second sync reports success.
LEMMA SecondSyncEnds ==
  ASSUME IInv, NEW ok \in BOOLEAN, Ended(ok), tx.stage = "second", tx'.stage = "idle"
  PROVE  sync.by = "transaction" /\ ok
  BY DEF Ended, Saved, IInv, TypeOK, Txs

LEMMA ReportStep ==
  ASSUME IInv, Next
  PROVE  SaveReported
  <1> SUFFICES ASSUME tx.stage = "second", tx'.stage = "idle", broker' = "serving",
                      NEW rule \in tx.kept \cap sync.listed
               PROVE  rule \in tx.goal <=> rule \in Upcoming'
    BY DEF SaveReported
  <1> USE PolicyAssumption
  <1>0. TypeOK /\ MemoryInv /\ SaveInv /\ rule \in Rules
    BY DEF IInv, TypeOK, Txs, Rules
  <1>1. CASE Skip
    <2>1. sync.by = "transaction"
      BY <1>1, SecondSyncEnds DEF Skip
    <2>2. rule < sync.next
      BY <1>0, <1>1 DEF Skip, TypeOK, Syncs, Rules
    <2>3. rule \in tx.goal <=> rule \in sync.read
      BY <1>0, <2>1, <2>2 DEF SaveInv
    <2>4. Upcoming' = Denied(Rendered(sync.read))
      BY <1>0, <1>1 DEF Skip, UpToDate, MemoryInv, Upcoming
    <2> QED
      BY <2>3, <2>4 DEF Denied, Rendered
  <1>2. CASE Notify
    <2>1. sync.by = "transaction" /\ sync.forward
      BY <1>0, <1>2, SecondSyncEnds DEF Notify, TypeOK, Syncs
    <2>2. rule \in tx.goal <=> rule \in sync.read
      BY <1>0, <1>2, <2>1 DEF Notify, SaveInv, Writing
    <2>3. Upcoming' = Denied(Rendered(sync.read))
      BY <1>0, <1>2, <2>1 DEF Notify, MemoryInv, Target, Upcoming
    <2> QED
      BY <2>2, <2>3 DEF Denied, Rendered
  <1>3. CASE ReadFails
    BY <1>3, SecondSyncEnds DEF ReadFails
  <1>4. CASE WriteFails \/ CompileFails \/ NotifyFails
    <2>1. Fails
      BY <1>4 DEF WriteFails, CompileFails, NotifyFails
    <2> QED
      BY <2>1, SecondSyncEnds DEF Fails
  <1>5. CASE Crash
    BY <1>5 DEF Crash
  <1>6. CASE \/ \E caller \in Callers : Enter(caller)
             \/ Read \/ BeginWrite \/ WriteEarly \/ WriteMain \/ Compile
             \/ \E account \in Accounts : AccountSkipped(account)
             \/ DaemonRestarts \/ Subscribe \/ Load
    <2>1. tx' = tx
      BY <1>6 DEF Enter, AccountSkipped, Read, BeginWrite, WriteEarly, WriteMain, Compile, Continues,
                  DaemonRestarts, Subscribe, Load
    <2> QED
      BY <2>1
  <1>7. CASE TxStep \/ SaveRecordFails \/ SetFilterFails \/ UndoFails
             \/ \E goal \in SUBSET Own : BeginSave(goal)
    BY <1>7 DEF TxStep, SaveRecord, SetFilter, ReadBack, UndoRecord, UndoFilter,
                UndoReadBack, SaveRecordFails, SetFilterFails, UndoFails, BeginSave
  <1>8. CASE \E changed \in Rules \ Patterns : FilterChanges(changed)
    BY <1>0, <1>8 DEF FilterChanges, TypeOK, Txs
  <1> QED
    BY <1>1, <1>2, <1>3, <1>4, <1>5, <1>6, <1>7, <1>8
       DEF Next, SyncStep, Faulty, Outside

\* A save that reports success has its rules with the daemon if its last sync
\* found the child's account.
THEOREM SaveSafety == Spec => SaveLoaded
  <1>1. IInv /\ [Next]_vars => [SaveReported]_vars
    BY ReportStep
  <1>2. Spec => [][SaveReported]_vars
    BY <1>1, PolicyInvariant, PTL DEF Spec
  <1> QED
    BY <1>2, PTL DEF SaveLoaded, SaveReported

=============================================================================
