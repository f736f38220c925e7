----------------------- MODULE PackageLifecycleProofs -----------------------
(***************************************************************************)
(* Proofs about the package's scripts and the cleaner: the types and all   *)
(* five safety properties, for any children, any policies of the parent    *)
(* and any number of failures, reboots and runs of a script.  First where  *)
(* each action leaves the script and its writes, without the plans that    *)
(* say so; then one invariant after the other, in the order in which they  *)
(* rest on each other.                                                     *)
(***************************************************************************)
EXTENDS PackageLifecycle, WellFoundedInduction, TLAPS

-----------------------------------------------------------------------------
(* The plans. *)

\* Where a script can be: at a stage of its own plan.
RemovalStages == {"mask", "stop", "capture", "write", "rules", "verdict", "erase"}
AbortStages == {"restore", "write", "rules", "verdict", "release", "start"}
ConfigurationStages ==
  {"marker", "stop", "migrate", "release", "restore", "write", "rules", "verdict",
   "open", "start"}

Placed ==
  \/ Running("none") /\ At("idle") /\ script = NoScript
  \/ Running("remove") /\ script.stage \in RemovalStages
  \/ Running("abort") /\ script.stage \in AbortStages
  \/ Running("configure") /\ script.stage \in ConfigurationStages
  \/ Running("unpack") /\ script.stage \in {"marker", "stop", "unpack"}
  \/ Running("erased") /\ script.stage \in {"clean", "release", "forget"}

\* The stage that follows each stage of a plan.
LEMMA AfterRemoval ==
  ASSUME script.name = "remove"
  PROVE  /\ After("mask") = "stop" /\ After("stop") = "capture" /\ After("capture") = "write"
         /\ After("write") = "rules" /\ After("rules") = "verdict" /\ After("verdict") = "erase"
<1>1. /\ Plan(script.name) = <<"mask", "stop", "capture", "write", "rules", "verdict", "erase">>
      /\ DOMAIN Plan(script.name) = 1..7
  BY DEF Plan, Removal
<1> QED BY <1>1 DEF After

LEMMA AfterAbort ==
  ASSUME script.name = "abort"
  PROVE  /\ After("restore") = "write" /\ After("write") = "rules" /\ After("rules") = "verdict"
         /\ After("verdict") = "release" /\ After("release") = "start"
<1>1. /\ Plan(script.name) = <<"restore", "write", "rules", "verdict", "release", "start">>
      /\ DOMAIN Plan(script.name) = 1..6
  BY DEF Plan
<1> QED BY <1>1 DEF After

LEMMA AfterConfiguration ==
  ASSUME script.name = "configure"
  PROVE  /\ After("marker") = "stop" /\ After("stop") = "migrate" /\ After("migrate") = "release"
         /\ After("release") = "restore" /\ After("write") = "rules"
         /\ After("rules") = "verdict" /\ After("verdict") = "open" /\ After("open") = "start"
<1>1. /\ Plan(script.name) = <<"marker", "stop", "migrate", "release", "restore", "write",
                               "rules", "verdict", "open", "start">>
      /\ DOMAIN Plan(script.name) = 1..10
  BY DEF Plan, Configuration
<1> QED BY <1>1 DEF After

LEMMA AfterUnpack ==
  ASSUME script.name = "unpack"
  PROVE  After("marker") = "stop" /\ After("stop") = "unpack"
<1>1. /\ Plan(script.name) = <<"marker", "stop", "unpack">>
      /\ DOMAIN Plan(script.name) = 1..3
  BY DEF Plan
<1> QED BY <1>1 DEF After

LEMMA AfterErased ==
  ASSUME script.name = "erased"
  PROVE  After("clean") = "release" /\ After("release") = "forget"
<1>1. /\ Plan(script.name) = <<"clean", "release", "forget">>
      /\ DOMAIN Plan(script.name) = 1..3
  BY DEF Plan
<1> QED BY <1>1 DEF After

\* The stages of the plans are those of the types.
LEMMA StageOfPlan ==
  ASSUME NEW name \in Names, NEW i \in DOMAIN Plan(name)
  PROVE  Plan(name)[i] \in Stages
<1> DEFINE Of(n) == {Plan(n)[j] : j \in DOMAIN Plan(n)}
<1>1. Plan(name)[i] \in Of(name)
  OBVIOUS
<1>2. Of(name) \in {Of(n) : n \in Names}
  OBVIOUS
<1>3. Plan(name)[i] \in UNION {Of(n) : n \in Names}
  BY <1>1, <1>2
<1> QED BY <1>3, Zenon DEF Stages

LEMMA PlannedStages ==
  /\ "idle" \in Stages /\ RemovalStages \subseteq Stages /\ AbortStages \subseteq Stages
  /\ ConfigurationStages \subseteq Stages
  /\ {"marker", "stop", "unpack"} \subseteq Stages
  /\ {"clean", "release", "forget"} \subseteq Stages
<1>1. "idle" \in Stages
  <2>1. ASSUME NEW planned
        PROVE  "idle" \in {"idle"} \cup planned
    OBVIOUS
  <2> QED BY <2>1, Zenon DEF Stages
<1>2. RemovalStages \subseteq Stages
  <2>1. /\ "remove" \in Names /\ DOMAIN Plan("remove") = 1..7
        /\ Plan("remove") = <<"mask", "stop", "capture", "write", "rules", "verdict", "erase">>
    BY DEF Names, Plan, Removal
  <2>2. \A i \in 1..7 : Plan("remove")[i] \in Stages
    BY <2>1, StageOfPlan
  <2> QED BY <2>1, <2>2 DEF RemovalStages
<1>3. AbortStages \subseteq Stages
  <2>1. /\ "abort" \in Names /\ DOMAIN Plan("abort") = 1..6
        /\ Plan("abort") = <<"restore", "write", "rules", "verdict", "release", "start">>
    BY DEF Names, Plan
  <2>2. \A i \in 1..6 : Plan("abort")[i] \in Stages
    BY <2>1, StageOfPlan
  <2> QED BY <2>1, <2>2 DEF AbortStages
<1>4. ConfigurationStages \subseteq Stages
  <2>1. /\ "configure" \in Names /\ DOMAIN Plan("configure") = 1..10
        /\ Plan("configure") = <<"marker", "stop", "migrate", "release", "restore", "write",
                                "rules", "verdict", "open", "start">>
    BY DEF Names, Plan, Configuration
  <2>2. \A i \in 1..10 : Plan("configure")[i] \in Stages
    BY <2>1, StageOfPlan
  <2> QED BY <2>1, <2>2 DEF ConfigurationStages
<1>5. {"marker", "stop", "unpack"} \subseteq Stages
  <2>1. /\ "unpack" \in Names /\ DOMAIN Plan("unpack") = 1..3
        /\ Plan("unpack") = <<"marker", "stop", "unpack">>
    BY DEF Names, Plan
  <2>2. \A i \in 1..3 : Plan("unpack")[i] \in Stages
    BY <2>1, StageOfPlan
  <2> QED BY <2>1, <2>2
<1>6. {"clean", "release", "forget"} \subseteq Stages
  <2>1. /\ "erased" \in Names /\ DOMAIN Plan("erased") = 1..3
        /\ Plan("erased") = <<"clean", "release", "forget">>
    BY DEF Names, Plan
  <2>2. \A i \in 1..3 : Plan("erased")[i] \in Stages
    BY <2>1, StageOfPlan
  <2> QED BY <2>1, <2>2
<1> QED BY <1>1, <1>2, <1>3, <1>4, <1>5, <1>6

Fresh(name, stage) ==
  [name |-> name, stage |-> stage, todo |-> {}, write |-> 1, errors |-> FALSE]

\* A run starts at the first stage of its plan, with nothing to do.
LEMMA PlanStart ==
  /\ Run("remove") = Fresh("remove", "mask")
  /\ Run("abort") = Fresh("abort", "restore")
  /\ Run("configure") = Fresh("configure", "marker")
  /\ Run("unpack") = Fresh("unpack", "marker")
  /\ Run("erased") = Fresh("erased", "clean")
<1>1. /\ Plan("remove")[1] = "mask" /\ Plan("abort")[1] = "restore"
      /\ Plan("unpack")[1] = "marker" /\ Plan("erased")[1] = "clean"
  BY DEF Plan, Removal
<1>2. Plan("configure")[1] = "marker"
  BY DEF Plan, Configuration
<1>3. ASSUME NEW name \in Names, NEW stage \in Stages, Plan(name)[1] = stage
      PROVE  Run(name) = Fresh(name, stage)
  <2> DEFINE run == [NoScript EXCEPT !.name = name, !.stage = stage]
  <2>1. NoScript \in Scripts
    BY PlannedStages DEF NoScript, Scripts
  <2>2. run \in Scripts
    BY <2>1 DEF Scripts
  <2>3. /\ run.name = name /\ run.stage = stage
        /\ run.todo = {} /\ run.write = 1 /\ run.errors = FALSE
    BY <2>1 DEF Scripts, NoScript
  <2> HIDE DEF run
  <2>4. run = Fresh(name, stage)
    BY <2>2, <2>3 DEF Scripts, Fresh
  <2> QED BY <2>4, <1>3 DEF Run, run
<1>4. Names = {"remove", "abort", "configure", "unpack", "erased"}
  BY DEF Names
<1> QED BY <1>1, <1>2, <1>3, <1>4, PlannedStages
        DEF RemovalStages, AbortStages, ConfigurationStages

-----------------------------------------------------------------------------
(* The writes to one child. *)

\* A set of naturals has its least element: the order is well-founded.
LEMMA LeastNatural ==
  ASSUME NEW S \in SUBSET Nat, S # {}
  PROVE  Min(S) \in S /\ \A y \in S : Min(S) <= y
<1> DEFINE R == OpToRel(<, Nat)
<1>1. IsWellFoundedOn(R, Nat)
  BY NatLessThanWellFounded
<1>2. \A x, y \in Nat : <<y, x>> \in R <=> y < x
  BY DEF OpToRel
<1> HIDE DEF R
<1>3. \E x \in S : \A y \in S : x <= y
  <2>1. PICK x \in S : \A y \in S : ~(<<y, x>> \in R)
    BY <1>1, WFMin
  <2>2. \A y \in S : ~(y < x)
    BY <1>2, <2>1
  <2>3. \A y \in S : x <= y
    BY <2>2
  <2> QED BY <2>3
<1> QED BY <1>3 DEF Min

\* The child that is written to is one of those to do.
LEMMA ChildTodo ==
  ASSUME TypeOK, script.todo # {}
  PROVE  Child \in script.todo /\ Child \in Children
<1>1. script.todo \in SUBSET Children /\ script.todo \in SUBSET Nat
  BY LifecycleAssumption DEF TypeOK, Scripts
<1> QED BY <1>1, LeastNatural DEF Child

\* The two orders of writes, place by place.
LEMMA Orders ==
  /\ Running("remove") => /\ DOMAIN Order = 1..6
                          /\ Order[1] = "shell" /\ Order[2] = "revoke" /\ Order[3] = "daily"
                          /\ Order[4] = "limit" /\ Order[5] = "filter" /\ Order[6] = "check"
  /\ ~Running("remove") => /\ DOMAIN Order = 1..7
                           /\ Order[1] = "revoke" /\ Order[2] = "daily" /\ Order[3] = "limit"
                           /\ Order[4] = "grant" /\ Order[5] = "filter" /\ Order[6] = "shell"
                           /\ Order[7] = "check"
  BY DEF Order, ClearOrder, RestoreOrder

\* A failed write is followed by a later one, and never by one of its own callback.
LEMMA AfterFailed ==
  ASSUME script.write \in DOMAIN Order, Write # "check"
  PROVE  /\ AfterFailure \in DOMAIN Order /\ AfterFailure > script.write
         /\ Write \in TimeWrites => Order[AfterFailure] \notin TimeWrites
         /\ Write \notin TimeWrites => AfterFailure = script.write + 1
<1> DEFINE S == {i \in DOMAIN Order :
                  i > script.write /\ (Write \in TimeWrites => Order[i] \notin TimeWrites)}
<1>1. S \subseteq Nat
  BY Orders
<1>2. S # {}
  <2>1. CASE Running("remove")
    <3>1. 6 \in S
      BY <2>1, Orders DEF Write, TimeWrites
    <3> QED BY <3>1
  <2>2. CASE ~Running("remove")
    <3>1. 7 \in S
      BY <2>2, Orders DEF Write, TimeWrites
    <3> QED BY <3>1
  <2> QED BY <2>1, <2>2
<1>3. Min(S) \in S /\ \A i \in S : Min(S) <= i
  BY <1>1, <1>2, LeastNatural
<1>4. AfterFailure = Min(S)
  BY DEF AfterFailure
<1>5. Write \notin TimeWrites => script.write + 1 \in S
  <2>1. script.write + 1 \in DOMAIN Order /\ script.write + 1 > script.write
    BY Orders DEF Write
  <2> QED BY <2>1
<1>6. AfterFailure \in Nat /\ script.write \in Nat
  BY <1>1, <1>3, <1>4, Orders
<1>7. Write \notin TimeWrites => AfterFailure <= script.write + 1
  BY <1>3, <1>4, <1>5
<1>8. /\ AfterFailure \in DOMAIN Order /\ AfterFailure > script.write
      /\ Write \in TimeWrites => Order[AfterFailure] \notin TimeWrites
  BY <1>3, <1>4
<1> QED BY <1>6, <1>7, <1>8

-----------------------------------------------------------------------------
(* The invariants. *)

\* The stage is one of the running script, and the types hold.
Typed == TypeOK /\ Placed

\* Past its mask a removal cannot be joined by a broker that was off.
Alone ==
  Running("remove") =>
    /\ ~At("mask") => mask
    /\ script.stage \notin {"mask", "stop"} => broker = "off"

\* The marker stands for as long as a payload has records to migrate, and a
\* configuration that is past its migration has none.
Migrated ==
  /\ outdated \subseteq Managed
  /\ outdated # {} /\ Payload => marker
  /\ script.name \in {"remove", "abort", "configure"} => Payload
  /\ Running("erased") => ~Payload
  /\ Running("unpack") /\ ~At("marker") => marker
  /\ Running("configure") =>
       /\ At("migrate") => outdated \subseteq script.todo
       /\ script.stage \notin {"marker", "stop", "migrate"} => outdated = {}

\* Whoever writes does so from a snapshot, which excludes the broker.
Held ==
  /\ script.stage \in {"write", "rules", "verdict", "erase"} => snapshot.taken
  /\ snapshot.taken /\ ~exposed => broker = "off" /\ Managed \subseteq snapshot.of

\* Between the revocation and the grant the child has no grant, and the grant
\* comes after the limit type it needs.
GrantAbsent == IF Running("remove") THEN 3..4 ELSE 2..4
Limited ==
  exposed \/ /\ \A c \in Children : accounts[c].grant => accounts[c].limit
             /\ At("write") => \A c \in Children : c = Child =>
                  /\ script.write \in GrantAbsent => ~accounts[c].grant
                  /\ ~Running("remove") /\ script.write = 4 =>
                       accounts[c].limit = snapshot.state[c].limit

\* Without an error, the children a removal has done with are cleared.
ClearedSoFar ==
  /\ At("erase") => ~script.errors
  /\ Running("remove") /\ ~script.errors =>
       /\ At("write") => \A c \in Children :
            /\ c \in snapshot.of \ script.todo => accounts[c] = Cleared
            /\ c = Child /\ script.write > 1 => ~accounts[c].shell
       /\ script.stage \in {"rules", "verdict", "erase"} =>
            \A c \in snapshot.of : accounts[c] = Cleared
       /\ script.stage \in {"verdict", "erase"} => rules = {}

\* What was chosen last is in force, or in the snapshot that replaces it.
Remembered ==
  /\ ~snapshot.taken => \A c \in Managed : Enforced(c) = chosen[c]
  /\ snapshot.taken =>
       /\ Managed \ snapshot.of \subseteq rechosen
       /\ \A c \in snapshot.of \ rechosen :
            snapshot.state[c] = chosen[c] /\ (chosen[c].shell <=> control[c] = "on")

\* Without an error, the children a restore has done with are as chosen.
RestoredSoFar ==
  ~Running("remove") /\ ~script.errors =>
    /\ At("write") => \A c \in snapshot.of \ rechosen :
         /\ c \notin script.todo => accounts[c] = chosen[c]
         /\ c = Child /\ script.write = 7 => accounts[c].shell = chosen[c].shell
    /\ script.stage \in {"rules", "verdict"} =>
         \A c \in snapshot.of \ rechosen : accounts[c] = chosen[c]

-----------------------------------------------------------------------------
(* Type correctness. *)

LEMMA Afters ==
  /\ Running("remove") =>
       /\ After("mask") = "stop" /\ After("stop") = "capture" /\ After("capture") = "write"
       /\ After("write") = "rules" /\ After("rules") = "verdict" /\ After("verdict") = "erase"
  /\ Running("abort") =>
       /\ After("restore") = "write" /\ After("write") = "rules" /\ After("rules") = "verdict"
       /\ After("verdict") = "release" /\ After("release") = "start"
  /\ Running("configure") =>
       /\ After("marker") = "stop" /\ After("stop") = "migrate" /\ After("migrate") = "release"
       /\ After("release") = "restore" /\ After("write") = "rules"
       /\ After("rules") = "verdict" /\ After("verdict") = "open" /\ After("open") = "start"
  /\ Running("unpack") => After("marker") = "stop" /\ After("stop") = "unpack"
  /\ Running("erased") => After("clean") = "release" /\ After("release") = "forget"
  BY AfterRemoval, AfterAbort, AfterConfiguration, AfterUnpack, AfterErased DEF Running

\* What the types and the places say of the script, and of its writes.
ScriptTyped ==
  /\ script \in Scripts /\ Placed
  /\ At("write") => script.write \in DOMAIN Order /\ script.todo # {}

LEMMA FreshTyped ==
  ASSUME NEW name \in Names, NEW stage \in Stages \ {"write"}, script' = Fresh(name, stage),
         Placed'
  PROVE  ScriptTyped'
<1>1. script' \in Scripts
  BY DEF Fresh, Scripts
<1>2. ~At("write")'
  BY DEF Fresh, At
<1> QED BY <1>1, <1>2 DEF ScriptTyped

LEMMA RunTyped ==
  ASSUME NEW name \in Names, script' = Run(name)
  PROVE  ScriptTyped'
<1> USE PlanStart DEF Fresh, Placed, Running, At
<1>1. CASE name = "remove"
  <2>1. script' = Fresh(name, "mask") /\ Placed'
    BY <1>1 DEF RemovalStages
  <2> QED BY <2>1, FreshTyped, PlannedStages DEF RemovalStages
<1>2. CASE name = "abort"
  <2>1. script' = Fresh(name, "restore") /\ Placed'
    BY <1>2 DEF AbortStages
  <2> QED BY <2>1, FreshTyped, PlannedStages DEF AbortStages
<1>3. CASE name = "configure"
  <2>1. script' = Fresh(name, "marker") /\ Placed'
    BY <1>3 DEF ConfigurationStages
  <2> QED BY <2>1, FreshTyped, PlannedStages DEF ConfigurationStages
<1>4. CASE name = "unpack"
  <2>1. script' = Fresh(name, "marker") /\ Placed'
    BY <1>4
  <2> QED BY <2>1, FreshTyped, PlannedStages
<1>5. CASE name = "erased"
  <2>1. script' = Fresh(name, "clean") /\ Placed'
    BY <1>5
  <2> QED BY <2>1, FreshTyped, PlannedStages
<1> QED BY <1>1, <1>2, <1>3, <1>4, <1>5 DEF Names

LEMMA NoScriptTyped ==
  ASSUME script' = NoScript
  PROVE  ScriptTyped'
  BY PlannedStages DEF NoScript, ScriptTyped, Scripts, Placed, Running, At

LEMMA FailTyped ==
  ASSUME Fail
  PROVE  /\ ScriptTyped'
         /\ IF Running("remove") THEN script'.name = "abort" /\ script'.stage = "restore"
            ELSE script'.name = "none" /\ script'.stage = "idle"
<1>1. CASE Running("remove")
  <2>1. script' = Run("abort")
    BY <1>1 DEF Fail
  <2>2. script'.name = "abort" /\ script'.stage = "restore"
    BY <2>1, PlanStart DEF Fresh
  <2> QED BY <1>1, <2>1, <2>2, RunTyped DEF Names
<1>2. CASE ~Running("remove")
  <2>1. script' = NoScript
    BY <1>2 DEF Fail
  <2> QED BY <1>2, <2>1, NoScriptTyped DEF NoScript
<1> QED BY <1>1, <1>2

\* The stages that are followed by one that does not write.
LEMMA ProceedTyped ==
  ASSUME ScriptTyped, Proceed,
         script.stage \in {"mask", "marker", "rules", "verdict", "migrate", "release", "open",
                          "clean"}
  PROVE  /\ ScriptTyped'
         /\ script'.name = script.name /\ script'.stage = After(script.stage)
         /\ script'.todo = script.todo /\ script'.errors = script.errors
<1> DEFINE next == After(script.stage)
<1>1. /\ script \in Scripts /\ Placed
      /\ script' = [script EXCEPT !.stage = next]
  BY DEF ScriptTyped, Proceed, Goto
<1>2. next \in Stages \ {"write"}
  BY <1>1, Afters, PlannedStages
     DEF Placed, At, Running, RemovalStages, AbortStages, ConfigurationStages
<1>3. \/ Running("remove") /\ next \in RemovalStages
      \/ Running("abort") /\ next \in AbortStages
      \/ Running("configure") /\ next \in ConfigurationStages
      \/ Running("unpack") /\ next \in {"marker", "stop", "unpack"}
      \/ Running("erased") /\ next \in {"clean", "release", "forget"}
  BY <1>1, Afters DEF Placed, At, Running, RemovalStages, AbortStages, ConfigurationStages
<1> HIDE DEF next
<1>4. script' \in Scripts
  BY <1>1, <1>2 DEF Scripts
<1>5. /\ script'.name = script.name /\ script'.stage = next
      /\ script'.todo = script.todo /\ script'.errors = script.errors
  BY <1>1 DEF Scripts
<1>6. Placed'
  BY <1>3, <1>5 DEF Placed, Running
<1>7. ~At("write")'
  BY <1>2, <1>5 DEF At
<1>8. next = After(script.stage)
  BY DEF next
<1> QED BY <1>4, <1>5, <1>6, <1>7, <1>8 DEF ScriptTyped

\* The writes, or the migration, of some children, or none.
LEMMA WorkTyped ==
  ASSUME ScriptTyped, NEW stage, NEW todo \in SUBSET Children, Work(stage, todo),
         \/ stage = "write" /\ script.name \in {"remove", "abort", "configure"}
         \/ stage = "migrate" /\ Running("configure")
  PROVE  /\ ScriptTyped'
         /\ script'.name = script.name /\ script'.errors = script.errors
         /\ script'.todo = todo /\ script'.write = 1
         /\ todo # {} => script'.stage = stage
         /\ todo = {} => script'.stage = IF stage = "write" THEN "rules" ELSE "release"
<1> DEFINE next == IF todo = {} THEN After(stage) ELSE stage
<1>1. /\ script \in Scripts
      /\ script' = [script EXCEPT !.stage = next, !.todo = todo, !.write = 1]
  BY DEF ScriptTyped, Work
<1>2. next = IF todo # {} THEN stage ELSE IF stage = "write" THEN "rules" ELSE "release"
  BY Afters DEF Running
<1>3. next \in Stages
  BY <1>2, PlannedStages DEF RemovalStages, ConfigurationStages
<1> HIDE DEF next
<1>4. /\ script' \in Scripts
      /\ script'.name = script.name /\ script'.stage = next /\ script'.todo = todo
      /\ script'.write = 1 /\ script'.errors = script.errors
  <2>1. ASSUME NEW write \in 1..7
        PROVE  [script EXCEPT !.stage = next, !.todo = todo, !.write = write] \in Scripts
    BY <1>1, <1>3 DEF Scripts
  <2>2. script' \in Scripts
    BY <2>1, <1>1
  <2> QED BY <2>2, <1>1 DEF Scripts
<1>5. Placed'
  BY <1>2, <1>4 DEF Placed, Running, RemovalStages, AbortStages, ConfigurationStages
<1>6. At("write")' => script'.write \in DOMAIN Order' /\ script'.todo # {}
  BY <1>2, <1>4 DEF At, Order, ClearOrder, RestoreOrder
<1> QED BY <1>2, <1>4, <1>5, <1>6 DEF ScriptTyped

\* The steps of a child's writes.
LEMMA WriteTyped ==
  ASSUME ScriptTyped, At("write"), NEW write \in DOMAIN Order, NEW errors \in BOOLEAN,
         \/ script' = [script EXCEPT !.write = write] /\ errors = script.errors
         \/ script' = [script EXCEPT !.write = write, !.errors = TRUE] /\ errors = TRUE
  PROVE  /\ ScriptTyped'
         /\ script'.name = script.name /\ script'.stage = "write"
         /\ script'.todo = script.todo /\ script'.write = write /\ script'.errors = errors
<1>1. script \in Scripts /\ write \in 1..7 /\ script.stage = "write"
  BY Orders DEF ScriptTyped, At
<1>2. /\ script' \in Scripts
      /\ script'.name = script.name /\ script'.stage = "write" /\ script'.todo = script.todo
      /\ script'.write = write /\ script'.errors = errors
  BY <1>1 DEF Scripts
<1>3. Placed'
  BY <1>1, <1>2 DEF ScriptTyped, Placed, Running, At, NoScript
<1>4. DOMAIN Order' = DOMAIN Order
  BY <1>2 DEF Order, Running
<1> QED BY <1>2, <1>3, <1>4 DEF ScriptTyped, At

LEMMA NextWrite ==
  ASSUME ScriptTyped, At("write"), Write # "check"
  PROVE  script.write + 1 \in DOMAIN Order
  BY Orders DEF ScriptTyped, Write

\* A stop, and the rules that fail, go on with more than a new stage.
LEMMA StopTyped ==
  ASSUME TypeOK, ScriptTyped, Stop
  PROVE  /\ ScriptTyped'
         /\ script'.name = script.name /\ script'.errors = script.errors
         /\ Running("remove") => script'.stage = "capture"
         /\ Running("configure") => script'.stage = "migrate" /\ script'.todo = Managed
         /\ Running("unpack") => script'.stage = "unpack"
<1> DEFINE next == After("stop")
           todo == IF Running("configure") THEN Managed ELSE {}
<1>1. /\ script \in Scripts /\ Placed /\ At("stop")
      /\ script' = [script EXCEPT !.stage = next, !.todo = todo]
  BY DEF ScriptTyped, Stop
<1>2. script.name \in {"remove", "configure", "unpack"}
  BY <1>1 DEF Placed, At, Running, AbortStages
<1>3. /\ Running("remove") => next = "capture"
      /\ Running("configure") => next = "migrate" /\ todo = Managed
      /\ Running("unpack") => next = "unpack"
  BY Afters
<1>4. todo \in SUBSET Children
  BY DEF Managed
<1> HIDE DEF next, todo
<1>5. next \in Stages
  BY <1>2, <1>3, PlannedStages DEF Running, RemovalStages, ConfigurationStages
<1>6. script' \in Scripts
  BY <1>1, <1>4, <1>5 DEF Scripts
<1>7. /\ script'.name = script.name /\ script'.stage = next
      /\ script'.todo = todo /\ script'.errors = script.errors
  BY <1>1 DEF Scripts
<1>8. Placed' /\ ~At("write")'
  BY <1>2, <1>3, <1>7
     DEF Placed, Running, At, RemovalStages, ConfigurationStages
<1> QED BY <1>3, <1>6, <1>7, <1>8 DEF ScriptTyped

LEMMA RulesTyped ==
  ASSUME ScriptTyped, ChangeRules
  PROVE  /\ ScriptTyped'
         /\ script'.name = script.name /\ script'.stage = "verdict"
         /\ script'.todo = script.todo
         /\ ~script'.errors => /\ ~script.errors
                               /\ rules' = IF Running("remove") THEN {} ELSE Filtered(accounts)
<1>1. script.name \in {"remove", "abort", "configure"} /\ script.stage = "rules"
  BY DEF ScriptTyped, ChangeRules, Placed, Running, At
<1>2. After("rules") = "verdict"
  BY <1>1, Afters DEF Running
<1>3. CASE Proceed /\ rules' = IF Running("remove") THEN {} ELSE Filtered(accounts)
  BY <1>1, <1>2, <1>3, ProceedTyped
<1>4. CASE script' = [script EXCEPT !.stage = After("rules"), !.errors = TRUE]
  <2>1. script \in Scripts
    BY DEF ScriptTyped
  <2>2. "verdict" \in Stages
    BY PlannedStages DEF RemovalStages
  <2>3. /\ script' \in Scripts
        /\ script'.name = script.name /\ script'.stage = "verdict"
        /\ script'.todo = script.todo /\ script'.errors = TRUE
    BY <1>2, <1>4, <2>1, <2>2 DEF Scripts
  <2>4. Placed' /\ ~At("write")'
    BY <1>1, <2>3
       DEF Placed, Running, At, RemovalStages, AbortStages, ConfigurationStages
  <2> QED BY <2>3, <2>4 DEF ScriptTyped
<1> QED BY <1>3, <1>4 DEF ChangeRules

\* A child is done with, and leaves an error behind unless it was verified.
LEMMA CheckTyped ==
  ASSUME TypeOK, ScriptTyped, Check
  PROVE  /\ ScriptTyped'
         /\ script'.name = script.name /\ script'.todo = script.todo \ {Child}
         /\ script'.write = 1
         /\ script'.stage = IF script'.todo = {} THEN "rules" ELSE "write"
         /\ ~script'.errors => ~script.errors /\ Verified(Child)
<1> DEFINE todo == script.todo \ {Child}
           next == IF todo = {} THEN "rules" ELSE "write"
<1>1. /\ script \in Scripts /\ script.stage = "write" /\ Placed
      /\ script' = [script EXCEPT !.todo = todo, !.write = 1, !.errors = Checked(Child),
                                  !.stage = next]
  BY DEF ScriptTyped, Check, At
<1>2. script.name \in {"remove", "abort", "configure"}
  BY <1>1 DEF Placed, Running, At
<1>3. todo \in SUBSET Children /\ Checked(Child) \in BOOLEAN
  BY <1>1 DEF Scripts, Checked
<1>4. next = IF todo = {} THEN "rules" ELSE "write"
  OBVIOUS
<1>5. next \in Stages
  BY PlannedStages DEF RemovalStages
<1> HIDE DEF next
<1>6. ASSUME NEW write \in 1..7
      PROVE  [script EXCEPT !.todo = todo, !.write = write, !.errors = Checked(Child),
                            !.stage = next] \in Scripts
  BY <1>1, <1>3, <1>5 DEF Scripts
<1> HIDE DEF todo
<1>7. script' \in Scripts
  <2>1. [script EXCEPT !.todo = todo, !.write = 1, !.errors = Checked(Child), !.stage = next]
          \in Scripts
    BY <1>6
  <2> QED BY <1>1, <2>1
<1>8. /\ script'.name = script.name /\ script'.todo = todo /\ script'.write = 1
      /\ script'.stage = next /\ script'.errors = Checked(Child)
  BY <1>1 DEF Scripts
<1>9. Placed'
  BY <1>2, <1>4, <1>8
     DEF Placed, Running, RemovalStages, AbortStages, ConfigurationStages
<1>10. At("write")' => script'.write \in DOMAIN Order' /\ script'.todo # {}
  BY <1>4, <1>8 DEF At, Order, ClearOrder, RestoreOrder
<1> QED BY <1>4, <1>7, <1>8, <1>9, <1>10 DEF ScriptTyped, Checked, todo

\* A capture goes on with the children of the snapshot, or fails.
LEMMA CaptureTyped ==
  ASSUME TypeOK, ScriptTyped, Capture
  PROVE  /\ ScriptTyped' /\ Running("remove")
         /\ \/ /\ script'.name = "remove" /\ script'.errors = script.errors
               /\ snapshot' = IF snapshot.taken THEN snapshot ELSE Captured
               /\ snapshot'.taken
               /\ package' = package
               /\ script'.todo = snapshot'.of /\ script'.write = 1
               /\ script'.stage = IF script'.todo = {} THEN "rules" ELSE "write"
            \/ script'.name = "abort" /\ script'.stage = "restore" /\ snapshot' = snapshot
               /\ package' = package
<1>1. Running("remove")
  BY DEF Capture
<1>2. CASE snapshot.taken \/ Managed \cap outdated = {}
  <2>1. /\ snapshot' = IF snapshot.taken THEN snapshot ELSE Captured
        /\ Work("write", snapshot'.of) /\ package' = package
    BY <1>2 DEF Capture
  <2>2. snapshot'.of \in SUBSET Children /\ snapshot'.taken
    BY <2>1 DEF TypeOK, Captured, Managed
  <2> QED BY <1>1, <2>1, <2>2, WorkTyped DEF Running
<1>3. CASE ~(snapshot.taken \/ Managed \cap outdated = {})
  <2>1. Fail /\ snapshot' = snapshot
    BY <1>3 DEF Capture
  <2>2. package' = package
    BY <1>1, <2>1 DEF Fail, Running
  <2> QED BY <1>1, <2>1, <2>2, FailTyped
<1> QED BY <1>2, <1>3

LEMMA RestoreTyped ==
  ASSUME TypeOK, ScriptTyped, Restore
  PROVE  /\ ScriptTyped' /\ script.name \in {"abort", "configure"}
         /\ script'.name = script.name /\ script'.errors = script.errors
         /\ IF snapshot.taken
            THEN /\ script'.todo = snapshot.of /\ script'.write = 1
                 /\ script'.stage = IF script'.todo = {} THEN "rules" ELSE "write"
            ELSE script'.stage = IF Running("abort") THEN "release" ELSE "open"
<1>1. script \in Scripts /\ Placed /\ script.name \in {"abort", "configure"}
  BY DEF ScriptTyped, Restore, Placed, Running, At, RemovalStages
<1>2. CASE snapshot.taken
  <2>1. Work("write", snapshot.of) /\ snapshot.of \in SUBSET Children
    BY <1>2 DEF Restore, TypeOK
  <2> QED BY <1>1, <1>2, <2>1, WorkTyped
<1>3. CASE ~snapshot.taken
  <2> DEFINE next == After("verdict")
  <2>1. next = IF Running("abort") THEN "release" ELSE "open"
    BY <1>1, Afters DEF Running
  <2>2. next \in Stages
    BY <2>1, PlannedStages DEF AbortStages, ConfigurationStages
  <2>3. script' = [script EXCEPT !.stage = next]
    BY <1>3 DEF Restore, Goto
  <2> HIDE DEF next
  <2>4. script' \in Scripts
    BY <1>1, <2>2, <2>3 DEF Scripts
  <2>5. script'.name = script.name /\ script'.stage = next /\ script'.errors = script.errors
    BY <1>1, <2>3 DEF Scripts
  <2>6. Placed' /\ ~At("write")'
    BY <1>1, <2>1, <2>5 DEF Placed, Running, At, AbortStages, ConfigurationStages
  <2> QED BY <1>1, <1>3, <2>1, <2>4, <2>5, <2>6 DEF ScriptTyped
<1> QED BY <1>2, <1>3

LEMMA MigrateTyped ==
  ASSUME TypeOK, ScriptTyped, Migrate
  PROVE  /\ ScriptTyped' /\ Running("configure") /\ script'.name = "configure"
         /\ package' = package /\ outdated' \subseteq outdated
         /\ IF script.todo = {} THEN script'.stage = "release" /\ outdated' = outdated
            ELSE /\ script'.todo = script.todo \ {Child} /\ outdated' = outdated \ {Child}
                 /\ script'.stage = IF script'.todo = {} THEN "release" ELSE "migrate"
<1>1. Running("configure") /\ script.stage = "migrate" /\ script.todo \in SUBSET Children
  BY DEF ScriptTyped, Migrate, Placed, Running, At, RemovalStages, AbortStages, Scripts
<1>2. CASE script.todo = {}
  <2>1. Proceed /\ outdated' = outdated /\ package' = package
    BY <1>2 DEF Migrate
  <2> QED BY <1>1, <1>2, <2>1, ProceedTyped, Afters DEF Running
<1>3. CASE script.todo # {}
  <2>1. /\ outdated' = outdated \ {Child} /\ package' = package
        /\ Work("migrate", script.todo \ {Child})
    BY <1>3 DEF Migrate, MigrateOne
  <2> QED BY <1>1, <1>3, <2>1, WorkTyped DEF Running
<1> QED BY <1>2, <1>3

LEMMA VerdictTyped ==
  ASSUME ScriptTyped, Verdict
  PROVE  /\ ScriptTyped' /\ script.name \in {"remove", "abort", "configure"}
         /\ \/ /\ ~script.errors /\ script'.name = script.name
               /\ script'.errors = script.errors /\ package' = package
               /\ script'.stage = IF Running("remove") THEN "erase"
                                  ELSE IF Running("abort") THEN "release" ELSE "open"
            \/ script.errors /\ Fail
<1>1. script.name \in {"remove", "abort", "configure"} /\ script.stage = "verdict"
  BY DEF ScriptTyped, Verdict, Placed, Running, At
<1>2. CASE script.errors
  BY <1>1, <1>2, FailTyped DEF Verdict
<1>3. CASE ~script.errors
  BY <1>1, <1>3, ProceedTyped, Afters DEF Verdict, Running
<1> QED BY <1>1, <1>2, <1>3

\* The writes: which child's field they change, and where they go on.
LEMMA WritesTyped ==
  ASSUME ScriptTyped, WriteOne \/ WriteFails \/ WriteLost
  PROVE  /\ ScriptTyped' /\ script.stage = "write" /\ Write # "check"
         /\ script'.name = script.name /\ script'.stage = "write"
         /\ script'.todo = script.todo
         /\ \/ script'.write = script.write + 1 /\ script'.errors = script.errors
            \/ WriteFails /\ script'.write = AfterFailure /\ script'.errors
<1>1. At("write") /\ Write # "check" /\ script.errors \in BOOLEAN
  BY DEF WriteOne, WriteFails, WriteLost, Writing, ScriptTyped, Scripts
<1>2. CASE WriteOne \/ WriteLost
  <2>1. script' = [script EXCEPT !.write = script.write + 1]
    BY <1>2 DEF WriteOne, WriteLost
  <2> QED BY <1>1, <2>1, NextWrite, WriteTyped DEF At
<1>3. CASE WriteFails
  <2>1. script' = [script EXCEPT !.write = AfterFailure, !.errors = TRUE]
    BY <1>3 DEF WriteFails
  <2>2. AfterFailure \in DOMAIN Order
    BY <1>1, AfterFailed DEF ScriptTyped
  <2> QED BY <1>1, <1>3, <2>1, <2>2, WriteTyped DEF At
<1> QED BY <1>2, <1>3

LEMMA WriteField ==
  ASSUME ScriptTyped, At("write"), Write # "check", Write # "revoke"
  PROVE  Write \in Fields
<1>1. script.write \in DOMAIN Order
  BY DEF ScriptTyped
<1>2. CASE Running("remove")
  BY <1>1, <1>2, Orders DEF Write, Fields
<1>3. CASE ~Running("remove")
  BY <1>1, <1>3, Orders DEF Write, Fields
<1> QED BY <1>2, <1>3

\* A write sets one field of one child.
LEMMA WrittenField ==
  ASSUME TypeOK, ScriptTyped, At("write"), Write # "check", NEW c
  PROVE  /\ Written(c) \in [Children -> Settings]
         /\ \A d \in Children :
              \A field \in Fields :
                Written(c)[d][field] =
                  IF d # c THEN accounts[d][field]
                  ELSE IF Write = "revoke" /\ field = "grant" THEN FALSE
                  ELSE IF field = Write THEN Target(c)[field]
                  ELSE accounts[d][field]
<1> DEFINE field == IF Write = "revoke" THEN "grant" ELSE Write
           value == IF Write = "revoke" THEN FALSE ELSE Target(c)[Write]
<1>1. accounts \in [Children -> [Fields -> BOOLEAN]]
  BY DEF TypeOK, Settings
<1>2. Written(c) = [accounts EXCEPT ![c] = [accounts[c] EXCEPT ![field] = value]]
  BY DEF Written
<1>3. field \in Fields
  BY WriteField DEF Fields
<1>4. c \in Children => value \in BOOLEAN
  BY <1>3 DEF Target, Cleared, TypeOK, Settings
<1>5. /\ Write = "revoke" => field = "grant" /\ value = FALSE /\ Write \notin Fields
      /\ Write # "revoke" => field = Write /\ value = Target(c)[Write]
  BY DEF Fields
<1> HIDE DEF field, value
<1>6. c \in Children => [accounts[c] EXCEPT ![field] = value] \in [Fields -> BOOLEAN]
  BY <1>1, <1>3, <1>4
<1>7. Written(c) \in [Children -> Settings]
  BY <1>1, <1>2, <1>6 DEF Settings
<1>8. ASSUME NEW d \in Children, NEW f \in Fields
      PROVE  Written(c)[d][f] = IF d = c /\ f = field THEN value ELSE accounts[d][f]
  BY <1>1, <1>2, <1>3, <1>6
<1> QED BY <1>5, <1>7, <1>8

LEMMA TypedInit == Init => Typed
<1> SUFFICES ASSUME Init PROVE Typed
  OBVIOUS
<1>1. ScriptTyped
  <2>1. script = NoScript
    BY DEF Init
  <2> QED BY <2>1, PlannedStages DEF NoScript, ScriptTyped, Scripts, Placed, Running, At
<1>2. accounts \in [Children -> Settings] /\ chosen \in [Children -> Settings]
  BY LifecycleAssumption DEF Init
<1>3. snapshot \in [taken : BOOLEAN, of : SUBSET Children, state : [Children -> Settings]]
  BY DEF Init, NoSnapshot, Cleared, Settings
<1>4. rules \in SUBSET Children
  BY DEF Init, Filtered
<1>5. moves \in 0..MaxMoves
  BY LifecycleAssumption DEF Init
<1> QED BY <1>1, <1>2, <1>3, <1>4, <1>5 DEF Init, Typed, TypeOK, ScriptTyped

LEMMA SameScriptTyped ==
  ASSUME ScriptTyped, UNCHANGED script
  PROVE  ScriptTyped'
  BY DEF ScriptTyped, Scripts, Placed, Running, At, Order

\* The script, in every step.
LEMMA ScriptTypedStep ==
  ASSUME Typed, [Next]_vars
  PROVE  ScriptTyped'
<1>1. TypeOK /\ ScriptTyped
  BY DEF Typed, TypeOK, ScriptTyped
<1>2. CASE UNCHANGED script
  BY <1>1, <1>2, SameScriptTyped
<1>3. CASE Mask \/ RaiseMarker \/ Release \/ Open \/ Clean
  <2>1. Proceed /\ script.stage \in {"mask", "marker", "release", "open", "clean"}
    BY <1>3 DEF Mask, RaiseMarker, Release, Open, Clean, At
  <2> QED BY <1>1, <2>1, ProceedTyped
<1>4. CASE WriteOne \/ WriteFails \/ WriteLost
  BY <1>1, <1>4, WritesTyped
<1>5. CASE Start \/ Unpack \/ Forget \/ Reboot
  BY <1>5, NoScriptTyped DEF Start, Unpack, Forget, Reboot
<1>6. CASE Erase
  BY <1>6, RunTyped DEF Erase, Names
<1>7. CASE Retry \/ Ask
  <2>1. PICK name \in Names : script' = Run(name)
    BY <1>7 DEF Retry, Ask, Begin, Names
  <2> QED BY <2>1, RunTyped
<1>8. CASE ScriptFails
  BY <1>8, FailTyped DEF ScriptFails
<1>9. CASE Activate \/ Serve \/ Dies \/ \E c \in Children : Choose(c)
  <2>1. UNCHANGED script
    BY <1>9 DEF Activate, Serve, Dies, Choose
  <2> QED BY <1>1, <2>1, SameScriptTyped
<1>10. CASE Stop \/ Capture \/ Restore \/ Check \/ ChangeRules \/ Verdict \/ Migrate
  BY <1>1, <1>10, StopTyped, CaptureTyped, RestoreTyped, CheckTyped, RulesTyped, VerdictTyped,
     MigrateTyped
<1>11. Next \/ UNCHANGED script
  BY DEF vars
<1> QED BY <1>2, <1>3, <1>4, <1>5, <1>6, <1>7, <1>8, <1>9, <1>10, <1>11 DEF Next, ScriptStep

\* Who changes what.
LEMMA Changes ==
  ASSUME [Next]_vars
  PROVE  /\ Serve \/ (\E c \in Children : Choose(c)) \/ WriteOne \/ WriteFails \/ UNCHANGED accounts
         /\ (\E c \in Children : Choose(c)) \/ UNCHANGED control
         /\ (\E c \in Children : Choose(c)) \/ Forget \/ Verdict \/ UNCHANGED <<chosen, rechosen>>
         /\ Migrate \/ Unpack \/ UNCHANGED outdated
         /\ rules' \in {rules, {}, Filtered(accounts), Filtered(accounts')}
         /\ Activate \/ Start \/ Serve \/ broker' \in {"off", broker}
         /\ Mask \/ Release \/ Reboot \/ UNCHANGED mask
         /\ RaiseMarker \/ Open \/ Forget \/ UNCHANGED marker
         /\ Capture \/ Verdict \/ Forget \/ UNCHANGED snapshot
         /\ \/ Capture \/ Verdict \/ Migrate \/ ScriptFails
            \/ Start \/ Unpack \/ Erase \/ Forget \/ Reboot \/ UNCHANGED package
         /\ Move \/ UNCHANGED moves
         /\ Activate \/ Start \/ UNCHANGED exposed
<1> USE DEF Next, vars, records, history, ScriptStep, Activate, Serve, Dies, Choose, Mask,
            RaiseMarker, Stop, Capture, Restore, WriteOne, WriteFails, WriteLost, Check,
            ChangeRules, Verdict, Migrate, Release, Open, Start, Unpack, Erase, Clean, Forget,
            Retry, Ask, Begin, ScriptFails, Reboot
<1>1. Serve \/ (\E c \in Children : Choose(c)) \/ WriteOne \/ WriteFails \/ UNCHANGED accounts
  OBVIOUS
<1>2. (\E c \in Children : Choose(c)) \/ UNCHANGED control
  OBVIOUS
<1>3. (\E c \in Children : Choose(c)) \/ Forget \/ Verdict \/ UNCHANGED <<chosen, rechosen>>
  BY DEF LetIn
<1>4. Migrate \/ Unpack \/ UNCHANGED outdated
  OBVIOUS
<1>5. rules' \in {rules, {}, Filtered(accounts), Filtered(accounts')}
  OBVIOUS
<1>6. Activate \/ Start \/ Serve \/ broker' \in {"off", broker}
  OBVIOUS
<1>7. Mask \/ Release \/ Reboot \/ UNCHANGED mask
  OBVIOUS
<1>8. RaiseMarker \/ Open \/ Forget \/ UNCHANGED marker
  OBVIOUS
<1>9. Capture \/ Verdict \/ Forget \/ UNCHANGED snapshot
  OBVIOUS
<1>10. \/ Capture \/ Verdict \/ Migrate \/ ScriptFails
       \/ Start \/ Unpack \/ Erase \/ Forget \/ Reboot \/ UNCHANGED package
  OBVIOUS
<1>11. Move \/ UNCHANGED moves
  OBVIOUS
<1>12. Activate \/ Start \/ UNCHANGED exposed
  OBVIOUS
<1> HIDE DEF Next, vars, records, history, ScriptStep, Activate, Serve, Dies, Choose, Mask,
             RaiseMarker, Stop, Capture, Restore, WriteOne, WriteFails, WriteLost, Check,
             ChangeRules, Verdict, Migrate, Release, Open, Start, Unpack, Erase, Clean, Forget,
             Retry, Ask, Begin, ScriptFails, Reboot
<1> QED BY <1>1, <1>2, <1>3, <1>4, <1>5, <1>6, <1>7, <1>8, <1>9, <1>10, <1>11, <1>12

\* Every step keeps the types.
LEMMA TypedStep ==
  ASSUME Typed, [Next]_vars
  PROVE  Typed'
<1>1. TypeOK /\ ScriptTyped /\ ScriptTyped'
  BY ScriptTypedStep DEF Typed, TypeOK, ScriptTyped
<1>2. accounts' \in [Children -> Settings]
  <2>1. CASE Serve
    <3>1. ASSUME NEW c \in Children
          PROVE  [accounts[c] EXCEPT !.shell = TRUE] \in Settings /\ accounts[c] \in Settings
      BY <1>1 DEF TypeOK, Settings, Fields
    <3> QED BY <2>1, <3>1 DEF Serve
  <2>2. CASE \E c \in Children : Choose(c)
    <3>1. PICK c \in Children, choice \in Policies : accounts' = [accounts EXCEPT ![c] = choice]
      BY <2>2 DEF Choose
    <3> QED BY <1>1, <3>1, LifecycleAssumption DEF TypeOK
  <2>3. CASE WriteOne \/ WriteFails
    <3>1. At("write") /\ Write # "check" /\ accounts' \in {accounts, Written(Child)}
      BY <2>3 DEF WriteOne, WriteFails, Writing
    <3>2. Written(Child) \in [Children -> Settings]
      BY <1>1, <3>1, WrittenField
    <3> QED BY <1>1, <3>1, <3>2 DEF TypeOK
  <2>4. CASE UNCHANGED accounts
    BY <1>1, <2>4 DEF TypeOK
  <2> QED BY <2>1, <2>2, <2>3, <2>4, Changes
<1>3. /\ control' \in [Children -> {"none", "on", "off"}]
      /\ chosen' \in [Children -> Settings] /\ rechosen' \in SUBSET Children
  <2>1. CASE \E c \in Children : Choose(c)
    <3>1. PICK c \in Children, choice \in Policies :
            /\ control' = [control EXCEPT ![c] = IF choice.shell THEN "on" ELSE "off"]
            /\ chosen' = [chosen EXCEPT ![c] = choice]
            /\ rechosen' \in {rechosen, rechosen \cup {c}}
      BY <2>1 DEF Choose
    <3> QED BY <1>1, <3>1, LifecycleAssumption DEF TypeOK
  <2>2. CASE Forget \/ Verdict
    <3>1. ASSUME NEW c \in Children
          PROVE  Enforced(c) \in Settings
      BY <1>1 DEF Enforced, Settings, Fields, TypeOK
    <3>2. /\ control' = control /\ rechosen' \in {rechosen, {}}
          /\ \/ chosen' = chosen
             \/ chosen' = [c \in Children |-> Enforced(c)]
             \/ chosen' = [c \in Children |-> IF c \in rechosen THEN Enforced(c) ELSE chosen[c]]
      BY <2>2 DEF Forget, Verdict, records
    <3> QED BY <1>1, <3>1, <3>2 DEF TypeOK
  <2>3. CASE UNCHANGED <<control, chosen, rechosen>>
    BY <1>1, <2>3 DEF TypeOK
  <2> QED BY <2>1, <2>2, <2>3, Changes
<1>4. outdated' \in SUBSET Children /\ rules' \in SUBSET Children
  <2>1. outdated' \subseteq outdated \/ outdated' = Managed
    BY <1>1, MigrateTyped, Changes DEF Unpack
  <2> QED BY <1>1, <2>1, Changes DEF TypeOK, Managed, Filtered
<1>5. /\ broker' \in {"off", "starting", "serving"}
      /\ mask' \in BOOLEAN /\ marker' \in BOOLEAN /\ exposed' \in BOOLEAN
  <2>1. broker' \in {broker, "off", "starting", "serving"}
    BY Changes DEF Activate, Start, Serve, LetIn
  <2>2. mask' \in {mask, TRUE, FALSE} /\ marker' \in {marker, TRUE, FALSE}
    BY Changes DEF Mask, Release, Reboot, RaiseMarker, Open, Forget
  <2>3. exposed' \in {exposed, exposed \/ snapshot.taken}
    BY Changes DEF Activate, Start, LetIn
  <2> QED BY <1>1, <2>1, <2>2, <2>3 DEF TypeOK
<1>6. snapshot' \in [taken : BOOLEAN, of : SUBSET Children, state : [Children -> Settings]]
  <2>1. NoSnapshot \in [taken : BOOLEAN, of : SUBSET Children, state : [Children -> Settings]]
    BY DEF NoSnapshot, Cleared, Settings
  <2>2. Captured \in [taken : BOOLEAN, of : SUBSET Children, state : [Children -> Settings]]
    <3>1. ASSUME NEW c \in Children
          PROVE  Enforced(c) \in Settings /\ Cleared \in Settings
      BY <1>1 DEF Enforced, Settings, Fields, Cleared, TypeOK
    <3> QED BY <3>1 DEF Captured, Managed
  <2>3. snapshot' \in {snapshot, NoSnapshot, Captured}
    BY <1>1, CaptureTyped, Changes DEF Verdict, Forget
  <2> QED BY <1>1, <2>1, <2>2, <2>3 DEF TypeOK
<1>7. package' \in {"installed", "failed", "unpacked", "erased", "removed"}
  <2>1. package' \in {package, "installed", "failed", "unpacked", "erased", "removed"}
    BY <1>1, CaptureTyped, MigrateTyped, VerdictTyped, Changes
       DEF Start, Fail, Unpack, Erase, ScriptFails, Reboot, Forget
  <2> QED BY <1>1, <2>1 DEF TypeOK
<1>8. moves' \in 0..MaxMoves
  BY <1>1, LifecycleAssumption, Changes DEF Move, TypeOK
<1> QED BY <1>1, <1>2, <1>3, <1>4, <1>5, <1>6, <1>7, <1>8 DEF Typed, TypeOK, ScriptTyped

\* Every variable keeps to its domain, whatever fails.
THEOREM LifecycleTypes == Spec => []TypeOK
<1>1. Init => Typed
  BY TypedInit
<1>2. Typed /\ [Next]_vars => Typed'
  BY TypedStep
<1>3. Typed => TypeOK
  BY DEF Typed
<1> QED BY <1>1, <1>2, <1>3, PTL DEF Spec

-----------------------------------------------------------------------------
(* Where the script goes. *)

\* The step that raises a stage of the running script to the next one.
Proceeds == Mask \/ RaiseMarker \/ Release \/ Open \/ Clean

LEMMA ProceedsTyped ==
  ASSUME Typed, Proceeds
  PROVE  /\ script'.name = script.name /\ script'.errors = script.errors
         /\ Mask => Running("remove") /\ script'.stage = "stop"
         /\ RaiseMarker => script.name \in {"configure", "unpack"} /\ script'.stage = "stop"
         /\ Open => Running("configure") /\ script.stage = "open" /\ script'.stage = "start"
         /\ Clean => Running("erased") /\ script'.stage = "release"
         /\ Release => /\ script.name \in {"abort", "configure", "erased"}
                       /\ Running("abort") => script'.stage = "start"
                       /\ Running("configure") => script'.stage = "restore"
                       /\ Running("erased") => script'.stage = "forget"
<1>1. ScriptTyped /\ Placed
  BY DEF Typed, TypeOK, ScriptTyped
<1>2. Proceed /\ script.stage \in {"mask", "marker", "release", "open", "clean"}
  BY DEF Proceeds, Mask, RaiseMarker, Release, Open, Clean, At
<1>3. /\ script'.name = script.name /\ script'.errors = script.errors
      /\ script'.stage = After(script.stage)
  BY <1>1, <1>2, ProceedTyped
<1> USE DEF Placed, Running, At, RemovalStages, AbortStages, ConfigurationStages
<1>4. Mask => Running("remove") /\ script'.stage = "stop"
  BY <1>1, <1>3, Afters DEF Mask
<1>5. RaiseMarker => script.name \in {"configure", "unpack"} /\ script'.stage = "stop"
  BY <1>1, <1>3, Afters DEF RaiseMarker
<1>6. Open => Running("configure") /\ script.stage = "open" /\ script'.stage = "start"
  BY <1>1, <1>3, Afters DEF Open
<1>7. Clean => Running("erased") /\ script'.stage = "release"
  BY <1>1, <1>3, Afters DEF Clean
<1>8. Release => /\ script.name \in {"abort", "configure", "erased"}
                 /\ Running("abort") => script'.stage = "start"
                 /\ Running("configure") => script'.stage = "restore"
                 /\ Running("erased") => script'.stage = "forget"
  BY <1>1, <1>3, Afters DEF Release
<1> QED BY <1>3, <1>4, <1>5, <1>6, <1>7, <1>8

\* A run that begins.
LEMMA Begins ==
  ASSUME Retry \/ Ask
  PROVE  /\ \/ /\ script'.name = "remove" /\ script'.stage = "mask"
               /\ package \in {"installed", "failed"}
            \/ /\ script'.name = "configure" /\ script'.stage = "marker"
               /\ package \in {"installed", "failed", "unpacked"}
            \/ script'.name = "unpack" /\ script'.stage = "marker"
            \/ script'.name = "erased" /\ script'.stage = "clean" /\ package = "erased"
         /\ ~script'.errors
         /\ UNCHANGED <<accounts, records, rules, broker, mask, marker, snapshot, package,
                        history>>
<1>1. /\ \/ script' = Run("remove") /\ package \in {"installed", "failed"}
         \/ script' = Run("configure") /\ package \in {"installed", "failed", "unpacked"}
         \/ script' = Run("unpack")
         \/ script' = Run("erased") /\ package = "erased"
      /\ UNCHANGED <<accounts, records, rules, broker, mask, marker, snapshot, package, history>>
  BY DEF Retry, Ask, Begin
<1> QED BY <1>1, PlanStart DEF Fresh

\* The steps, by what they do to the script.
Environment == Activate \/ Serve \/ Dies \/ \E c \in Children : Choose(c)
Writes == WriteOne \/ WriteFails \/ WriteLost
Ends == Start \/ Unpack \/ Forget \/ Reboot

\* Every step is one of these.
LEMMA Steps ==
  ASSUME [Next]_vars
  PROVE  \/ UNCHANGED vars \/ Environment \/ Proceeds \/ Writes \/ Ends
         \/ Stop \/ Capture \/ Restore \/ Check \/ ChangeRules \/ Verdict \/ Migrate \/ Erase
         \/ Retry \/ Ask \/ ScriptFails
  BY DEF Next, ScriptStep, Environment, Proceeds, Writes, Ends

-----------------------------------------------------------------------------
(* A removal is alone. *)

\* The mask of a removal is never lifted under it, and no broker outlives its stop.
LEMMA AloneStep ==
  ASSUME Typed, Alone, [Next]_vars
  PROVE  Alone'
<1> USE DEF Running, At
<1>1. TypeOK /\ ScriptTyped /\ Placed
  BY DEF Typed, TypeOK, ScriptTyped
<1>2. CASE UNCHANGED vars
  BY <1>2 DEF Alone, vars
<1>3. CASE Environment
  BY <1>3 DEF Environment, Alone, Activate, Serve, Dies, Choose, Admitted
<1>4. CASE Proceeds
  <2>1. CASE Mask
    BY <1>4, <2>1, ProceedsTyped DEF Alone, Mask
  <2>2. CASE ~Mask
    BY <1>1, <1>4, <2>2, ProceedsTyped DEF Alone, Proceeds
  <2> QED BY <2>1, <2>2
<1>5. CASE Writes
  <2>1. script'.name = script.name /\ script.stage = "write" /\ script'.stage = "write"
    BY <1>1, <1>5, WritesTyped DEF Writes
  <2>2. mask' = mask /\ broker' = broker
    BY <1>5 DEF Writes, WriteOne, WriteFails, WriteLost
  <2> QED BY <2>1, <2>2 DEF Alone
<1>6. CASE Ends
  BY <1>6 DEF Ends, Start, Unpack, Forget, Reboot, NoScript, Alone
<1>7. CASE Stop
  BY <1>1, <1>7, StopTyped DEF Alone, Stop
<1>8. CASE Capture
  <2>1. mask' = mask /\ broker' = broker /\ script.stage = "capture"
    BY <1>8 DEF Capture
  <2> QED BY <1>1, <1>8, <2>1, CaptureTyped DEF Alone
<1>9. CASE Restore
  BY <1>1, <1>9, RestoreTyped DEF Alone
<1>10. CASE Check
  <2>1. mask' = mask /\ broker' = broker /\ script.stage = "write"
    BY <1>10 DEF Check
  <2> QED BY <1>1, <1>10, <2>1, CheckTyped DEF Alone
<1>11. CASE ChangeRules
  <2>1. mask' = mask /\ broker' = broker /\ script.stage = "rules"
    BY <1>11 DEF ChangeRules
  <2> QED BY <1>1, <1>11, <2>1, RulesTyped DEF Alone
<1>12. CASE Verdict
  <2>1. mask' = mask /\ broker' = broker /\ script.stage = "verdict"
    BY <1>12 DEF Verdict
  <2> QED BY <1>1, <1>12, <2>1, VerdictTyped, FailTyped DEF Alone
<1>13. CASE Migrate
  BY <1>1, <1>13, MigrateTyped DEF Alone
<1>14. CASE Erase
  BY <1>14, PlanStart DEF Erase, Fresh, Alone
<1>15. CASE Retry \/ Ask
  BY <1>15, Begins DEF Alone
<1>16. CASE ScriptFails
  BY <1>16, FailTyped DEF ScriptFails, Alone
<1> QED BY <1>2, <1>3, <1>4, <1>5, <1>6, <1>7, <1>8, <1>9, <1>10, <1>11, <1>12, <1>13, <1>14,
           <1>15, <1>16, Steps

\* No broker runs beside a removal from the capture on, whatever a client activates.
THEOREM RemovalIsAlone == Spec => []RemovesAlone
<1>1. Init => Typed /\ Alone
  BY TypedInit DEF Init, Alone, Running, NoScript
<1>2. Typed /\ Alone /\ [Next]_vars => Typed' /\ Alone'
  BY TypedStep, AloneStep
<1>3. Alone => RemovesAlone
  BY DEF Alone, RemovesAlone, At
<1> QED BY <1>1, <1>2, <1>3, PTL DEF Spec

-----------------------------------------------------------------------------
(* No broker before the migration. *)

\* Only an unpacking gives a package without a payload one.
LEMMA PayloadKept ==
  ASSUME Typed, Migrated, [Next]_vars
  PROVE  Payload' => Payload \/ Unpack
<1>1. TypeOK /\ ScriptTyped /\ Placed
  BY DEF Typed, TypeOK, ScriptTyped
<1>2. Fail => package' = package \/ Payload
  BY DEF Fail, Migrated, Running
<1>3. Start => package' = package \/ Payload
  BY DEF Start, Migrated, Running
<1>4. Reboot => package' = package \/ Payload
  BY DEF Reboot, Migrated, Running
<1>5. Erase \/ Forget => ~Payload'
  BY DEF Erase, Forget, Payload
<1>6. Capture \/ Migrate => package' = package
  BY <1>1, CaptureTyped, MigrateTyped
<1>7. Verdict => package' = package \/ Fail
  BY <1>1, VerdictTyped
<1> QED BY <1>2, <1>3, <1>4, <1>5, <1>6, <1>7, Changes DEF ScriptFails, Payload

LEMMA OutdatedManaged ==
  ASSUME Typed, outdated \subseteq Managed, [Next]_vars
  PROVE  outdated' \subseteq Managed'
<1>1. TypeOK /\ ScriptTyped
  BY DEF Typed, TypeOK, ScriptTyped
<1>2. outdated' \subseteq outdated \/ outdated' = Managed
  BY <1>1, MigrateTyped, Changes DEF Unpack
<1>3. Managed \subseteq Managed'
  BY <1>1, Changes DEF Choose, Managed, TypeOK
<1> QED BY <1>2, <1>3

\* The marker is raised before records are outdated, and lowered after their migration.
LEMMA MigratedStep ==
  ASSUME Typed, Migrated, [Next]_vars
  PROVE  Migrated'
<1> USE DEF Running, At
<1>1. TypeOK /\ ScriptTyped /\ Placed
  BY DEF Typed, TypeOK, ScriptTyped
<1>2. outdated' \subseteq Managed'
  BY OutdatedManaged DEF Migrated
<1>3. CASE UNCHANGED <<outdated, marker, package, script>>
  BY <1>2, <1>3 DEF Migrated, Payload
<1>4. CASE UNCHANGED vars \/ Environment
  <2>1. UNCHANGED <<outdated, marker, package, script>>
    BY <1>4 DEF vars, Environment, Activate, Serve, Dies, Choose, records
  <2> QED BY <1>3, <2>1
<1>5. CASE Proceeds
  <2>1. UNCHANGED <<outdated, package>>
    BY <1>5 DEF Proceeds, Mask, RaiseMarker, Release, Open, Clean, records
  <2>2. CASE Mask \/ Release \/ Clean
    <3>1. UNCHANGED marker /\ (Release => script.stage = "release")
      BY <2>2 DEF Mask, Release, Clean
    <3> QED BY <1>2, <1>5, <2>1, <2>2, <3>1, ProceedsTyped DEF Migrated, Payload
  <2>3. CASE RaiseMarker
    <3>1. marker'
      BY <2>3 DEF RaiseMarker
    <3> QED BY <1>2, <1>5, <2>1, <2>3, <3>1, ProceedsTyped DEF Migrated, Payload
  <2>4. CASE Open
    BY <1>2, <1>5, <2>1, <2>4, ProceedsTyped DEF Migrated, Payload
  <2> QED BY <1>5, <2>2, <2>3, <2>4 DEF Proceeds
<1>6. CASE Writes
  <2>1. script'.name = script.name /\ script.stage = "write" /\ script'.stage = "write"
    BY <1>1, <1>6, WritesTyped DEF Writes
  <2>2. UNCHANGED <<outdated, marker, package>>
    BY <1>6 DEF Writes, WriteOne, WriteFails, WriteLost, records
  <2> QED BY <1>2, <2>1, <2>2 DEF Migrated, Payload
<1>7. CASE Ends
  <2>1. script'.name = "none"
    BY <1>7 DEF Ends, Start, Unpack, Forget, Reboot, NoScript
  <2>2. outdated' # {} /\ Payload' => marker'
    <3>1. CASE Start \/ Reboot
      <4>1. UNCHANGED <<outdated, marker>>
        BY <3>1 DEF Start, Reboot, records
      <4>2. Payload' => Payload
        BY <3>1 DEF Start, Reboot, Migrated, Payload
      <4> QED BY <4>1, <4>2 DEF Migrated
    <3>2. CASE Unpack
      BY <1>1, <3>2
         DEF Unpack, Migrated, Placed, RemovalStages, AbortStages, ConfigurationStages
    <3>3. CASE Forget
      BY <3>3 DEF Forget, Payload
    <3> QED BY <1>7, <3>1, <3>2, <3>3 DEF Ends
  <2> QED BY <1>2, <2>1, <2>2 DEF Migrated
<1>8. CASE Stop
  <2>1. UNCHANGED <<outdated, marker, package, control>> /\ script.stage = "stop"
    BY <1>8 DEF Stop, records
  <2>2. script'.name = "unpack" => marker'
    BY <1>1, <1>8, <2>1, StopTyped DEF Migrated
  <2>3. script'.name = "configure" => script'.stage = "migrate" /\ outdated' \subseteq script'.todo
    BY <1>1, <1>8, <2>1, StopTyped DEF Migrated
  <2> QED BY <1>1, <1>2, <1>8, <2>1, <2>2, <2>3, StopTyped DEF Migrated, Payload
<1>9. CASE Capture
  <2>1. UNCHANGED <<outdated, marker>>
    BY <1>9 DEF Capture, records
  <2> QED BY <1>1, <1>2, <1>9, <2>1, CaptureTyped DEF Migrated, Payload
<1>10. CASE Restore
  <2>1. UNCHANGED <<outdated, marker, package>> /\ script.stage = "restore"
    BY <1>10 DEF Restore, records
  <2>2. script'.stage \in {"write", "rules", "release", "open"}
    BY <1>1, <1>10, RestoreTyped
  <2> QED BY <1>1, <1>2, <1>10, <2>1, <2>2, RestoreTyped DEF Migrated, Payload
<1>11. CASE Check
  <2>1. UNCHANGED <<outdated, marker, package>> /\ script.stage = "write"
    BY <1>11 DEF Check, records
  <2>2. script'.stage \in {"write", "rules"} /\ script'.name = script.name
    BY <1>1, <1>11, CheckTyped
  <2> QED BY <1>2, <2>1, <2>2 DEF Migrated, Payload
<1>12. CASE ChangeRules
  <2>1. UNCHANGED <<outdated, marker, package>> /\ script.stage = "rules"
    BY <1>12 DEF ChangeRules, records
  <2>2. script'.stage = "verdict" /\ script'.name = script.name
    BY <1>1, <1>12, RulesTyped
  <2> QED BY <1>2, <2>1, <2>2 DEF Migrated, Payload
<1>13. CASE Verdict
  <2>1. UNCHANGED <<outdated, marker>> /\ script.stage = "verdict"
    BY <1>13 DEF Verdict, records
  <2>2. CASE ~script.errors /\ script'.name = script.name /\ package' = package
             /\ script'.stage \in {"erase", "release", "open"}
    BY <1>2, <2>1, <2>2 DEF Migrated, Payload
  <2>3. CASE Fail
    <3>1. \/ script'.name = "abort" /\ Running("remove") /\ package' = package
          \/ script'.name = "none" /\ package' \in {package, "failed"}
      BY <2>3, FailTyped DEF Fail
    <3> QED BY <1>1, <1>2, <1>13, <2>1, <3>1, VerdictTyped DEF Migrated, Payload
  <2> QED BY <1>1, <1>13, <2>2, <2>3, VerdictTyped
<1>14. CASE Migrate
  <2>1. UNCHANGED marker /\ script.stage = "migrate"
    BY <1>14 DEF Migrate
  <2> QED BY <1>1, <1>2, <1>14, <2>1, MigrateTyped DEF Migrated, Payload
<1>15. CASE Erase
  <2>1. script'.name = "erased" /\ ~Payload' /\ UNCHANGED outdated
    BY <1>15, PlanStart DEF Erase, Fresh, Payload, records
  <2> QED BY <1>2, <2>1 DEF Migrated
<1>16. CASE Retry \/ Ask
  <2>1. UNCHANGED <<outdated, marker, package>>
    BY <1>16, Begins DEF records
  <2> QED BY <1>2, <1>16, <2>1, Begins DEF Migrated, Payload
<1>17. CASE ScriptFails
  <2>1. UNCHANGED <<outdated, marker>>
    BY <1>17 DEF ScriptFails, records
  <2>2. \/ script'.name = "abort" /\ Running("remove") /\ package' = package
        \/ script'.name = "none" /\ (Payload' => Payload)
    BY <1>17, FailTyped DEF ScriptFails, Fail, Migrated, Payload
  <2> QED BY <1>2, <2>1, <2>2 DEF Migrated, Payload
<1> QED BY <1>4, <1>5, <1>6, <1>7, <1>8, <1>9, <1>10, <1>11, <1>12, <1>13, <1>14,
           <1>15, <1>16, <1>17, Steps

\* The step that lets a broker in finds the payload, and no marker.
THEOREM NoStartBeforeMigration == Spec => StartsMigrated
<1>1. Init => Typed /\ Migrated
  BY TypedInit DEF Init, Migrated, Running, NoScript, Managed, Payload
<1>2. Typed /\ Migrated /\ [Next]_vars => Typed' /\ Migrated'
  BY TypedStep, MigratedStep
<1>3. ASSUME Typed, Migrated, [Next]_vars, broker = "off", broker' = "starting"
      PROVE  outdated = {}
  <2>1. Admitted
    BY <1>3, Changes DEF Activate, Start, Serve
  <2> QED BY <1>3, <2>1 DEF Admitted, Migrated
<1>4. Typed /\ Migrated /\ [Next]_vars
        => [broker = "off" /\ broker' = "starting" => outdated = {}]_vars
  BY <1>3
<1> QED BY <1>1, <1>2, <1>4, PTL DEF Spec, StartsMigrated

-----------------------------------------------------------------------------
(* No grant without its limit. *)

\* Whoever writes holds a snapshot, and a broker over one was let in after it.
LEMMA HeldStep ==
  ASSUME Typed, Alone, Held, [Next]_vars
  PROVE  Held'
<1> USE DEF Running, At
<1>1. TypeOK /\ ScriptTyped /\ Placed
  BY DEF Typed, TypeOK, ScriptTyped
<1>2. CASE UNCHANGED vars
  BY <1>2 DEF vars, Held, Managed
<1>3. CASE Environment
  <2>1. UNCHANGED <<script, snapshot>>
    BY <1>3 DEF Environment, Activate, Serve, Dies, Choose
  <2>2. snapshot.taken /\ ~exposed' => ~exposed /\ broker' = "off" /\ Managed' = Managed
    BY <1>3
       DEF Environment, Activate, Serve, Dies, Choose, Held, LetIn, Managed, records, history
  <2> QED BY <2>1, <2>2 DEF Held
<1>4. CASE Proceeds
  <2>1. UNCHANGED <<snapshot, broker, control, exposed>>
    BY <1>4 DEF Proceeds, Mask, RaiseMarker, Release, Open, Clean, records, history
  <2>2. script'.stage \notin {"write", "rules", "verdict", "erase"}
    BY <1>4, ProceedsTyped DEF Proceeds
  <2> QED BY <2>1, <2>2 DEF Held, Managed
<1>5. CASE Writes
  <2>1. script.stage = "write" /\ script'.stage = "write"
    BY <1>1, <1>5, WritesTyped DEF Writes
  <2>2. UNCHANGED <<snapshot, broker, control, exposed>>
    BY <1>5 DEF Writes, WriteOne, WriteFails, WriteLost, records, history
  <2> QED BY <2>1, <2>2 DEF Held, Managed
<1>6. CASE Ends
  <2>1. script'.stage = "idle" /\ UNCHANGED control
    BY <1>6 DEF Ends, Start, Unpack, Forget, Reboot, NoScript, records
  <2>2. snapshot'.taken /\ ~exposed' => broker' = "off" /\ snapshot' = snapshot
    <3>1. CASE Start
      <4>1. CASE LetIn
        BY <3>1, <4>1 DEF Start, LetIn
      <4>2. CASE UNCHANGED <<broker, exposed>>
        BY <3>1, <4>2 DEF Start, Held
      <4> QED BY <3>1, <4>1, <4>2 DEF Start
    <3>2. CASE Unpack
      BY <3>2 DEF Unpack, Held, history
    <3>3. CASE Forget
      <4>1. snapshot' = NoSnapshot
        BY <3>3 DEF Forget
      <4> QED BY <4>1 DEF NoSnapshot
    <3>4. CASE Reboot
      BY <3>4 DEF Reboot
    <3> QED BY <1>6, <3>1, <3>2, <3>3, <3>4 DEF Ends
  <2>3. ~exposed' => ~exposed
    BY <1>6 DEF Ends, Start, Unpack, Forget, Reboot, LetIn, history
  <2> QED BY <2>1, <2>2, <2>3 DEF Held, Managed
<1>7. CASE Stop
  <2>1. /\ UNCHANGED <<snapshot, control, exposed>> /\ broker' \in {broker, "off"}
        /\ script'.stage \notin {"write", "rules", "verdict", "erase"}
    <3>1. script.name \in {"remove", "configure", "unpack"}
      BY <1>1, <1>7 DEF Stop, Placed, AbortStages
    <3> QED BY <1>1, <1>7, <3>1, StopTyped DEF Stop, records, history
  <2> QED BY <2>1 DEF Held, Managed
<1>8. CASE Capture
  <2>1. UNCHANGED <<broker, control, exposed>> /\ broker = "off"
    BY <1>8 DEF Capture, records, history, Alone
  <2>2. CASE snapshot' = snapshot /\ script'.stage = "restore"
    BY <2>1, <2>2 DEF Held, Managed
  <2>3. CASE snapshot' = IF snapshot.taken THEN snapshot ELSE Captured
    <3>1. Managed' = Managed /\ snapshot'.taken
      BY <2>1, <2>3 DEF Managed, Captured
    <3> QED BY <2>1, <2>3, <3>1 DEF Held, Captured
  <2> QED BY <1>1, <1>8, <2>2, <2>3, CaptureTyped
<1>9. CASE Restore
  <2>1. UNCHANGED <<snapshot, broker, control, exposed>>
    BY <1>9 DEF Restore, records, history
  <2> QED BY <1>1, <1>9, <2>1, RestoreTyped DEF Held, Managed
<1>10. CASE Check \/ ChangeRules
  <2>1. UNCHANGED <<snapshot, broker, control, exposed>> /\ script.stage \in {"write", "rules"}
    BY <1>10 DEF Check, ChangeRules, records, history
  <2> QED BY <2>1 DEF Held, Managed
<1>11. CASE Verdict
  <2>1. UNCHANGED <<broker, control, exposed>> /\ script.stage = "verdict"
    BY <1>11 DEF Verdict, records
  <2>2. snapshot' = snapshot \/ (~Running("remove") /\ ~script.errors /\ snapshot' = NoSnapshot)
    BY <1>11 DEF Verdict
  <2>3. snapshot' = NoSnapshot => ~snapshot'.taken
    BY DEF NoSnapshot
  <2>4. ~Running("remove") /\ ~script.errors => script'.stage \in {"release", "open"}
    BY <1>1, <1>11, VerdictTyped
  <2> QED BY <2>1, <2>2, <2>3, <2>4 DEF Held, Managed
<1>12. CASE Migrate
  <2>1. UNCHANGED <<snapshot, broker, control, exposed>>
    BY <1>12 DEF Migrate, history
  <2> QED BY <1>1, <1>12, <2>1, MigrateTyped DEF Held, Managed
<1>13. CASE Erase \/ Retry \/ Ask
  <2>1. UNCHANGED <<snapshot, broker, control, exposed>>
    BY <1>13, Begins DEF Erase, records, history
  <2>2. script'.stage \in {"clean", "mask", "marker"}
    BY <1>13, Begins, PlanStart DEF Erase, Fresh
  <2> QED BY <2>1, <2>2 DEF Held, Managed
<1>14. CASE ScriptFails
  <2>1. UNCHANGED <<snapshot, broker, control, exposed>>
    BY <1>14 DEF ScriptFails, records, history
  <2> QED BY <1>14, <2>1, FailTyped DEF ScriptFails, Held, Managed
<1> QED BY <1>2, <1>3, <1>4, <1>5, <1>6, <1>7, <1>8, <1>9, <1>10, <1>11, <1>12, <1>13, <1>14,
           Steps

\* A write leaves no grant without its limit, and what follows finds none.
LEMMA WrittenLimited ==
  ASSUME Typed, Limited, ~exposed, At("write"), Write # "check", ~Forbidden,
         NEW c \in Children
  PROVE  /\ Written(Child)[c].grant => Written(Child)[c].limit
         /\ c = Child =>
              /\ Write = "revoke" => ~Written(Child)[c].grant
              /\ Write \in {"daily", "limit"} => ~Written(Child)[c].grant
              /\ ~Running("remove") /\ Write = "limit" =>
                   Written(Child)[c].limit = snapshot.state[c].limit
<1> DEFINE new == Written(Child)
<1>1. TypeOK /\ ScriptTyped /\ script.write \in DOMAIN Order
  BY DEF Typed, TypeOK, ScriptTyped
<1>2. /\ "grant" \in Fields /\ "limit" \in Fields /\ "revoke" \notin Fields
  BY DEF Fields
<1>3. ASSUME NEW field \in {"grant", "limit"}
      PROVE  new[c][field] = IF c # Child THEN accounts[c][field]
                             ELSE IF Write = "revoke" /\ field = "grant" THEN FALSE
                             ELSE IF field = Write THEN Target(c)[field]
                             ELSE accounts[c][field]
  <2>1. field \in Fields
    BY <1>2, <1>3
  <2>2. \A d \in Children : \A f \in Fields :
          Written(Child)[d][f] = IF d # Child THEN accounts[d][f]
                                 ELSE IF Write = "revoke" /\ f = "grant" THEN FALSE
                                 ELSE IF f = Write THEN Target(Child)[f]
                                 ELSE accounts[d][f]
    BY <1>1, WrittenField
  <2> QED BY <2>1, <2>2
<1>4. /\ new[c].grant = IF c # Child THEN accounts[c].grant
                        ELSE IF Write = "revoke" THEN FALSE
                        ELSE IF Write = "grant" THEN Target(c).grant ELSE accounts[c].grant
      /\ new[c].limit = IF c = Child /\ Write = "limit" THEN Target(c).limit
                        ELSE accounts[c].limit
  BY <1>3
<1>5. accounts[c].grant => accounts[c].limit
  BY DEF Limited
<1> HIDE DEF new
<1>6. CASE c # Child
  BY <1>4, <1>5, <1>6 DEF new
<1>7. CASE c = Child
  <2>1. /\ script.write \in GrantAbsent => ~accounts[c].grant
        /\ ~Running("remove") /\ script.write = 4 => accounts[c].limit = snapshot.state[c].limit
    BY <1>7 DEF Limited
  <2>2. Write \in {"daily", "limit"} => script.write \in GrantAbsent
    BY <1>1, Orders DEF Write, GrantAbsent
  <2>3. Write = "grant" => ~Running("remove") /\ script.write = 4
    BY <1>1, Orders DEF Write
  <2>4. ~Running("remove") => Target(c) = snapshot.state[c]
    BY DEF Target
  <2>5. Write = "grant" => ~Target(c).grant \/ Target(c).limit
    BY <1>7 DEF Forbidden
  <2>6. new[c].grant => new[c].limit
    <3>1. CASE Write = "revoke"
      BY <1>4, <1>7, <3>1
    <3>2. CASE Write = "grant"
      BY <1>4, <1>7, <2>1, <2>3, <2>4, <2>5, <3>2
    <3>3. CASE Write = "limit"
      BY <1>4, <1>7, <2>1, <2>2, <3>3
    <3>4. CASE Write \notin {"revoke", "grant", "limit"}
      BY <1>4, <1>5, <1>7, <3>4
    <3> QED BY <3>1, <3>2, <3>3, <3>4
  <2>7. Write = "revoke" => ~new[c].grant
    BY <1>4, <1>7
  <2>8. Write \in {"daily", "limit"} => ~new[c].grant
    BY <1>4, <1>7, <2>1, <2>2
  <2>9. ~Running("remove") /\ Write = "limit" => new[c].limit = snapshot.state[c].limit
    BY <1>4, <1>7, <2>4
  <2> QED BY <2>6, <2>7, <2>8, <2>9 DEF new
<1> QED BY <1>6, <1>7

\* The writes of a child, in their order.
LEMMA LimitedWrites ==
  ASSUME Typed, Limited, ~exposed, Writes
  PROVE  Limited'
<1>1. TypeOK /\ ScriptTyped /\ script.write \in DOMAIN Order
  BY DEF Typed, TypeOK, ScriptTyped, Writes, WriteOne, WriteFails, WriteLost, Writing
<1>2. /\ At("write") /\ Write # "check" /\ snapshot' = snapshot /\ exposed' = exposed
      /\ script'.name = script.name /\ script'.todo = script.todo
  BY <1>1, WritesTyped
     DEF Writes, WriteOne, WriteFails, WriteLost, Writing, history
<1>3. Child' = Child /\ GrantAbsent' = GrantAbsent /\ Running("remove")' = Running("remove")
  BY <1>2 DEF Child, GrantAbsent, Running
<1>4. \/ WriteOne /\ ~Forbidden /\ script'.write = script.write + 1 /\ accounts' = Written(Child)
      \/ /\ WriteLost /\ Write \in {"daily", "filter", "grant"}
         /\ script'.write = script.write + 1 /\ accounts' = accounts
      \/ /\ WriteFails /\ script'.write = AfterFailure
         /\ accounts' = accounts \/ (~Forbidden /\ accounts' = Written(Child))
  <2>1. CASE WriteOne
    <3>1. script'.write = script.write + 1
      BY <1>1, <2>1 DEF WriteOne, ScriptTyped, Scripts
    <3> QED BY <2>1, <3>1 DEF WriteOne
  <2>2. CASE WriteLost
    <3>1. script'.write = script.write + 1
      BY <1>1, <2>2 DEF WriteLost, ScriptTyped, Scripts
    <3> QED BY <2>2, <3>1 DEF WriteLost
  <2>3. CASE WriteFails
    <3>1. script'.write = AfterFailure
      BY <1>1, <2>3 DEF WriteFails, ScriptTyped, Scripts
    <3> QED BY <2>3, <3>1 DEF WriteFails
  <2> QED BY <2>1, <2>2, <2>3 DEF Writes
<1>5. WriteFails => script'.write \notin GrantAbsent
  <2>1. /\ AfterFailure \in DOMAIN Order /\ AfterFailure > script.write
        /\ Write \in TimeWrites => Order[AfterFailure] \notin TimeWrites
        /\ Write \notin TimeWrites => AfterFailure = script.write + 1
    BY <1>1, <1>2, AfterFailed
  <2>2. WriteFails => script'.write = AfterFailure
    BY <1>1 DEF WriteFails, ScriptTyped, Scripts
  <2>3. CASE Running("remove")
    <3>1. script.write \in 1..5 /\ GrantAbsent = 3..4
      BY <1>1, <1>2, <2>3, Orders DEF Write, GrantAbsent
    <3>2. script.write = 1 => AfterFailure = 2
      BY <2>1, <2>3, Orders DEF Write, TimeWrites
    <3>3. script.write \in 2..4 => AfterFailure \in 5..6
      BY <2>1, <2>3, Orders DEF Write, TimeWrites
    <3>4. script.write = 5 => AfterFailure = 6
      BY <2>1, <2>3, Orders DEF Write, TimeWrites
    <3> QED BY <2>2, <3>1, <3>2, <3>3, <3>4
  <2>4. CASE ~Running("remove")
    <3>1. script.write \in 1..6 /\ GrantAbsent = 2..4
      BY <1>1, <1>2, <2>4, Orders DEF Write, GrantAbsent
    <3>2. script.write \in 1..4 => AfterFailure \in 5..7
      BY <2>1, <2>4, Orders DEF Write, TimeWrites
    <3>3. script.write \in 5..6 => AfterFailure \in 6..7
      BY <2>1, <2>4, Orders DEF Write, TimeWrites
    <3> QED BY <2>2, <3>1, <3>2, <3>3
  <2> QED BY <2>3, <2>4
<1>6. ASSUME NEW c \in Children
      PROVE  accounts'[c].grant => accounts'[c].limit
  BY <1>2, <1>4, <1>6, WrittenLimited DEF Limited
<1>7. ASSUME NEW c \in Children, c = Child, ~WriteFails
      PROVE  /\ script'.write \in GrantAbsent => ~accounts'[c].grant
             /\ ~Running("remove") /\ script'.write = 4 =>
                  accounts'[c].limit = snapshot.state[c].limit
  <2>1. script'.write = script.write + 1
    BY <1>4, <1>7
  <2>2. script'.write \in GrantAbsent => Write \in {"revoke", "daily", "limit"}
    BY <1>1, <2>1, Orders DEF Write, GrantAbsent
  <2>3. ~Running("remove") /\ script'.write = 4 => Write = "limit"
    BY <1>1, <2>1, Orders DEF Write, GrantAbsent
  <2>4. Write = "daily" => script.write \in GrantAbsent
    BY <1>1, Orders DEF Write, GrantAbsent
  <2>5. CASE accounts' = Written(Child) /\ ~Forbidden
    BY <1>2, <1>7, <2>2, <2>3, <2>5, WrittenLimited
  <2>6. CASE accounts' = accounts /\ Write \in {"daily", "filter", "grant"}
    BY <1>2, <1>7, <2>2, <2>3, <2>4, <2>6 DEF Limited
  <2> QED BY <1>4, <1>7, <2>5, <2>6
<1>8. ~Running("remove") => 4 \in GrantAbsent
  BY DEF GrantAbsent
<1> QED BY <1>2, <1>3, <1>5, <1>6, <1>7, <1>8 DEF Limited

\* No step publishes a grant without its limit.
LEMMA LimitedStep ==
  ASSUME Typed, Held, Limited, [Next]_vars
  PROVE  Limited'
<1>1. TypeOK /\ ScriptTyped /\ Placed
  BY DEF Typed, TypeOK, ScriptTyped
<1>2. exposed => exposed'
  BY Changes DEF Activate, Start, LetIn
<1>3. SUFFICES ASSUME ~exposed' PROVE Limited'
  BY DEF Limited
<1>4. /\ ~exposed /\ \A c \in Children : accounts[c].grant => accounts[c].limit
  BY <1>2, <1>3 DEF Limited
<1>5. CASE Writes
  BY <1>4, <1>5, LimitedWrites
<1>6. CASE ~Writes
  <2>1. ASSUME NEW c \in Children
        PROVE  accounts'[c].grant => accounts'[c].limit
    <3>1. CASE Serve
      <4>1. accounts' = [d \in Children |->
              IF control[d] = "on" /\ d \notin outdated THEN [accounts[d] EXCEPT !.shell = TRUE]
              ELSE accounts[d]]
        BY <3>1 DEF Serve
      <4> QED BY <1>1, <1>4, <4>1 DEF TypeOK, Settings, Fields
    <3>2. CASE \E d \in Children : Choose(d)
      <4>1. PICK d \in Children, choice \in Policies : accounts' = [accounts EXCEPT ![d] = choice]
        BY <3>2 DEF Choose
      <4> QED BY <1>1, <1>4, <4>1, LifecycleAssumption DEF TypeOK
    <3>3. CASE UNCHANGED accounts
      BY <1>4, <3>3
    <3> QED BY <1>6, <3>1, <3>2, <3>3, Changes DEF Writes
  <2>2. At("write")' => \/ UNCHANGED <<script, snapshot, accounts>>
                       \/ script'.write = 1
    <3>1. CASE UNCHANGED vars \/ Environment
      <4>1. UNCHANGED <<script, snapshot>>
        BY <3>1 DEF vars, Environment, Activate, Serve, Dies, Choose
      <4>2. At("write") => broker = "off"
        BY <1>4 DEF Held, At
      <4>3. At("write") => UNCHANGED accounts
        BY <3>1, <4>2 DEF vars, Environment, Activate, Serve, Dies, Choose
      <4> QED BY <4>1, <4>3 DEF At
    <3>2. CASE Proceeds \/ Ends \/ Erase \/ Retry \/ Ask \/ ScriptFails
      <4>1. Proceeds => script'.stage # "write"
        BY ProceedsTyped DEF Proceeds, Running
      <4>2. Ends => script'.stage # "write"
        BY DEF Ends, Start, Unpack, Forget, Reboot, NoScript
      <4>3. Erase => script'.stage # "write"
        BY PlanStart DEF Erase, Fresh
      <4>4. Retry \/ Ask => script'.stage # "write"
        BY Begins
      <4>5. ScriptFails => script'.stage # "write"
        BY FailTyped DEF ScriptFails
      <4> QED BY <3>2, <4>1, <4>2, <4>3, <4>4, <4>5 DEF At
    <3>3. CASE Stop \/ Restore \/ Check \/ Migrate \/ Capture
      <4>1. Stop => script'.stage # "write"
        <5>1. Stop => script.name \in {"remove", "configure", "unpack"}
          BY <1>1 DEF Stop, Placed, AbortStages, At, Running
        <5> QED BY <1>1, <5>1, StopTyped DEF Running
      <4> QED BY <1>1, <3>3, <4>1, RestoreTyped, CheckTyped, MigrateTyped, CaptureTyped DEF At
    <3>4. CASE ChangeRules \/ Verdict
      BY <1>1, <3>4, RulesTyped, VerdictTyped, FailTyped DEF At
    <3> QED BY <1>6, <3>1, <3>2, <3>3, <3>4, Steps
  <2>3. CASE UNCHANGED <<script, snapshot, accounts>>
    BY <1>4, <2>1, <2>3 DEF Limited, At, Child, GrantAbsent, Running
  <2>4. CASE script'.write = 1
    BY <2>1, <2>4 DEF Limited, GrantAbsent
  <2>5. CASE ~At("write")'
    BY <2>1, <2>5 DEF Limited
  <2> QED BY <2>2, <2>3, <2>4, <2>5
<1> QED BY <1>5, <1>6

\* No failed, lost or interrupted write publishes a grant without its limit.
THEOREM GrantNeedsLimit == Spec => []GrantHasLimit
<1>1. Init => Typed /\ Alone /\ Held /\ Limited
  <2>1. Init => Alone /\ Held
    BY DEF Init, Alone, Held, Running, NoScript, NoSnapshot
  <2>2. Init => Limited
    BY LifecycleAssumption DEF Init, Limited, At, NoScript
  <2> QED BY <2>1, <2>2, TypedInit
<1>2. Typed /\ Alone /\ Held /\ Limited /\ [Next]_vars => Typed' /\ Alone' /\ Held' /\ Limited'
  BY TypedStep, AloneStep, HeldStep, LimitedStep
<1>3. Limited => GrantHasLimit
  BY DEF Limited, GrantHasLimit
<1> QED BY <1>1, <1>2, <1>3, PTL DEF Spec

-----------------------------------------------------------------------------
(* A removal clears every child. *)

\* The writes of a removal give nothing back, and the extension is the first to go.
LEMMA ClearedWrites ==
  ASSUME Typed, Held, Alone, ClearedSoFar, Writes
  PROVE  ClearedSoFar'
<1>1. TypeOK /\ ScriptTyped /\ script.write \in DOMAIN Order /\ script.todo # {}
  BY DEF Typed, TypeOK, ScriptTyped, Writes, WriteOne, WriteFails, WriteLost, Writing
<1>2. /\ At("write") /\ Write # "check" /\ snapshot' = snapshot
      /\ script'.name = script.name /\ script'.todo = script.todo /\ script'.stage = "write"
  BY <1>1, WritesTyped DEF Writes, WriteOne, WriteFails, WriteLost, Writing, history
<1>3. Child' = Child
  BY <1>2 DEF Child
<1>4. \A d \in Children : \A field \in Fields :
        Written(Child)[d][field] =
          IF d # Child THEN accounts[d][field]
          ELSE IF Write = "revoke" /\ field = "grant" THEN FALSE
          ELSE IF field = Write THEN Target(Child)[field]
          ELSE accounts[d][field]
  <2>1. TypeOK /\ ScriptTyped /\ At("write") /\ Write # "check"
    BY <1>1, <1>2
  <2> QED BY <2>1, WrittenField, Zenon
<1>5. ASSUME Running("remove"), ~script'.errors, NEW c \in Children
      PROVE  /\ c \in snapshot.of \ script.todo => accounts'[c] = Cleared
             /\ c = Child /\ script'.write > 1 => ~accounts'[c].shell
  <2>1. /\ ~script.errors /\ script'.write = script.write + 1
        /\ accounts' \in {accounts, Written(Child)}
        /\ Write = "shell" => accounts' = Written(Child)
    <3>1. ~WriteFails /\ ~script.errors /\ script'.write = script.write + 1
      <4>1. WriteFails => script'.errors
        BY <1>1 DEF WriteFails, ScriptTyped, Scripts
      <4> QED BY <1>1, <1>5, <4>1, WritesTyped DEF Writes
    <3> QED BY <3>1 DEF Writes, WriteOne, WriteLost
  <2>2. Child \in script.todo
    BY <1>1, ChildTodo
  <2>3. c \in snapshot.of \ script.todo => accounts[c] = Cleared
    BY <1>2, <1>5, <2>1 DEF ClearedSoFar
  <2>4. c # Child => Written(Child)[c] = accounts[c]
    BY DEF Written
  <2>5. c \in snapshot.of \ script.todo => accounts'[c] = Cleared
    BY <2>1, <2>2, <2>3, <2>4
  <2>6. ASSUME c = Child, script'.write > 1
        PROVE  ~accounts'[c].shell
    <3>1. CASE script.write = 1
      <4>1. Write = "shell"
        BY <1>5, <3>1, Orders DEF Write
      <4>2. Written(Child)[c]["shell"] = Target(c)["shell"]
        <5>1. "shell" \in Fields
          BY DEF Fields
        <5>2. \A field \in Fields : field = Write => Written(c)[c][field] = Target(c)[field]
          BY <1>1, <1>2, <1>5, <4>1, WrittenField
        <5> QED BY <2>6, <4>1, <5>1, <5>2
      <4>3. Target(c)["shell"] = FALSE
        BY <1>5 DEF Target, Cleared, Fields
      <4> QED BY <2>1, <4>1, <4>2, <4>3
    <3>2. CASE script.write # 1
      <4>1. script.write > 1 /\ Write # "shell"
        BY <1>1, <1>5, <3>2, Orders DEF Write
      <4>2. ~accounts[c].shell
        BY <1>2, <1>5, <2>1, <2>6, <4>1 DEF ClearedSoFar
      <4>3. Written(Child)[c]["shell"] = accounts[c]["shell"]
        <5>1. "shell" \in Fields
          BY DEF Fields
        <5> QED BY <1>5, <1>4, <2>6, <4>1, <5>1
      <4> QED BY <2>1, <4>2, <4>3
    <3> QED BY <3>1, <3>2
  <2> QED BY <2>5, <2>6
<1> QED BY <1>2, <1>3, <1>5 DEF ClearedSoFar, At, Running

\* A child is done with when its fields read back as cleared.
LEMMA ClearedCheck ==
  ASSUME Typed, ClearedSoFar, Check
  PROVE  ClearedSoFar'
<1>1. TypeOK /\ ScriptTyped /\ At("write") /\ Write = "check" /\ script.todo # {}
  BY DEF Typed, TypeOK, ScriptTyped, Check
<1>2. /\ script'.name = script.name /\ script'.todo = script.todo \ {Child}
      /\ script'.write = 1
      /\ script'.stage = IF script'.todo = {} THEN "rules" ELSE "write"
      /\ ~script'.errors => ~script.errors /\ Verified(Child)
  BY <1>1, CheckTyped
<1>3. accounts' = accounts /\ snapshot' = snapshot
  BY DEF Check
<1>4. ASSUME Running("remove"), ~script'.errors, NEW c \in Children,
             c \in snapshot.of \ script'.todo
      PROVE  accounts[c] = Cleared
  <2>1. CASE c # Child
    BY <1>1, <1>2, <1>4, <2>1 DEF ClearedSoFar
  <2>2. CASE c = Child
    <3>1. script.write > 1
      BY <1>1, <1>4, Orders DEF Write, ScriptTyped
    <3>2. ~accounts[c].shell
      BY <1>1, <1>2, <1>4, <2>2, <3>1 DEF ClearedSoFar
    <3>3. \A field \in Fields \ {"shell"} : accounts[c][field] = FALSE
      BY <1>2, <1>4, <2>2 DEF Verified, Target, Cleared
    <3>4. accounts[c] \in [Fields -> BOOLEAN]
      BY <1>1, <1>4 DEF TypeOK, Settings
    <3>5. \A field \in Fields : accounts[c][field] = FALSE
      BY <3>2, <3>3, <3>4 DEF Fields
    <3> QED BY <3>4, <3>5 DEF Cleared
  <2> QED BY <2>1, <2>2
<1>5. ASSUME Running("remove"), ~script'.errors, script'.stage = "rules", NEW c \in snapshot.of
      PROVE  accounts[c] = Cleared
  <2>1. c \in Children /\ script'.todo = {}
    BY <1>1, <1>2, <1>5 DEF TypeOK
  <2> QED BY <1>4, <1>5, <2>1
<1> QED BY <1>2, <1>3, <1>4, <1>5 DEF ClearedSoFar, At, Running

\* What a removal has cleared stays cleared.
LEMMA ClearedStep ==
  ASSUME Typed, Alone, Held, ClearedSoFar, [Next]_vars
  PROVE  ClearedSoFar'
<1>1. TypeOK /\ ScriptTyped /\ Placed
  BY DEF Typed, TypeOK, ScriptTyped
<1>2. CASE UNCHANGED vars
  BY <1>2 DEF vars, ClearedSoFar, At, Running, Child
<1>3. CASE Environment
  <2>1. UNCHANGED <<script, snapshot>>
    BY <1>3 DEF Environment, Activate, Serve, Dies, Choose
  <2>2. ~(Running("remove") /\ script.stage \in {"write", "rules", "verdict", "erase"})
    BY <1>3 DEF Environment, Activate, Serve, Dies, Choose, Alone, At, Admitted
  <2>3. At("erase") => Running("remove")
    BY <1>1 DEF Placed, At, Running, AbortStages, ConfigurationStages
  <2> QED BY <2>1, <2>2, <2>3 DEF ClearedSoFar, At, Running
<1>4. CASE Writes
  BY <1>4, ClearedWrites
<1>5. CASE Check
  BY <1>5, ClearedCheck
<1>6. CASE Proceeds
  <2>1. script'.stage \notin {"write", "rules", "verdict", "erase"}
    BY <1>6, ProceedsTyped DEF Proceeds, Running
  <2> QED BY <2>1 DEF ClearedSoFar, At
<1>7. CASE Ends
  <2>1. script'.stage = "idle"
    BY <1>7 DEF Ends, Start, Unpack, Forget, Reboot, NoScript
  <2> QED BY <2>1 DEF ClearedSoFar, At
<1>8. CASE Stop
  <2>1. script'.stage \notin {"write", "rules", "verdict", "erase"}
    <3>1. script.name \in {"remove", "configure", "unpack"}
      BY <1>1, <1>8 DEF Stop, Placed, AbortStages, At, Running
    <3> QED BY <1>1, <1>8, <3>1, StopTyped DEF Running
  <2> QED BY <2>1 DEF ClearedSoFar, At
<1>9. CASE Capture
  <2>1. \/ script'.stage = "restore"
        \/ /\ script'.todo = snapshot'.of /\ script'.write = 1
           /\ script'.stage = IF script'.todo = {} THEN "rules" ELSE "write"
    BY <1>1, <1>9, CaptureTyped
  <2> QED BY <2>1 DEF ClearedSoFar, At
<1>10. CASE Restore \/ Migrate \/ Erase \/ Retry \/ Ask \/ ScriptFails
  <2>1. (script'.name # "remove" /\ script'.stage # "erase") \/ script'.stage = "mask"
    <3>1. Restore => script'.name # "remove" /\ script'.stage # "erase"
      BY <1>1, RestoreTyped
    <3>2. Migrate => script'.name # "remove" /\ script'.stage # "erase"
      BY <1>1, MigrateTyped
    <3>3. Erase => script'.name # "remove" /\ script'.stage # "erase"
      BY PlanStart DEF Erase, Fresh
    <3>4. ScriptFails => script'.name # "remove" /\ script'.stage # "erase"
      BY FailTyped DEF ScriptFails
    <3> QED BY <1>10, <3>1, <3>2, <3>3, <3>4, Begins
  <2> QED BY <2>1 DEF ClearedSoFar, At, Running
<1>11. CASE ChangeRules
  <2>1. script.stage = "rules" /\ UNCHANGED <<accounts, snapshot>>
    BY <1>11 DEF ChangeRules, At
  <2> QED BY <1>1, <1>11, <2>1, RulesTyped DEF ClearedSoFar, At, Running
<1>12. CASE Verdict
  <2>1. script.stage = "verdict" /\ UNCHANGED <<accounts, rules>>
    BY <1>12 DEF Verdict, At
  <2>2. CASE Running("remove") /\ ~script.errors
    <3>1. snapshot' = snapshot
      BY <1>12, <2>2 DEF Verdict
    <3>2. script'.name = "remove" /\ script'.stage = "erase" /\ ~script'.errors
      BY <1>1, <1>12, <2>2, VerdictTyped DEF Running
    <3> QED BY <2>1, <2>2, <3>1, <3>2 DEF ClearedSoFar, At, Running
  <2>3. CASE ~(Running("remove") /\ ~script.errors)
    <3>1. script'.name # "remove" /\ script'.stage # "erase"
      BY <1>1, <1>12, <2>3, VerdictTyped, FailTyped DEF Running
    <3> QED BY <3>1 DEF ClearedSoFar, At, Running
  <2> QED BY <2>2, <2>3
<1> QED BY <1>2, <1>3, <1>4, <1>5, <1>6, <1>7, <1>8, <1>9, <1>10, <1>11, <1>12, Steps

\* Whoever erases the payload has cleared every managed child, and the rules.
THEOREM ErasureIsClean == Spec => ErasesOnlyCleared
<1> DEFINE Inv == Typed /\ Alone /\ Migrated /\ Held /\ ClearedSoFar
<1>1. Init => Inv
  <2>1. Init => Alone /\ Held /\ ClearedSoFar
    BY DEF Init, Alone, Held, ClearedSoFar, Running, At, NoScript, NoSnapshot
  <2>2. Init => Migrated
    BY DEF Init, Migrated, Running, NoScript
  <2> QED BY <2>1, <2>2, TypedInit
<1>2. Inv /\ [Next]_vars => Inv'
  BY TypedStep, AloneStep, MigratedStep, HeldStep, ClearedStep
<1>3. ASSUME Inv, [Next]_vars, At("erase"), package' = "erased"
      PROVE  /\ rules = {}
             /\ \A c \in Managed : accounts[c] = Cleared \/ (exposed /\ c \notin snapshot.of)
  <2>1. Running("remove") /\ snapshot.taken /\ ~script.errors
    BY <1>3
       DEF Typed, Placed, At, Running, AbortStages, ConfigurationStages, Held, ClearedSoFar
  <2>2. rules = {} /\ \A c \in snapshot.of : accounts[c] = Cleared
    BY <1>3, <2>1 DEF ClearedSoFar, At
  <2>3. ~exposed => Managed \subseteq snapshot.of
    BY <1>3, <2>1 DEF Held
  <2> QED BY <2>2, <2>3
<1>4. Inv /\ [Next]_vars
        => [At("erase") /\ package' = "erased"
              => /\ rules = {}
                 /\ \A c \in Managed :
                      accounts[c] = Cleared \/ (exposed /\ c \notin snapshot.of)]_vars
  BY <1>3
<1> QED BY <1>1, <1>2, <1>4, PTL DEF Spec, ErasesOnlyCleared

-----------------------------------------------------------------------------
(* A restore brings back what was chosen. *)

\* No step forgets what was chosen last.
LEMMA RememberedStep ==
  ASSUME Typed, Held, Remembered, RestoredSoFar, Migrated, [Next]_vars
  PROVE  Remembered'
<1>1. TypeOK /\ ScriptTyped /\ Placed
  BY DEF Typed, TypeOK, ScriptTyped
<1>2. CASE \E d \in Children : Choose(d)
  <2>1. PICK d \in Children : Choose(d)
    BY <1>2
  <2>2. PICK choice \in Policies :
          /\ accounts' = [accounts EXCEPT ![d] = choice]
          /\ control' = [control EXCEPT ![d] = IF choice.shell THEN "on" ELSE "off"]
          /\ chosen' = [chosen EXCEPT ![d] = choice]
    BY <2>1 DEF Choose
  <2>3. /\ rechosen' = IF snapshot.taken THEN rechosen \cup {d} ELSE rechosen
        /\ snapshot' = snapshot
    BY <2>1 DEF Choose
  <2>4. choice \in [Fields -> BOOLEAN]
    BY LifecycleAssumption DEF Settings
  <2>5. Managed' = Managed \cup {d}
    BY <1>1, <2>2 DEF Managed, TypeOK
  <2>6. ASSUME NEW c \in Children, c # d
        PROVE  /\ accounts'[c] = accounts[c] /\ control'[c] = control[c]
               /\ chosen'[c] = chosen[c]
    BY <1>1, <2>2, <2>6 DEF TypeOK
  <2>7. accounts'[d] = choice /\ chosen'[d] = choice /\ (control'[d] = "on" <=> choice.shell)
    BY <1>1, <2>2 DEF TypeOK
  <2>8. CASE ~snapshot.taken
    <3>1. ASSUME NEW c \in Managed'
          PROVE  Enforced(c)' = chosen'[c]
      <4>1. CASE c = d
        <5>1. Enforced(c)' = [choice EXCEPT !["shell"] = choice["shell"]]
          <6>1. choice["shell"] \in BOOLEAN
            BY <2>4 DEF Fields
          <6>2. (control'[d] = "on") = choice["shell"]
            BY <2>7, <6>1
          <6>3. Enforced(c)' = [accounts'[c] EXCEPT !["shell"] = (control'[c] = "on")]
            BY DEF Enforced
          <6> QED BY <2>7, <4>1, <6>2, <6>3
        <5>2. [choice EXCEPT !["shell"] = choice["shell"]] = choice
          BY <2>4
        <5> QED BY <2>7, <4>1, <5>1, <5>2
      <4>2. CASE c # d
        <5>1. c \in Managed /\ c \in Children
          BY <2>5, <3>1, <4>2 DEF Managed
        <5>2. Enforced(c)' = Enforced(c)
          BY <2>6, <4>2, <5>1 DEF Enforced
        <5> QED BY <2>6, <2>8, <4>2, <5>1, <5>2 DEF Remembered
      <4> QED BY <4>1, <4>2
    <3> QED BY <2>3, <2>8, <3>1 DEF Remembered
  <2>9. CASE snapshot.taken
    <3>1. Managed' \ snapshot'.of \subseteq rechosen'
      BY <2>3, <2>5, <2>9 DEF Remembered
    <3>2. ASSUME NEW c \in snapshot'.of \ rechosen'
          PROVE  snapshot'.state[c] = chosen'[c] /\ (chosen'[c].shell <=> control'[c] = "on")
      <4>1. c # d /\ c \in snapshot.of \ rechosen /\ c \in Children
        BY <1>1, <2>3, <2>9, <3>2 DEF TypeOK
      <4> QED BY <2>3, <2>6, <2>9, <4>1 DEF Remembered
    <3> QED BY <2>3, <2>9, <3>1, <3>2 DEF Remembered
  <2> QED BY <2>8, <2>9
<1>3. CASE Serve
  <2>1. /\ UNCHANGED <<control, snapshot, chosen, rechosen>>
        /\ accounts' = [c \in Children |->
             IF control[c] = "on" /\ c \notin outdated THEN [accounts[c] EXCEPT !.shell = TRUE]
             ELSE accounts[c]]
    BY <1>3 DEF Serve, records, history
  <2>2. ASSUME NEW c \in Children
        PROVE  Enforced(c)' = Enforced(c)
    <3>1. accounts[c] \in [Fields -> BOOLEAN]
      BY <1>1 DEF TypeOK, Settings
    <3>2. CASE accounts'[c] = accounts[c]
      BY <2>1, <3>2 DEF Enforced
    <3>3. CASE accounts'[c] = [accounts[c] EXCEPT !["shell"] = TRUE]
      <4>1. ASSUME NEW on
            PROVE  [[accounts[c] EXCEPT !["shell"] = TRUE] EXCEPT !["shell"] = on]
                     = [accounts[c] EXCEPT !["shell"] = on]
        BY <3>1
      <4> QED BY <2>1, <3>3, <4>1 DEF Enforced
    <3> QED BY <2>1, <3>2, <3>3
  <2> QED BY <2>1, <2>2 DEF Remembered, Managed
<1>4. CASE Capture
  <2>1. UNCHANGED <<accounts, control, chosen, rechosen>>
    BY <1>4 DEF Capture, records, history
  <2>2. CASE snapshot' = snapshot
    BY <2>1, <2>2 DEF Remembered, Managed, Enforced
  <2>3. CASE snapshot' = Captured /\ ~snapshot.taken
    <3>1. /\ snapshot'.taken /\ snapshot'.of = Managed
          /\ \A c \in Managed : snapshot'.state[c] = Enforced(c)
      BY <2>3 DEF Captured, Managed
    <3>2. ASSUME NEW c \in Managed
          PROVE  Enforced(c) = chosen[c] /\ (chosen[c].shell <=> control[c] = "on")
      <4>1. Enforced(c) = chosen[c]
        BY <2>3, <3>2 DEF Remembered
      <4>2. accounts[c] \in [Fields -> BOOLEAN] /\ "shell" \in Fields
        BY <1>1, <3>2 DEF TypeOK, Settings, Managed, Fields
      <4>3. Enforced(c)["shell"] = (control[c] = "on")
        BY <4>2 DEF Enforced
      <4> QED BY <4>1, <4>3
    <3> QED BY <2>1, <3>1, <3>2 DEF Remembered, Managed
  <2> QED BY <1>1, <1>4, <2>2, <2>3, CaptureTyped
<1>5. CASE Forget
  <2>1. /\ UNCHANGED <<accounts, control>> /\ ~snapshot'.taken
        /\ chosen' = [c \in Children |-> Enforced(c)]
    BY <1>5 DEF Forget, NoSnapshot, records
  <2> QED BY <2>1 DEF Remembered, Managed, Enforced
<1>6. CASE Verdict
  <2>1. UNCHANGED <<accounts, control>> /\ At("verdict")
    BY <1>6 DEF Verdict, records
  <2>2. CASE UNCHANGED <<snapshot, chosen, rechosen>>
    BY <2>1, <2>2 DEF Remembered, Managed, Enforced
  <2>3. CASE ~script.errors /\ ~Running("remove")
    <3>1. /\ ~snapshot'.taken
          /\ chosen' = [c \in Children |-> IF c \in rechosen THEN Enforced(c) ELSE chosen[c]]
      BY <1>6, <2>3 DEF Verdict, NoSnapshot
    <3>2. snapshot.taken
      BY <2>1 DEF Held, At
    <3>3. ASSUME NEW c \in Managed, c \notin rechosen
          PROVE  Enforced(c) = chosen[c]
      <4>1. c \in snapshot.of \ rechosen /\ c \in Children
        BY <3>2, <3>3 DEF Remembered, Managed
      <4>2. accounts[c] = chosen[c] /\ (chosen[c].shell <=> control[c] = "on")
        BY <2>1, <2>3, <3>2, <4>1 DEF RestoredSoFar, Remembered, At
      <4>3. chosen[c] \in [Fields -> BOOLEAN] /\ "shell" \in Fields
        BY <1>1, <4>1 DEF TypeOK, Settings, Fields
      <4>4. Enforced(c) = [chosen[c] EXCEPT !["shell"] = chosen[c]["shell"]]
        BY <4>2, <4>3 DEF Enforced
      <4> QED BY <4>3, <4>4
    <3>4. Managed' = Managed /\ \A c \in Children : Enforced(c)' = Enforced(c)
      BY <2>1 DEF Managed, Enforced
    <3> QED BY <3>1, <3>3, <3>4 DEF Remembered, Managed
  <2> QED BY <1>6, <2>2, <2>3 DEF Verdict
<1>7. CASE ~(Capture \/ Verdict \/ Forget \/ Serve \/ \E d \in Children : Choose(d))
  <2>1. UNCHANGED <<control, chosen, rechosen, snapshot>>
    BY <1>7, Changes
  <2>2. UNCHANGED accounts \/ Writes
    BY <1>7, Changes DEF Writes
  <2>3. Writes => snapshot.taken
    BY DEF Writes, WriteOne, WriteFails, WriteLost, Writing, Held, At
  <2> QED BY <2>1, <2>2, <2>3 DEF Remembered, Managed, Enforced
<1> QED BY <1>2, <1>3, <1>4, <1>5, <1>6, <1>7

\* The broker turns on no extension that was not chosen.
LEMMA RestoredEnvironment ==
  ASSUME Typed, Held, Remembered, RestoredSoFar, Environment
  PROVE  RestoredSoFar'
<1>1. TypeOK
  BY DEF Typed
<1>2. UNCHANGED <<script, snapshot>>
  BY DEF Environment, Activate, Serve, Dies, Choose
<1>3. SUFFICES ASSUME script.stage \in {"write", "rules", "verdict"},
                      NEW c \in snapshot.of \ rechosen'
               PROVE  /\ c \in snapshot.of \ rechosen
                      /\ accounts[c] = chosen[c] => accounts'[c] = chosen'[c]
                      /\ accounts[c].shell = chosen[c].shell =>
                           accounts'[c].shell = chosen'[c].shell
  BY <1>2 DEF RestoredSoFar, At, Running, Child
<1>4. snapshot.taken /\ c \in Children
  BY <1>1, <1>3 DEF Held, TypeOK
<1>5. CASE \E d \in Children : Choose(d)
  <2>1. PICK d \in Children, choice \in Policies :
          /\ accounts' = [accounts EXCEPT ![d] = choice]
          /\ chosen' = [chosen EXCEPT ![d] = choice]
          /\ rechosen' = IF snapshot.taken THEN rechosen \cup {d} ELSE rechosen
    BY <1>5 DEF Choose
  <2>2. c # d /\ c \notin rechosen
    BY <1>3, <1>4, <2>1
  <2>3. accounts'[c] = accounts[c] /\ chosen'[c] = chosen[c]
    BY <1>1, <1>4, <2>1, <2>2 DEF TypeOK
  <2> QED BY <1>3, <2>2, <2>3
<1>6. CASE Serve
  <2>1. UNCHANGED <<chosen, rechosen>>
    BY <1>6 DEF Serve, history
  <2>2. accounts'[c] = IF control[c] = "on" /\ c \notin outdated
                       THEN [accounts[c] EXCEPT !["shell"] = TRUE] ELSE accounts[c]
    BY <1>4, <1>6 DEF Serve
  <2>3. chosen[c].shell <=> control[c] = "on"
    BY <1>3, <1>4, <2>1 DEF Remembered
  <2>4. /\ accounts[c] \in [Fields -> BOOLEAN] /\ chosen[c] \in [Fields -> BOOLEAN]
        /\ "shell" \in Fields
    BY <1>1, <1>4 DEF TypeOK, Settings, Fields
  <2>5. CASE accounts'[c] = accounts[c]
    BY <1>3, <2>1, <2>5
  <2>6. CASE accounts'[c] = [accounts[c] EXCEPT !["shell"] = TRUE] /\ chosen[c]["shell"] = TRUE
    BY <1>3, <2>1, <2>4, <2>6
  <2>7. chosen[c]["shell"] \in BOOLEAN
    BY <2>4
  <2> QED BY <2>2, <2>3, <2>5, <2>6, <2>7
<1>7. CASE Activate \/ Dies
  <2>1. UNCHANGED <<accounts, chosen, rechosen>>
    BY <1>7 DEF Activate, Dies, history
  <2> QED BY <1>3, <2>1
<1> QED BY <1>5, <1>6, <1>7 DEF Environment

\* The extension is the last that a restore writes.
LEMMA RestoredWrites ==
  ASSUME Typed, Held, Remembered, RestoredSoFar, Writes
  PROVE  RestoredSoFar'
<1>1. TypeOK /\ ScriptTyped /\ script.write \in DOMAIN Order /\ script.todo # {}
  BY DEF Typed, TypeOK, ScriptTyped, Writes, WriteOne, WriteFails, WriteLost, Writing
<1>2. At("write") /\ Write # "check"
  BY <1>1, WritesTyped DEF Writes, At
<1>3. /\ snapshot' = snapshot /\ chosen' = chosen /\ rechosen' = rechosen
      /\ script'.name = script.name /\ script'.todo = script.todo /\ script'.stage = "write"
  BY <1>1, WritesTyped DEF Writes, WriteOne, WriteFails, WriteLost, history
<1>4. \A d \in Children : \A field \in Fields :
        Written(Child)[d][field] =
          IF d # Child THEN accounts[d][field]
          ELSE IF Write = "revoke" /\ field = "grant" THEN FALSE
          ELSE IF field = Write THEN Target(Child)[field]
          ELSE accounts[d][field]
  <2>1. TypeOK /\ ScriptTyped /\ At("write") /\ Write # "check"
    BY <1>1, <1>2
  <2> QED BY <2>1, WrittenField, Zenon
<1>5. ASSUME ~Running("remove"), ~script'.errors, NEW c \in snapshot.of \ rechosen
      PROVE  /\ c \notin script.todo => accounts'[c] = chosen[c]
             /\ c = Child /\ script'.write = 7 => accounts'[c].shell = chosen[c].shell
  <2>1. /\ ~script.errors /\ script'.write = script.write + 1
        /\ accounts' \in {accounts, Written(Child)}
        /\ Write = "shell" => accounts' = Written(Child)
    <3>1. ~WriteFails /\ ~script.errors /\ script'.write = script.write + 1
      <4>1. WriteFails => script'.errors
        BY <1>1 DEF WriteFails, ScriptTyped, Scripts
      <4> QED BY <1>1, <1>5, <4>1, WritesTyped DEF Writes
    <3> QED BY <3>1 DEF Writes, WriteOne, WriteLost
  <2>2. Child \in script.todo /\ c \in Children /\ snapshot.taken
    BY <1>1, <1>2, <1>5, ChildTodo DEF TypeOK, Held, At
  <2>3. c \notin script.todo => accounts[c] = chosen[c]
    BY <1>2, <1>5, <2>1 DEF RestoredSoFar
  <2>4. c # Child => Written(Child)[c] = accounts[c]
    BY DEF Written
  <2>5. c \notin script.todo => accounts'[c] = chosen[c]
    BY <2>1, <2>2, <2>3, <2>4
  <2>6. ASSUME c = Child, script'.write = 7
        PROVE  accounts'[c].shell = chosen[c].shell
    <3>1. Write = "shell" /\ "shell" \in Fields
      BY <1>1, <1>5, <2>1, <2>6, Orders DEF Write, Fields
    <3>2. Written(Child)[c]["shell"] = Target(c)["shell"]
      BY <1>4, <2>2, <2>6, <3>1
    <3>3. Target(c) = chosen[c]
      BY <1>5, <2>2 DEF Target, Remembered
    <3> QED BY <2>1, <3>1, <3>2, <3>3
  <2> QED BY <2>5, <2>6
<1>6. Child' = Child
  BY <1>3 DEF Child
<1> QED BY <1>3, <1>5, <1>6 DEF RestoredSoFar, At, Running

LEMMA RestoredCheck ==
  ASSUME Typed, Held, Remembered, RestoredSoFar, Check
  PROVE  RestoredSoFar'
<1>1. TypeOK /\ ScriptTyped /\ At("write") /\ Write = "check" /\ script.todo # {}
  BY DEF Typed, TypeOK, ScriptTyped, Check
<1>2. /\ script'.name = script.name /\ script'.todo = script.todo \ {Child}
      /\ script'.write = 1
      /\ script'.stage = IF script'.todo = {} THEN "rules" ELSE "write"
      /\ ~script'.errors => ~script.errors /\ Verified(Child)
  BY <1>1, CheckTyped
<1>3. UNCHANGED <<accounts, snapshot, chosen, rechosen>> /\ snapshot.taken
  BY <1>1 DEF Check, history, Held, At
<1>4. ASSUME ~Running("remove"), ~script'.errors, NEW c \in snapshot.of \ rechosen,
             c \notin script'.todo
      PROVE  accounts[c] = chosen[c]
  <2>1. CASE c # Child
    BY <1>1, <1>2, <1>4, <2>1 DEF RestoredSoFar
  <2>2. CASE c = Child
    <3>1. script.write = 7
      BY <1>1, <1>4, Orders DEF Write, ScriptTyped
    <3>2. accounts[c].shell = chosen[c].shell
      BY <1>1, <1>2, <1>4, <2>2, <3>1 DEF RestoredSoFar
    <3>3. Target(c) = chosen[c]
      BY <1>3, <1>4 DEF Target, Remembered
    <3>4. \A field \in Fields \ {"shell"} : accounts[c][field] = chosen[c][field]
      BY <1>2, <1>4, <2>2, <3>3 DEF Verified
    <3>5. accounts[c] \in [Fields -> BOOLEAN] /\ chosen[c] \in [Fields -> BOOLEAN]
      BY <1>1, <1>4 DEF TypeOK, Settings
    <3>6. \A field \in Fields : accounts[c][field] = chosen[c][field]
      BY <3>2, <3>4
    <3> QED BY <3>5, <3>6
  <2> QED BY <2>1, <2>2
<1> QED BY <1>2, <1>3, <1>4 DEF RestoredSoFar, At, Running

\* What a restore has brought back stays as chosen.
LEMMA RestoredStep ==
  ASSUME Typed, Held, Remembered, RestoredSoFar, [Next]_vars
  PROVE  RestoredSoFar'
<1>1. TypeOK /\ ScriptTyped /\ Placed
  BY DEF Typed, TypeOK, ScriptTyped
<1>2. CASE UNCHANGED vars
  BY <1>2 DEF vars, RestoredSoFar, At, Running, Child
<1>3. CASE Environment
  BY <1>3, RestoredEnvironment
<1>4. CASE Writes
  BY <1>4, RestoredWrites
<1>5. CASE Check
  BY <1>5, RestoredCheck
<1>6. CASE Restore
  <2>1. UNCHANGED <<snapshot, rechosen>>
    BY <1>6 DEF Restore, history
  <2>2. \/ script'.stage \in {"release", "open"}
        \/ /\ script'.todo = snapshot.of /\ script'.write = 1
           /\ script'.stage = IF script'.todo = {} THEN "rules" ELSE "write"
    BY <1>1, <1>6, RestoreTyped
  <2> QED BY <2>1, <2>2 DEF RestoredSoFar, At
<1>7. CASE ChangeRules
  <2>1. script.stage = "rules" /\ UNCHANGED <<accounts, snapshot, chosen, rechosen>>
    BY <1>7 DEF ChangeRules, At, history
  <2>2. /\ script'.name = script.name /\ script'.stage = "verdict"
        /\ ~script'.errors => ~script.errors
    BY <1>1, <1>7, RulesTyped
  <2> QED BY <2>1, <2>2 DEF RestoredSoFar, At, Running
<1>8. CASE Proceeds \/ Ends \/ Stop \/ Capture \/ Verdict \/ Migrate \/ Erase \/ Retry \/ Ask
           \/ ScriptFails
  <2>1. script'.name = "remove" \/ script'.stage \notin {"write", "rules", "verdict"}
    <3>1. Proceeds => script'.stage \notin {"write", "rules", "verdict"}
      BY ProceedsTyped DEF Proceeds, Running
    <3>2. Ends => script'.stage = "idle"
      BY DEF Ends, Start, Unpack, Forget, Reboot, NoScript
    <3>3. Stop => script'.stage \notin {"write", "rules", "verdict"}
      <4>1. Stop => script.name \in {"remove", "configure", "unpack"}
        BY <1>1 DEF Stop, Placed, AbortStages, At, Running
      <4> QED BY <1>1, <4>1, StopTyped DEF Running
    <3>4. Capture => script'.name = "remove" \/ script'.stage = "restore"
      BY <1>1, CaptureTyped
    <3>5. Verdict => script'.stage \notin {"write", "rules", "verdict"}
      BY <1>1, VerdictTyped, FailTyped
    <3>6. Migrate => script'.stage \notin {"write", "rules", "verdict"}
      BY <1>1, MigrateTyped
    <3>7. Erase => script'.stage = "clean"
      BY PlanStart DEF Erase, Fresh
    <3>8. Retry \/ Ask => script'.stage \notin {"write", "rules", "verdict"}
      BY Begins
    <3>9. ScriptFails => script'.stage \notin {"write", "rules", "verdict"}
      BY FailTyped DEF ScriptFails
    <3> QED BY <1>8, <3>1, <3>2, <3>3, <3>4, <3>5, <3>6, <3>7, <3>8, <3>9
  <2> QED BY <2>1 DEF RestoredSoFar, At, Running
<1> QED BY <1>2, <1>3, <1>4, <1>5, <1>6, <1>7, <1>8, Steps

\* A restore that gives its snapshot up has brought back what was chosen last.
THEOREM RestoreIsExact == Spec => RestoreBringsBack
<1> DEFINE Inv == Typed /\ Alone /\ Migrated /\ Held /\ Remembered /\ RestoredSoFar
<1>1. Init => Inv
  <2>1. Init => Alone /\ Held /\ RestoredSoFar
    BY DEF Init, Alone, Held, RestoredSoFar, Running, At, NoScript, NoSnapshot
  <2>2. Init => Migrated
    BY DEF Init, Migrated, Running, NoScript
  <2>3. Init => Remembered
    <3> SUFFICES ASSUME Init PROVE Remembered
      OBVIOUS
    <3>1. ~snapshot.taken /\ chosen = accounts
      BY DEF Init, NoSnapshot
    <3>2. ASSUME NEW c \in Managed
          PROVE  Enforced(c) = accounts[c]
      <4>1. c \in Children /\ accounts[c] \in [Fields -> BOOLEAN] /\ "shell" \in Fields
        BY <3>2, LifecycleAssumption DEF Init, Managed, Settings, Fields
      <4>2. accounts[c]["shell"] = (control[c] = "on")
        BY <4>1 DEF Init
      <4>3. Enforced(c) = [accounts[c] EXCEPT !["shell"] = accounts[c]["shell"]]
        BY <4>2 DEF Enforced
      <4> QED BY <4>1, <4>3
    <3> QED BY <3>1, <3>2 DEF Remembered
  <2> QED BY <2>1, <2>2, <2>3, TypedInit
<1>2. Inv /\ [Next]_vars => Inv'
  BY TypedStep, AloneStep, MigratedStep, HeldStep, RememberedStep, RestoredStep
<1>3. ASSUME Inv, [Next]_vars, snapshot.taken, ~snapshot'.taken, Payload, NEW c \in snapshot.of
      PROVE  c \in rechosen \/ accounts'[c] = chosen[c]
  <2>1. TypeOK /\ ScriptTyped /\ Placed
    BY <1>3 DEF Typed, TypeOK, ScriptTyped
  <2>2. ~Forget
    BY <1>3, <2>1
       DEF Forget, Migrated, Placed, At, Running, RemovalStages, AbortStages, ConfigurationStages
  <2>3. ~Capture
    <3>1. Capture => snapshot'.taken
      BY <1>3, <2>1, CaptureTyped
    <3> QED BY <1>3, <3>1
  <2>4. Verdict
    BY <1>3, <2>2, <2>3, Changes
  <2>5. ~Running("remove") /\ ~script.errors /\ At("verdict") /\ accounts' = accounts
    BY <1>3, <2>4 DEF Verdict
  <2> QED BY <1>3, <2>5 DEF RestoredSoFar, At
<1>4. Inv /\ [Next]_vars
        => [snapshot.taken /\ ~snapshot'.taken /\ Payload
              => \A c \in snapshot.of : c \in rechosen \/ accounts'[c] = chosen[c]]_vars
  BY <1>3
<1> QED BY <1>1, <1>2, <1>4, PTL DEF Spec, RestoreBringsBack

=============================================================================
