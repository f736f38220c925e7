-------------------------- MODULE PackageLifecycle --------------------------
(***************************************************************************)
(* Installing, upgrading, configuring and removing the package while       *)
(* children are managed: the maintainer scripts (packaging/lifecycle), the *)
(* cleaner that takes every managed child's enforcement away and brings it *)
(* back (uninstall.py), and the rewriting of preference records to a new   *)
(* schema (data_migration.py).                                             *)
(*                                                                         *)
(* A removal masks and stops the broker, captures what it enforces in a    *)
(* snapshot, and clears it.  If the removal is refused the package manager *)
(* calls abort-remove, which restores the snapshot; a later configuration  *)
(* restores it too.  An upgrade keeps the broker out with a marker until   *)
(* the records are migrated.  Any step can fail, any client can activate   *)
(* the broker when nothing excludes it, and the machine can go down        *)
(* between any two steps: the mask is lost then, the files are not.        *)
(***************************************************************************)
EXTENDS Integers, Sequences, FiniteSetsExt

CONSTANTS
  Children,   \* the uids of the children
  Policies,   \* what a parent's choices make of a child's settings
  MaxMoves    \* BOUND: choices of the parent, runs of a script that no failure
              \* asked for, failures, reboots and deaths of the broker

Fields == {"shell", "daily", "limit", "grant", "filter"}

\* Whether each is set: the child extension, the daily limit, the limit type, the
\* active extension of the time, and the application filter.
Settings == [Fields -> BOOLEAN]

Cleared == [field \in Fields |-> FALSE]

ASSUME LifecycleAssumption ==
  /\ Children \subseteq Nat /\ MaxMoves \in Nat
  /\ Policies \subseteq Settings /\ Cleared \in Policies
  /\ \A choice \in Policies : choice.grant => choice.limit

VARIABLES
  accounts,  \* the settings of each child, in AccountsService and its session
  control,   \* the preference records: none, or whether control is on
  outdated,  \* the records a new version has yet to migrate
  rules,     \* the children whose filters the execution policy enforces
  broker,    \* whether it is off, starting or serving
  mask,      \* the unit is masked until the next boot
  marker,    \* the file migration-in-progress
  snapshot,  \* the file uninstall-enforcement.json
  package,   \* the package manager's status
  script,    \* the maintainer script that runs
  moves,     \* choices, runs, failures and crashes so far
  chosen,    \* history: the settings the parent's last choice made
  rechosen,  \* history: the children chosen for since the snapshot was captured
  exposed    \* history: a broker was let in over an outstanding snapshot

vars == <<accounts, control, outdated, rules, broker, mask, marker, snapshot, package,
          script, moves, chosen, rechosen, exposed>>

history == <<chosen, rechosen, exposed>>
records == <<control, outdated>>

-----------------------------------------------------------------------------
(* The scripts. *)

\* Mask before stop: a stopped broker can be activated again, a masked one cannot.
RemovalStopsFirst ==
  <<"stop", "mask", "capture", "write", "rules", "verdict", "erase">>
Removal == <<"mask", "stop", "capture", "write", "rules", "verdict", "erase">>

\* The marker goes last: until then nobody starts the broker.
ConfigurationOpensEarly ==
  <<"marker", "stop", "open", "migrate", "release", "restore", "write", "rules",
    "verdict", "start">>
Configuration ==
  <<"marker", "stop", "migrate", "release", "restore", "write", "rules", "verdict",
    "open", "start">>

Plan(name) ==
  CASE name = "remove"    -> Removal
    [] name = "abort"     -> <<"restore", "write", "rules", "verdict", "release", "start">>
    [] name = "configure" -> Configuration
    [] name = "unpack"    -> <<"marker", "stop", "unpack">>
    [] name = "erased"    -> <<"clean", "release", "forget">>

Names == {"remove", "abort", "configure", "unpack", "erased"}

Stages ==
  {"idle"} \cup UNION {{Plan(name)[i] : i \in DOMAIN Plan(name)} : name \in Names}

\* todo: the children still to be written to, or the records still to be read.
Scripts ==
  [name : Names \cup {"none"}, stage : Stages, todo : SUBSET Children, write : 1..7,
   errors : BOOLEAN]

NoScript == [name |-> "none", stage |-> "idle", todo |-> {}, write |-> 1, errors |-> FALSE]

Run(name) == [NoScript EXCEPT !.name = name, !.stage = Plan(name)[1]]

Running(name) == script.name = name
At(stage) == script.stage = stage

After(stage) ==
  LET plan == Plan(script.name)
  IN  plan[1 + CHOOSE i \in DOMAIN plan : plan[i] = stage]

Goto(stage) == script' = [script EXCEPT !.stage = stage]
Proceed == Goto(After(script.stage))

\* The children, or their records, are taken in the order of their uids.
Work(stage, todo) ==
  script' = [script EXCEPT !.stage = IF todo = {} THEN After(stage) ELSE stage,
                           !.todo = todo, !.write = 1]

Child == Min(script.todo)

Move == moves < MaxMoves /\ moves' = moves + 1

\* A script that fails: the manager answers a refused removal with abort-remove.
Fail ==
  /\ script' = IF Running("remove") THEN Run("abort") ELSE NoScript
  /\ package' = IF script.name \in {"abort", "configure"} THEN "failed" ELSE package

-----------------------------------------------------------------------------
(* The broker, and who may let it in. *)

Payload == package \in {"installed", "failed", "unpacked"}

Admitted == Payload /\ ~mask /\ ~marker

\* A start is under way; its checks of the mask and the marker are over.
LetIn ==
  /\ broker' = "starting"
  /\ exposed' = (exposed \/ snapshot.taken)

\* Any client's call activates the broker.
Activate ==
  /\ broker = "off" /\ Admitted /\ LetIn
  /\ UNCHANGED <<accounts, records, rules, mask, marker, snapshot, package, script, moves,
                 chosen, rechosen>>

Filtered(state) == {c \in Children : state[c].filter}

\* The broker rebuilds the rules and turns the extension on where it belongs.
Serve ==
  /\ broker = "starting" /\ broker' = "serving"
  /\ rules' = Filtered(accounts)
  /\ accounts' = [c \in Children |->
       IF control[c] = "on" /\ c \notin outdated THEN [accounts[c] EXCEPT !.shell = TRUE]
       ELSE accounts[c]]
  /\ UNCHANGED <<records, mask, marker, snapshot, package, script, moves, history>>

Dies ==
  /\ broker # "off" /\ broker' = "off" /\ Move
  /\ UNCHANGED <<accounts, records, rules, mask, marker, snapshot, package, script, history>>

\* What the parent's transactions, alone under their lock, leave of one child.
Choose(c) ==
  /\ broker = "serving" /\ c \notin outdated /\ Move
  /\ \E choice \in Policies :
       /\ accounts' = [accounts EXCEPT ![c] = choice]
       /\ control' = [control EXCEPT ![c] = IF choice.shell THEN "on" ELSE "off"]
       /\ chosen' = [chosen EXCEPT ![c] = choice]
  /\ rules' = Filtered(accounts')
  /\ rechosen' = IF snapshot.taken THEN rechosen \cup {c} ELSE rechosen
  /\ UNCHANGED <<outdated, broker, mask, marker, snapshot, package, script, exposed>>

-----------------------------------------------------------------------------
(* The snapshot. *)

Managed == {c \in Children : control[c] # "none"}

NoSnapshot == [taken |-> FALSE, of |-> {}, state |-> [c \in Children |-> Cleared]]

\* The preference record tells whether the extension belongs to the child.
Enforced(c) == [accounts[c] EXCEPT !.shell = control[c] = "on"]

Captured ==
  [taken |-> TRUE, of |-> Managed,
   state |-> [c \in Children |-> IF c \in Managed THEN Enforced(c) ELSE Cleared]]

\* The snapshot of an earlier attempt is kept: by now the accounts are cleared.
\* A record of an older schema cannot be loaded, so that nothing is captured.
CaptureAgain ==
  /\ Running("remove") /\ At("capture")
  /\ snapshot' = Captured /\ Work("write", Managed)
  /\ UNCHANGED <<accounts, records, rules, broker, mask, marker, package, moves, history>>
Capture ==
  /\ Running("remove") /\ At("capture")
  /\ IF snapshot.taken \/ Managed \cap outdated = {}
     THEN /\ snapshot' = IF snapshot.taken THEN snapshot ELSE Captured
          /\ Work("write", snapshot'.of)
          /\ UNCHANGED package
     ELSE Fail /\ UNCHANGED snapshot
  /\ UNCHANGED <<accounts, records, rules, broker, mask, marker, moves, history>>

\* abort-remove and a configuration restore what an unfinished removal left.
Restore ==
  /\ At("restore")
  /\ IF snapshot.taken THEN Work("write", snapshot.of) ELSE Goto(After("verdict"))
  /\ UNCHANGED <<accounts, records, rules, broker, mask, marker, snapshot, package, moves,
                 history>>

-----------------------------------------------------------------------------
(* The cleaner's writes to one child. *)

\* The grant goes before the limit, and comes back after it.
ClearOrderLimitFirst == <<"shell", "limit", "daily", "revoke", "filter", "check">>
ClearOrder == <<"shell", "revoke", "daily", "limit", "filter", "check">>
RestoreOrder == <<"revoke", "daily", "limit", "grant", "filter", "shell", "check">>

Order == IF Running("remove") THEN ClearOrder ELSE RestoreOrder
Write == Order[script.write]

\* One callback makes the time writes: what follows a failed one is left out.
TimeWrites == {"revoke", "daily", "limit", "grant"}

AfterFailure ==
  Min({i \in DOMAIN Order :
         i > script.write /\ (Write \in TimeWrites => Order[i] \notin TimeWrites)})

Target(c) == IF Running("remove") THEN Cleared ELSE snapshot.state[c]

Written(c) ==
  IF Write = "revoke" THEN [accounts EXCEPT ![c].grant = FALSE]
  ELSE [accounts EXCEPT ![c][Write] = Target(c)[Write]]

Writing == At("write") /\ Write # "check"

\* There is no grant to write, or one that must not be published.
NoGrant == Write = "grant" /\ ~Target(Child).grant
Forbidden == Write = "grant" /\ Target(Child).grant /\ ~Target(Child).limit

\* A restored filter is synchronized at once; a cleared one is not.
WriteOne ==
  /\ Writing /\ ~Forbidden
  /\ accounts' = Written(Child)
  /\ rules' = IF Write = "filter" /\ ~Running("remove") THEN Filtered(accounts') ELSE rules
  /\ script' = [script EXCEPT !.write = @ + 1]
  /\ UNCHANGED <<records, broker, mask, marker, snapshot, package, moves, history>>

\* A write that raises may have been made; so may one whose read-back raises.
WriteFails ==
  /\ Writing /\ ~NoGrant
  /\ IF Forbidden THEN UNCHANGED <<accounts, moves>>
     ELSE Move /\ accounts' \in {accounts, Written(Child)}
  /\ script' = [script EXCEPT !.write = AfterFailure, !.errors = TRUE]
  /\ UNCHANGED <<records, rules, broker, mask, marker, snapshot, package, history>>

\* A write that is acknowledged without effect, and read back only at the end.
WriteLost ==
  /\ Writing /\ Write \in {"daily", "filter", "grant"} /\ ~NoGrant /\ ~Forbidden /\ Move
  /\ script' = [script EXCEPT !.write = @ + 1]
  /\ UNCHANGED <<accounts, records, rules, broker, mask, marker, snapshot, package, history>>

Verified(c) == \A field \in Fields \ {"shell"} : accounts[c][field] = Target(c)[field]

\* Errors are collected over all children: one that fails does not spare the next.
CheckedAlone(c) == ~Verified(c)
Checked(c) == script.errors \/ ~Verified(c)

Check ==
  /\ At("write") /\ Write = "check"
  /\ LET todo == script.todo \ {Child}
     IN  script' = [script EXCEPT !.todo = todo, !.write = 1, !.errors = Checked(Child),
                                  !.stage = IF todo = {} THEN "rules" ELSE @]
  /\ UNCHANGED <<accounts, records, rules, broker, mask, marker, snapshot, package, moves,
                 history>>

\* FapolicydPolicy.remove, which undoes itself if it can, or a synchronization.
ChangeRules ==
  /\ At("rules")
  /\ LET wanted == IF Running("remove") THEN {} ELSE Filtered(accounts)
     IN  \/ rules' = wanted /\ Proceed /\ UNCHANGED moves
         \/ /\ Move /\ rules' \in {rules, wanted}
            /\ script' = [script EXCEPT !.stage = After("rules"), !.errors = TRUE]
  /\ UNCHANGED <<accounts, records, broker, mask, marker, snapshot, package, history>>

\* Only a restore that verified every child gives its snapshot up.
Verdict ==
  /\ At("verdict")
  /\ IF script.errors THEN Fail /\ UNCHANGED <<snapshot, chosen, rechosen>>
     ELSE /\ Proceed /\ UNCHANGED package
          /\ IF Running("remove") THEN UNCHANGED <<snapshot, chosen, rechosen>>
             ELSE /\ snapshot' = NoSnapshot /\ rechosen' = {}
                  /\ chosen' = [c \in Children |-> IF c \in rechosen THEN Enforced(c) ELSE chosen[c]]
  /\ UNCHANGED <<accounts, records, rules, broker, mask, marker, moves, exposed>>

-----------------------------------------------------------------------------
(* The other stages. *)

Mask ==
  /\ At("mask") /\ mask' = TRUE /\ Proceed
  /\ UNCHANGED <<accounts, records, rules, broker, marker, snapshot, package, moves, history>>

RaiseMarker ==
  /\ At("marker") /\ marker' = TRUE /\ Proceed
  /\ UNCHANGED <<accounts, records, rules, broker, mask, snapshot, package, moves, history>>

\* Only a removal stops a broker that is still starting: is-active denies it.
Stop ==
  /\ At("stop")
  /\ broker' = IF Running("remove") \/ broker = "serving" THEN "off" ELSE broker
  /\ script' = [script EXCEPT !.stage = After("stop"),
                              !.todo = IF Running("configure") THEN Managed ELSE {}]
  /\ UNCHANGED <<accounts, records, rules, mask, marker, snapshot, package, moves, history>>

\* migrate_preferences: a record of the current schema is taken as it is.
MigrateOneOnlyOld ==
  IF Child \in outdated
  THEN outdated' = outdated \ {Child} /\ Work("migrate", script.todo \ {Child}) /\ UNCHANGED package
  ELSE Fail /\ UNCHANGED outdated
MigrateOne ==
  /\ outdated' = outdated \ {Child}
  /\ Work("migrate", script.todo \ {Child})
  /\ UNCHANGED package

Migrate ==
  /\ At("migrate")
  /\ IF script.todo = {} THEN Proceed /\ UNCHANGED <<outdated, package>> ELSE MigrateOne
  /\ UNCHANGED <<accounts, control, rules, broker, mask, marker, snapshot, moves, history>>

\* release_removal_guard.
Release ==
  /\ At("release") /\ mask' = FALSE /\ Proceed
  /\ UNCHANGED <<accounts, records, rules, broker, marker, snapshot, package, moves, history>>

Open ==
  /\ At("open") /\ marker' = FALSE /\ Proceed
  /\ UNCHANGED <<accounts, records, rules, broker, mask, snapshot, package, moves, history>>

\* A start under the marker is skipped; with it the script is over.
Start ==
  /\ At("start") /\ script' = NoScript
  /\ package' = IF Running("configure") THEN "installed" ELSE package
  /\ IF broker = "off" /\ Admitted THEN LetIn ELSE UNCHANGED <<broker, exposed>>
  /\ UNCHANGED <<accounts, records, rules, mask, marker, snapshot, moves, chosen, rechosen>>

\* The new payload may bring a new schema of the records.
Unpack ==
  /\ At("unpack") /\ script' = NoScript /\ package' = "unpacked"
  /\ outdated' \in {outdated, Managed}
  /\ UNCHANGED <<accounts, control, rules, broker, mask, marker, snapshot, moves, history>>

\* The manager erases the payload and goes on to postrm.
Erase ==
  /\ At("erase") /\ script' = Run("erased") /\ package' = "erased"
  /\ UNCHANGED <<accounts, records, rules, broker, mask, marker, snapshot, moves, history>>

Clean ==
  /\ At("clean") /\ rules' = {} /\ Proceed
  /\ UNCHANGED <<accounts, records, broker, mask, marker, snapshot, package, moves, history>>

\* After a removal the records are kept, and nothing is left to restore.
Forget ==
  /\ At("forget") /\ script' = NoScript /\ package' = "removed"
  /\ marker' = FALSE /\ snapshot' = NoSnapshot
  /\ chosen' = [c \in Children |-> Enforced(c)] /\ rechosen' = {}
  /\ UNCHANGED <<accounts, records, rules, broker, mask, moves, exposed>>

-----------------------------------------------------------------------------
(* The administrator and the machine. *)

Begin(name) ==
  /\ script = NoScript /\ script' = Run(name)
  /\ UNCHANGED <<accounts, records, rules, broker, mask, marker, snapshot, package, history>>

\* What a failure left unfinished is tried again.
Retry ==
  /\ \/ package \in {"unpacked", "failed"} /\ Begin("configure")
     \/ package = "erased" /\ Begin("erased")
  /\ UNCHANGED moves

Ask ==
  /\ Move
  /\ \/ package \in {"installed", "failed"} /\ Begin("remove")
     \/ package = "installed" /\ Begin("configure")
     \/ Begin("unpack")

ScriptFails ==
  /\ script # NoScript /\ Move /\ Fail
  /\ UNCHANGED <<accounts, records, rules, broker, mask, marker, snapshot, history>>

Reboot ==
  /\ Move
  /\ broker' = "off" /\ mask' = FALSE /\ script' = NoScript
  /\ package' = IF script.name \in {"remove", "abort", "configure"} THEN "failed" ELSE package
  /\ UNCHANGED <<accounts, records, rules, marker, snapshot, history>>

-----------------------------------------------------------------------------

Init ==
  /\ control \in [Children -> {"none", "on"}]
  /\ accounts \in [Children -> Policies]
  /\ \A c \in Children : accounts[c].shell <=> control[c] = "on"
  /\ outdated = {} /\ rules = Filtered(accounts)
  /\ broker = "serving" /\ mask = FALSE /\ marker = FALSE
  /\ snapshot = NoSnapshot /\ package = "installed" /\ script = NoScript /\ moves = 0
  /\ chosen = accounts /\ rechosen = {} /\ exposed = FALSE

ScriptStep ==
  \/ Mask \/ RaiseMarker \/ Stop \/ Capture \/ Restore
  \/ WriteOne \/ WriteFails \/ WriteLost \/ Check \/ ChangeRules \/ Verdict
  \/ Migrate \/ Release \/ Open \/ Start \/ Unpack \/ Erase \/ Clean \/ Forget

Next ==
  \/ Activate \/ Serve \/ Dies \/ \E c \in Children : Choose(c)
  \/ ScriptStep \/ Retry \/ Ask \/ ScriptFails \/ Reboot

\* A script that runs goes on, and somebody finishes what failed.
Spec == Init /\ [][Next]_vars /\ WF_vars(ScriptStep) /\ WF_vars(Retry)

-----------------------------------------------------------------------------
(* Properties. *)

\* Every variable keeps to its domain, and a cleaner's write names a child.
TypeOK ==
  /\ accounts \in [Children -> Settings]
  /\ control \in [Children -> {"none", "on", "off"}]
  /\ outdated \in SUBSET Children /\ rules \in SUBSET Children
  /\ broker \in {"off", "starting", "serving"}
  /\ mask \in BOOLEAN /\ marker \in BOOLEAN
  /\ snapshot \in [taken : BOOLEAN, of : SUBSET Children, state : [Children -> Settings]]
  /\ package \in {"installed", "failed", "unpacked", "erased", "removed"}
  /\ script \in Scripts
  /\ At("write") => script.write \in DOMAIN Order /\ script.todo # {}
  /\ moves \in 0..MaxMoves
  /\ chosen \in [Children -> Settings] /\ rechosen \in SUBSET Children
  /\ exposed \in BOOLEAN

\* "Never publish an active extension with LimitType=0, even briefly or after a
\* failed write": unless a broker was let in over an outstanding snapshot, so
\* that a parent's transactions interleave with the cleaner's writes.
GrantHasLimit == exposed \/ \A c \in Children : accounts[c].grant => accounts[c].limit

\* A restore that ends brings back what the parent chose last, through any number
\* of removals tried again from cleared accounts, failed writes and reboots; only
\* what was chosen while the snapshot was outstanding is lost.
RestoreBringsBack ==
  [][snapshot.taken /\ ~snapshot'.taken /\ Payload
       => \A c \in snapshot.of : c \in rechosen \/ accounts'[c] = chosen[c]]_vars

\* The payload goes only once every managed child is cleared, and no rule is left:
\* nobody could lift a limit that outlives the program.
ErasesOnlyCleared ==
  [][At("erase") /\ package' = "erased"
       => /\ rules = {}
          /\ \A c \in Managed : accounts[c] = Cleared \/ (exposed /\ c \notin snapshot.of)]_vars

\* No broker runs, or is starting, beside a removal from the capture on.
RemovesAlone ==
  Running("remove") /\ script.stage \notin {"mask", "stop"} => broker = "off"

\* No broker is let in while a record of an older schema is left, whatever failed.
StartsMigrated == [][broker = "off" /\ broker' = "starting" => outdated = {}]_vars

\* Whatever fails, retrying ends with the package installed or removed.
Settles == []<>(script = NoScript /\ package \in {"installed", "removed"})

=============================================================================
