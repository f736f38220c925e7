----------------------------- MODULE ParentWindow -----------------------------
(***************************************************************************)
(* The settings window of the parent application (parent/.../main.py,      *)
(* ParentWindow): one child is selected, its preference record is loaded   *)
(* into the controls, edits are written back through a queue of saves, and *)
(* the remaining time is read again after each change of it.               *)
(*                                                                         *)
(* Handlers run one after the other in the GTK main loop; _run makes every *)
(* broker call on a thread of its own and queues its answer, so answers    *)
(* arrive in any order, after any handler and about a child that may no    *)
(* longer be selected.  The window is one record w and a handler is an     *)
(* operator from windows to windows, called by other handlers as in the    *)
(* code.  A call is asked, then answered by the broker from what is stored *)
(* at that moment (done), then delivered, or it fails before or after the  *)
(* broker did it.  This window is the only one that changes the records.   *)
(***************************************************************************)
EXTENDS Naturals, Sequences

CONSTANTS
  Children,       \* managed accounts, numbered in the order they are listed
  NoChild,
  Presets,        \* DAILY_LIMIT_PRESETS
  Typed,          \* other minutes a parent types
  Custom,         \* the choice of a typed limit
  Invalid,        \* a text that is no limit
  Apps,           \* app policies of a child
  Initial,        \* the records when the window opens
  Retries,        \* MAX_TIME_STATUS_RETRIES
  MaxSelections,  \* bound: loads of a child
  MaxEdits,       \* bound: edits
  MaxTroubles     \* bound: failing calls

Limits == Presets \cup Typed
Record == [enabled : BOOLEAN, limit : Limits, apps : Apps]

ASSUME ChildrenAssumption == Children \subseteq Nat /\ NoChild \notin Children
ASSUME ChoicesAssumption ==
  /\ Presets # {} /\ Apps # {}
  /\ Custom \notin Presets /\ Invalid \notin Limits
ASSUME InitialAssumption == Initial \in [Children -> Record]
ASSUME BoundsAssumption ==
  {Retries, MaxSelections, MaxEdits, MaxTroubles} \subseteq Nat

VARIABLES
  w,        \* the window
  record,   \* the broker's preference record of each child
  unsure,   \* ghost: children whose record changed in a save reported failed
  edits,    \* bound: edits so far
  troubles  \* bound: failed calls so far

vars == <<w, record, unsure, edits, troubles>>

NoRecord == [limit |-> NoChild]
NoSave == [kind |-> "none"]

(* of is a ghost: the child whose record the controls showed.               *)
Saves ==
  [kind : {"custom-allowance", "parent-control", "app-policy"},
   uid : Children \cup {NoChild}, enabled : BOOLEAN, limit : Limits, apps : Apps,
   gen : Nat, of : Children \cup {NoChild}]

Calls ==
  [op : {"load", "status", "running", "revoke", "save"},
   uid : Children \cup {NoChild}, gen : Nat, save : Saves \cup {NoSave},
   done : BOOLEAN, prefs : Record \cup {NoRecord}, fresh : BOOLEAN]

Controls ==
  [enabled : BOOLEAN, choice : Presets \cup {Custom},
   entry : Limits \cup {Invalid}, apps : Apps]

Sensitive ==
  [account : BOOLEAN, revoke : BOOLEAN, enabled : BOOLEAN,
   limit : BOOLEAN, custom : BOOLEAN, apps : BOOLEAN]

Window ==
  [open : BOOLEAN, users : SUBSET Children, known : BOOLEAN,
   selected : Children \cup {NoChild}, gen : Nat,
   prefs : Record \cup {NoRecord}, loading : BOOLEAN,
   ctl : Controls, sens : Sensitive, panel : {"blank", "content"},
   shown : Children \cup {NoChild},           \* ghost: whose record the controls show
   active : Saves \cup {NoSave}, saving : BOOLEAN, pending : Seq(Saves),
   restore : Children \cup {NoChild}, debounce : BOOLEAN, focus : BOOLEAN,
   tpending : BOOLEAN, retry : BOOLEAN, retries : 0..Retries,
   ready : BOOLEAN, revocable : BOOLEAN,
   status : {"none", "fresh", "stale"},       \* ghost: the shown time
   dialog : Children \cup {NoChild}, calls : SUBSET Calls,
   of : Nat,                                  \* ghost: the load the dialog is of
   stray : BOOLEAN]                           \* ghost: see Strays

TypeOK ==
  /\ w \in Window
  /\ record \in [Children -> Record]
  /\ unsure \subseteq Children
  /\ edits \in 0..MaxEdits
  /\ troubles \in 0..MaxTroubles

Opened ==
         [open |-> TRUE, users |-> {}, known |-> FALSE,
          selected |-> NoChild, gen |-> 0, prefs |-> NoRecord, loading |-> FALSE,
          ctl |-> [enabled |-> FALSE, choice |-> CHOOSE p \in Presets : TRUE,
                   entry |-> CHOOSE p \in Presets : TRUE,
                   apps |-> CHOOSE a \in Apps : TRUE],
          sens |-> [account |-> TRUE, revoke |-> FALSE, enabled |-> FALSE,
                    limit |-> TRUE, custom |-> TRUE, apps |-> TRUE],
          panel |-> "blank", shown |-> NoChild,
          active |-> NoSave, saving |-> FALSE, pending |-> <<>>,
          restore |-> NoChild, debounce |-> FALSE, focus |-> FALSE,
          tpending |-> FALSE, retry |-> FALSE, retries |-> 0,
          ready |-> FALSE, revocable |-> FALSE, status |-> "none",
          dialog |-> NoChild, calls |-> {}, of |-> 0, stray |-> FALSE]

Init ==
  /\ w = Opened
  /\ record = Initial
  /\ unsure = {} /\ edits = 0 /\ troubles = 0

-----------------------------------------------------------------------------
(* Helpers of the handlers.                                                 *)

Selected(v) == v.selected # NoChild

Outstanding(v, op) == \E c \in v.calls : c.op = op

Ask(v, op, uid, gen, save) ==
  [v EXCEPT !.calls = @ \cup
     {[op |-> op, uid |-> uid, gen |-> gen, save |-> save,
       done |-> FALSE, prefs |-> NoRecord, fresh |-> FALSE]}]

(* _set_apps_sensitive: while a typed limit is being saved the limit        *)
(* controls stay usable, so that typing and choosing can go on.             *)
SetSensitive(v, arg) ==
  LET idle   == ~v.loading /\ ~v.saving
      own    == /\ v.active # NoSave
                /\ v.active.kind = "custom-allowance" /\ v.active.uid = v.selected
      limits == ~v.loading /\ (idle \/ own) /\ Selected(v) /\ v.ctl.enabled
  IN  [v EXCEPT !.sens =
         [account |-> idle,
          revoke  |-> idle /\ Selected(v) /\ v.revocable,
          enabled |-> idle /\ Selected(v),
          limit   |-> limits,
          custom  |-> limits,
          apps    |-> arg /\ idle /\ Selected(v)]]

Reveal(v) ==
  [v EXCEPT !.panel = IF v.prefs # NoRecord /\ v.ready THEN "content" ELSE "blank"]

CancelRetry(v) == [v EXCEPT !.retry = FALSE, !.retries = 0]

(* The same losing a request while a read is under way.                     *)
LoadTimeStatusDrops(v, again) ==
  IF ~Selected(v) \/ Outstanding(v, "status") THEN v
  ELSE Ask(IF again THEN v ELSE CancelRetry(v), "status", v.selected, v.gen, NoSave)

LoadTimeStatus(v, again) ==
  IF ~Selected(v) THEN v
  ELSE IF Outstanding(v, "status") THEN [v EXCEPT !.tpending = TRUE]
  ELSE Ask(IF again THEN v ELSE CancelRetry(v), "status", v.selected, v.gen, NoSave)

LoadPendingTimeStatus(v) ==
  IF v.tpending THEN LoadTimeStatus([v EXCEPT !.tpending = FALSE], FALSE) ELSE v

-----------------------------------------------------------------------------
(* The queue of saves.                                                      *)

StartSave(v, s) ==
  Ask(SetSensitive([v EXCEPT !.saving = TRUE, !.active = s], FALSE),
      "save", s.uid, s.gen, s)

(* The same without a queue.                                                *)
QueueSaveAtOnce(v, s) == StartSave(v, s)

QueueSave(v, s) ==
  IF v.saving THEN [v EXCEPT !.pending = Append(@, s)] ELSE StartSave(v, s)

Minutes(v) ==
  IF v.ctl.choice # Custom THEN v.ctl.choice
  ELSE IF v.ctl.entry # Invalid THEN v.ctl.entry
  ELSE v.prefs.limit

Composed(v, kind) ==
  [kind |-> kind, uid |-> v.selected, enabled |-> v.ctl.enabled,
   limit |-> Minutes(v), apps |-> v.ctl.apps, gen |-> v.gen, of |-> v.shown]

SameWrite(s, t) ==
  s.kind = t.kind /\ s.uid = t.uid /\ s.enabled = t.enabled /\ s.limit = t.limit

(* The same comparing with what is saved only.                              *)
CommittedBySaved(v, s) ==
  /\ v.prefs # NoRecord
  /\ v.prefs.enabled = s.enabled /\ v.prefs.limit = s.limit

(* Enter, focus leave and debounce can commit the same draft: it is         *)
(* compared with the last outstanding save, without one with what is saved. *)
Committed(v, s) ==
  LET last == IF v.pending # <<>> THEN v.pending[Len(v.pending)] ELSE v.active
  IN  IF last # NoSave THEN SameWrite(last, s)
      ELSE /\ v.prefs # NoRecord
           /\ v.prefs.enabled = s.enabled /\ v.prefs.limit = s.limit

SaveParentControl(v) == QueueSave(v, Composed(v, "parent-control"))

SaveCustom(v) ==
  LET s == Composed(v, "custom-allowance")
  IN  IF Committed(v, s) THEN v ELSE QueueSave(v, s)

SaveAppPolicy(v) ==
  IF v.prefs = NoRecord \/ ~Selected(v) THEN v
  ELSE QueueSave(v, Composed(v, "app-policy"))

-----------------------------------------------------------------------------
(* The controls.                                                            *)

EnabledChanged(v) ==
  IF v.loading \/ ~Selected(v) THEN v
  ELSE SaveParentControl([v EXCEPT !.sens.limit = v.ctl.enabled])

(* A switch notifies only a change.                                         *)
SetActive(v, on) ==
  IF v.ctl.enabled = on THEN v ELSE EnabledChanged([v EXCEPT !.ctl.enabled = on])

(* The text of the entry changes with its handler, which restarts the       *)
(* debounce timer unless the window is loading.                             *)
SetEntry(v, text) ==
  IF v.ctl.entry = text THEN v
  ELSE [v EXCEPT !.ctl.entry = text, !.debounce = ~v.loading /\ Selected(v)]

SetLimit(v, limit) ==
  SetEntry([v EXCEPT !.ctl.choice = IF limit \in Presets THEN limit ELSE Custom], limit)

CustomChanged(v) ==
  LET u == [v EXCEPT !.debounce = FALSE]
  IN  IF \/ v.loading \/ ~Selected(v) \/ v.ctl.choice # Custom
         \/ ~v.ctl.enabled \/ v.ctl.entry = Invalid
      THEN u ELSE SaveCustom(u)

-----------------------------------------------------------------------------
(* Loading a child.                                                         *)

LoadSelected(v) ==
  LET u == [v EXCEPT !.panel = "blank", !.prefs = NoRecord, !.loading = TRUE,
                     !.revocable = FALSE, !.ready = FALSE, !.status = "none",
                     !.gen = @ + 1]
  IN  Ask(SetSensitive(u, FALSE), "load", u.selected, u.gen, NoSave)

PreferencesLoaded(v, p) ==
  LET u == SetLimit(SetActive([v EXCEPT !.prefs = p], p.enabled), p.limit)
      t == [u EXCEPT !.ctl.apps = p.apps, !.shown = v.selected, !.loading = FALSE]
  IN  LoadTimeStatus(Reveal(SetSensitive(t, TRUE)), FALSE)

Loaded(v, c) ==
  IF c.gen # v.gen \/ c.uid # v.selected THEN v ELSE PreferencesLoaded(v, c.prefs)

(* What _run does when a call without a failure handler fails: the controls *)
(* show the last record again.                                              *)
Failed(v) ==
  LET u == [v EXCEPT !.loading = TRUE]
      t == IF v.prefs = NoRecord THEN u
           ELSE SetLimit(SetActive(u, v.prefs.enabled), v.prefs.limit)
  IN  SetSensitive([t EXCEPT !.loading = FALSE], v.prefs # NoRecord)

First(us) == CHOOSE c \in us : \A d \in us : c <= d

(* The selection stays while its child is listed.                           *)
UsersLoaded(v, us) ==
  LET u == [v EXCEPT !.users = us, !.known = TRUE]
  IN  IF v.known /\ us = v.users THEN u
      ELSE IF us = {} THEN [u EXCEPT !.selected = NoChild, !.panel = "content"]
      ELSE IF v.selected \in us THEN u
      ELSE LoadSelected([u EXCEPT !.selected = First(us)])

Closed == [Opened EXCEPT !.open = FALSE]

(* Without a first list, or without the right to it, there is only a        *)
(* message that ends the program.  Until it is confirmed the code, unlike   *)
(* the model, still takes answers and starts queued saves, behind a window  *)
(* that can no longer be used.                                              *)
UsersFailed(v, denied) == IF v.known /\ ~denied THEN v ELSE Closed

-----------------------------------------------------------------------------
(* Answers.                                                                 *)

(* The same without reading the time of the current child.                  *)
StatusForOtherIgnored(v) == [v EXCEPT !.tpending = FALSE]

StatusForOther(v) == LoadTimeStatus([v EXCEPT !.tpending = FALSE], FALSE)

(* Every child is taken to have a grant or applications to revoke.          *)
StatusLoaded(v, c) ==
  LET u == CancelRetry(v)
      t == [u EXCEPT !.revocable = TRUE, !.ready = TRUE,
                     !.status = IF c.fresh THEN "fresh" ELSE "stale"]
  IN  IF c.uid # v.selected THEN StatusForOther(u)
      ELSE LoadPendingTimeStatus(Reveal(SetSensitive(t, TRUE)))

StatusFailed(v, c) ==
  IF c.uid # v.selected THEN StatusForOther(v)
  ELSE IF v.tpending THEN LoadPendingTimeStatus(v)
  ELSE IF v.retries < Retries THEN [v EXCEPT !.retries = @ + 1, !.retry = TRUE]
  ELSE Reveal([v EXCEPT !.ready = TRUE, !.status = "none"])

(* _show_revoke_dialog, which fails without preferences.                    *)
RunningListed(v, c) ==
  LET u == SetSensitive([v EXCEPT !.loading = FALSE], TRUE)
  IN  IF c.uid # v.selected THEN u
      ELSE IF v.prefs = NoRecord THEN Failed(u)
      ELSE [u EXCEPT !.dialog = c.uid, !.of = v.gen]

RevokeSucceeded(v, c) ==
  IF c.uid # v.selected THEN v
  ELSE LoadTimeStatus(SetSensitive([v EXCEPT !.loading = FALSE], TRUE), FALSE)

(* The queue is drained before the controls are restored.                   *)
StartNextSave(v) ==
  LET u == [v EXCEPT !.restore = NoChild]
  IN  IF v.pending # <<>> THEN StartSave([v EXCEPT !.pending = Tail(@)], Head(v.pending))
      ELSE IF v.restore # NoChild /\ v.restore = v.selected /\ v.prefs # NoRecord
      THEN PreferencesLoaded([u EXCEPT !.loading = TRUE], v.prefs)
      ELSE u

(* The same without making the controls usable again.                       *)
SaveEndedFrozen(v) == StartNextSave(v)

SaveEnded(v) ==
  LET u == StartNextSave(v) IN IF u.saving THEN u ELSE SetSensitive(u, TRUE)

SaveSucceeded(v, c) ==
  LET u == [v EXCEPT !.saving = FALSE, !.active = NoSave,
                     !.prefs = IF c.uid = v.selected THEN c.prefs ELSE @]
  IN  SaveEnded(IF c.save.kind = "app-policy" THEN u ELSE LoadTimeStatus(u, FALSE))

SaveFailed(v, c) ==
  SaveEnded([v EXCEPT !.saving = FALSE, !.active = NoSave,
                      !.restore = IF c.uid = v.selected THEN c.uid ELSE @])

-----------------------------------------------------------------------------
(* The broker and the main loop.                                            *)

(* Ghost: answers after which the window may mix up two children or two     *)
(* saves, because their handlers act without asking whether the selection   *)
(* they belong to is still the current one.  So does the response to a      *)
(* dialog of an earlier load (RevokeResponse).                              *)
Strays(c, ok) ==
  \/ /\ c.gen # w.gen
     /\ \/ c.op \in {"running", "revoke"}
        \/ c.op = "load" /\ ~ok
        \/ c.op = "save" /\ c.uid = w.selected
  \/ c.op = "load" /\ ~ok /\ (w.debounce \/ w.focus)

Written(s) ==
  IF s.kind = "app-policy"
  THEN [record[s.uid] EXCEPT !.limit = s.limit, !.apps = s.apps]
  ELSE [record[s.uid] EXCEPT !.enabled = s.enabled, !.limit = s.limit]

(* The broker does what was asked.  A change of the time makes every time   *)
(* read before it stale.                                                    *)
Serve(c) ==
  LET reply   == CASE c.op = "load" -> record[c.uid]
                   [] c.op = "save" -> Written(c.save)
                   [] OTHER -> NoRecord
      changes == \/ c.op = "revoke"
                 \/ c.op = "save" /\ reply # [record[c.uid] EXCEPT !.apps = reply.apps]
      others  == {IF changes /\ d.uid = c.uid THEN [d EXCEPT !.fresh = FALSE] ELSE d :
                    d \in w.calls \ {c}}
  IN  /\ ~c.done /\ c.op # "running"
      /\ w' = [w EXCEPT
                 !.calls = others \cup
                   {[c EXCEPT !.done = TRUE, !.prefs = reply, !.fresh = c.op = "status"]},
                 !.status = IF changes /\ c.uid = w.selected /\ @ = "fresh"
                            THEN "stale" ELSE @]
      /\ record' = IF c.op = "save" THEN [record EXCEPT ![c.uid] = reply] ELSE record
      /\ UNCHANGED <<unsure, edits, troubles>>

Taken(c, ok) ==
  [w EXCEPT !.calls = @ \ {c}, !.stray = @ \/ Strays(c, ok)]

Reply(c) ==
  /\ c.done \/ c.op = "running"
  /\ w' = CASE c.op = "load"    -> Loaded(Taken(c, TRUE), c)
            [] c.op = "status"  -> StatusLoaded(Taken(c, TRUE), c)
            [] c.op = "running" -> RunningListed(Taken(c, TRUE), c)
            [] c.op = "revoke"  -> RevokeSucceeded(Taken(c, TRUE), c)
            [] c.op = "save"    -> SaveSucceeded(Taken(c, TRUE), c)
  /\ unsure' = IF c.op = "load" /\ c.gen = w.gen THEN unsure \ {c.uid} ELSE unsure
  /\ UNCHANGED <<record, edits, troubles>>

(* Refused, failed, or the reply was lost (done).  A retry that fails as    *)
(* well belongs to the same trouble.                                        *)
Fail(c) ==
  /\ \/ troubles < MaxTroubles /\ troubles' = troubles + 1
     \/ c.op = "status" /\ w.retries > 0 /\ UNCHANGED troubles
  /\ w' = CASE c.op = "status" -> StatusFailed(Taken(c, FALSE), c)
            [] c.op \in {"save", "revoke"} -> SaveFailed(Taken(c, FALSE), c)
            [] OTHER -> Failed(Taken(c, FALSE))
  /\ unsure' = IF c.op = "save" /\ c.done THEN unsure \cup {c.uid} ELSE unsure
  /\ UNCHANGED <<record, edits>>

Answer(op) == \E c \in w.calls : c.op = op /\ (Serve(c) \/ Reply(c) \/ Fail(c))

Steps(v) == w' = v /\ UNCHANGED <<record, unsure, edits, troubles>>

(* The list of children is read every few seconds, one reading at a time.   *)
UsersAnswer ==
  /\ w.open
  /\ \/ \E us \in SUBSET Children :
          /\ w.gen < MaxSelections \/ w.selected \in us \/ us = {}
          /\ Steps(UsersLoaded(w, us))
     \/ /\ troubles < MaxTroubles
        /\ troubles' = troubles + 1
        /\ \E denied \in BOOLEAN : w' = UsersFailed(w, denied)
        /\ UNCHANGED <<record, unsure, edits>>

RefreshTimeStatus == w.open /\ Steps(LoadTimeStatus(w, FALSE))

RetryTimeStatus ==
  w.retry /\ Steps(LoadTimeStatus([w EXCEPT !.retry = FALSE], TRUE))

Debounced == w.debounce /\ Steps(CustomChanged(w))

(* Timers are removed and later answers dropped: nothing of the window is   *)
(* seen again.                                                              *)
Close == w.open /\ Steps(Closed)

-----------------------------------------------------------------------------
(* The parent.  A modal dialog keeps the window from input, and a control   *)
(* takes the focus from the entry before it is used.                        *)

Usable == w.dialog = NoChild /\ Selected(w)

Edit(v) ==
  /\ edits < MaxEdits
  /\ edits' = edits + 1
  /\ w' = v
  /\ UNCHANGED <<record, unsure, troubles>>

Select(c) ==
  /\ Usable /\ ~w.focus /\ w.sens.account
  /\ w.gen < MaxSelections /\ c \in w.users \ {w.selected}
  /\ Steps(LoadSelected([w EXCEPT !.selected = c]))

ToggleEnabled ==
  /\ Usable /\ ~w.focus /\ w.panel = "content" /\ w.sens.enabled
  /\ Edit(SetActive(w, ~w.ctl.enabled))

ChoosePreset(p) ==
  /\ Usable /\ ~w.focus /\ w.panel = "content" /\ w.sens.limit
  /\ ~w.loading
  /\ Edit(SaveParentControl([w EXCEPT !.ctl.choice = p]))

ChooseCustom ==
  /\ Usable /\ ~w.focus /\ w.panel = "content" /\ w.sens.limit
  /\ ~w.loading
  /\ Edit([w EXCEPT !.ctl.choice = Custom, !.focus = TRUE])

TypeLimit(text) ==
  /\ Usable /\ w.panel = "content" /\ w.sens.custom /\ w.ctl.choice = Custom
  /\ text # w.ctl.entry
  /\ Edit([SetEntry(w, text) EXCEPT !.focus = TRUE])

(* Enter (stays) or focus leave.                                            *)
Commit(stays) ==
  /\ w.focus
  /\ Steps([CustomChanged(w) EXCEPT !.focus = stays])

(* The app list is masked without a record.                                 *)
ChangeApps(a) ==
  /\ Usable /\ ~w.focus /\ w.sens.apps /\ w.prefs # NoRecord
  /\ a # w.ctl.apps
  /\ LET v == [w EXCEPT !.ctl.apps = a]
     IN  Edit(IF w.loading THEN v ELSE SaveAppPolicy(v))

ConfirmRevoke ==
  /\ Usable /\ ~w.focus /\ w.sens.revoke
  /\ ~w.loading /\ ~w.saving
  /\ Edit(Ask(SetSensitive([w EXCEPT !.loading = TRUE], FALSE),
              "running", w.selected, w.gen, NoSave))

RevokeResponse(ok) ==
  /\ w.dialog # NoChild
  /\ LET v == [w EXCEPT !.dialog = NoChild, !.of = 0,
                        !.stray = @ \/ (ok /\ w.of # w.gen)]
     IN  Steps(IF ok /\ w.dialog = w.selected
               THEN Ask(SetSensitive([v EXCEPT !.loading = TRUE], FALSE),
                        "revoke", w.selected, w.gen, NoSave)
               ELSE v)

Parent ==
  \/ \E c \in Children : Select(c)
  \/ ToggleEnabled \/ ChooseCustom
  \/ \E p \in Presets : ChoosePreset(p)
  \/ \E text \in Limits \cup {Invalid} : TypeLimit(text)
  \/ \E b \in BOOLEAN : Commit(b) \/ RevokeResponse(b)
  \/ \E a \in Apps : ChangeApps(a)
  \/ ConfirmRevoke

Next ==
  \/ \E op \in {"load", "status", "running", "revoke", "save"} : Answer(op)
  \/ UsersAnswer
  \/ RefreshTimeStatus \/ RetryTimeStatus \/ Debounced
  \/ Parent \/ Close

(* A call ends by its D-Bus timeout at the latest and its thread hands the  *)
(* answer to a main loop that runs; timers come due.  Nothing else is sure. *)
(* This is WF_vars(Answer(op)) and WF_vars(RetryTimeStatus) with ENABLED    *)
(* written out: a call under way can be answered, a timer can come due.     *)
Answered(op) == \E c \in w.calls : c.op = op /\ c \notin w'.calls

FairAnswers(op) == []<>~Outstanding(w, op) \/ []<><<Answered(op)>>_vars

FairRetry == []<>~w.retry \/ []<><<w.retry /\ ~w'.retry>>_vars

Fairness == FairAnswers("load") /\ FairAnswers("status") /\ FairRetry

Spec == Init /\ [][Next]_vars /\ Fairness

-----------------------------------------------------------------------------
(* Properties.                                                              *)

Saving == {c \in w.calls : c.op = "save"}

(* Saves share one record: at most one is under way and it is the one the   *)
(* queue knows of, so that a later edit is never overtaken by an earlier    *)
(* one (_queue_save, _start_save); and every save, queued or under way,     *)
(* carries what the parent saw of that very child, whatever was selected    *)
(* between the edit, its timer and its turn.                                *)
SavesInOrder ==
  ~w.stray =>
    /\ \A c \in Saving : c.save = w.active /\ \A d \in Saving : d = c
    /\ w.saving <=> Saving # {}
    /\ \A c \in Saving : c.save.of = c.uid
    /\ \A i \in DOMAIN w.pending : w.pending[i].of = w.pending[i].uid

AtRest ==
  /\ Selected(w) /\ w.prefs # NoRecord /\ ~w.stray
  /\ ~w.loading /\ ~w.saving /\ w.pending = <<>>
  /\ ~w.debounce /\ ~w.focus

(* What the parent sees is what is stored.  Once nothing is being loaded,   *)
(* saved or typed, the controls show the record of the selected child as    *)
(* the broker has it, after any sequence of edits, failed saves, restores   *)
(* and selections.  A save whose reply was lost is out of its reach.        *)
ControlsConfirmed ==
  AtRest /\ w.selected \notin unsure
    /\ ~(w.ctl.choice = Custom /\ w.ctl.entry = Invalid) =>
    [enabled |-> w.ctl.enabled, limit |-> Minutes(w), apps |-> w.ctl.apps]
      = record[w.selected]

(* No path leaves the controls frozen (_set_apps_sensitive): when no load,  *)
(* save or revocation is under way and no dialog is open, the window is     *)
(* neither loading nor saving, another child can be selected and the        *)
(* controls of this one are usable, the limit exactly if it is switched on. *)
NeverFrozen ==
  /\ Selected(w) /\ w.dialog = NoChild /\ ~w.stray
  /\ \A c \in w.calls : c.op = "status"
  => /\ ~w.loading /\ ~w.saving
     /\ w.sens.account /\ w.sens.enabled
     /\ w.sens.limit = w.ctl.enabled

(* The remaining time is read again after each change of it: when no read,  *)
(* retry, save or revocation is under way, the time shown was read after    *)
(* the last change the window made, although reads are merged while one is  *)
(* under way, overtake changes and answer for another child.                *)
StatusCurrent ==
  AtRest /\ w.selected \notin unsure
    /\ ~w.retry /\ ~Outstanding(w, "status") /\ ~Outstanding(w, "revoke") => w.status # "stale"

Unloadable ==
  w.prefs = NoRecord /\ \A c \in w.calls : c.op = "load" => c.gen # w.gen

(* A selected child's screen panel appears, with the time or with the word  *)
(* that it is unavailable, once selections and failures end: no answer for  *)
(* an earlier child, refused read, pending retry or periodic refresh keeps  *)
(* it blank (_reveal_screen), unless the record could not be read.          *)
ScreenSettles ==
  []<>(~Selected(w) \/ w.stray \/ w.panel = "content" \/ Unloadable)
=============================================================================
