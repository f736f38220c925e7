-------------------------- MODULE ParentWindowProofs --------------------------
(***************************************************************************)
(* Proofs about ParentWindow, for every set of children, presets and apps  *)
(* and every bound: the type invariant, that saves keep their order and    *)
(* their child (SavesInOrder), that no path leaves the controls frozen     *)
(* (NeverFrozen), that a window at rest shows what is stored               *)
(* (ControlsConfirmed) and no time from before its last change             *)
(* (StatusCurrent).                                                        *)
(*                                                                         *)
(* A handler is an operator from windows to windows that calls others, so  *)
(* each has a lemma of its own: what it keeps of a window (Frame,          *)
(* SameQueue, SameRecord, SameLooks), that it keeps Sound, which holds of  *)
(* every window, and under which conditions it establishes Order, which    *)
(* holds until answers are mixed up (stray).  A handler may meet a window  *)
(* in the middle of another one, where only parts of Order hold: Between   *)
(* two saves, Free of the call it was loading for.                         *)
(*                                                                         *)
(* The second half does the same for Good, which relates the controls,     *)
(* the queue of saves, the record in the window, the broker's and the      *)
(* time: until everything is saved the controls are ahead of the record,   *)
(* and they show what the last queued save of the child will make of it.   *)
(***************************************************************************)
EXTENDS ParentWindow, WellFoundedInduction, TLAPS

\* A call is about a child, and a save's is the one of its record.
CallOK(c) ==
  /\ c.uid \in Children
  /\ c.op = "save" => c.save \in Saves /\ c.uid = c.save.uid /\ c.gen = c.save.gen
  /\ c.done /\ c.op \in {"load", "save"} => c.prefs \in Record

\* What holds of every window, whatever was mixed up.
Sound(v) ==
  /\ v \in Window
  /\ \A c \in v.calls : CallOK(c)
  /\ v.active # NoSave => v.active.uid \in Children
  /\ \A i \in DOMAIN v.pending : v.pending[i].uid \in Children
  /\ v.panel = "content" /\ Selected(v) => v.prefs # NoRecord

\* The parts of the window a handler may leave as they are.
Frame(u, v) ==
  /\ u.selected = v.selected /\ u.gen = v.gen /\ u.dialog = v.dialog /\ u.of = v.of
  /\ u.stray = v.stray /\ u.focus = v.focus

SameQueue(u, v) == u.active = v.active /\ u.saving = v.saving /\ u.pending = v.pending

SameRecord(u, v) ==
  /\ u.prefs = v.prefs /\ u.loading = v.loading /\ u.shown = v.shown
  /\ u.debounce = v.debounce /\ u.restore = v.restore

SameLooks(u, v) == u.ctl = v.ctl /\ u.sens = v.sens /\ u.panel = v.panel

Same(u, v) == Frame(u, v) /\ SameQueue(u, v) /\ SameRecord(u, v) /\ SameLooks(u, v)

\* Nothing but the remaining time is asked for.
MoreStatus(u, v) ==
  /\ v.calls \subseteq u.calls
  /\ \A c \in u.calls \ v.calls : CallOK(c) /\ c.op = "status" /\ c.gen = v.gen /\ ~c.done

-----------------------------------------------------------------------------
\* Helpers of the handlers.

LEMMA Zero == 0 \in 0..Retries
  BY BoundsAssumption

\* A call that has just been asked for.
Asked(u, v, op, uid, gen, s) ==
  \E c : /\ u.calls = v.calls \cup {c}
         /\ CallOK(c) /\ c.op = op /\ c.uid = uid /\ c.gen = gen /\ c.save = s /\ ~c.done

LEMMA AskDoes ==
  ASSUME NEW v \in Window, NEW op \in {"load", "status", "running", "revoke", "save"},
         NEW uid \in Children, NEW gen \in Nat, NEW s \in Saves \cup {NoSave},
         op = "save" => s \in Saves /\ s.uid = uid /\ s.gen = gen,
         NEW u, u = Ask(v, op, uid, gen, s)
  PROVE  u \in Window /\ Same(u, v) /\ Asked(u, v, op, uid, gen, s)
<1> DEFINE c == [op |-> op, uid |-> uid, gen |-> gen, save |-> s,
                 done |-> FALSE, prefs |-> NoRecord, fresh |-> FALSE]
<1>1. /\ c \in Calls /\ CallOK(c) /\ c.op = op /\ c.uid = uid /\ c.gen = gen /\ c.save = s
      /\ ~c.done
  BY DEF Calls, CallOK
<1>2. u = [v EXCEPT !.calls = @ \cup {c}]
  BY DEF Ask
<1> HIDE DEF c
<1>3. u \in Window
  BY <1>1, <1>2 DEF Window
<1>4. Same(u, v)
  BY <1>2 DEF Window, Same, Frame, SameQueue, SameRecord, SameLooks
<1>5. u.calls = v.calls \cup {c}
  BY <1>2 DEF Window
<1> QED BY <1>1, <1>3, <1>4, <1>5 DEF Asked

LEMMA CancelRetryDoes ==
  ASSUME NEW v \in Window, NEW u, u = CancelRetry(v)
  PROVE  u \in Window /\ Same(u, v) /\ u.calls = v.calls
<1>1. u \in Window
  BY Zero DEF CancelRetry, Window
<1>2. Same(u, v) /\ u.calls = v.calls
  BY DEF CancelRetry, Window, Same, Frame, SameQueue, SameRecord, SameLooks
<1> QED BY <1>1, <1>2

LEMMA LoadTimeStatusDoes ==
  ASSUME NEW v \in Window, NEW again \in BOOLEAN, NEW u, u = LoadTimeStatus(v, again)
  PROVE  u \in Window /\ Same(u, v) /\ MoreStatus(u, v)
<1>1. CASE ~Selected(v)
  BY <1>1 DEF LoadTimeStatus, MoreStatus, Same, Frame, SameQueue, SameRecord, SameLooks
<1>2. CASE Selected(v) /\ Outstanding(v, "status")
  <2>1. u = [v EXCEPT !.tpending = TRUE]
    BY <1>2 DEF LoadTimeStatus
  <2>2. u \in Window
    BY <2>1 DEF Window
  <2>3. Same(u, v) /\ u.calls = v.calls
    BY <2>1 DEF Window, Same, Frame, SameQueue, SameRecord, SameLooks
  <2> QED BY <2>2, <2>3 DEF MoreStatus
<1>3. CASE Selected(v) /\ ~Outstanding(v, "status")
  <2> DEFINE t == IF again THEN v ELSE CancelRetry(v)
  <2>1. t \in Window /\ Same(t, v) /\ t.calls = v.calls
    BY CancelRetryDoes DEF Same, Frame, SameQueue, SameRecord, SameLooks
  <2>3. u = Ask(t, "status", v.selected, v.gen, NoSave)
    BY <1>3 DEF LoadTimeStatus
  <2>4. v.selected \in Children /\ v.gen \in Nat
    BY <1>3 DEF Selected, Window
  <2> HIDE DEF t
  <2>. NoSave \in Saves \cup {NoSave} /\ "status" # "save"
    OBVIOUS
  <2>5. /\ u \in Window /\ Same(u, t)
        /\ \E c : /\ u.calls = t.calls \cup {c}
                  /\ CallOK(c) /\ c.op = "status" /\ c.gen = v.gen /\ ~c.done
    BY <2>1, <2>3, <2>4, AskDoes DEF Asked
  <2>6. Same(u, v)
    BY <2>1, <2>5 DEF Same, Frame, SameQueue, SameRecord, SameLooks
  <2> QED BY <2>1, <2>5, <2>6 DEF MoreStatus
<1> QED BY <1>1, <1>2, <1>3

LEMMA LoadPendingDoes ==
  ASSUME NEW v \in Window, NEW u, u = LoadPendingTimeStatus(v)
  PROVE  u \in Window /\ Same(u, v) /\ MoreStatus(u, v)
<1> USE DEF Same, Frame, SameQueue, SameRecord, SameLooks
<1> DEFINE t == [v EXCEPT !.tpending = FALSE]
<1>1. t \in Window
  BY DEF Window
<1>2. Same(t, v) /\ t.calls = v.calls
  BY DEF Window
<1>3. u = v \/ u = LoadTimeStatus(t, FALSE)
  BY DEF LoadPendingTimeStatus
<1> HIDE DEF t
<1>4. CASE u = LoadTimeStatus(t, FALSE)
  <2>1. u \in Window /\ Same(u, t) /\ MoreStatus(u, t)
    BY <1>1, <1>4, LoadTimeStatusDoes
  <2> QED BY <1>2, <2>1 DEF MoreStatus
<1>5. CASE u = v
  BY <1>5 DEF MoreStatus
<1> QED BY <1>3, <1>4, <1>5

LEMMA RevealDoes ==
  ASSUME NEW v \in Window, NEW u, u = Reveal(v)
  PROVE  /\ u \in Window /\ Frame(u, v) /\ SameQueue(u, v) /\ SameRecord(u, v)
         /\ u.ctl = v.ctl /\ u.sens = v.sens /\ u.calls = v.calls
         /\ u.panel = "content" => v.prefs # NoRecord
<1>1. u \in Window
  BY DEF Reveal, Window
<1>2. /\ Frame(u, v) /\ SameQueue(u, v) /\ SameRecord(u, v)
      /\ u.ctl = v.ctl /\ u.sens = v.sens /\ u.calls = v.calls
  BY DEF Reveal, Frame, SameQueue, SameRecord, Window
<1>3. u.panel = "content" => v.prefs # NoRecord
  BY DEF Reveal, Window
<1> QED BY <1>1, <1>2, <1>3

\* The controls are usable when nothing is loaded or saved, none while loading.
Right(v) ==
  Selected(v) =>
    /\ v.sens.account = (~v.loading /\ ~v.saving)
    /\ v.sens.enabled = (~v.loading /\ ~v.saving)
    /\ ~v.loading /\ ~v.saving => v.sens.limit = v.ctl.enabled
    /\ v.loading => ~v.sens.custom

LEMMA RightKept ==
  ASSUME NEW u, NEW v, Right(v), u.selected = v.selected, u.loading = v.loading,
         u.saving = v.saving, u.sens = v.sens, u.ctl.enabled = v.ctl.enabled
  PROVE  Right(u)
  BY DEF Right, Selected

LEMMA SetSensitiveIs ==
  ASSUME NEW v \in Window, NEW arg \in BOOLEAN
  PROVE  \E s \in Sensitive : SetSensitive(v, arg) = [v EXCEPT !.sens = s]
<1> DEFINE idle   == ~v.loading /\ ~v.saving
           own    == /\ v.active # NoSave
                     /\ v.active.kind = "custom-allowance" /\ v.active.uid = v.selected
           limits == ~v.loading /\ (idle \/ own) /\ Selected(v) /\ v.ctl.enabled
           s      == [account |-> idle, revoke |-> idle /\ Selected(v) /\ v.revocable,
                      enabled |-> idle /\ Selected(v), limit |-> limits, custom |-> limits,
                      apps |-> arg /\ idle /\ Selected(v)]
<1>1. SetSensitive(v, arg) = [v EXCEPT !.sens = s]
  BY Zenon DEF SetSensitive
<1>2. s \in Sensitive
  BY DEF Sensitive
<1> HIDE DEF s
<1> QED BY <1>1, <1>2

LEMMA SetSensitiveDoes ==
  ASSUME NEW v \in Window, NEW arg \in BOOLEAN, NEW u, u = SetSensitive(v, arg)
  PROVE  /\ u \in Window /\ Frame(u, v) /\ SameQueue(u, v) /\ SameRecord(u, v)
         /\ u.ctl = v.ctl /\ u.panel = v.panel /\ u.calls = v.calls
         /\ Right(u)
<1>1. PICK s \in Sensitive : u = [v EXCEPT !.sens = s]
  BY SetSensitiveIs
<1>2. u \in Window
  BY <1>1 DEF Window
<1>3. /\ Frame(u, v) /\ SameQueue(u, v) /\ SameRecord(u, v)
      /\ u.ctl = v.ctl /\ u.panel = v.panel /\ u.calls = v.calls
  BY <1>1 DEF Frame, SameQueue, SameRecord, Window
<1>4. u.sens.account = (~v.loading /\ ~v.saving)
  BY DEF SetSensitive, Sensitive, Window, Controls
<1>5. Selected(v) => u.sens.enabled = (~v.loading /\ ~v.saving)
  BY DEF SetSensitive, Sensitive, Window, Controls
<1>6. ~v.loading /\ ~v.saving /\ Selected(v) => u.sens.limit = v.ctl.enabled
  BY DEF SetSensitive, Sensitive, Window, Controls
<1>8. v.loading => ~u.sens.custom
  BY DEF SetSensitive, Sensitive, Window, Controls
<1>7. Right(u)
  BY <1>3, <1>4, <1>5, <1>6, <1>8 DEF Right, Frame, SameQueue, SameRecord, Selected
<1> QED BY <1>2, <1>3, <1>7

-----------------------------------------------------------------------------
\* The limit controls, and a save composed from the controls.

OnlyLimit(u, v) ==
  /\ Frame(u, v) /\ SameQueue(u, v)
  /\ u.prefs = v.prefs /\ u.loading = v.loading /\ u.shown = v.shown /\ u.restore = v.restore
  /\ u.sens = v.sens /\ u.panel = v.panel /\ u.calls = v.calls
  /\ u.ctl.enabled = v.ctl.enabled /\ u.ctl.apps = v.ctl.apps
  /\ v.loading => (u.debounce => v.debounce)

LEMMA EntryTyped ==
  ASSUME NEW v \in Window, NEW k \in Controls, NEW d \in BOOLEAN,
         NEW u, u = [v EXCEPT !.ctl = k, !.debounce = d]
  PROVE  u \in Window
  BY DEF Window

LEMMA SetEntryDoes ==
  ASSUME NEW v \in Window, NEW text \in Limits \cup {Invalid}, NEW u, u = SetEntry(v, text)
  PROVE  u \in Window /\ OnlyLimit(u, v)
<1> USE DEF OnlyLimit, Frame, SameQueue
<1>1. CASE v.ctl.entry = text
  BY <1>1 DEF SetEntry
<1>2. CASE v.ctl.entry # text
  <2> DEFINE ctl == [v.ctl EXCEPT !.entry = text]
             due == ~v.loading /\ Selected(v)
  <2>1. u = [v EXCEPT !.ctl = ctl, !.debounce = due]
    BY <1>2 DEF SetEntry, Window
  <2>2. ctl \in Controls /\ ctl.enabled = v.ctl.enabled /\ ctl.apps = v.ctl.apps
    BY DEF Window, Controls
  <2>3. due \in BOOLEAN /\ (v.loading => ~due)
    BY DEF Window
  <2> HIDE DEF ctl, due
  <2>4. u \in Window
    BY <2>1, <2>2, <2>3, EntryTyped
  <2>5. u.debounce = due /\ u.ctl = ctl
    BY <2>1 DEF Window
  <2>6. /\ Frame(u, v) /\ SameQueue(u, v)
        /\ u.prefs = v.prefs /\ u.loading = v.loading /\ u.shown = v.shown
        /\ u.restore = v.restore
        /\ u.sens = v.sens /\ u.panel = v.panel /\ u.calls = v.calls
    BY <2>1 DEF Window
  <2>7. OnlyLimit(u, v)
    BY <2>2, <2>3, <2>5, <2>6
  <2> QED BY <2>4, <2>7
<1> QED BY <1>1, <1>2

LEMMA SetLimitDoes ==
  ASSUME NEW v \in Window, NEW limit \in Limits, NEW u, u = SetLimit(v, limit)
  PROVE  u \in Window /\ OnlyLimit(u, v)
<1> DEFINE choice == IF limit \in Presets THEN limit ELSE Custom
           ctl == [v.ctl EXCEPT !.choice = choice]
           t == [v EXCEPT !.ctl = ctl]
<1>1. u = SetEntry(t, limit)
  BY DEF SetLimit, Window
<1>2. ctl \in Controls /\ ctl.enabled = v.ctl.enabled /\ ctl.apps = v.ctl.apps
  BY DEF Window, Controls
<1> HIDE DEF ctl
<1>3. t \in Window
  BY <1>2 DEF Window
<1>4. OnlyLimit(t, v)
  BY <1>2 DEF Window, OnlyLimit, Frame, SameQueue
<1> HIDE DEF t
<1>5. u \in Window /\ OnlyLimit(u, t)
  BY <1>1, <1>3, SetEntryDoes
<1> QED BY <1>4, <1>5 DEF OnlyLimit, Frame, SameQueue

Kinds == {"custom-allowance", "parent-control", "app-policy"}

LEMMA MinutesTyped ==
  ASSUME NEW v \in Window,
         v.prefs # NoRecord \/ v.ctl.choice # Custom \/ v.ctl.entry # Invalid
  PROVE  Minutes(v) \in Limits
  BY DEF Minutes, Window, Controls, Record, Limits

LEMMA ComposedDoes ==
  ASSUME NEW v \in Window, NEW kind \in Kinds, Selected(v), Minutes(v) \in Limits,
         NEW s, s = Composed(v, kind)
  PROVE  s \in Saves /\ s.uid = v.selected /\ s.uid \in Children /\ s.gen = v.gen /\ s.of = v.shown
  BY DEF Composed, Saves, Window, Controls, Selected, Kinds

LEMMA StartSaveDoes ==
  ASSUME NEW v \in Window, NEW s \in Saves, s.uid \in Children, NEW u, u = StartSave(v, s)
  PROVE  /\ u \in Window /\ Frame(u, v) /\ SameRecord(u, v)
         /\ u.ctl = v.ctl /\ u.panel = v.panel
         /\ u.pending = v.pending /\ u.saving /\ u.active = s
         /\ Right(u)
         /\ \E c : u.calls = v.calls \cup {c} /\ CallOK(c) /\ c.op = "save" /\ c.save = s /\ ~c.done
<1> DEFINE r == [v EXCEPT !.saving = TRUE, !.active = s]
           t == SetSensitive(r, FALSE)
<1>1. r \in Window
  BY DEF Window
<1>2. /\ Frame(r, v) /\ SameRecord(r, v) 
      /\ r.ctl = v.ctl /\ r.panel = v.panel /\ r.calls = v.calls
      /\ r.pending = v.pending /\ r.saving /\ r.active = s
  BY DEF Window, Frame, SameRecord
<1>3. u = Ask(t, "save", s.uid, s.gen, s) /\ s.gen \in Nat
  BY DEF StartSave, Saves
<1> HIDE DEF r
<1>4. /\ t \in Window /\ Frame(t, r) /\ SameQueue(t, r) /\ SameRecord(t, r)
      /\ t.ctl = r.ctl /\ t.panel = r.panel /\ t.calls = r.calls /\ Right(t)
  BY <1>1, SetSensitiveDoes
<1> HIDE DEF t
<1>5. /\ u \in Window /\ Same(u, t)
      /\ \E c : u.calls = t.calls \cup {c} /\ CallOK(c) /\ c.op = "save" /\ c.save = s /\ ~c.done
  <2>1. PICK op \in {"load", "status", "running", "revoke", "save"} : op = "save"
    OBVIOUS
  <2>2. PICK uid \in Children : uid = s.uid
    OBVIOUS
  <2>3. PICK gen \in Nat : gen = s.gen
    BY <1>3
  <2>4. PICK x \in Saves \cup {NoSave} : x = s
    OBVIOUS
  <2>5. u = Ask(t, op, uid, gen, x)
    BY <1>3, <2>1, <2>2, <2>3, <2>4
  <2>6. op = "save" => x \in Saves /\ x.uid = uid /\ x.gen = gen
    BY <2>2, <2>3, <2>4
  <2>7. /\ u \in Window /\ Same(u, t)
        /\ \E c : /\ u.calls = t.calls \cup {c}
                  /\ CallOK(c) /\ c.op = op /\ c.uid = uid /\ c.gen = gen
                  /\ c.save = x /\ ~c.done
    <3>1. t \in Window
      BY <1>4
    <3>2. u \in Window /\ Same(u, t) /\ Asked(u, t, op, uid, gen, x)
      BY <2>5, <2>6, <3>1, AskDoes
    <3> QED BY <3>2 DEF Asked
  <2> QED BY <2>1, <2>4, <2>7
<1>6. \E c : u.calls = v.calls \cup {c} /\ CallOK(c) /\ c.op = "save" /\ c.save = s /\ ~c.done
  BY <1>2, <1>4, <1>5
<1>7. /\ Frame(u, v) /\ SameRecord(u, v)
      /\ u.ctl = v.ctl /\ u.panel = v.panel
      /\ u.pending = v.pending /\ u.saving /\ u.active = s
  BY <1>2, <1>4, <1>5 DEF Same, Frame, SameQueue, SameRecord, SameLooks
<1>8. Right(u)
  BY <1>4, <1>5, RightKept DEF Same, Frame, SameQueue, SameRecord, SameLooks
<1> QED BY <1>5, <1>6, <1>7, <1>8

LEMMA QueueSaveDoes ==
  ASSUME NEW v \in Window, NEW s \in Saves, s.uid \in Children, NEW u, u = QueueSave(v, s)
  PROVE  /\ u \in Window /\ Frame(u, v) /\ SameRecord(u, v)
         /\ u.ctl = v.ctl /\ u.panel = v.panel /\ u.saving
         /\ v.saving => /\ u.pending = Append(v.pending, s) /\ u.active = v.active
                        /\ u.sens = v.sens /\ u.calls = v.calls
         /\ ~v.saving =>
              /\ u.pending = v.pending /\ u.active = s /\ Right(u)
              /\ \E c : /\ u.calls = v.calls \cup {c}
                        /\ CallOK(c) /\ c.op = "save" /\ c.save = s /\ ~c.done
<1>1. CASE v.saving
  <2>1. u = [v EXCEPT !.pending = Append(@, s)]
    BY <1>1 DEF QueueSave
  <2>2. v.pending \in Seq(Saves) /\ Append(v.pending, s) \in Seq(Saves)
    BY DEF Window
  <2>3. u \in Window
    BY <2>1, <2>2 DEF Window
  <2>4. /\ Frame(u, v) /\ SameRecord(u, v) /\ u.ctl = v.ctl /\ u.panel = v.panel /\ u.saving
        /\ u.pending = Append(v.pending, s) /\ u.active = v.active
        /\ u.sens = v.sens /\ u.calls = v.calls
    BY <1>1, <2>1 DEF Window, Frame, SameRecord
  <2> QED BY <1>1, <2>3, <2>4
<1>2. CASE ~v.saving
  <2>1. u = StartSave(v, s)
    BY <1>2 DEF QueueSave
  <2> QED BY <1>2, <2>1, StartSaveDoes
<1> QED BY <1>1, <1>2

-----------------------------------------------------------------------------
\* The invariant.

\* A save is of the child whose record was shown, by the current load or an earlier one.
Of(v, s) ==
  /\ s.of = s.uid /\ s.gen <= v.gen
  /\ s.gen = v.gen => v.prefs # NoRecord

\* The window saves exactly when one save is under way, the active one.
Queue(v) ==
  /\ v.saving <=> v.active # NoSave
  /\ ~v.saving => v.pending = <<>>
  /\ v.saving => Of(v, v.active) /\ \E c \in v.calls : c.op = "save"
  /\ \A c \in v.calls : c.op = "save" => v.saving /\ c.save = v.active
  /\ \A c, d \in v.calls : c.op = "save" /\ d.op = "save" => c = d
  /\ \A i \in DOMAIN v.pending : Of(v, v.pending[i])

\* Nothing is of a later load than the current one.
Gens(v) == (\A c \in v.calls : c.gen <= v.gen) /\ v.of <= v.gen

\* A call the window of the current load is busy with.
Current(v, c) == c.op \in {"load", "running", "revoke"} /\ c.gen = v.gen

\* The dialog of the current load is open.
Prompted(v) == v.dialog # NoChild /\ v.of = v.gen

\* A load, a listing of running applications, a dialog and a revocation of the same load
\* exclude each other, and all but the load exclude a save.
Turns(v) ==
  /\ \A c \in v.calls : Current(v, c) =>
       /\ v.loading
       /\ Selected(v) => c.uid = v.selected
       /\ \A d \in v.calls : Current(v, d) => d = c
       /\ c.op = "load" => v.prefs = NoRecord
       /\ c.op # "load" => ~v.saving
       /\ c.op = "running" => ~v.focus
       /\ c.op = "revoke" => v.prefs # NoRecord
  /\ Prompted(v) => ~v.loading /\ ~v.saving /\ ~v.focus /\ v.prefs # NoRecord

\* A record that is there is the one shown, and nothing can be typed without one.
Seen(v) ==
  /\ v.prefs # NoRecord /\ Selected(v) => v.shown = v.selected
  /\ v.prefs = NoRecord /\ ~v.loading /\ Selected(v) => ~v.focus

Shows(v) == Seen(v) /\ (v.debounce => v.focus)

\* Who loads waits for a call: without one, loading would never end.
Waits(v) == v.loading /\ Selected(v) => \E c \in v.calls : Current(v, c)

Order(v) == Queue(v) /\ Gens(v) /\ Turns(v) /\ Shows(v) /\ Waits(v) /\ Right(v)

\* The inductive invariant.
IInv == TypeOK /\ Sound(w) /\ (~w.stray => Order(w))

LEMMA RecordReal == ASSUME NEW p \in Record PROVE p # NoRecord
<1>1. DOMAIN p = {"enabled", "limit", "apps"}
  BY DEF Record
<1>2. DOMAIN NoRecord = {"limit"}
  BY DEF NoRecord
<1> QED BY <1>1, <1>2

LEMMA SaveReal == ASSUME NEW s \in Saves PROVE s # NoSave
  BY DEF Saves, NoSave

\* The part of the window that the order depends on.
Alike(u, v) ==
  /\ Frame(u, v) /\ SameQueue(u, v)
  /\ u.prefs = v.prefs /\ u.loading = v.loading /\ u.shown = v.shown

LEMMA Kept ==
  ASSUME NEW u, NEW v, Alike(u, v), MoreStatus(u, v), v.gen \in Nat
  PROVE  /\ Queue(v) => Queue(u)
         /\ Gens(v) => Gens(u)
         /\ Turns(v) => Turns(u)
         /\ Seen(v) => Seen(u)
         /\ Shows(v) /\ (u.debounce => v.debounce) => Shows(u)
         /\ Waits(v) => Waits(u)
<1> USE DEF Alike, Frame, SameQueue, MoreStatus
<1>1. \A c \in u.calls : c.op # "status" => c \in v.calls
  OBVIOUS
<1>2. \A c \in u.calls : c \in v.calls \/ (c.op = "status" /\ c.gen = v.gen)
  OBVIOUS
<1>3. Queue(v) => Queue(u)
  BY <1>1 DEF Queue, Of
<1>4. Gens(v) => Gens(u)
  BY <1>2 DEF Gens
<1>5. Turns(v) => Turns(u)
  BY <1>1 DEF Turns, Current, Prompted, Selected
<1>6. (Seen(v) => Seen(u)) /\ (Shows(v) /\ (u.debounce => v.debounce) => Shows(u))
  BY DEF Shows, Seen, Selected
<1>7. Waits(v) => Waits(u)
  BY DEF Waits, Selected, Current
<1> QED BY <1>3, <1>4, <1>5, <1>6, <1>7

LEMMA SoundKept ==
  ASSUME NEW u \in Window, NEW v, Sound(v), SameQueue(u, v), MoreStatus(u, v),
         u.selected = v.selected, v.prefs # NoRecord => u.prefs # NoRecord,
         u.panel = v.panel \/ (u.panel = "content" => u.prefs # NoRecord)
  PROVE  Sound(u)
  BY DEF Sound, SameQueue, MoreStatus, Selected

LEMMA NoMore == ASSUME NEW u, NEW v, u.calls = v.calls PROVE MoreStatus(u, v)
  BY DEF MoreStatus

LEMMA StatusKeeps ==
  ASSUME NEW u \in Window, NEW v \in Window, Same(u, v), MoreStatus(u, v)
  PROVE  Alike(u, v) /\ (Sound(v) => Sound(u)) /\ (Order(v) => Order(u))
<1> USE DEF Same, SameRecord, SameLooks
<1>1. Alike(u, v) /\ v.gen \in Nat
  BY DEF Alike, Window
<1>2. Sound(v) => Sound(u)
  BY SoundKept DEF Frame
<1>3. Right(v) => Right(u)
  BY RightKept DEF Frame, SameQueue
<1> QED BY <1>1, <1>2, <1>3, Kept DEF Order

-----------------------------------------------------------------------------
\* Saves.

\* No save is under way and none but a load: the next one may start.
Between(v) ==
  /\ ~v.saving /\ \A c \in v.calls : c.op # "save"
  /\ \A i \in DOMAIN v.pending : Of(v, v.pending[i])
  /\ Gens(v) /\ Turns(v) /\ Shows(v) /\ ~Prompted(v)
  /\ \A c \in v.calls : Current(v, c) => c.op = "load"

LEMMA StartSaveSound ==
  ASSUME NEW v, Sound(v), NEW s \in Saves, s.uid \in Children, NEW u, u = StartSave(v, s)
  PROVE  Sound(u) /\ Frame(u, v) /\ SameRecord(u, v) /\ u.saving /\ Right(u)
<1>1. v \in Window
  BY DEF Sound
<1>2. /\ u \in Window /\ Frame(u, v) /\ SameRecord(u, v)
      /\ u.ctl = v.ctl /\ u.panel = v.panel
      /\ u.pending = v.pending /\ u.saving /\ u.active = s
      /\ Right(u)
  BY <1>1, StartSaveDoes
<1>3. \E c : u.calls = v.calls \cup {c} /\ CallOK(c)
  BY <1>1, StartSaveDoes
<1>4. Sound(u)
  BY <1>2, <1>3 DEF Sound, Frame, SameRecord, Selected
<1> QED BY <1>2, <1>4

LEMMA StartSaveKeeps ==
  ASSUME NEW v, Sound(v), Between(v), Waits(v),
         NEW s \in Saves, s.uid \in Children, Of(v, s), NEW u, u = StartSave(v, s)
  PROVE  Order(u)
<1>1. v \in Window
  BY DEF Sound
<1>2. /\ Frame(u, v) /\ SameRecord(u, v)
      /\ u.pending = v.pending /\ u.saving /\ u.active = s
      /\ Right(u)
  BY <1>1, StartSaveDoes
<1>3. PICK c : u.calls = v.calls \cup {c} /\ CallOK(c) /\ c.op = "save" /\ c.save = s
  BY <1>1, StartSaveDoes
<1>4. c.gen = s.gen
  BY <1>3 DEF CallOK
<1> USE DEF Frame, SameRecord
<1>5. Queue(u)
  BY <1>2, <1>3, SaveReal DEF Queue, Of, Between
<1>6. Gens(u)
  BY <1>2, <1>3, <1>4 DEF Gens, Of, Between
<1>7. \A d \in u.calls : Current(u, d) <=> d \in v.calls /\ Current(v, d)
  BY <1>2, <1>3 DEF Current
<1>8. Turns(u)
  BY <1>2, <1>7 DEF Turns, Between, Prompted, Selected
<1>9. Shows(u)
  BY <1>2 DEF Shows, Seen, Between, Selected
<1>10. Waits(u)
  BY <1>2, <1>3, <1>7 DEF Waits, Selected
<1> QED BY <1>2, <1>5, <1>6, <1>8, <1>9, <1>10 DEF Order

LEMMA QueueSaveSound ==
  ASSUME NEW v, Sound(v), NEW s \in Saves, s.uid \in Children, NEW u, u = QueueSave(v, s)
  PROVE  Sound(u) /\ Frame(u, v) /\ SameRecord(u, v)
<1>1. v \in Window
  BY DEF Sound
<1>2. /\ u \in Window /\ Frame(u, v) /\ SameRecord(u, v)
      /\ u.ctl = v.ctl /\ u.panel = v.panel /\ u.saving
      /\ v.saving => /\ u.pending = Append(v.pending, s) /\ u.active = v.active
                     /\ u.calls = v.calls
  BY <1>1, QueueSaveDoes
<1>3. CASE v.saving
  <2>1. v.pending \in Seq(Saves)
    BY <1>1 DEF Window
  <2>2. \A i \in DOMAIN u.pending : u.pending[i].uid \in Children
    BY <2>1, <1>2, <1>3 DEF Sound
  <2> QED BY <1>2, <1>3, <2>2 DEF Sound, Frame, SameRecord, Selected
<1>4. CASE ~v.saving
  <2>1. u = StartSave(v, s)
    BY <1>4 DEF QueueSave
  <2> QED BY <2>1, StartSaveSound
<1> QED BY <1>3, <1>4

LEMMA QueueSaveKeeps ==
  ASSUME NEW v, Sound(v), ~v.loading, ~Prompted(v),
         Queue(v), Gens(v), Turns(v), Shows(v), v.saving => Right(v),
         NEW s \in Saves, s.uid \in Children, Of(v, s), NEW u, u = QueueSave(v, s)
  PROVE  Order(u)
<1>1. v \in Window
  BY DEF Sound
<1>2. \A c \in v.calls : ~Current(v, c)
  BY DEF Turns
<1>3. CASE v.saving
  <2>1. /\ Frame(u, v) /\ SameRecord(u, v)
        /\ u.ctl = v.ctl /\ u.saving
        /\ u.pending = Append(v.pending, s) /\ u.active = v.active
        /\ u.sens = v.sens /\ u.calls = v.calls
    BY <1>1, <1>3, QueueSaveDoes
  <2>2. v.pending \in Seq(Saves)
    BY <1>1 DEF Window
  <2> USE DEF Frame, SameRecord
  <2>3. \A i \in DOMAIN u.pending : Of(u, u.pending[i])
    <3>1. \A t : Of(v, t) => Of(u, t)
      BY <2>1 DEF Of
    <3>2. \A i \in DOMAIN u.pending : Of(v, u.pending[i])
      BY <2>1, <2>2 DEF Queue
    <3> QED BY <3>1, <3>2
  <2>4. Queue(u)
    BY <1>3, <2>1, <2>3 DEF Queue, Of
  <2>5. Gens(u)
    BY <2>1 DEF Gens
  <2>6. Turns(u)
    BY <2>1, <1>2 DEF Turns, Current, Prompted
  <2>7. Shows(u) /\ Waits(u)
    BY <2>1 DEF Shows, Seen, Waits, Selected
  <2>8. Right(u)
    BY <1>3, <2>1 DEF Right, Selected
  <2> QED BY <2>4, <2>5, <2>6, <2>7, <2>8 DEF Order
<1>4. CASE ~v.saving
  <2>1. u = StartSave(v, s)
    BY <1>4 DEF QueueSave
  <2>2. Between(v)
    BY <1>2, <1>4 DEF Between, Queue
  <2>3. Waits(v)
    BY DEF Waits
  <2> QED BY <2>1, <2>2, <2>3, StartSaveKeeps
<1> QED BY <1>3, <1>4

-----------------------------------------------------------------------------
\* The controls.

\* Minutes has a limit to return.
CanMinutes(v) == v.prefs # NoRecord \/ v.ctl.choice # Custom \/ v.ctl.entry # Invalid

\* A save of what the controls show, queued from a window like v.
LEMMA ComposedQueued ==
  ASSUME NEW v, Sound(v), NEW kind \in Kinds, Selected(v), CanMinutes(v),
         NEW u, u = QueueSave(v, Composed(v, kind))
  PROVE  /\ Sound(u) /\ Frame(u, v) /\ SameRecord(u, v)
         /\ /\ ~v.loading /\ v.prefs # NoRecord /\ ~Prompted(v)
            /\ Queue(v) /\ Gens(v) /\ Turns(v) /\ Shows(v) /\ (v.saving => Right(v))
            => Order(u)
<1>1. v \in Window /\ v.gen \in Nat
  BY DEF Sound, Window
<1>2. PICK s : s = Composed(v, kind)
  OBVIOUS
<1>3. Minutes(v) \in Limits
  BY <1>1, MinutesTyped DEF CanMinutes
<1>4. s \in Saves /\ s.uid = v.selected /\ s.uid \in Children /\ s.gen = v.gen /\ s.of = v.shown
  BY <1>1, <1>2, <1>3, ComposedDoes
<1>5. u = QueueSave(v, s)
  BY <1>2
<1>6. Sound(u) /\ Frame(u, v) /\ SameRecord(u, v)
  BY <1>4, <1>5, QueueSaveSound
<1>7. ASSUME ~v.loading, v.prefs # NoRecord, ~Prompted(v),
             Queue(v), Gens(v), Turns(v), Shows(v), v.saving => Right(v)
      PROVE  Order(u)
  <2>1. Of(v, s)
    BY <1>1, <1>4, <1>7 DEF Of, Shows, Seen
  <2> QED BY <1>4, <1>5, <1>7, <2>1, QueueSaveKeeps
<1> QED BY <1>6, <1>7

\* Only the controls differ.
OnlyControls(u, v) ==
  /\ Frame(u, v) /\ SameQueue(u, v) /\ SameRecord(u, v)
  /\ u.panel = v.panel /\ u.calls = v.calls

LEMMA PutControls ==
  ASSUME NEW v \in Window, NEW k \in Controls, NEW u, u = [v EXCEPT !.ctl = k]
  PROVE  u \in Window /\ OnlyControls(u, v) /\ u.ctl = k /\ u.sens = v.sens
<1>1. u \in Window
  BY DEF Window
<1>2. OnlyControls(u, v) /\ u.ctl = k /\ u.sens = v.sens
  BY DEF Window, OnlyControls, Frame, SameQueue, SameRecord
<1> QED BY <1>1, <1>2

LEMMA PutSensitive ==
  ASSUME NEW v \in Window, NEW s \in Sensitive, NEW u, u = [v EXCEPT !.sens = s]
  PROVE  u \in Window /\ OnlyControls(u, v) /\ u.ctl = v.ctl /\ u.sens = s
<1>1. u \in Window
  BY DEF Window
<1>2. OnlyControls(u, v) /\ u.ctl = v.ctl /\ u.sens = s
  BY DEF Window, OnlyControls, Frame, SameQueue, SameRecord
<1> QED BY <1>1, <1>2

LEMMA ControlsKept ==
  ASSUME NEW v, NEW u \in Window, Sound(v), OnlyControls(u, v)
  PROVE  /\ Sound(u)
         /\ Queue(v) => Queue(u)
         /\ Gens(v) => Gens(u)
         /\ Turns(v) => Turns(u)
         /\ Shows(v) => Shows(u)
         /\ Waits(v) => Waits(u)
<1>1. v.gen \in Nat
  BY DEF Sound, Window
<1>2. Alike(u, v) /\ MoreStatus(u, v)
  BY NoMore DEF OnlyControls, Alike, SameRecord
<1>3. u.debounce = v.debounce
  BY DEF OnlyControls, SameRecord
<1>4. Sound(u)
  BY <1>2, SoundKept DEF OnlyControls, Alike, Frame
<1> QED BY <1>1, <1>2, <1>3, <1>4, Kept

LEMMA EnabledChangedDoes ==
  ASSUME NEW v, Sound(v), CanMinutes(v), ~v.loading, Selected(v), NEW u, u = EnabledChanged(v)
  PROVE  /\ Sound(u) /\ Frame(u, v) /\ SameRecord(u, v)
         /\ /\ v.prefs # NoRecord /\ ~Prompted(v)
            /\ Queue(v) /\ Gens(v) /\ Turns(v) /\ Shows(v) /\ (v.saving => Right(v))
            => Order(u)
<1> DEFINE s == [v.sens EXCEPT !.limit = v.ctl.enabled]
           t == [v EXCEPT !.sens = s]
<1>1. v \in Window
  BY DEF Sound
<1>2. u = QueueSave(t, Composed(t, "parent-control"))
  BY <1>1 DEF EnabledChanged, SaveParentControl, Window
<1>3. /\ s \in Sensitive /\ s.account = v.sens.account /\ s.enabled = v.sens.enabled
      /\ s.custom = v.sens.custom
  BY <1>1 DEF Window, Sensitive, Controls
<1> HIDE DEF s
<1>4. t \in Window /\ OnlyControls(t, v) /\ t.ctl = v.ctl /\ t.sens = s
  BY <1>1, <1>3, PutSensitive
<1> HIDE DEF t
<1>5. /\ Sound(t)
      /\ Queue(v) => Queue(t)
      /\ Gens(v) => Gens(t)
      /\ Turns(v) => Turns(t)
      /\ Shows(v) => Shows(t)
  BY <1>4, ControlsKept
<1>6. Frame(t, v) /\ SameRecord(t, v) /\ SameQueue(t, v)
  BY <1>4 DEF OnlyControls
<1>7. CanMinutes(t) /\ Selected(t) /\ ~t.loading
  BY <1>4, <1>6 DEF CanMinutes, Frame, SameRecord, Selected
<1>8. "parent-control" \in Kinds
  BY DEF Kinds
<1>9. /\ Sound(u) /\ Frame(u, t) /\ SameRecord(u, t)
      /\ /\ ~t.loading /\ t.prefs # NoRecord /\ ~Prompted(t)
         /\ Queue(t) /\ Gens(t) /\ Turns(t) /\ Shows(t) /\ (t.saving => Right(t))
         => Order(u)
  BY <1>2, <1>5, <1>7, <1>8, ComposedQueued
<1>10. v.saving /\ Right(v) => Right(t)
  BY <1>3, <1>4, <1>6 DEF Right, Frame, SameQueue, SameRecord, Selected
<1>11. Sound(u) /\ Frame(u, v) /\ SameRecord(u, v)
  BY <1>6, <1>9 DEF Frame, SameRecord
<1>12. ASSUME v.prefs # NoRecord, ~Prompted(v),
              Queue(v), Gens(v), Turns(v), Shows(v), v.saving => Right(v)
       PROVE  Order(u)
  <2>1. t.prefs # NoRecord /\ ~Prompted(t) /\ (t.saving => Right(t))
    BY <1>6, <1>10, <1>12 DEF Frame, SameQueue, SameRecord, Prompted
  <2> QED BY <1>5, <1>7, <1>9, <1>12, <2>1
<1> QED BY <1>11, <1>12

LEMMA SetActiveDoes ==
  ASSUME NEW v, Sound(v), v.prefs # NoRecord, NEW on \in BOOLEAN, NEW u, u = SetActive(v, on)
  PROVE  /\ Sound(u) /\ Frame(u, v) /\ SameRecord(u, v)
         /\ v.loading => OnlyControls(u, v)
<1> DEFINE k == [v.ctl EXCEPT !.enabled = on]
           t == [v EXCEPT !.ctl = k]
<1>1. v \in Window
  BY DEF Sound
<1>2. CASE v.ctl.enabled = on
  BY <1>2 DEF SetActive, Frame, SameRecord, OnlyControls, SameQueue
<1>3. CASE v.ctl.enabled # on
  <2>1. u = EnabledChanged(t)
    BY <1>1, <1>3 DEF SetActive, Window
  <2>2. k \in Controls
    BY <1>1 DEF Window, Controls
  <2> HIDE DEF k
  <2>3. t \in Window /\ OnlyControls(t, v)
    BY <1>1, <2>2, PutControls
  <2> HIDE DEF t
  <2>4. Sound(t)
    BY <2>3, ControlsKept
  <2>5. Frame(t, v) /\ SameRecord(t, v)
    BY <2>3 DEF OnlyControls
  <2>6. CASE t.loading \/ ~Selected(t)
    <3>1. u = t
      BY <2>1, <2>6 DEF EnabledChanged
    <3> QED BY <3>1, <2>3, <2>4, <2>5
  <2>7. CASE ~t.loading /\ Selected(t)
    <3>1. CanMinutes(t) /\ ~v.loading
      BY <2>5, <2>7 DEF CanMinutes, SameRecord
    <3>2. Sound(u) /\ Frame(u, t) /\ SameRecord(u, t)
      BY <2>1, <2>4, <2>7, <3>1, EnabledChangedDoes
    <3> QED BY <2>5, <3>1, <3>2 DEF Frame, SameRecord
  <2> QED BY <2>6, <2>7
<1> QED BY <1>2, <1>3

LEMMA PutDebounce ==
  ASSUME NEW v \in Window, NEW b \in BOOLEAN, NEW u, u = [v EXCEPT !.debounce = b]
  PROVE  /\ u \in Window /\ Frame(u, v) /\ SameQueue(u, v) /\ SameLooks(u, v)
         /\ u.prefs = v.prefs /\ u.loading = v.loading /\ u.shown = v.shown
         /\ u.restore = v.restore /\ u.calls = v.calls /\ u.debounce = b
<1>1. u \in Window
  BY DEF Window
<1>2. /\ Frame(u, v) /\ SameQueue(u, v) /\ SameLooks(u, v)
      /\ u.prefs = v.prefs /\ u.loading = v.loading /\ u.shown = v.shown
      /\ u.restore = v.restore /\ u.calls = v.calls /\ u.debounce = b
  BY DEF Window, Frame, SameQueue, SameLooks
<1> QED BY <1>1, <1>2

LEMMA CustomChangedDoes ==
  ASSUME NEW v, Sound(v), NEW u, u = CustomChanged(v)
  PROVE  /\ Sound(u) /\ Frame(u, v) /\ ~u.debounce
         /\ Order(v) /\ v.focus => Order(u)
<1> DEFINE t == [v EXCEPT !.debounce = FALSE]
           s == Composed(t, "custom-allowance")
<1>1. v \in Window /\ FALSE \in BOOLEAN
  BY DEF Sound
<1>2. \/ u = t
      \/ /\ u = QueueSave(t, s)
         /\ ~v.loading /\ Selected(v) /\ v.ctl.entry # Invalid
  BY Zenon DEF CustomChanged, SaveCustom
<1>3. PICK x : x = t
  OBVIOUS
<1>4. /\ x \in Window /\ Frame(x, v) /\ SameQueue(x, v) /\ SameLooks(x, v)
      /\ x.prefs = v.prefs /\ x.loading = v.loading /\ x.shown = v.shown
      /\ x.restore = v.restore /\ x.calls = v.calls /\ x.debounce = FALSE
  BY <1>1, <1>3, PutDebounce
<1>5. Alike(x, v) /\ MoreStatus(x, v) /\ v.gen \in Nat
  BY <1>1, <1>4, NoMore DEF Alike, Window
<1>6. Sound(x)
  BY <1>4, <1>5, SoundKept DEF Frame, SameLooks
<1>7. Right(v) => Right(x)
  BY <1>4, RightKept DEF Frame, SameLooks, SameQueue
<1>8. Order(v) => Order(x)
  BY <1>4, <1>5, <1>7, Kept DEF Order
<1>9. CASE u = t
  BY <1>3, <1>4, <1>6, <1>8, <1>9
<1>10. CASE /\ u = QueueSave(t, s)
            /\ ~v.loading /\ Selected(v) /\ v.ctl.entry # Invalid
  <2>1. u = QueueSave(x, Composed(x, "custom-allowance"))
    BY <1>3, <1>10
  <2>2. CanMinutes(x) /\ Selected(x) /\ ~x.loading
    BY <1>4, <1>10 DEF CanMinutes, Selected, Frame, SameLooks
  <2>3. "custom-allowance" \in Kinds
    BY DEF Kinds
  <2>4. /\ Sound(u) /\ Frame(u, x) /\ SameRecord(u, x)
        /\ /\ ~x.loading /\ x.prefs # NoRecord /\ ~Prompted(x)
           /\ Queue(x) /\ Gens(x) /\ Turns(x) /\ Shows(x) /\ (x.saving => Right(x))
           => Order(u)
    BY <1>6, <2>1, <2>2, <2>3, ComposedQueued
  <2>5. ASSUME Order(v), v.focus PROVE Order(u)
    <3>1. Order(x) /\ x.focus
      BY <1>4, <1>8, <2>5 DEF Frame
    <3>2. x.prefs # NoRecord
      BY <2>2, <3>1 DEF Order, Shows, Seen
    <3>3. ~Prompted(x)
      BY <3>1 DEF Order, Turns
    <3> QED BY <2>2, <2>4, <3>1, <3>2, <3>3 DEF Order
  <2> QED BY <1>4, <2>4, <2>5 DEF Frame, SameRecord
<1> QED BY <1>2, <1>9, <1>10

LEMMA PutFocus ==
  ASSUME NEW v, Sound(v), NEW b \in BOOLEAN, NEW u, u = [v EXCEPT !.focus = b]
  PROVE  /\ Sound(u) /\ u.stray = v.stray
         /\ u.prefs = v.prefs /\ u.loading = v.loading /\ u.dialog = v.dialog
         /\ /\ Queue(v) /\ Gens(v) /\ Turns(v) /\ Seen(v) /\ Waits(v) /\ Right(v)
            /\ v.focus \/ (b /\ v.prefs # NoRecord /\ ~Prompted(v) /\ ~v.loading)
            /\ v.debounce => b
            => Order(u)
<1>1. v \in Window
  BY DEF Sound
<1>2. u \in Window
  BY <1>1 DEF Window
<1>3. /\ u.selected = v.selected /\ u.gen = v.gen /\ u.dialog = v.dialog /\ u.of = v.of
      /\ u.stray = v.stray /\ u.focus = b
      /\ SameQueue(u, v) /\ SameRecord(u, v) /\ SameLooks(u, v) /\ u.calls = v.calls
  BY <1>1 DEF Window, SameQueue, SameRecord, SameLooks
<1> USE DEF SameQueue, SameRecord, SameLooks
<1>4. Sound(u)
  BY <1>2, <1>3, SoundKept, NoMore
<1>5. ASSUME Queue(v), Gens(v), Turns(v), Seen(v), Waits(v), Right(v),
             v.focus \/ (b /\ v.prefs # NoRecord /\ ~Prompted(v) /\ ~v.loading),
             v.debounce => b
      PROVE  Order(u)
  <2>1. Queue(u) /\ Gens(u) /\ Waits(u)
    BY <1>3, <1>5 DEF Queue, Of, Gens, Waits, Current, Selected
  <2>2. Right(u)
    BY <1>3, <1>5, RightKept
  <2>3. Shows(u)
    BY <1>3, <1>5 DEF Shows, Seen, Selected
  <2>4. Turns(u)
    BY <1>3, <1>5 DEF Turns, Current, Prompted, Selected
  <2> QED BY <2>1, <2>2, <2>3, <2>4 DEF Order
<1> QED BY <1>3, <1>4, <1>5

-----------------------------------------------------------------------------
\* Loading.

LEMMA PutLoading ==
  ASSUME NEW v \in Window, NEW b \in BOOLEAN, NEW u, u = [v EXCEPT !.loading = b]
  PROVE  /\ u \in Window /\ Frame(u, v) /\ SameQueue(u, v) /\ SameLooks(u, v)
         /\ u.prefs = v.prefs /\ u.loading = b /\ u.shown = v.shown
         /\ u.restore = v.restore /\ u.calls = v.calls /\ u.debounce = v.debounce
<1>1. u \in Window
  BY DEF Window
<1>2. /\ Frame(u, v) /\ SameQueue(u, v) /\ SameLooks(u, v)
      /\ u.prefs = v.prefs /\ u.loading = b /\ u.shown = v.shown
      /\ u.restore = v.restore /\ u.calls = v.calls /\ u.debounce = v.debounce
  BY DEF Window, Frame, SameQueue, SameLooks
<1> QED BY <1>1, <1>2

LEMMA PutPrefs ==
  ASSUME NEW v \in Window, NEW p \in Record, NEW u, u = [v EXCEPT !.prefs = p]
  PROVE  /\ u \in Window /\ Frame(u, v) /\ SameQueue(u, v) /\ SameLooks(u, v)
         /\ u.prefs = p /\ u.loading = v.loading /\ u.shown = v.shown
         /\ u.restore = v.restore /\ u.calls = v.calls /\ u.debounce = v.debounce
<1>1. u \in Window
  BY DEF Window
<1>2. /\ Frame(u, v) /\ SameQueue(u, v) /\ SameLooks(u, v)
      /\ u.prefs = p /\ u.loading = v.loading /\ u.shown = v.shown
      /\ u.restore = v.restore /\ u.calls = v.calls /\ u.debounce = v.debounce
  BY DEF Window, Frame, SameQueue, SameLooks
<1> QED BY <1>1, <1>2

LEMMA PutShown ==
  ASSUME NEW v \in Window, NEW c \in Children \cup {NoChild}, NEW u, u = [v EXCEPT !.shown = c]
  PROVE  /\ u \in Window /\ Frame(u, v) /\ SameQueue(u, v) /\ SameLooks(u, v)
         /\ u.prefs = v.prefs /\ u.loading = v.loading /\ u.shown = c
         /\ u.restore = v.restore /\ u.calls = v.calls /\ u.debounce = v.debounce
<1>1. u \in Window
  BY DEF Window
<1>2. /\ Frame(u, v) /\ SameQueue(u, v) /\ SameLooks(u, v)
      /\ u.prefs = v.prefs /\ u.loading = v.loading /\ u.shown = c
      /\ u.restore = v.restore /\ u.calls = v.calls /\ u.debounce = v.debounce
  BY DEF Window, Frame, SameQueue, SameLooks
<1> QED BY <1>1, <1>2

\* The call the window was loading for is answered.
Free(v) ==
  /\ Queue(v) /\ Gens(v) /\ ~Prompted(v)
  /\ \A c \in v.calls : ~Current(v, c)

LEMMA Ending ==
  ASSUME NEW v, NEW u, Free(v), v.gen \in Nat,
         Frame(u, v), SameQueue(u, v), MoreStatus(u, v),
         v.prefs # NoRecord => u.prefs # NoRecord,
         ~u.loading, Right(u), Seen(u), u.debounce => u.focus
  PROVE  Order(u)
<1> USE DEF Frame, SameQueue, MoreStatus, Free
<1>1. \A c \in u.calls : c.op # "status" => c \in v.calls
  OBVIOUS
<1>2. Queue(u)
  BY <1>1 DEF Queue, Of
<1>3. Gens(u)
  BY DEF Gens
<1>4. \A c \in u.calls : ~Current(u, c)
  BY <1>1 DEF Current
<1>5. Turns(u)
  BY <1>4 DEF Turns, Prompted
<1>6. Shows(u) /\ Waits(u)
  BY DEF Shows, Waits
<1> QED BY <1>2, <1>3, <1>5, <1>6 DEF Order

LEMMA PreferencesLoadedDoes ==
  ASSUME NEW v, Sound(v), NEW p \in Record, NEW u, u = PreferencesLoaded(v, p)
  PROVE  /\ Sound(u) /\ u.stray = v.stray
         /\ v.loading /\ Free(v) /\ (v.debounce => v.focus) => Order(u)
<1>1. v \in Window /\ p.enabled \in BOOLEAN /\ p.limit \in Limits /\ p.apps \in Apps
  BY DEF Sound, Record
<1>2. PICK x0 : x0 = [v EXCEPT !.prefs = p]
  OBVIOUS
<1>3. PICK x1 : x1 = SetActive(x0, p.enabled)
  OBVIOUS
<1>4. PICK x2 : x2 = SetLimit(x1, p.limit)
  OBVIOUS
<1>5. PICK x3 : x3 = [x2 EXCEPT !.ctl.apps = p.apps, !.shown = v.selected, !.loading = FALSE]
  OBVIOUS
<1>6. PICK x4 : x4 = SetSensitive(x3, TRUE)
  OBVIOUS
<1>7. PICK x5 : x5 = Reveal(x4)
  OBVIOUS
<1>8. u = LoadTimeStatus(x5, FALSE)
  BY Zenon, <1>2, <1>3, <1>4, <1>5, <1>6, <1>7 DEF PreferencesLoaded
<1>10. p # NoRecord
  BY RecordReal
<1>11. /\ x0 \in Window /\ Frame(x0, v) /\ SameQueue(x0, v) /\ SameLooks(x0, v)
       /\ x0.prefs = p /\ x0.loading = v.loading
       /\ x0.calls = v.calls /\ x0.debounce = v.debounce
  BY <1>1, <1>2, PutPrefs
<1>12. Sound(x0)
  BY <1>10, <1>11, SoundKept, NoMore DEF Frame, SameLooks
<1>13. /\ Sound(x1) /\ Frame(x1, x0) /\ SameRecord(x1, x0)
       /\ x0.loading => OnlyControls(x1, x0)
  BY <1>1, <1>3, <1>10, <1>11, <1>12, SetActiveDoes
<1>14. x1 \in Window
  BY <1>13 DEF Sound
<1>15. x2 \in Window /\ OnlyLimit(x2, x1)
  BY <1>1, <1>4, <1>14, SetLimitDoes
<1>16. Sound(x2) /\ x2.selected = v.selected
  BY <1>11, <1>13, <1>15, SoundKept, NoMore DEF OnlyLimit, Frame, SameQueue
<1>17. PICK k \in Controls : k = [x2.ctl EXCEPT !.apps = p.apps]
  BY <1>1, <1>15 DEF Window, Controls
<1>32. PICK c \in Children \cup {NoChild} : c = v.selected
  BY <1>1 DEF Window
<1>18. PICK y : y = [x2 EXCEPT !.ctl = k]
  OBVIOUS
<1>31. y \in Window /\ OnlyControls(y, x2)
  BY <1>15, <1>18, PutControls
<1>34. PICK z : z = [y EXCEPT !.shown = c]
  OBVIOUS
<1>35. PICK no \in BOOLEAN : no = FALSE
  OBVIOUS
<1>30. x3 = [z EXCEPT !.loading = no]
  BY <1>5, <1>15, <1>32, <1>17, <1>18, <1>34, <1>35 DEF Window
<1>36. /\ z \in Window /\ Frame(z, y) /\ SameQueue(z, y) /\ SameLooks(z, y)
       /\ z.prefs = y.prefs /\ z.shown = c
       /\ z.calls = y.calls /\ z.debounce = y.debounce
  BY <1>31, <1>34, PutShown
<1>33. /\ x3 \in Window /\ Frame(x3, z) /\ SameQueue(x3, z) /\ SameLooks(x3, z)
       /\ x3.prefs = z.prefs /\ ~x3.loading /\ x3.shown = z.shown
       /\ x3.calls = z.calls /\ x3.debounce = z.debounce
  BY <1>30, <1>35, <1>36, PutLoading
<1>19. /\ x3 \in Window /\ Frame(x3, x2) /\ SameQueue(x3, x2)
       /\ x3.panel = x2.panel
       /\ x3.prefs = x2.prefs /\ ~x3.loading /\ x3.shown = c
       /\ x3.calls = x2.calls /\ x3.debounce = x2.debounce
  BY <1>31, <1>33, <1>36 DEF SameLooks, OnlyControls, Frame, SameQueue, SameRecord
<1>20. Sound(x3)
  BY <1>16, <1>19, SoundKept, NoMore DEF Frame
<1>21. /\ x4 \in Window /\ Frame(x4, x3) /\ SameQueue(x4, x3) /\ SameRecord(x4, x3)
       /\ x4.panel = x3.panel /\ x4.calls = x3.calls /\ Right(x4)
  BY <1>6, <1>19, SetSensitiveDoes
<1>22. Sound(x4)
  BY <1>20, <1>21, SoundKept, NoMore DEF Frame, SameRecord
<1>23. /\ x5 \in Window /\ Frame(x5, x4) /\ SameQueue(x5, x4) /\ SameRecord(x5, x4)
       /\ x5.ctl = x4.ctl /\ x5.sens = x4.sens /\ x5.calls = x4.calls
       /\ x5.panel = "content" => x4.prefs # NoRecord
  BY <1>7, <1>21, RevealDoes
<1>24. Sound(x5) /\ Right(x5)
  BY <1>21, <1>22, <1>23, SoundKept, NoMore, RightKept DEF Frame, SameRecord, SameQueue
<1>25. u \in Window /\ Same(u, x5) /\ MoreStatus(u, x5)
  BY <1>8, <1>23, LoadTimeStatusDoes
<1>26. Sound(u) /\ Right(u)
  BY <1>23, <1>24, <1>25, StatusKeeps, RightKept
     DEF Same, Frame, SameRecord, SameQueue, SameLooks
<1>27. u.stray = v.stray /\ u.selected = v.selected
  BY <1>11, <1>13, <1>15, <1>19, <1>21, <1>23, <1>25 DEF Same, Frame, OnlyLimit
<1>28. u.prefs = p /\ ~u.loading /\ u.shown = u.selected /\ u.debounce = x2.debounce
  <2>1. x2.prefs = p
    BY <1>11, <1>13, <1>15 DEF SameRecord, OnlyLimit
  <2>2. SameRecord(x4, x3) /\ SameRecord(x5, x4) /\ SameRecord(u, x5)
    BY <1>21, <1>23, <1>25 DEF Same
  <2>3. /\ u.prefs = x3.prefs /\ u.loading = x3.loading
        /\ u.shown = x3.shown /\ u.debounce = x3.debounce
    BY <2>2 DEF SameRecord
  <2> QED BY <2>1, <2>3, <1>19, <1>27, <1>32
<1>29. ASSUME v.loading, Free(v), v.debounce => v.focus PROVE Order(u)
  <2>1. OnlyControls(x1, x0)
    BY <1>11, <1>13, <1>29
  <2>2. Frame(u, v)
    BY <1>11, <1>13, <1>15, <1>19, <1>21, <1>23, <1>25 DEF Same, Frame, OnlyLimit
  <2>3. SameQueue(u, v)
    BY <2>1, <1>11, <1>15, <1>19, <1>21, <1>23, <1>25
       DEF Same, SameQueue, OnlyLimit, OnlyControls
  <2>4. x5.calls = v.calls
    BY <2>1, <1>11, <1>15, <1>19, <1>21, <1>23 DEF OnlyLimit, OnlyControls
  <2>5. MoreStatus(u, v)
    BY <2>2, <2>4, <1>25 DEF MoreStatus, Frame, Same
  <2>6. u.debounce => v.debounce
    BY <1>11, <1>13, <1>15, <1>28, <1>29 DEF OnlyLimit, SameRecord
  <2>7. Seen(u)
    BY <1>10, <1>28 DEF Seen
  <2>8. u.debounce => u.focus
    BY <2>2, <2>6, <1>29 DEF Frame
  <2>9. v.gen \in Nat
    BY <1>1 DEF Window
  <2> QED BY <1>10, <1>26, <1>28, <1>29, <2>2, <2>3, <2>5, <2>7, <2>8, <2>9, Ending
<1> QED BY <1>26, <1>27, <1>29

\* What Failed and others end with: nothing is loading.
LEMMA LoadingEnds ==
  ASSUME NEW v, Sound(v), NEW arg \in BOOLEAN,
         NEW u, u = SetSensitive([v EXCEPT !.loading = FALSE], arg)
  PROVE  /\ Sound(u) /\ Frame(u, v) /\ SameQueue(u, v) /\ u.calls = v.calls
         /\ u.prefs = v.prefs /\ ~u.loading /\ u.shown = v.shown /\ u.debounce = v.debounce
         /\ Right(u)
<1>1. v \in Window
  BY DEF Sound
<1>2. PICK no \in BOOLEAN : no = FALSE
  OBVIOUS
<1>3. PICK z : z = [v EXCEPT !.loading = no]
  OBVIOUS
<1>4. u = SetSensitive(z, arg)
  BY <1>2, <1>3
<1>5. /\ z \in Window /\ Frame(z, v) /\ SameQueue(z, v) /\ SameLooks(z, v)
      /\ z.prefs = v.prefs /\ ~z.loading /\ z.shown = v.shown
      /\ z.calls = v.calls /\ z.debounce = v.debounce
  BY <1>1, <1>2, <1>3, PutLoading
<1>6. Sound(z)
  BY <1>5, SoundKept, NoMore DEF Frame, SameLooks
<1>7. /\ u \in Window /\ Frame(u, z) /\ SameQueue(u, z) /\ SameRecord(u, z)
      /\ u.panel = z.panel /\ u.calls = z.calls /\ Right(u)
  BY <1>4, <1>5, SetSensitiveDoes
<1>8. Sound(u)
  BY <1>6, <1>7, SoundKept, NoMore DEF Frame, SameRecord
<1>9. Frame(u, v) /\ SameQueue(u, v)
  BY <1>5, <1>7 DEF Frame, SameQueue
<1> QED BY <1>5, <1>7, <1>8, <1>9 DEF SameRecord

LEMMA LoadingEndsOrder ==
  ASSUME NEW v, Sound(v), Free(v), v.debounce => v.focus,
         v.prefs # NoRecord /\ Selected(v) => v.shown = v.selected,
         v.prefs = NoRecord /\ Selected(v) => ~v.focus,
         NEW arg \in BOOLEAN, NEW u, u = SetSensitive([v EXCEPT !.loading = FALSE], arg)
  PROVE  Order(u)
<1>1. /\ Frame(u, v) /\ SameQueue(u, v) /\ u.calls = v.calls
      /\ u.prefs = v.prefs /\ ~u.loading /\ u.shown = v.shown /\ u.debounce = v.debounce
      /\ Right(u)
  BY LoadingEnds
<1>2. Seen(u) /\ (u.debounce => u.focus)
  BY <1>1 DEF Seen, Frame, Selected
<1>3. v.gen \in Nat
  BY DEF Sound, Window
<1>4. MoreStatus(u, v)
  BY <1>1, NoMore
<1> QED BY <1>1, <1>2, <1>3, <1>4, Ending

LEMMA FailedDoes ==
  ASSUME NEW v, Sound(v), NEW u, u = Failed(v)
  PROVE  /\ Sound(u) /\ u.stray = v.stray
         /\ /\ Free(v) /\ (v.debounce => v.focus)
            /\ v.prefs # NoRecord /\ Selected(v) => v.shown = v.selected
            /\ v.prefs = NoRecord /\ Selected(v) => ~v.focus
            => Order(u)
<1>1. v \in Window
  BY DEF Sound
<1>2. PICK yes \in BOOLEAN : yes = TRUE
  OBVIOUS
<1>3. PICK y : y = [v EXCEPT !.loading = yes]
  OBVIOUS
<1>4. PICK t : t = IF v.prefs = NoRecord THEN y
                   ELSE SetLimit(SetActive(y, v.prefs.enabled), v.prefs.limit)
  OBVIOUS
<1>5. PICK arg \in BOOLEAN : arg = (v.prefs # NoRecord)
  OBVIOUS
<1>6. u = SetSensitive([t EXCEPT !.loading = FALSE], arg)
  BY Zenon, <1>2, <1>3, <1>4, <1>5 DEF Failed
<1>7. /\ y \in Window /\ Frame(y, v) /\ SameQueue(y, v) /\ SameLooks(y, v)
      /\ y.prefs = v.prefs /\ y.loading /\ y.shown = v.shown
      /\ y.calls = v.calls /\ y.debounce = v.debounce
  BY <1>1, <1>2, <1>3, PutLoading
<1>8. Sound(y)
  BY <1>7, SoundKept, NoMore DEF Frame, SameLooks
<1>9. /\ Sound(t) /\ Frame(t, v) /\ SameQueue(t, v) /\ t.calls = v.calls
      /\ t.prefs = v.prefs /\ t.shown = v.shown /\ (t.debounce => v.debounce)
  <2>1. CASE v.prefs = NoRecord
    BY <1>4, <1>7, <1>8, <2>1
  <2>2. CASE v.prefs # NoRecord
    <3>1. v.prefs.enabled \in BOOLEAN /\ v.prefs.limit \in Limits
      BY <1>1, <2>2 DEF Window, Record
    <3>2. PICK x : x = SetActive(y, v.prefs.enabled)
      OBVIOUS
    <3>3. t = SetLimit(x, v.prefs.limit)
      BY <1>4, <2>2, <3>2
    <3>4. Sound(x) /\ OnlyControls(x, y)
      BY <1>7, <1>8, <2>2, <3>1, <3>2, SetActiveDoes
    <3>5. x \in Window
      BY <3>4 DEF Sound
    <3>6. t \in Window /\ OnlyLimit(t, x)
      BY <3>1, <3>3, <3>5, SetLimitDoes
    <3>7. Sound(t)
      BY <3>4, <3>6, SoundKept, NoMore DEF OnlyLimit, Frame
    <3>8. Frame(t, v) /\ SameQueue(t, v)
      BY <1>7, <3>4, <3>6 DEF OnlyLimit, OnlyControls, Frame, SameQueue
    <3>9. /\ x.loading /\ x.debounce = v.debounce /\ x.prefs = v.prefs
          /\ x.shown = v.shown /\ x.calls = v.calls
      BY <1>7, <3>4 DEF OnlyControls, SameRecord
    <3> QED BY <3>6, <3>7, <3>8, <3>9 DEF OnlyLimit
  <2> QED BY <2>1, <2>2
<1>10. Sound(u) /\ u.stray = v.stray
  BY <1>6, <1>9, LoadingEnds DEF Frame
<1>11. ASSUME Free(v), v.debounce => v.focus,
              v.prefs # NoRecord /\ Selected(v) => v.shown = v.selected,
              v.prefs = NoRecord /\ Selected(v) => ~v.focus
       PROVE  Order(u)
  <2>1. Free(t)
    BY <1>9, <1>11
       DEF Free, Queue, Of, Gens, Prompted, Current, Frame, SameQueue
  <2>2. /\ t.debounce => t.focus
        /\ t.prefs # NoRecord /\ Selected(t) => t.shown = t.selected
        /\ t.prefs = NoRecord /\ Selected(t) => ~t.focus
    BY <1>9, <1>11 DEF Frame, Selected
  <2> QED BY <1>6, <1>9, <2>1, <2>2, LoadingEndsOrder
<1> QED BY <1>10, <1>11

\* A window whose panel may still be that of another child.
Nearly(v) ==
  /\ v \in Window
  /\ \A c \in v.calls : CallOK(c)
  /\ v.active # NoSave => v.active.uid \in Children
  /\ \A i \in DOMAIN v.pending : v.pending[i].uid \in Children

LEMMA BlankTyped ==
  ASSUME NEW v \in Window,
         NEW x, x = [v EXCEPT !.panel = "blank", !.prefs = NoRecord, !.loading = TRUE]
  PROVE  x \in Window
  BY DEF Window

LEMMA UnreadyTyped ==
  ASSUME NEW v \in Window,
         NEW x, x = [v EXCEPT !.revocable = FALSE, !.ready = FALSE, !.status = "none"]
  PROVE  x \in Window
  BY DEF Window

LEMMA GenTyped ==
  ASSUME NEW v \in Window, NEW x, x = [v EXCEPT !.gen = @ + 1]
  PROVE  x \in Window
<1>1. v.gen + 1 \in Nat
  BY DEF Window
<1> QED BY <1>1 DEF Window

LEMMA LoadSelectedDoes ==
  ASSUME NEW v, Nearly(v), Selected(v), NEW u, u = LoadSelected(v)
  PROVE  /\ Sound(u) /\ u.stray = v.stray
         /\ Queue(v) /\ Gens(v) /\ (v.debounce => v.focus) => Order(u)
<1>1. v \in Window /\ v.gen \in Nat /\ v.of \in Nat /\ v.selected \in Children
  BY DEF Nearly, Window, Selected
<1>2. PICK x : x = [v EXCEPT !.panel = "blank", !.prefs = NoRecord, !.loading = TRUE,
                             !.revocable = FALSE, !.ready = FALSE, !.status = "none",
                             !.gen = @ + 1]
  OBVIOUS
<1>3. PICK y : y = SetSensitive(x, FALSE)
  OBVIOUS
<1>4. u = Ask(y, "load", x.selected, x.gen, NoSave)
  BY Zenon, <1>2, <1>3 DEF LoadSelected
<1>5. x \in Window
  <2>1. PICK a : a = [v EXCEPT !.panel = "blank", !.prefs = NoRecord, !.loading = TRUE]
    OBVIOUS
  <2>2. PICK b : b = [a EXCEPT !.revocable = FALSE, !.ready = FALSE, !.status = "none"]
    OBVIOUS
  <2>3. a \in Window
    BY Zenon, <1>1, <2>1, BlankTyped
  <2>4. b \in Window
    BY Zenon, <2>2, <2>3, UnreadyTyped
  <2>5. x = [b EXCEPT !.gen = @ + 1]
    BY <1>1, <1>2, <2>1, <2>2 DEF Window
  <2> QED BY Zenon, <2>4, <2>5, GenTyped
<1>6. /\ x.selected = v.selected /\ x.gen = v.gen + 1 /\ x.dialog = v.dialog /\ x.of = v.of
      /\ x.stray = v.stray /\ x.focus = v.focus /\ SameQueue(x, v)
      /\ x.panel = "blank" /\ x.prefs = NoRecord /\ x.loading
      /\ x.debounce = v.debounce /\ x.calls = v.calls
  BY <1>1, <1>2 DEF Window, SameQueue
<1>7. /\ y \in Window /\ Frame(y, x) /\ SameQueue(y, x) /\ SameRecord(y, x)
      /\ y.panel = x.panel /\ y.calls = x.calls /\ Right(y)
  BY <1>3, <1>5, SetSensitiveDoes
<1>8. PICK uid \in Children : uid = x.selected
  BY <1>1, <1>6
<1>9. PICK gen \in Nat : gen = x.gen
  BY <1>1, <1>6
<1>10. PICK op : op = "load"
  OBVIOUS
<1>11. u = Ask(y, op, uid, gen, NoSave)
  BY <1>4, <1>8, <1>9, <1>10
<1>12. /\ op \in {"load", "status", "running", "revoke", "save"} /\ op # "save"
       /\ NoSave \in Saves \cup {NoSave}
  BY <1>10
<1>13. /\ u \in Window /\ Same(u, y)
       /\ \E c : /\ u.calls = y.calls \cup {c}
                 /\ CallOK(c) /\ c.op = op /\ c.uid = uid /\ c.gen = gen
  BY <1>7, <1>11, <1>12, AskDoes DEF Asked
<1>14. PICK c : /\ u.calls = v.calls \cup {c}
                /\ CallOK(c) /\ c.op = "load" /\ c.uid = v.selected /\ c.gen = v.gen + 1
  BY <1>6, <1>7, <1>8, <1>9, <1>10, <1>13
<1>15. /\ u.selected = v.selected /\ u.gen = v.gen + 1 /\ u.dialog = v.dialog /\ u.of = v.of
       /\ u.stray = v.stray /\ u.focus = v.focus /\ SameQueue(u, v)
       /\ u.panel = "blank" /\ u.prefs = NoRecord /\ u.loading /\ u.debounce = v.debounce
  BY <1>6, <1>7, <1>13 DEF Same, Frame, SameQueue, SameRecord, SameLooks
<1>16. Sound(u)
  BY <1>13, <1>14, <1>15 DEF Sound, Nearly, SameQueue
<1>17. Right(u)
  BY <1>7, <1>13, RightKept DEF Same, Frame, SameQueue, SameRecord, SameLooks
<1>18. ASSUME Queue(v), Gens(v), v.debounce => v.focus PROVE Order(u)
  <2>1. \A s : Of(v, s) /\ s.gen \in Nat => Of(u, s)
    BY <1>1, <1>15 DEF Of
  <2>2. v.pending \in Seq(Saves)
    BY <1>1 DEF Window
  <2>3. \A i \in DOMAIN v.pending : Of(u, v.pending[i])
    <3> TAKE i \in DOMAIN v.pending
    <3>1. v.pending[i] \in Saves
      BY <2>2
    <3>2. v.pending[i].gen \in Nat
      BY <3>1 DEF Saves
    <3> QED BY <2>1, <3>2, <1>18 DEF Queue
  <2>4. v.saving => Of(u, v.active)
    <3> HAVE v.saving
    <3>1. v.active \in Saves
      BY <1>1, <1>18 DEF Queue, Window
    <3>2. v.active.gen \in Nat
      BY <3>1 DEF Saves
    <3> QED BY <2>1, <3>2, <1>18 DEF Queue
  <2>5. Queue(u)
    BY <1>14, <1>15, <1>18, <2>3, <2>4 DEF Queue, SameQueue
  <2>9. \A d \in v.calls : d.gen \in Nat
    BY <1>1 DEF Window, Calls
  <2>6. Gens(u)
    BY <1>1, <1>14, <1>15, <1>18, <2>9 DEF Gens
  <2>7. \A d \in u.calls : Current(u, d) => d = c
    BY <1>1, <1>14, <1>15, <1>18, <2>9 DEF Current, Gens
  <2>10. ~Prompted(u)
    BY <1>1, <1>15, <1>18 DEF Prompted, Gens
  <2>8. Turns(u) /\ Shows(u) /\ Waits(u)
    BY <1>14, <1>15, <1>18, <2>7, <2>10 DEF Turns, Shows, Seen, Waits, Current
  <2> QED BY <1>17, <2>5, <2>6, <2>8 DEF Order
<1> QED BY <1>15, <1>16, <1>18

LEMMA PutSelected ==
  ASSUME NEW v \in Window, NEW c \in Children \cup {NoChild}, NEW u, u = [v EXCEPT !.selected = c]
  PROVE  /\ u \in Window /\ u.selected = c
         /\ u.gen = v.gen /\ u.dialog = v.dialog /\ u.of = v.of
         /\ u.stray = v.stray /\ u.focus = v.focus
         /\ SameQueue(u, v) /\ SameRecord(u, v) /\ SameLooks(u, v) /\ u.calls = v.calls
<1>1. u \in Window
  BY DEF Window
<1>2. /\ u.selected = c
      /\ u.gen = v.gen /\ u.dialog = v.dialog /\ u.of = v.of
      /\ u.stray = v.stray /\ u.focus = v.focus
      /\ SameQueue(u, v) /\ SameRecord(u, v) /\ SameLooks(u, v) /\ u.calls = v.calls
  BY DEF Window, SameQueue, SameRecord, SameLooks
<1> QED BY <1>1, <1>2

\* Another child is selected and loaded.
LEMMA SelectDoes ==
  ASSUME NEW v, Sound(v), NEW c \in Children, NEW u, u = LoadSelected([v EXCEPT !.selected = c])
  PROVE  Sound(u) /\ u.stray = v.stray /\ (Order(v) => Order(u))
<1>1. v \in Window /\ c \in Children \cup {NoChild}
  BY DEF Sound
<1>2. PICK x : x = [v EXCEPT !.selected = c]
  OBVIOUS
<1>3. /\ x \in Window /\ x.selected = c
      /\ x.gen = v.gen /\ x.dialog = v.dialog /\ x.of = v.of
      /\ x.stray = v.stray /\ x.focus = v.focus
      /\ SameQueue(x, v) /\ SameRecord(x, v) /\ x.calls = v.calls
  BY <1>1, <1>2, PutSelected
<1>4. Nearly(x)
  BY <1>3 DEF Nearly, Sound, SameQueue
<1>5. Selected(x)
  BY <1>3, ChildrenAssumption DEF Selected
<1>6. /\ Sound(u) /\ u.stray = x.stray
      /\ Queue(x) /\ Gens(x) /\ (x.debounce => x.focus) => Order(u)
  BY <1>2, <1>4, <1>5, LoadSelectedDoes
<1>7. ASSUME Order(v) PROVE Order(u)
  <2>1. Queue(x) /\ Gens(x)
    BY <1>3, <1>7 DEF Order, Queue, Of, Gens, SameQueue, SameRecord
  <2>2. x.debounce => x.focus
    BY <1>3, <1>7 DEF Order, Shows, SameRecord
  <2> QED BY <1>6, <2>1, <2>2
<1> QED BY <1>3, <1>6, <1>7

LEMMA LeastNatural ==
  ASSUME NEW S \in SUBSET Nat, S # {}
  PROVE  \E x \in S : \A y \in S : x <= y
<1> DEFINE R == OpToRel(<, Nat)
<1>1. IsWellFoundedOn(R, Nat)
  BY NatLessThanWellFounded
<1>2. \A x, y \in Nat : <<y, x>> \in R <=> y < x
  BY DEF OpToRel
<1> HIDE DEF R
<1>3. PICK x \in S : \A y \in S : ~(<<y, x>> \in R)
  BY <1>1, WFMin
<1>4. \A y \in S : ~(y < x)
  BY <1>2, <1>3
<1> QED BY <1>4

LEMMA FirstListed == ASSUME NEW us \in SUBSET Children, us # {} PROVE First(us) \in Children
<1>1. us \in SUBSET Nat
  BY ChildrenAssumption
<1>2. \E x \in us : \A y \in us : x <= y
  BY <1>1, LeastNatural
<1>3. First(us) \in us
  BY <1>2 DEF First
<1> QED BY <1>3

LEMMA PutUsers ==
  ASSUME NEW v \in Window, NEW us \in SUBSET Children,
         NEW u, u = [v EXCEPT !.users = us, !.known = TRUE]
  PROVE  u \in Window /\ Same(u, v) /\ u.calls = v.calls /\ u.users = us
<1>1. u \in Window
  BY DEF Window
<1>2. Same(u, v) /\ u.calls = v.calls /\ u.users = us
  BY DEF Window, Same, Frame, SameQueue, SameRecord, SameLooks
<1> QED BY <1>1, <1>2

LEMMA PutPanel ==
  ASSUME NEW v \in Window, NEW u, u = [v EXCEPT !.panel = "content"]
  PROVE  /\ u \in Window /\ Frame(u, v) /\ SameQueue(u, v) /\ SameRecord(u, v)
         /\ u.ctl = v.ctl /\ u.sens = v.sens /\ u.calls = v.calls
<1>1. u \in Window
  BY DEF Window
<1>2. /\ Frame(u, v) /\ SameQueue(u, v) /\ SameRecord(u, v)
      /\ u.ctl = v.ctl /\ u.sens = v.sens /\ u.calls = v.calls
  BY DEF Window, Frame, SameQueue, SameRecord
<1> QED BY <1>1, <1>2

LEMMA UsersLoadedDoes ==
  ASSUME NEW v, Sound(v), NEW us \in SUBSET Children, NEW u, u = UsersLoaded(v, us)
  PROVE  Sound(u) /\ u.stray = v.stray /\ (Order(v) => Order(u))
<1>1. v \in Window
  BY DEF Sound
<1>2. PICK x : x = [v EXCEPT !.users = us, !.known = TRUE]
  OBVIOUS
<1>3. x \in Window /\ Same(x, v) /\ x.calls = v.calls
  BY <1>1, <1>2, PutUsers
<1>4. x.stray = v.stray /\ Sound(x) /\ (Order(v) => Order(x))
  BY <1>1, <1>3, StatusKeeps, NoMore DEF Same, Frame
<1>5. \/ u = x
      \/ us # {} /\ u = LoadSelected([x EXCEPT !.selected = First(us)])
      \/ u = [x EXCEPT !.selected = NoChild, !.panel = "content"]
  BY Zenon, <1>2 DEF UsersLoaded
<1>6. CASE us # {} /\ u = LoadSelected([x EXCEPT !.selected = First(us)])
  <2>1. PICK c \in Children : c = First(us)
    BY <1>6, FirstListed
  <2>2. u = LoadSelected([x EXCEPT !.selected = c])
    BY <1>6, <2>1
  <2> QED BY <1>4, <2>2, SelectDoes
<1>7. CASE u = [x EXCEPT !.selected = NoChild, !.panel = "content"]
  <2>1. PICK c \in Children \cup {NoChild} : c = NoChild
    OBVIOUS
  <2>2. PICK y : y = [x EXCEPT !.selected = c]
    OBVIOUS
  <2>3. u = [y EXCEPT !.panel = "content"]
    BY <1>7, <2>1, <2>2
  <2>4. /\ y \in Window /\ y.selected = c
        /\ y.gen = x.gen /\ y.dialog = x.dialog /\ y.of = x.of
        /\ y.stray = x.stray /\ y.focus = x.focus
        /\ SameQueue(y, x) /\ SameRecord(y, x) /\ SameLooks(y, x) /\ y.calls = x.calls
    BY <1>3, <2>2, PutSelected
  <2>5. /\ u \in Window /\ Frame(u, y) /\ SameQueue(u, y) /\ SameRecord(u, y)
        /\ u.ctl = y.ctl /\ u.sens = y.sens /\ u.calls = y.calls
    BY <2>3, <2>4, PutPanel
  <2>6. /\ ~Selected(u)
        /\ u.gen = x.gen /\ u.dialog = x.dialog /\ u.of = x.of
        /\ u.stray = x.stray /\ u.focus = x.focus
        /\ SameQueue(u, x) /\ SameRecord(u, x) /\ u.calls = x.calls
    BY <2>1, <2>4, <2>5 DEF Frame, SameQueue, SameRecord, Selected
  <2>7. Sound(u)
    BY <1>4, <2>5, <2>6 DEF Sound, SameQueue
  <2>8. ASSUME Order(x) PROVE Order(u)
    <3>1. Queue(u) /\ Gens(u)
      BY <2>6, <2>8 DEF Order, Queue, Of, Gens, SameQueue, SameRecord
    <3>2. Turns(u)
      BY <2>6, <2>8 DEF Order, Turns, Current, Prompted, SameQueue, SameRecord
    <3>3. Shows(u) /\ Waits(u) /\ Right(u)
      BY <2>6, <2>8 DEF Order, Shows, Seen, Waits, Right, SameQueue, SameRecord
    <3> QED BY <3>1, <3>2, <3>3 DEF Order
  <2> QED BY <1>4, <2>6, <2>7, <2>8
<1> QED BY <1>4, <1>5, <1>6, <1>7

LEMMA OpenedSound == Opened \in Window /\ Sound(Opened) /\ Order(Opened)
<1>1. Opened \in Window
  <2>1. PICK p : p = CHOOSE q \in Presets : TRUE
    OBVIOUS
  <2>2. PICK a : a = CHOOSE q \in Apps : TRUE
    OBVIOUS
  <2>3. p \in Presets /\ a \in Apps
    BY <2>1, <2>2, ChoicesAssumption
  <2>4. PICK k : k = [enabled |-> FALSE, choice |-> p, entry |-> p, apps |-> a]
    OBVIOUS
  <2>5. k \in Controls
    BY <2>3, <2>4 DEF Controls, Limits
  <2>6. PICK s : s = [account |-> TRUE, revoke |-> FALSE, enabled |-> FALSE,
                      limit |-> TRUE, custom |-> TRUE, apps |-> TRUE]
    OBVIOUS
  <2>7. s \in Sensitive
    BY <2>6 DEF Sensitive
  <2>8. Opened =
         [open |-> TRUE, users |-> {}, known |-> FALSE,
          selected |-> NoChild, gen |-> 0, prefs |-> NoRecord, loading |-> FALSE,
          ctl |-> k, sens |-> s,
          panel |-> "blank", shown |-> NoChild,
          active |-> NoSave, saving |-> FALSE, pending |-> <<>>,
          restore |-> NoChild, debounce |-> FALSE, focus |-> FALSE,
          tpending |-> FALSE, retry |-> FALSE, retries |-> 0,
          ready |-> FALSE, revocable |-> FALSE, status |-> "none",
          dialog |-> NoChild, calls |-> {}, of |-> 0, stray |-> FALSE]
    BY Zenon, <2>1, <2>2, <2>4, <2>6 DEF Opened
  <2>9. <<>> \in Seq(Saves)
    OBVIOUS
  <2> QED BY <2>5, <2>7, <2>8, <2>9, Zero DEF Window
<1>2. /\ Opened.selected = NoChild /\ Opened.gen = 0 /\ Opened.prefs = NoRecord
      /\ ~Opened.loading /\ Opened.panel = "blank" /\ Opened.active = NoSave /\ ~Opened.saving
      /\ Opened.pending = <<>> /\ ~Opened.debounce /\ ~Opened.focus
      /\ Opened.dialog = NoChild /\ Opened.calls = {} /\ Opened.of = 0
  BY DEF Opened
<1>3. Sound(Opened)
  BY <1>1, <1>2 DEF Sound
<1>4. Queue(Opened) /\ Gens(Opened) /\ Turns(Opened)
  BY <1>2 DEF Queue, Gens, Turns, Prompted
<1>5. Shows(Opened) /\ Waits(Opened) /\ Right(Opened)
  BY <1>2 DEF Shows, Seen, Waits, Right, Selected
<1> QED BY <1>1, <1>3, <1>4, <1>5 DEF Order

LEMMA ClosedSound == Sound(Closed) /\ Order(Closed)
<1>1. PICK x : x = Opened
  OBVIOUS
<1>2. x \in Window /\ Sound(x) /\ Order(x)
  BY <1>1, OpenedSound
<1>3. PICK u : u = [x EXCEPT !.open = FALSE]
  OBVIOUS
<1>4. u \in Window
  BY <1>2, <1>3 DEF Window
<1>5. Same(u, x) /\ u.calls = x.calls
  BY <1>2, <1>3 DEF Window, Same, Frame, SameQueue, SameRecord, SameLooks
<1>6. Sound(u) /\ Order(u)
  BY <1>2, <1>4, <1>5, StatusKeeps, NoMore
<1>7. Closed = u
  BY <1>1, <1>3 DEF Closed
<1> QED BY <1>6, <1>7

-----------------------------------------------------------------------------
\* Answers about the time.

LEMMA LooksKeep ==
  ASSUME NEW v, Sound(v), NEW u \in Window,
         Frame(u, v), SameQueue(u, v), SameRecord(u, v), MoreStatus(u, v),
         u.panel = v.panel \/ (u.panel = "content" => u.prefs # NoRecord),
         Right(v) => Right(u)
  PROVE  Sound(u) /\ u.stray = v.stray /\ (Order(v) => Order(u))
<1>1. Alike(u, v) /\ u.debounce = v.debounce /\ v.gen \in Nat
  BY DEF Alike, Sound, Window, SameRecord
<1>2. Sound(u)
  BY SoundKept DEF Frame, SameRecord
<1>3. Order(v) => Order(u)
  BY <1>1, Kept DEF Order
<1> QED BY <1>2, <1>3 DEF Frame

LEMMA PutPending ==
  ASSUME NEW v \in Window, NEW u, u = [v EXCEPT !.tpending = FALSE]
  PROVE  u \in Window /\ Same(u, v) /\ u.calls = v.calls
<1>1. u \in Window
  BY DEF Window
<1>2. Same(u, v) /\ u.calls = v.calls
  BY DEF Window, Same, Frame, SameQueue, SameRecord, SameLooks
<1> QED BY <1>1, <1>2

LEMMA PutAvailable ==
  ASSUME NEW v \in Window, NEW u, u = [v EXCEPT !.revocable = TRUE, !.ready = TRUE]
  PROVE  u \in Window /\ Same(u, v) /\ u.calls = v.calls
<1>1. u \in Window
  BY DEF Window
<1>2. Same(u, v) /\ u.calls = v.calls
  BY DEF Window, Same, Frame, SameQueue, SameRecord, SameLooks
<1> QED BY <1>1, <1>2

LEMMA PutStatus ==
  ASSUME NEW v \in Window, NEW s \in {"none", "fresh", "stale"},
         NEW u, u = [v EXCEPT !.status = s]
  PROVE  u \in Window /\ Same(u, v) /\ u.calls = v.calls
<1>1. u \in Window
  BY DEF Window
<1>2. Same(u, v) /\ u.calls = v.calls
  BY DEF Window, Same, Frame, SameQueue, SameRecord, SameLooks
<1> QED BY <1>1, <1>2

LEMMA PutReady ==
  ASSUME NEW v \in Window, NEW u, u = [v EXCEPT !.ready = TRUE, !.status = "none"]
  PROVE  u \in Window /\ Same(u, v) /\ u.calls = v.calls
<1>1. u \in Window
  BY DEF Window
<1>2. Same(u, v) /\ u.calls = v.calls
  BY DEF Window, Same, Frame, SameQueue, SameRecord, SameLooks
<1> QED BY <1>1, <1>2

LEMMA RetriesTyped ==
  ASSUME NEW v \in Window, NEW n \in 0..Retries,
         NEW u, u = [v EXCEPT !.retries = n, !.retry = TRUE]
  PROVE  u \in Window
  BY DEF Window

LEMMA PutRetries ==
  ASSUME NEW v \in Window, v.retries < Retries,
         NEW u, u = [v EXCEPT !.retries = @ + 1, !.retry = TRUE]
  PROVE  u \in Window /\ Same(u, v) /\ u.calls = v.calls
<1>1. v.retries \in 0..Retries
  BY DEF Window
<1>2. v.retries + 1 \in 0..Retries
  BY <1>1, BoundsAssumption
<1>3. PICK n \in 0..Retries : n = v.retries + 1
  BY <1>2
<1>4. u = [v EXCEPT !.retries = n, !.retry = TRUE]
  BY <1>3 DEF Window
<1>5. u \in Window
  BY <1>4, RetriesTyped
<1>6. Same(u, v) /\ u.calls = v.calls
  BY DEF Window, Same, Frame, SameQueue, SameRecord, SameLooks
<1> QED BY <1>5, <1>6

LEMMA PutRetry ==
  ASSUME NEW v \in Window, NEW u, u = [v EXCEPT !.retry = FALSE]
  PROVE  u \in Window /\ Same(u, v) /\ u.calls = v.calls
<1>1. u \in Window
  BY DEF Window
<1>2. Same(u, v) /\ u.calls = v.calls
  BY DEF Window, Same, Frame, SameQueue, SameRecord, SameLooks
<1> QED BY <1>1, <1>2

LEMMA SameKeeps ==
  ASSUME NEW v, Sound(v), NEW u \in Window, Same(u, v), MoreStatus(u, v)
  PROVE  Sound(u) /\ u.stray = v.stray /\ (Order(v) => Order(u))
<1>1. v \in Window
  BY DEF Sound
<1> QED BY <1>1, StatusKeeps DEF Same, Frame

LEMMA LoadTimeStatusKeeps ==
  ASSUME NEW v, Sound(v), NEW again \in BOOLEAN, NEW u, u = LoadTimeStatus(v, again)
  PROVE  Sound(u) /\ u.stray = v.stray /\ (Order(v) => Order(u))
<1>1. v \in Window
  BY DEF Sound
<1>2. u \in Window /\ Same(u, v) /\ MoreStatus(u, v)
  BY <1>1, LoadTimeStatusDoes
<1> QED BY <1>2, SameKeeps

LEMMA LoadPendingKeeps ==
  ASSUME NEW v, Sound(v), NEW u, u = LoadPendingTimeStatus(v)
  PROVE  Sound(u) /\ u.stray = v.stray /\ (Order(v) => Order(u))
<1>1. v \in Window
  BY DEF Sound
<1>2. u \in Window /\ Same(u, v) /\ MoreStatus(u, v)
  BY <1>1, LoadPendingDoes
<1> QED BY <1>2, SameKeeps

LEMMA RevealKeeps ==
  ASSUME NEW v, Sound(v), NEW u, u = Reveal(v)
  PROVE  Sound(u) /\ u.stray = v.stray /\ (Order(v) => Order(u))
<1>1. v \in Window
  BY DEF Sound
<1>2. /\ u \in Window /\ Frame(u, v) /\ SameQueue(u, v) /\ SameRecord(u, v)
      /\ u.ctl = v.ctl /\ u.sens = v.sens /\ u.calls = v.calls
      /\ u.panel = "content" => v.prefs # NoRecord
  BY <1>1, RevealDoes
<1>3. Right(v) => Right(u)
  BY <1>2, RightKept DEF Frame, SameQueue, SameRecord
<1>4. u.panel = "content" => u.prefs # NoRecord
  BY <1>2 DEF SameRecord
<1> QED BY <1>2, <1>3, <1>4, LooksKeep, NoMore

LEMMA SetSensitiveKeeps ==
  ASSUME NEW v, Sound(v), NEW arg \in BOOLEAN, NEW u, u = SetSensitive(v, arg)
  PROVE  Sound(u) /\ u.stray = v.stray /\ (Order(v) => Order(u))
<1>1. v \in Window
  BY DEF Sound
<1>2. /\ u \in Window /\ Frame(u, v) /\ SameQueue(u, v) /\ SameRecord(u, v)
      /\ u.panel = v.panel /\ u.calls = v.calls /\ Right(u)
  BY <1>1, SetSensitiveDoes
<1> QED BY <1>2, LooksKeep, NoMore

LEMMA StatusForOtherKeeps ==
  ASSUME NEW v, Sound(v), NEW u, u = StatusForOther(v)
  PROVE  Sound(u) /\ u.stray = v.stray /\ (Order(v) => Order(u))
<1>1. PICK x : x = [v EXCEPT !.tpending = FALSE]
  OBVIOUS
<1>2. PICK no \in BOOLEAN : no = FALSE
  OBVIOUS
<1>3. x \in Window /\ Same(x, v) /\ x.calls = v.calls
  BY <1>1, PutPending DEF Sound
<1>4. Sound(x) /\ x.stray = v.stray /\ (Order(v) => Order(x))
  BY <1>3, SameKeeps, NoMore
<1>5. u = LoadTimeStatus(x, no)
  BY <1>1, <1>2 DEF StatusForOther
<1> QED BY <1>4, <1>5, LoadTimeStatusKeeps

LEMMA StatusLoadedDoes ==
  ASSUME NEW v, Sound(v), NEW c, NEW u, u = StatusLoaded(v, c)
  PROVE  Sound(u) /\ u.stray = v.stray /\ (Order(v) => Order(u))
<1>1. PICK x : x = CancelRetry(v)
  OBVIOUS
<1>2. x \in Window /\ Same(x, v) /\ x.calls = v.calls
  BY <1>1, CancelRetryDoes DEF Sound
<1>3. Sound(x) /\ x.stray = v.stray /\ (Order(v) => Order(x))
  BY <1>2, SameKeeps, NoMore
<1>4. PICK s \in {"none", "fresh", "stale"} : s = IF c.fresh THEN "fresh" ELSE "stale"
  OBVIOUS
<1>5. PICK yes \in BOOLEAN : yes = TRUE
  OBVIOUS
<1>6. PICK t : t = [x EXCEPT !.revocable = TRUE, !.ready = TRUE, !.status = s]
  OBVIOUS
<1>7. \/ u = StatusForOther(x)
      \/ u = LoadPendingTimeStatus(Reveal(SetSensitive(t, yes)))
  BY Zenon, <1>1, <1>4, <1>5, <1>6 DEF StatusLoaded
<1>8. CASE u = StatusForOther(x)
  BY <1>3, <1>8, StatusForOtherKeeps
<1>9. CASE u = LoadPendingTimeStatus(Reveal(SetSensitive(t, yes)))
  <2>9. PICK r : r = [x EXCEPT !.revocable = TRUE, !.ready = TRUE]
    OBVIOUS
  <2>10. t = [r EXCEPT !.status = s]
    BY Zenon, <1>6, <2>9
  <2>11. r \in Window /\ Same(r, x) /\ r.calls = x.calls
    BY <1>2, <2>9, PutAvailable
  <2>12. Sound(r) /\ r.stray = x.stray /\ (Order(x) => Order(r))
    BY <1>3, <2>11, SameKeeps, NoMore
  <2>1. t \in Window /\ Same(t, r) /\ t.calls = r.calls
    BY <2>10, <2>11, PutStatus
  <2>2. Sound(t) /\ t.stray = x.stray /\ (Order(x) => Order(t))
    BY <2>1, <2>12, SameKeeps, NoMore
  <2>3. PICK y : y = SetSensitive(t, yes)
    OBVIOUS
  <2>4. Sound(y) /\ y.stray = t.stray /\ (Order(t) => Order(y))
    BY <2>2, <2>3, SetSensitiveKeeps
  <2>5. PICK z : z = Reveal(y)
    OBVIOUS
  <2>6. Sound(z) /\ z.stray = y.stray /\ (Order(y) => Order(z))
    BY <2>4, <2>5, RevealKeeps
  <2>7. u = LoadPendingTimeStatus(z)
    BY <1>9, <2>3, <2>5
  <2>8. Sound(u) /\ u.stray = z.stray /\ (Order(z) => Order(u))
    BY <2>6, <2>7, LoadPendingKeeps
  <2> QED BY <1>3, <2>2, <2>4, <2>6, <2>8
<1> QED BY <1>7, <1>8, <1>9

LEMMA StatusFailedDoes ==
  ASSUME NEW v, Sound(v), NEW c, NEW u, u = StatusFailed(v, c)
  PROVE  Sound(u) /\ u.stray = v.stray /\ (Order(v) => Order(u))
<1>0. v \in Window
  BY DEF Sound
<1>1. \/ u = StatusForOther(v)
      \/ u = LoadPendingTimeStatus(v)
      \/ v.retries < Retries /\ u = [v EXCEPT !.retries = @ + 1, !.retry = TRUE]
      \/ u = Reveal([v EXCEPT !.ready = TRUE, !.status = "none"])
  BY DEF StatusFailed
<1>2. CASE u = StatusForOther(v)
  BY <1>2, StatusForOtherKeeps
<1>3. CASE u = LoadPendingTimeStatus(v)
  BY <1>3, LoadPendingKeeps
<1>4. CASE v.retries < Retries /\ u = [v EXCEPT !.retries = @ + 1, !.retry = TRUE]
  <2>1. u \in Window /\ Same(u, v) /\ u.calls = v.calls
    BY <1>0, <1>4, PutRetries
  <2> QED BY <2>1, SameKeeps, NoMore
<1>5. CASE u = Reveal([v EXCEPT !.ready = TRUE, !.status = "none"])
  <2>1. PICK x : x = [v EXCEPT !.ready = TRUE, !.status = "none"]
    OBVIOUS
  <2>2. x \in Window /\ Same(x, v) /\ x.calls = v.calls
    BY <1>0, <2>1, PutReady
  <2>3. Sound(x) /\ x.stray = v.stray /\ (Order(v) => Order(x))
    BY <2>2, SameKeeps, NoMore
  <2>4. u = Reveal(x)
    BY <1>5, <2>1
  <2> QED BY <2>3, <2>4, RevealKeeps
<1> QED BY <1>1, <1>2, <1>3, <1>4, <1>5

-----------------------------------------------------------------------------
\* Answers about applications and revocations.

\* The dialog opens for a child and a load, or closes.
WithDialog(v, c, n) == [v EXCEPT !.dialog = c, !.of = n]

LEMMA PutDialog ==
  ASSUME NEW v \in Window, NEW c \in Children \cup {NoChild}, NEW n \in Nat,
         NEW u, u = WithDialog(v, c, n)
  PROVE  /\ u \in Window /\ u.dialog = c /\ u.of = n
         /\ u.selected = v.selected /\ u.gen = v.gen
         /\ u.stray = v.stray /\ u.focus = v.focus
         /\ SameQueue(u, v) /\ SameRecord(u, v) /\ SameLooks(u, v) /\ u.calls = v.calls
<1>1. u \in Window
  BY DEF Window, WithDialog
<1>2. /\ u.dialog = c /\ u.of = n
      /\ u.selected = v.selected /\ u.gen = v.gen
      /\ u.stray = v.stray /\ u.focus = v.focus
      /\ SameQueue(u, v) /\ SameRecord(u, v) /\ SameLooks(u, v) /\ u.calls = v.calls
  BY DEF Window, WithDialog, SameQueue, SameRecord, SameLooks
<1> QED BY <1>1, <1>2

\* A dialog appears over a window at rest, or disappears.
LEMMA DialogKeeps ==
  ASSUME NEW v, Sound(v), NEW c \in Children \cup {NoChild}, NEW n \in Nat,
         NEW u, u = WithDialog(v, c, n)
  PROVE  /\ Sound(u) /\ u.stray = v.stray
         /\ /\ Order(v) /\ n <= v.gen
            /\ c # NoChild => ~v.loading /\ ~v.saving /\ ~v.focus /\ v.prefs # NoRecord
            => Order(u)
<1>1. v \in Window
  BY DEF Sound
<1>2. /\ u \in Window /\ u.dialog = c /\ u.of = n
      /\ u.selected = v.selected /\ u.gen = v.gen
      /\ u.stray = v.stray /\ u.focus = v.focus
      /\ SameQueue(u, v) /\ SameRecord(u, v) /\ SameLooks(u, v) /\ u.calls = v.calls
  BY <1>1, PutDialog
<1> USE DEF SameQueue, SameRecord, SameLooks
<1>3. Sound(u)
  BY <1>2, SoundKept, NoMore
<1>4. ASSUME Order(v), n <= v.gen,
             c # NoChild => ~v.loading /\ ~v.saving /\ ~v.focus /\ v.prefs # NoRecord
      PROVE  Order(u)
  <2>1. Queue(u) /\ Gens(u) /\ Waits(u)
    BY <1>2, <1>4 DEF Order, Queue, Of, Gens, Waits, Current, Selected
  <2>2. Right(u)
    BY <1>2, <1>4, RightKept DEF Order
  <2>3. Shows(u)
    BY <1>2, <1>4 DEF Order, Shows, Seen, Selected
  <2>4. Turns(u)
    BY <1>2, <1>4 DEF Order, Turns, Current, Prompted, Selected
  <2> QED BY <2>1, <2>2, <2>3, <2>4 DEF Order
<1> QED BY <1>2, <1>3, <1>4

LEMMA RunningListedDoes ==
  ASSUME NEW v, Sound(v), NEW c, c.uid \in Children, NEW u, u = RunningListed(v, c)
  PROVE  /\ Sound(u) /\ u.stray = v.stray
         /\ /\ Free(v) /\ ~v.debounce /\ ~v.focus /\ ~v.saving
            /\ v.prefs # NoRecord /\ Selected(v) => v.shown = v.selected
            => Order(u)
<1>1. PICK yes \in BOOLEAN : yes = TRUE
  OBVIOUS
<1>2. PICK x : x = SetSensitive([v EXCEPT !.loading = FALSE], yes)
  OBVIOUS
<1>3. PICK n \in Nat : n = v.gen
  BY DEF Sound, Window
<1>4. PICK d \in Children \cup {NoChild} : d = c.uid
  OBVIOUS
<1>5. \/ u = x
      \/ u = Failed(x) /\ v.prefs = NoRecord
      \/ u = WithDialog(x, d, n) /\ v.prefs # NoRecord
  BY Zenon, <1>1, <1>2, <1>3, <1>4 DEF RunningListed, WithDialog
<1>6. /\ Sound(x) /\ Frame(x, v) /\ SameQueue(x, v) /\ x.calls = v.calls
      /\ x.prefs = v.prefs /\ ~x.loading /\ x.shown = v.shown /\ x.debounce = v.debounce
      /\ Right(x)
  BY <1>2, LoadingEnds
<1>7. x.stray = v.stray
  BY <1>6 DEF Frame
<1>8. Sound(u) /\ u.stray = x.stray
  <2>1. CASE u = Failed(x)
    BY <1>6, <2>1, FailedDoes
  <2>2. CASE u = WithDialog(x, d, n)
    <3>1. Sound(x)
      BY <1>6
    <3> QED BY <2>2, <3>1, DialogKeeps
  <2> QED BY <1>5, <1>6, <2>1, <2>2
<1>9. ASSUME Free(v), ~v.debounce, ~v.focus, ~v.saving,
             v.prefs # NoRecord /\ Selected(v) => v.shown = v.selected
      PROVE  Order(u)
  <2>1. Order(x)
    BY <1>2, <1>9, LoadingEndsOrder
  <2>2. ~x.debounce /\ ~x.focus /\ ~x.saving /\ x.gen = v.gen /\ ~Prompted(x)
    BY <1>6, <1>9 DEF Frame, SameQueue, Free, Prompted
  <2>3. Free(x)
    BY <1>6, <2>1, <2>2 DEF Free, Order, Turns
  <2>4. x.prefs # NoRecord /\ Selected(x) => x.shown = x.selected
    BY <2>1 DEF Order, Shows, Seen
  <2>5. CASE u = Failed(x)
    BY <1>6, <2>2, <2>3, <2>4, <2>5, FailedDoes
  <2>6. CASE u = WithDialog(x, d, n) /\ v.prefs # NoRecord
    <3>1. n <= x.gen /\ x.prefs # NoRecord
      BY <1>3, <1>6, <2>2, <2>6
    <3> QED BY <1>6, <2>1, <2>2, <2>6, <3>1, DialogKeeps
  <2> QED BY <1>5, <2>1, <2>5, <2>6
<1> QED BY <1>7, <1>8, <1>9

LEMMA RevokeSucceededDoes ==
  ASSUME NEW v, Sound(v), NEW c, NEW u, u = RevokeSucceeded(v, c)
  PROVE  /\ Sound(u) /\ u.stray = v.stray
         /\ /\ Free(v) /\ v.prefs # NoRecord /\ Turns(v) /\ Shows(v) /\ Right(v)
            /\ Selected(v) => c.uid = v.selected
            => Order(u)
<1>1. PICK yes \in BOOLEAN : yes = TRUE
  OBVIOUS
<1>2. PICK no \in BOOLEAN : no = FALSE
  OBVIOUS
<1>3. PICK x : x = SetSensitive([v EXCEPT !.loading = FALSE], yes)
  OBVIOUS
<1>8. u = IF c.uid # v.selected THEN v
          ELSE LoadTimeStatus(SetSensitive([v EXCEPT !.loading = FALSE], TRUE), FALSE)
  BY DEF RevokeSucceeded
<1>4. \/ c.uid # v.selected /\ u = v
      \/ u = LoadTimeStatus(x, no)
  BY <1>1, <1>2, <1>3, <1>8
<1>5. /\ Sound(x) /\ Frame(x, v)
  BY <1>3, LoadingEnds
<1>6. CASE u = LoadTimeStatus(x, no)
  <2>1. Sound(u) /\ u.stray = v.stray /\ (Order(x) => Order(u))
    BY <1>5, <1>6, LoadTimeStatusKeeps DEF Frame
  <2>2. ASSUME Free(v), v.prefs # NoRecord, Shows(v) PROVE Order(x)
    BY <1>3, <2>2, LoadingEndsOrder DEF Shows, Seen
  <2> QED BY <2>1, <2>2
<1>7. CASE c.uid # v.selected /\ u = v
  <2>1. ASSUME Free(v), Turns(v), Shows(v), Right(v), Selected(v) => c.uid = v.selected
        PROVE  Order(u)
    <3>1. Waits(v)
      BY <1>7, <2>1 DEF Waits
    <3> QED BY <1>7, <2>1, <3>1 DEF Order, Free
  <2> QED BY <1>7, <2>1
<1> QED BY <1>4, <1>6, <1>7

-----------------------------------------------------------------------------
\* Answers to saves.

LEMMA PendingTyped ==
  ASSUME NEW v \in Window, NEW q \in Seq(Saves), NEW u, u = [v EXCEPT !.pending = q]
  PROVE  u \in Window
  BY DEF Window

LEMMA TailTyped == ASSUME NEW S, NEW q \in Seq(S), q # <<>> PROVE Tail(q) \in Seq(S)
  OBVIOUS

LEMMA PutTail ==
  ASSUME NEW v \in Window, v.pending # <<>>, NEW u, u = [v EXCEPT !.pending = Tail(@)]
  PROVE  /\ u \in Window /\ Frame(u, v) /\ SameRecord(u, v) /\ SameLooks(u, v)
         /\ u.active = v.active /\ u.saving = v.saving /\ u.pending = Tail(v.pending)
         /\ u.calls = v.calls
<1>1. v.pending \in Seq(Saves)
  BY DEF Window
<1>6. Tail(v.pending) \in Seq(Saves)
  BY <1>1, TailTyped
<1>2. PICK q \in Seq(Saves) : q = Tail(v.pending)
  BY <1>6
<1>3. u = [v EXCEPT !.pending = q]
  BY <1>2 DEF Window
<1>4. u \in Window
  BY <1>3, PendingTyped
<1>5. /\ Frame(u, v) /\ SameRecord(u, v) /\ SameLooks(u, v)
      /\ u.active = v.active /\ u.saving = v.saving /\ u.pending = Tail(v.pending)
      /\ u.calls = v.calls
  BY <1>2, <1>3 DEF Window, Frame, SameRecord, SameLooks
<1> QED BY <1>4, <1>5

LEMMA PutRestore ==
  ASSUME NEW v \in Window, NEW c \in Children \cup {NoChild}, NEW u, u = [v EXCEPT !.restore = c]
  PROVE  /\ u \in Window /\ Frame(u, v) /\ SameQueue(u, v) /\ SameLooks(u, v)
         /\ u.prefs = v.prefs /\ u.loading = v.loading /\ u.shown = v.shown
         /\ u.restore = c /\ u.calls = v.calls /\ u.debounce = v.debounce
<1>1. u \in Window
  BY DEF Window
<1>2. /\ Frame(u, v) /\ SameQueue(u, v) /\ SameLooks(u, v)
      /\ u.prefs = v.prefs /\ u.loading = v.loading /\ u.shown = v.shown
      /\ u.restore = c /\ u.calls = v.calls /\ u.debounce = v.debounce
  BY DEF Window, Frame, SameQueue, SameLooks
<1> QED BY <1>1, <1>2

LEMMA PutSaved ==
  ASSUME NEW v \in Window, NEW u, u = [v EXCEPT !.saving = FALSE, !.active = NoSave]
  PROVE  /\ u \in Window /\ Frame(u, v) /\ SameRecord(u, v) /\ SameLooks(u, v)
         /\ u.active = NoSave /\ ~u.saving /\ u.pending = v.pending
         /\ u.calls = v.calls
<1>1. u \in Window
  BY DEF Window
<1>2. /\ Frame(u, v) /\ SameRecord(u, v) /\ SameLooks(u, v)
      /\ u.active = NoSave /\ ~u.saving /\ u.pending = v.pending
      /\ u.calls = v.calls
  BY DEF Window, Frame, SameRecord, SameLooks
<1> QED BY <1>1, <1>2

\* Where the controls of the selected child are about to be restored.
Restores(v) ==
  v.pending = <<>> /\ v.restore = v.selected /\ v.prefs # NoRecord

LEMMA StartNextSaveDoes ==
  ASSUME NEW v, Sound(v), NEW u, u = StartNextSave(v)
  PROVE  /\ Sound(u) /\ u.stray = v.stray
         /\ Between(v) /\ v.active = NoSave /\ (Waits(v) \/ Restores(v)) =>
              \/ Order(u)
              \/ /\ ~u.saving
                 /\ Queue(u) /\ Gens(u) /\ Turns(u) /\ Shows(u) /\ Waits(u)
<1>1. v \in Window
  BY DEF Sound
<1>2. PICK no \in Children \cup {NoChild} : no = NoChild
  OBVIOUS
<1>3. PICK yes \in BOOLEAN : yes = TRUE
  OBVIOUS
<1>4. PICK y : y = [v EXCEPT !.restore = no]
  OBVIOUS
<1>5. PICK z : z = [y EXCEPT !.loading = yes]
  OBVIOUS
<1>6. PICK t : t = [v EXCEPT !.pending = Tail(@)]
  OBVIOUS
<1>7. \/ v.pending # <<>> /\ u = StartSave(t, Head(v.pending))
      \/ v.pending = <<>> /\ v.prefs # NoRecord /\ u = PreferencesLoaded(z, v.prefs)
      \/ v.pending = <<>> /\ u = y /\ (Restores(v) => ~Selected(v))
  BY Zenon, <1>2, <1>3, <1>4, <1>5, <1>6 DEF StartNextSave, Restores, Selected
<1>8. /\ y \in Window /\ Frame(y, v) /\ SameQueue(y, v) /\ SameLooks(y, v)
      /\ y.prefs = v.prefs /\ y.loading = v.loading /\ y.shown = v.shown
      /\ y.calls = v.calls /\ y.debounce = v.debounce
  BY <1>1, <1>4, PutRestore
<1>9. Sound(y)
  BY <1>8, SoundKept, NoMore DEF Frame, SameLooks
<1>10. CASE v.pending # <<>> /\ u = StartSave(t, Head(v.pending))
  <2>1. /\ t \in Window /\ Frame(t, v) /\ SameRecord(t, v) /\ SameLooks(t, v)
        /\ t.active = v.active /\ t.saving = v.saving /\ t.pending = Tail(v.pending)
        /\ t.calls = v.calls
    BY <1>1, <1>6, <1>10, PutTail
  <2>2. v.pending \in Seq(Saves)
    BY <1>1 DEF Window
  <2>3. PICK s \in Saves : s = Head(v.pending) /\ s = v.pending[1]
    BY <1>10, <2>2
  <2>4. 1 \in DOMAIN v.pending
    BY <1>10, <2>2
  <2>5. s.uid \in Children
    BY <2>3, <2>4 DEF Sound
  <2>6. \A i \in DOMAIN t.pending : i + 1 \in DOMAIN v.pending /\ t.pending[i] = v.pending[i + 1]
    BY <1>10, <2>1, <2>2
  <2>7. Sound(t)
    BY <2>1, <2>6 DEF Sound, Frame, SameRecord, SameLooks, Selected
  <2>8. u = StartSave(t, s)
    BY <1>10, <2>3
  <2>9. Sound(u) /\ Frame(u, t)
    BY <2>5, <2>7, <2>8, StartSaveSound
  <2>10. ASSUME Between(v), v.active = NoSave, Waits(v) \/ Restores(v) PROVE Order(u)
    <3>1. \A x : Of(v, x) => Of(t, x)
      BY <2>1 DEF Of, Frame, SameRecord
    <3>2. Of(t, s)
      BY <2>3, <2>4, <2>10, <3>1 DEF Between
    <3>3. \A i \in DOMAIN t.pending : Of(t, t.pending[i])
      BY <2>6, <2>10, <3>1 DEF Between
    <3>4. Waits(t)
      BY <1>10, <2>1, <2>10 DEF Waits, Restores, Current, Selected, Frame, SameRecord
    <3>5. Gens(t) /\ ~Prompted(t) /\ Shows(t)
      BY <2>1, <2>10 DEF Between, Gens, Prompted, Shows, Seen, Selected, Frame, SameRecord
    <3>6. Turns(t) /\ \A c \in t.calls : Current(t, c) => c.op = "load"
      BY <2>1, <2>10 DEF Between, Turns, Current, Prompted, Selected, Frame, SameRecord
    <3>7. Between(t)
      BY <2>1, <2>10, <3>3, <3>5, <3>6 DEF Between
    <3> QED BY <2>5, <2>7, <2>8, <3>2, <3>4, <3>7, StartSaveKeeps
  <2> QED BY <2>1, <2>9, <2>10 DEF Frame
<1>11. CASE v.pending = <<>> /\ v.prefs # NoRecord /\ u = PreferencesLoaded(z, v.prefs)
  <2>1. PICK p \in Record : p = v.prefs
    BY <1>1, <1>11 DEF Window
  <2>2. u = PreferencesLoaded(z, p)
    BY <1>11, <2>1
  <2>3. /\ z \in Window /\ Frame(z, y) /\ SameQueue(z, y) /\ SameLooks(z, y)
        /\ z.prefs = y.prefs /\ z.loading
        /\ z.calls = y.calls /\ z.debounce = y.debounce
    BY <1>3, <1>5, <1>8, PutLoading
  <2>4. Sound(z)
    BY <1>9, <2>3, SoundKept, NoMore DEF Frame, SameLooks
  <2>5. /\ Sound(u) /\ u.stray = z.stray
        /\ z.loading /\ Free(z) /\ (z.debounce => z.focus) => Order(u)
    BY <2>2, <2>4, PreferencesLoadedDoes
  <2>6. ASSUME Between(v), v.active = NoSave PROVE Order(u)
    <3>1. /\ Frame(z, v) /\ SameQueue(z, v) /\ z.calls = v.calls /\ z.prefs = v.prefs
          /\ z.debounce = v.debounce
      BY <1>8, <2>3 DEF Frame, SameQueue
    <3>2. Queue(z)
      BY <1>11, <2>6, <3>1 DEF Queue, Between, SameQueue
    <3>3. \A c \in z.calls : ~Current(z, c)
      BY <1>11, <2>6, <3>1 DEF Between, Turns, Current, Frame
    <3>4. Gens(z) /\ ~Prompted(z) /\ (z.debounce => z.focus)
      BY <2>6, <3>1 DEF Between, Gens, Prompted, Frame, Shows
    <3> QED BY <2>3, <2>5, <3>2, <3>3, <3>4 DEF Free
  <2> QED BY <1>8, <2>3, <2>5, <2>6 DEF Frame
<1>12. CASE v.pending = <<>> /\ u = y /\ (Restores(v) => ~Selected(v))
  <2>1. u.stray = v.stray
    BY <1>8, <1>12 DEF Frame
  <2>2. ASSUME Between(v), v.active = NoSave, Waits(v) \/ Restores(v)
        PROVE  ~y.saving /\ Queue(y) /\ Gens(y) /\ Turns(y) /\ Shows(y) /\ Waits(y)
    <3>1. Alike(y, v) /\ MoreStatus(y, v) /\ v.gen \in Nat
      BY <1>1, <1>8, NoMore DEF Alike, Window
    <3>2. Queue(v) /\ Waits(v)
      BY <1>12, <2>2 DEF Between, Queue, Waits
    <3> QED BY <1>8, <2>2, <3>1, <3>2, Kept DEF Between, SameQueue
  <2> QED BY <1>9, <1>12, <2>1, <2>2
<1> QED BY <1>7, <1>10, <1>11, <1>12

LEMMA SaveEndedDoes ==
  ASSUME NEW v, Sound(v), NEW u, u = SaveEnded(v)
  PROVE  /\ Sound(u) /\ u.stray = v.stray
         /\ Between(v) /\ v.active = NoSave /\ (Waits(v) \/ Restores(v)) => Order(u)
<1>1. PICK x : x = StartNextSave(v)
  OBVIOUS
<1>2. PICK yes \in BOOLEAN : yes = TRUE
  OBVIOUS
<1>3. (x.saving /\ u = x) \/ (~x.saving /\ u = SetSensitive(x, yes))
  BY Zenon, <1>1, <1>2 DEF SaveEnded
<1>4. /\ Sound(x) /\ x.stray = v.stray
      /\ Between(v) /\ v.active = NoSave /\ (Waits(v) \/ Restores(v)) =>
           \/ Order(x)
           \/ /\ ~x.saving
              /\ Queue(x) /\ Gens(x) /\ Turns(x) /\ Shows(x) /\ Waits(x)
  BY <1>1, StartNextSaveDoes
<1>5. CASE x.saving /\ u = x
  BY <1>4, <1>5
<1>6. CASE ~x.saving /\ u = SetSensitive(x, yes)
  <2>1. Sound(u) /\ u.stray = x.stray
    BY <1>4, <1>6, SetSensitiveKeeps
  <2>2. /\ Frame(u, x) /\ SameQueue(u, x) /\ SameRecord(u, x) /\ u.calls = x.calls /\ Right(u)
    BY <1>4, <1>6, SetSensitiveDoes DEF Sound
  <2>3. Alike(u, x) /\ MoreStatus(u, x) /\ x.gen \in Nat /\ u.debounce = x.debounce
    BY <1>4, <2>2, NoMore DEF Alike, Sound, Window, SameRecord
  <2>4. /\ Queue(x) => Queue(u)
        /\ Gens(x) => Gens(u)
        /\ Turns(x) => Turns(u)
        /\ Shows(x) => Shows(u)
        /\ Waits(x) => Waits(u)
    BY <2>3, Kept
  <2> QED BY <1>4, <2>1, <2>2, <2>4 DEF Order
<1> QED BY <1>3, <1>5, <1>6

\* The answer to a save is taken: what is left of the queue may go on.
SaveTaken(v) ==
  /\ \A c \in v.calls : c.op # "save"
  /\ \A i \in DOMAIN v.pending : Of(v, v.pending[i])
  /\ Gens(v) /\ Turns(v) /\ Shows(v) /\ ~Prompted(v)
  /\ \A c \in v.calls : Current(v, c) => c.op = "load"

LEMMA BetweenKept ==
  ASSUME NEW v \in Window, NEW u, Same(u, v), MoreStatus(u, v)
  PROVE  /\ Between(v) => Between(u)
         /\ Waits(v) => Waits(u)
         /\ v.active = NoSave => u.active = NoSave
<1> USE DEF Same, Frame, SameQueue, SameRecord, MoreStatus
<1>1. Alike(u, v) /\ v.gen \in Nat
  BY DEF Alike, Window
<1>2. \A c \in u.calls : c.op # "status" => c \in v.calls
  OBVIOUS
<1>3. ASSUME Between(v) PROVE Between(u)
  <2>1. Gens(u) /\ Turns(u) /\ Shows(u)
    BY <1>1, <1>3, Kept DEF Between
  <2>2. ~u.saving /\ ~Prompted(u)
    BY <1>3 DEF Between, Prompted
  <2>3. \A c \in u.calls : c.op # "save" /\ (Current(u, c) => c.op = "load")
    BY <1>2, <1>3 DEF Between, Current
  <2>4. \A i \in DOMAIN u.pending : Of(u, u.pending[i])
    BY <1>3 DEF Between, Of
  <2> QED BY <2>1, <2>2, <2>3, <2>4 DEF Between
<1>4. (Waits(v) => Waits(u)) /\ (v.active = NoSave => u.active = NoSave)
  BY <1>1, Kept
<1> QED BY <1>3, <1>4

\* The window takes note that the save is over.
LEMMA SaveTakenEnds ==
  ASSUME NEW v, Sound(v), NEW u, u = [v EXCEPT !.saving = FALSE, !.active = NoSave]
  PROVE  /\ Sound(u) /\ Frame(u, v) /\ SameRecord(u, v) /\ SameLooks(u, v)
         /\ u.active = NoSave /\ u.pending = v.pending /\ u.calls = v.calls
         /\ SaveTaken(v) => Between(u)
         /\ Waits(v) => Waits(u)
<1>1. v \in Window
  BY DEF Sound
<1>2. /\ u \in Window /\ Frame(u, v) /\ SameRecord(u, v) /\ SameLooks(u, v)
      /\ u.active = NoSave /\ ~u.saving /\ u.pending = v.pending
      /\ u.calls = v.calls
  BY <1>1, PutSaved
<1>3. Sound(u)
  BY <1>2 DEF Sound, Frame, SameRecord, SameLooks, Selected
<1>4. ASSUME SaveTaken(v) PROVE Between(u)
  <2>1. Gens(u) /\ Turns(u) /\ Shows(u) /\ ~Prompted(u)
    BY <1>2, <1>4
    DEF SaveTaken, Gens, Turns, Shows, Seen, Prompted, Current, Selected, Frame, SameRecord
  <2>2. \A c \in u.calls : c.op # "save" /\ (Current(u, c) => c.op = "load")
    BY <1>2, <1>4 DEF SaveTaken, Current, Frame
  <2>3. \A i \in DOMAIN u.pending : Of(u, u.pending[i])
    BY <1>2, <1>4 DEF SaveTaken, Of, Frame, SameRecord
  <2> QED BY <1>2, <2>1, <2>2, <2>3 DEF Between
<1>5. Waits(v) => Waits(u)
  BY <1>2 DEF Waits, Current, Selected, Frame, SameRecord
<1> QED BY <1>2, <1>3, <1>4, <1>5

LEMMA SaveSucceededDoes ==
  ASSUME NEW v, Sound(v), NEW c, c.uid \in Children, c.prefs \in Record,
         NEW u, u = SaveSucceeded(v, c)
  PROVE  /\ Sound(u) /\ u.stray = v.stray
         /\ SaveTaken(v) /\ Waits(v) /\ (c.uid = v.selected => v.prefs # NoRecord) => Order(u)
<1>1. PICK no \in BOOLEAN : no = FALSE
  OBVIOUS
<1>2. PICK x : x = [v EXCEPT !.saving = FALSE, !.active = NoSave]
  OBVIOUS
<1>3. /\ Sound(x) /\ Frame(x, v) /\ SameRecord(x, v) /\ SameLooks(x, v)
      /\ x.active = NoSave /\ x.pending = v.pending /\ x.calls = v.calls
      /\ SaveTaken(v) => Between(x)
      /\ Waits(v) => Waits(x)
  BY <1>2, SaveTakenEnds
<1>4. PICK p \in Record : p = c.prefs
  OBVIOUS
<1>5. PICK y : y = IF c.uid = v.selected THEN [x EXCEPT !.prefs = p] ELSE x
  OBVIOUS
<1>6. y = [v EXCEPT !.saving = FALSE, !.active = NoSave,
                     !.prefs = IF c.uid = v.selected THEN c.prefs ELSE @]
  <2>1. v \in Window
    BY DEF Sound
  <2>2. CASE c.uid = v.selected
    BY <1>2, <1>4, <1>5, <2>1, <2>2 DEF Window
  <2>3. CASE c.uid # v.selected
    BY <1>2, <1>5, <2>1, <2>3 DEF Window
  <2> QED BY <2>2, <2>3
<1>7. PICK z : z = LoadTimeStatus(y, no)
  OBVIOUS
<1>8. u = SaveEnded(y) \/ u = SaveEnded(z)
  BY Zenon, <1>1, <1>6, <1>7 DEF SaveSucceeded
<1>9. Sound(y) /\ y.stray = v.stray
  <2>1. CASE y = x
    BY <1>3, <2>1 DEF Frame
  <2>2. CASE y = [x EXCEPT !.prefs = p]
    <3>1. /\ y \in Window /\ Frame(y, x) /\ SameQueue(y, x) /\ SameLooks(y, x)
          /\ y.prefs = p /\ y.calls = x.calls
      BY <1>3, <2>2, PutPrefs DEF Sound
    <3>2. y.prefs # NoRecord
      BY <3>1, RecordReal
    <3>3. Sound(y)
      BY <1>3, <3>1, <3>2, SoundKept, NoMore DEF Frame, SameLooks
    <3> QED BY <1>3, <3>1, <3>3 DEF Frame
  <2> QED BY <1>5, <2>1, <2>2
<1>10. ASSUME SaveTaken(v), Waits(v), c.uid = v.selected => v.prefs # NoRecord
       PROVE  Between(y) /\ Waits(y) /\ y.active = NoSave
  <2>1. CASE c.uid # v.selected
    BY <1>3, <1>5, <1>10, <2>1
  <2>2. CASE c.uid = v.selected
    <3>1. /\ y \in Window /\ Frame(y, x) /\ SameQueue(y, x)
          /\ y.prefs = p /\ y.loading = x.loading /\ y.shown = x.shown
          /\ y.calls = x.calls /\ y.debounce = x.debounce
      BY <1>3, <1>5, <2>2, PutPrefs DEF Sound
    <3>2. x.prefs # NoRecord /\ Between(x) /\ Waits(x)
      BY <1>3, <1>10, <2>2 DEF SameRecord
    <3>3. y.prefs # NoRecord
      BY <3>1, RecordReal
    <3> USE DEF Frame, SameQueue
    <3>4. Waits(y) /\ y.active = NoSave
      BY <1>3, <3>1, <3>2 DEF Waits, Current, Selected
    <3>5. \A d \in y.calls : ~Current(y, d)
      BY <3>1, <3>2 DEF Between, Turns, Current
    <3>6. Gens(y) /\ Turns(y) /\ Shows(y) /\ ~Prompted(y)
      BY <3>1, <3>2, <3>3, <3>5 DEF Between, Gens, Turns, Shows, Seen, Prompted, Selected
    <3>7. \A i \in DOMAIN y.pending : Of(y, y.pending[i])
      BY <3>1, <3>2, <3>3 DEF Between, Of
    <3> QED BY <3>1, <3>2, <3>4, <3>5, <3>6, <3>7 DEF Between
  <2> QED BY <2>1, <2>2
<1>11. CASE u = SaveEnded(y)
  BY <1>9, <1>10, <1>11, SaveEndedDoes
<1>12. CASE u = SaveEnded(z)
  <2>1. Sound(z) /\ z.stray = y.stray
    BY <1>7, <1>9, LoadTimeStatusKeeps
  <2>2. y \in Window /\ Same(z, y) /\ MoreStatus(z, y)
    BY <1>7, <1>9, LoadTimeStatusDoes DEF Sound
  <2>3. /\ Between(y) => Between(z)
        /\ Waits(y) => Waits(z)
        /\ y.active = NoSave => z.active = NoSave
    BY <2>2, BetweenKept
  <2> QED BY <1>9, <1>10, <1>12, <2>1, <2>3, SaveEndedDoes
<1> QED BY <1>8, <1>11, <1>12

LEMMA SaveFailedDoes ==
  ASSUME NEW v, Sound(v), NEW c, c.uid \in Children, NEW u, u = SaveFailed(v, c)
  PROVE  /\ Sound(u) /\ u.stray = v.stray
         /\ /\ SaveTaken(v)
            /\ \/ Waits(v)
               \/ /\ v.pending = <<>> /\ v.prefs # NoRecord
                  /\ Selected(v) => c.uid = v.selected
            => Order(u)
<1>1. PICK x : x = [v EXCEPT !.saving = FALSE, !.active = NoSave]
  OBVIOUS
<1>2. /\ Sound(x) /\ Frame(x, v) /\ SameRecord(x, v) /\ SameLooks(x, v)
      /\ x.active = NoSave /\ x.pending = v.pending /\ x.calls = v.calls
      /\ SaveTaken(v) => Between(x)
      /\ Waits(v) => Waits(x)
  BY <1>1, SaveTakenEnds
<1>3. PICK d \in Children \cup {NoChild} : d = c.uid
  OBVIOUS
<1>4. PICK y : y = IF c.uid = v.selected THEN [x EXCEPT !.restore = d] ELSE x
  OBVIOUS
<1>5. y = [v EXCEPT !.saving = FALSE, !.active = NoSave,
                     !.restore = IF c.uid = v.selected THEN c.uid ELSE @]
  <2>1. v \in Window
    BY DEF Sound
  <2>2. CASE c.uid = v.selected
    BY <1>1, <1>3, <1>4, <2>1, <2>2 DEF Window
  <2>3. CASE c.uid # v.selected
    BY <1>1, <1>4, <2>1, <2>3 DEF Window
  <2> QED BY <2>2, <2>3
<1>6. u = SaveEnded(y)
  BY Zenon, <1>5 DEF SaveFailed
<1>7. /\ y \in Window /\ Sound(y) /\ Frame(y, x) /\ SameQueue(y, x)
      /\ y.prefs = x.prefs /\ y.loading = x.loading /\ y.shown = x.shown
      /\ y.calls = x.calls /\ y.debounce = x.debounce
      /\ c.uid = v.selected => y.restore = c.uid
  <2>1. CASE c.uid = v.selected
    <3>1. /\ y \in Window /\ Frame(y, x) /\ SameQueue(y, x) /\ SameLooks(y, x)
          /\ y.prefs = x.prefs /\ y.loading = x.loading /\ y.shown = x.shown
          /\ y.restore = d /\ y.calls = x.calls /\ y.debounce = x.debounce
      BY <1>2, <1>4, <2>1, PutRestore DEF Sound
    <3>2. Sound(y)
      BY <1>2, <3>1, SoundKept, NoMore DEF Frame, SameLooks
    <3> QED BY <1>3, <3>1, <3>2
  <2>2. CASE c.uid # v.selected
    BY <1>2, <1>4, <2>2 DEF Sound, Frame, SameQueue
  <2> QED BY <2>1, <2>2
<1>8. Sound(u) /\ u.stray = v.stray
  BY <1>2, <1>6, <1>7, SaveEndedDoes DEF Frame
<1>9. ASSUME SaveTaken(v),
             Waits(v) \/ (/\ v.pending = <<>> /\ v.prefs # NoRecord
                          /\ Selected(v) => c.uid = v.selected)
      PROVE  Order(u)
  <2>1. Alike(y, x) /\ MoreStatus(y, x) /\ x.gen \in Nat
    BY <1>2, <1>7, NoMore DEF Alike, Sound, Window
  <2>2. Between(x)
    BY <1>2, <1>9
  <2>3. Gens(y) /\ Turns(y) /\ Shows(y) /\ (Waits(x) => Waits(y))
    BY <1>7, <2>1, <2>2, Kept DEF Between
  <2>4. Between(y) /\ y.active = NoSave
    BY <1>2, <1>7, <2>2, <2>3 DEF Between, Of, Prompted, Current, Frame, SameQueue
  <2>5. Waits(y) \/ Restores(y)
    <3>1. CASE Waits(v)
      BY <1>2, <2>3, <3>1
    <3>2. CASE v.pending = <<>> /\ v.prefs # NoRecord /\ Selected(v) /\ c.uid = v.selected
      BY <1>2, <1>7, <3>2 DEF Restores, Frame, SameQueue, SameRecord
    <3>3. CASE ~Selected(v)
      BY <3>3, <1>2, <1>7 DEF Waits, Selected, Frame
    <3> QED BY <1>9, <3>1, <3>2, <3>3
  <2> QED BY <1>6, <1>7, <2>4, <2>5, SaveEndedDoes
<1> QED BY <1>8, <1>9

-----------------------------------------------------------------------------
\* Answers.

\* All but the calls and the ghost that says what was mixed up.
AsIs(u, v) ==
  /\ u.selected = v.selected /\ u.gen = v.gen /\ u.dialog = v.dialog /\ u.of = v.of
  /\ u.focus = v.focus
  /\ SameQueue(u, v) /\ SameRecord(u, v) /\ SameLooks(u, v)

WithCalls(v, cs, b) == [v EXCEPT !.calls = cs, !.stray = b]

LEMMA PutTaken ==
  ASSUME NEW v \in Window, NEW cs \in SUBSET Calls, NEW b \in BOOLEAN,
         NEW u, u = WithCalls(v, cs, b)
  PROVE  u \in Window /\ AsIs(u, v) /\ u.calls = cs /\ u.stray = b
<1>1. u \in Window
  BY DEF Window, WithCalls
<1>2. AsIs(u, v) /\ u.calls = cs /\ u.stray = b
  BY DEF Window, WithCalls, AsIs, SameQueue, SameRecord, SameLooks
<1> QED BY <1>1, <1>2

LEMMA TakenSound ==
  ASSUME Sound(w), NEW c \in w.calls, NEW ok \in BOOLEAN, NEW v, v = Taken(c, ok)
  PROVE  /\ Sound(v) /\ AsIs(v, w) /\ v.calls = w.calls \ {c}
         /\ v.stray <=> w.stray \/ Strays(c, ok)
<1>1. w \in Window /\ w.stray \in BOOLEAN /\ w.calls \subseteq Calls
  BY DEF Sound, Window
<1>2. PICK b \in BOOLEAN : b = (w.stray \/ Strays(c, ok))
  OBVIOUS
<1>3. PICK cs \in SUBSET Calls : cs = w.calls \ {c}
  BY <1>1
<1>4. v = WithCalls(w, cs, b)
  BY <1>2, <1>3 DEF Taken, WithCalls
<1>5. v \in Window /\ AsIs(v, w) /\ v.calls = cs /\ v.stray = b
  BY <1>1, <1>4, PutTaken
<1>6. Sound(v)
  BY <1>3, <1>5 DEF Sound, AsIs, SameQueue, SameRecord, SameLooks, Selected
<1> QED BY <1>2, <1>3, <1>5, <1>6

\* What is known of the window when an answer is taken from its calls.
LEMMA TakenOrder ==
  ASSUME Sound(w), Order(w), NEW c \in w.calls, NEW v, AsIs(v, w), v.calls = w.calls \ {c}
  PROVE  /\ Gens(v) /\ Turns(v) /\ Shows(v) /\ Right(v)
         /\ c.op # "save" => Queue(v)
         /\ ~Current(w, c) => Waits(v)
         /\ Current(w, c) =>
              /\ ~Prompted(v) /\ \A d \in v.calls : ~Current(v, d)
              /\ v.loading
              /\ Selected(v) => c.uid = v.selected
              /\ c.op = "load" => v.prefs = NoRecord
              /\ c.op # "load" => ~v.saving /\ v.pending = <<>>
              /\ c.op = "running" => ~v.focus
              /\ c.op = "revoke" => v.prefs # NoRecord
         /\ c.op = "save" =>
              /\ SaveTaken(v) /\ Waits(v)
              /\ c.gen = v.gen => v.prefs # NoRecord
<1> USE DEF AsIs, SameQueue, SameRecord, SameLooks
<1>1. Queue(w) /\ Gens(w) /\ Turns(w) /\ Shows(w) /\ Waits(w) /\ Right(w)
  BY DEF Order
<1>2. \A d \in v.calls : d \in w.calls /\ (Current(v, d) <=> Current(w, d))
  BY DEF Current
<1>3. Gens(v)
  BY <1>1 DEF Gens
<1>4. Turns(v)
  BY <1>1, <1>2 DEF Turns, Prompted, Selected
<1>5. Shows(v)
  BY <1>1 DEF Shows, Seen, Selected
<1>6. Right(v)
  BY <1>1, RightKept
<1>7. c.op # "save" => Queue(v)
  BY <1>1 DEF Queue, Of
<1>8. ~Current(w, c) => Waits(v)
  BY <1>1, <1>2 DEF Waits, Selected
<1>9. ASSUME Current(w, c)
      PROVE  /\ ~Prompted(v) /\ \A d \in v.calls : ~Current(v, d)
             /\ v.loading
             /\ Selected(v) => c.uid = v.selected
             /\ c.op = "load" => v.prefs = NoRecord
             /\ c.op # "load" => ~v.saving /\ v.pending = <<>>
             /\ c.op = "running" => ~v.focus
             /\ c.op = "revoke" => v.prefs # NoRecord
  <2>1. \A d \in v.calls : ~Current(v, d)
    BY <1>1, <1>2, <1>9 DEF Turns
  <2>2. w.loading /\ ~Prompted(v)
    BY <1>1, <1>9 DEF Turns, Prompted
  <2>3. c.op # "load" => ~v.saving /\ v.pending = <<>>
    BY <1>1, <1>9 DEF Turns, Queue
  <2> QED BY <1>1, <1>9, <2>1, <2>2, <2>3 DEF Turns, Selected
<1>10. ASSUME c.op = "save"
       PROVE  SaveTaken(v) /\ Waits(v) /\ (c.gen = v.gen => v.prefs # NoRecord)
  <2>1. w.saving /\ c.save = w.active /\ Of(w, w.active)
    BY <1>1, <1>10 DEF Queue
  <2>2. c.gen = v.gen => v.prefs # NoRecord
    BY <1>10, <2>1 DEF Sound, CallOK, Of
  <2>3. \A d \in v.calls : d.op # "save"
    BY <1>1, <1>10 DEF Queue
  <2>4. \A i \in DOMAIN v.pending : Of(v, v.pending[i])
    BY <1>1 DEF Queue, Of
  <2>5. ~Prompted(v)
    BY <1>1, <2>1 DEF Turns, Prompted
  <2>6. \A d \in v.calls : Current(v, d) => d.op = "load"
    BY <1>1, <1>2, <2>1 DEF Turns
  <2>7. Waits(v)
    BY <1>8, <1>10 DEF Current
  <2> QED BY <1>3, <1>4, <1>5, <2>2, <2>3, <2>4, <2>5, <2>6, <2>7 DEF SaveTaken
<1> QED BY <1>3, <1>4, <1>5, <1>6, <1>7, <1>8, <1>9, <1>10

LEMMA LoadedDoes ==
  ASSUME Sound(w), NEW c \in w.calls, c.op = "load", c.done,
         NEW v, v = Taken(c, TRUE), NEW u, u = Loaded(v, c)
  PROVE  /\ Sound(u) /\ u.stray = v.stray
         /\ Order(w) => Order(u)
<1>1. PICK ok \in BOOLEAN : ok = TRUE
  OBVIOUS
<1>2. Sound(v) /\ AsIs(v, w) /\ v.calls = w.calls \ {c}
  BY <1>1, TakenSound
<1>3. PICK p \in Record : p = c.prefs
  BY DEF Sound, CallOK
<1>4. \/ u = v /\ (c.gen # v.gen \/ c.uid # v.selected)
      \/ u = PreferencesLoaded(v, p) /\ c.gen = v.gen
  BY Zenon, <1>3 DEF Loaded
<1>5. CASE u = v /\ (c.gen # v.gen \/ c.uid # v.selected)
  <2>1. ASSUME Order(w) PROVE Order(v)
    <3>1. Gens(v) /\ Turns(v) /\ Shows(v) /\ Right(v) /\ Queue(v)
      BY <1>2, <2>1, TakenOrder
    <3>2. CASE c.gen # v.gen
      <4>1. ~Current(w, c)
        BY <1>2, <3>2 DEF Current, AsIs
      <4> QED BY <1>2, <2>1, <3>1, <4>1, TakenOrder DEF Order
    <3>3. CASE c.gen = v.gen
      <4>1. Current(w, c)
        BY <1>2, <3>3 DEF Current, AsIs
      <4>2. ~Selected(v)
        BY <1>2, <1>5, <2>1, <3>3, <4>1, TakenOrder
      <4> QED BY <3>1, <4>2 DEF Order, Waits
    <3> QED BY <3>2, <3>3
  <2> QED BY <1>2, <1>5, <2>1
<1>6. CASE u = PreferencesLoaded(v, p) /\ c.gen = v.gen
  <2>1. /\ Sound(u) /\ u.stray = v.stray
        /\ v.loading /\ Free(v) /\ (v.debounce => v.focus) => Order(u)
    BY <1>2, <1>6, PreferencesLoadedDoes
  <2>2. ASSUME Order(w) PROVE v.loading /\ Free(v) /\ (v.debounce => v.focus)
    <3>1. Current(w, c)
      BY <1>2, <1>6 DEF Current, AsIs
    <3> QED BY <1>2, <2>2, <3>1, TakenOrder DEF Free, Shows
  <2> QED BY <2>1, <2>2
<1> QED BY <1>4, <1>5, <1>6

LEMMA StatusAnswered ==
  ASSUME Sound(w), NEW c \in w.calls, c.op = "status", NEW ok \in BOOLEAN,
         NEW v, v = Taken(c, ok), NEW u, u \in {StatusLoaded(v, c), StatusFailed(v, c)}
  PROVE  Sound(u) /\ u.stray = v.stray /\ (Order(w) => Order(u))
<1>1. Sound(v) /\ AsIs(v, w) /\ v.calls = w.calls \ {c}
  BY TakenSound
<1>2. Sound(u) /\ u.stray = v.stray /\ (Order(v) => Order(u))
  <2>1. CASE u = StatusLoaded(v, c)
    BY <1>1, <2>1, StatusLoadedDoes
  <2>2. CASE u = StatusFailed(v, c)
    BY <1>1, <2>2, StatusFailedDoes
  <2> QED BY <2>1, <2>2
<1>3. ~Current(w, c)
  BY DEF Current
<1>4. Order(w) => Order(v)
  BY <1>1, <1>3, TakenOrder DEF Order
<1> QED BY <1>2, <1>4

\* An answer that is not stray belongs to the current load.
LEMMA RunningAnswered ==
  ASSUME Sound(w), NEW c \in w.calls, c.op = "running",
         NEW v, v = Taken(c, TRUE), NEW u, u = RunningListed(v, c)
  PROVE  /\ Sound(u) /\ u.stray = v.stray
         /\ Order(w) /\ ~v.stray => Order(u)
<1>1. PICK ok \in BOOLEAN : ok = TRUE
  OBVIOUS
<1>2. Sound(v) /\ AsIs(v, w) /\ v.calls = w.calls \ {c} /\ (v.stray <=> w.stray \/ Strays(c, ok))
  BY <1>1, TakenSound
<1>3. c.uid \in Children
  BY DEF Sound, CallOK
<1>4. /\ Sound(u) /\ u.stray = v.stray
      /\ /\ Free(v) /\ ~v.debounce /\ ~v.focus /\ ~v.saving
         /\ v.prefs # NoRecord /\ Selected(v) => v.shown = v.selected
         => Order(u)
  BY <1>2, <1>3, RunningListedDoes
<1>5. ASSUME Order(w), ~v.stray
      PROVE  /\ Free(v) /\ ~v.debounce /\ ~v.focus /\ ~v.saving
             /\ v.prefs # NoRecord /\ Selected(v) => v.shown = v.selected
  <2>1. Current(w, c)
    BY <1>2, <1>5 DEF Strays, Current
  <2> QED BY <1>2, <1>5, <2>1, TakenOrder DEF Free, Shows, Seen
<1> QED BY <1>4, <1>5

LEMMA RevokeAnswered ==
  ASSUME Sound(w), NEW c \in w.calls, c.op = "revoke",
         NEW v, v = Taken(c, TRUE), NEW u, u = RevokeSucceeded(v, c)
  PROVE  /\ Sound(u) /\ u.stray = v.stray
         /\ Order(w) /\ ~v.stray => Order(u)
<1>1. PICK ok \in BOOLEAN : ok = TRUE
  OBVIOUS
<1>2. Sound(v) /\ AsIs(v, w) /\ v.calls = w.calls \ {c} /\ (v.stray <=> w.stray \/ Strays(c, ok))
  BY <1>1, TakenSound
<1>3. /\ Sound(u) /\ u.stray = v.stray
      /\ /\ Free(v) /\ v.prefs # NoRecord /\ Turns(v) /\ Shows(v) /\ Right(v)
         /\ Selected(v) => c.uid = v.selected
         => Order(u)
  BY <1>2, RevokeSucceededDoes
<1>4. ASSUME Order(w), ~v.stray
      PROVE  /\ Free(v) /\ v.prefs # NoRecord /\ Turns(v) /\ Shows(v) /\ Right(v)
             /\ Selected(v) => c.uid = v.selected
  <2>1. Current(w, c)
    BY <1>2, <1>4 DEF Strays, Current
  <2> QED BY <1>2, <1>4, <2>1, TakenOrder DEF Free
<1> QED BY <1>3, <1>4

LEMMA SaveAnswered ==
  ASSUME Sound(w), NEW c \in w.calls, c.op = "save", c.done,
         NEW v, v = Taken(c, TRUE), NEW u, u = SaveSucceeded(v, c)
  PROVE  /\ Sound(u) /\ u.stray = v.stray
         /\ Order(w) /\ ~v.stray => Order(u)
<1>1. PICK ok \in BOOLEAN : ok = TRUE
  OBVIOUS
<1>2. Sound(v) /\ AsIs(v, w) /\ v.calls = w.calls \ {c} /\ (v.stray <=> w.stray \/ Strays(c, ok))
  BY <1>1, TakenSound
<1>3. c.uid \in Children /\ c.prefs \in Record
  BY DEF Sound, CallOK
<1>4. /\ Sound(u) /\ u.stray = v.stray
      /\ SaveTaken(v) /\ Waits(v) /\ (c.uid = v.selected => v.prefs # NoRecord) => Order(u)
  BY <1>2, <1>3, SaveSucceededDoes
<1>5. ASSUME Order(w), ~v.stray
      PROVE  SaveTaken(v) /\ Waits(v) /\ (c.uid = v.selected => v.prefs # NoRecord)
  <2>1. c.uid = w.selected => c.gen = w.gen
    BY <1>2, <1>5 DEF Strays
  <2>2. v.selected = w.selected /\ v.gen = w.gen
    BY <1>2 DEF AsIs
  <2>3. SaveTaken(v) /\ Waits(v) /\ (c.gen = v.gen => v.prefs # NoRecord)
    BY <1>2, <1>5, TakenOrder
  <2> QED BY <2>1, <2>2, <2>3
<1> QED BY <1>4, <1>5

LEMMA SaveOrRevokeFails ==
  ASSUME Sound(w), NEW c \in w.calls, c.op \in {"save", "revoke"},
         NEW v, v = Taken(c, FALSE), NEW u, u = SaveFailed(v, c)
  PROVE  /\ Sound(u) /\ u.stray = v.stray
         /\ Order(w) /\ ~v.stray => Order(u)
<1>1. PICK ok \in BOOLEAN : ok = FALSE
  OBVIOUS
<1>2. Sound(v) /\ AsIs(v, w) /\ v.calls = w.calls \ {c} /\ (v.stray <=> w.stray \/ Strays(c, ok))
  BY <1>1, TakenSound
<1>3. c.uid \in Children
  BY DEF Sound, CallOK
<1>4. /\ Sound(u) /\ u.stray = v.stray
      /\ /\ SaveTaken(v)
         /\ \/ Waits(v)
            \/ /\ v.pending = <<>> /\ v.prefs # NoRecord
               /\ Selected(v) => c.uid = v.selected
         => Order(u)
  BY <1>2, <1>3, SaveFailedDoes
<1>5. CASE c.op = "save"
  BY <1>2, <1>4, <1>5, TakenOrder
<1>6. ASSUME c.op = "revoke", Order(w), ~v.stray
      PROVE  /\ SaveTaken(v)
             /\ v.pending = <<>> /\ v.prefs # NoRecord
             /\ Selected(v) => c.uid = v.selected
  <2>1. Current(w, c)
    BY <1>2, <1>6 DEF Strays, Current
  <2>2. /\ Gens(v) /\ Turns(v) /\ Shows(v) /\ Queue(v) /\ ~Prompted(v)
        /\ \A d \in v.calls : ~Current(v, d)
        /\ ~v.saving /\ v.pending = <<>> /\ v.prefs # NoRecord
        /\ Selected(v) => c.uid = v.selected
    BY <1>2, <1>6, <2>1, TakenOrder
  <2>3. SaveTaken(v)
    BY <2>2 DEF SaveTaken, Queue
  <2> QED BY <2>2, <2>3
<1> QED BY <1>4, <1>5, <1>6

LEMMA OtherFails ==
  ASSUME Sound(w), NEW c \in w.calls, c.op \in {"load", "running"},
         NEW v, v = Taken(c, FALSE), NEW u, u = Failed(v)
  PROVE  /\ Sound(u) /\ u.stray = v.stray
         /\ Order(w) /\ ~v.stray => Order(u)
<1>1. PICK ok \in BOOLEAN : ok = FALSE
  OBVIOUS
<1>2. Sound(v) /\ AsIs(v, w) /\ v.calls = w.calls \ {c} /\ (v.stray <=> w.stray \/ Strays(c, ok))
  BY <1>1, TakenSound
<1>3. /\ Sound(u) /\ u.stray = v.stray
      /\ /\ Free(v) /\ (v.debounce => v.focus)
         /\ v.prefs # NoRecord /\ Selected(v) => v.shown = v.selected
         /\ v.prefs = NoRecord /\ Selected(v) => ~v.focus
         => Order(u)
  BY <1>2, FailedDoes
<1>4. ASSUME Order(w), ~v.stray
      PROVE  /\ Free(v) /\ (v.debounce => v.focus)
             /\ v.prefs # NoRecord /\ Selected(v) => v.shown = v.selected
             /\ v.prefs = NoRecord /\ Selected(v) => ~v.focus
  <2>1. Current(w, c)
    BY <1>1, <1>2, <1>4 DEF Strays, Current
  <2>2. c.op = "load" => ~w.focus
    BY <1>1, <1>2, <1>4 DEF Strays
  <2>3. ~v.focus
    BY <1>2, <1>4, <2>1, <2>2, TakenOrder DEF AsIs
  <2> QED BY <1>2, <1>4, <2>1, <2>3, TakenOrder DEF Free, Shows, Seen
<1> QED BY <1>3, <1>4

\* A step keeps the windows in order and forgets no mixed up answer, unless it closes
\* the window.
InStep == IInv' /\ ((w.stray => w'.stray) \/ w' = Closed)

LEMMA ReplyKeeps ==
  ASSUME IInv, NEW c \in w.calls, Reply(c)
  PROVE  InStep
<1>1. c.op \in {"load", "status", "running", "revoke", "save"}
  BY DEF IInv, Sound, Window, Calls
<1>2. PICK v : v = Taken(c, TRUE)
  OBVIOUS
<1>3. w.stray => v.stray
  <2>1. TRUE \in BOOLEAN
    OBVIOUS
  <2> QED BY <1>2, <2>1, TakenSound DEF IInv
<1>4. Sound(w') /\ w'.stray = v.stray /\ (Order(w) /\ ~v.stray => Order(w'))
  <2>1. CASE c.op = "load"
    <3>1. w' = Loaded(v, c) /\ c.done
      BY <1>2, <2>1 DEF Reply
    <3> QED BY <1>2, <2>1, <3>1, LoadedDoes DEF IInv
  <2>2. CASE c.op = "status"
    <3>1. w' = StatusLoaded(v, c)
      BY <1>2, <2>2 DEF Reply
    <3>2. TRUE \in BOOLEAN
      OBVIOUS
    <3> QED BY <1>2, <2>2, <3>1, <3>2, StatusAnswered DEF IInv
  <2>3. CASE c.op = "running"
    <3>1. w' = RunningListed(v, c)
      BY <1>2, <2>3 DEF Reply
    <3> QED BY <1>2, <2>3, <3>1, RunningAnswered DEF IInv
  <2>4. CASE c.op = "revoke"
    <3>1. w' = RevokeSucceeded(v, c)
      BY <1>2, <2>4 DEF Reply
    <3> QED BY <1>2, <2>4, <3>1, RevokeAnswered DEF IInv
  <2>5. CASE c.op = "save"
    <3>1. w' = SaveSucceeded(v, c) /\ c.done
      BY <1>2, <2>5 DEF Reply
    <3> QED BY <1>2, <2>5, <3>1, SaveAnswered DEF IInv
  <2> QED BY <1>1, <2>1, <2>2, <2>3, <2>4, <2>5
<1>5. TypeOK'
  BY <1>4 DEF Reply, IInv, TypeOK, Sound
<1> QED BY <1>3, <1>4, <1>5 DEF IInv, InStep

LEMMA FailKeeps ==
  ASSUME IInv, NEW c \in w.calls, Fail(c)
  PROVE  InStep
<1>1. c.op \in {"load", "status", "running", "revoke", "save"}
  BY DEF IInv, Sound, Window, Calls
<1>2. PICK v : v = Taken(c, FALSE)
  OBVIOUS
<1>3. w.stray => v.stray
  <2>1. FALSE \in BOOLEAN
    OBVIOUS
  <2> QED BY <1>2, <2>1, TakenSound DEF IInv
<1>4. Sound(w') /\ w'.stray = v.stray /\ (Order(w) /\ ~v.stray => Order(w'))
  <2>1. CASE c.op = "status"
    <3>1. w' = StatusFailed(v, c)
      BY <1>2, <2>1 DEF Fail
    <3>2. FALSE \in BOOLEAN
      OBVIOUS
    <3> QED BY <1>2, <2>1, <3>1, <3>2, StatusAnswered DEF IInv
  <2>2. CASE c.op \in {"save", "revoke"}
    <3>1. w' = SaveFailed(v, c)
      BY <1>2, <2>2 DEF Fail
    <3> QED BY <1>2, <2>2, <3>1, SaveOrRevokeFails DEF IInv
  <2>3. CASE c.op \in {"load", "running"}
    <3>1. w' = Failed(v)
      BY <1>2, <2>3 DEF Fail
    <3> QED BY <1>2, <2>3, <3>1, OtherFails DEF IInv
  <2> QED BY <1>1, <2>1, <2>2, <2>3
<1>5. c.uid \in Children
  BY DEF IInv, Sound, CallOK
<1>6. unsure' \subseteq Children /\ troubles' \in 0..MaxTroubles
  BY <1>5, BoundsAssumption DEF Fail, IInv, TypeOK
<1>7. TypeOK'
  BY <1>4, <1>6 DEF Fail, IInv, TypeOK, Sound
<1> QED BY <1>3, <1>4, <1>7 DEF IInv, InStep

-----------------------------------------------------------------------------
\* The broker serves a call: of the window only what its calls hold changes.

WithAnswers(v, cs, st) == [v EXCEPT !.calls = cs, !.status = st]

LEMMA PutCalls ==
  ASSUME NEW v \in Window, NEW cs \in SUBSET Calls, NEW st \in {"none", "fresh", "stale"},
         NEW u, u = WithAnswers(v, cs, st)
  PROVE  u \in Window /\ Same(u, v) /\ u.calls = cs
<1>1. u \in Window
  BY DEF Window, WithAnswers
<1>2. Same(u, v) /\ u.calls = cs
  BY DEF Window, WithAnswers, Same, Frame, SameQueue, SameRecord, SameLooks
<1> QED BY <1>1, <1>2

LEMMA MappedKeeps ==
  ASSUME NEW v, Sound(v), NEW u \in Window, Same(u, v),
         NEW f, u.calls = {f[e] : e \in v.calls},
         \A e \in v.calls : /\ CallOK(f[e])
                            /\ f[e].op = e.op /\ f[e].uid = e.uid
                            /\ f[e].gen = e.gen /\ f[e].save = e.save
  PROVE  Sound(u) /\ u.stray = v.stray /\ (Order(v) => Order(u))
<1> USE DEF Same, Frame, SameQueue, SameRecord, SameLooks
<1>1. Sound(u)
  BY DEF Sound, Selected
<1>2. \A e \in v.calls : f[e] \in u.calls /\ (Current(u, f[e]) <=> Current(v, e))
  BY DEF Current
<1>3. ASSUME Order(v) PROVE Order(u)
  <2>1. Queue(u)
    <3>1. \A c \in u.calls : c.op = "save" => u.saving /\ c.save = u.active
      BY <1>3 DEF Order, Queue
    <3>2. \A c, d \in u.calls : c.op = "save" /\ d.op = "save" => c = d
      <4>1. TAKE c \in u.calls, d \in u.calls
      <4>2. PICK e \in v.calls : c = f[e]
        OBVIOUS
      <4>3. PICK g \in v.calls : d = f[g]
        OBVIOUS
      <4>4. c.op = "save" /\ d.op = "save" => e = g
        BY <1>3, <4>2, <4>3 DEF Order, Queue
      <4> QED BY <4>2, <4>3, <4>4
    <3>3. u.saving => \E c \in u.calls : c.op = "save"
      BY <1>2, <1>3 DEF Order, Queue
    <3> QED BY <1>3, <3>1, <3>2, <3>3 DEF Order, Queue, Of
  <2>2. Gens(u)
    BY <1>3 DEF Order, Gens
  <2>3. Turns(u)
    <3>1. ASSUME NEW c \in u.calls, Current(u, c)
          PROVE  /\ u.loading
                 /\ Selected(u) => c.uid = u.selected
                 /\ \A d \in u.calls : Current(u, d) => d = c
                 /\ c.op = "load" => u.prefs = NoRecord
                 /\ c.op # "load" => ~u.saving
                 /\ c.op = "running" => ~u.focus
                 /\ c.op = "revoke" => u.prefs # NoRecord
      <4>1. PICK e \in v.calls : c = f[e]
        OBVIOUS
      <4>2. Current(v, e)
        BY <1>2, <3>1, <4>1
      <4>3. \A d \in u.calls : Current(u, d) => d = c
        <5>1. TAKE d \in u.calls
        <5>2. PICK g \in v.calls : d = f[g]
          OBVIOUS
        <5>3. Current(u, d) => g = e
          BY <1>2, <1>3, <4>2, <5>2 DEF Order, Turns
        <5> QED BY <4>1, <5>2, <5>3
      <4>4. Turns(v)
        BY <1>3 DEF Order
      <4> QED BY <4>1, <4>2, <4>3, <4>4 DEF Turns, Selected
    <3> QED BY <1>3, <3>1 DEF Order, Turns, Prompted
  <2>4. Shows(u) /\ Right(u)
    BY <1>3, RightKept DEF Order, Shows, Seen, Selected
  <2>5. Waits(u)
    BY <1>2, <1>3 DEF Order, Waits, Selected
  <2> QED BY <2>1, <2>2, <2>3, <2>4, <2>5 DEF Order
<1> QED BY <1>1, <1>3

LEMMA WrittenTyped ==
  ASSUME TypeOK, NEW s \in Saves, s.uid \in Children
  PROVE  Written(s) \in Record
<1>1. record[s.uid] \in Record
  BY DEF TypeOK
<1>2. s.limit \in Limits /\ s.apps \in Apps /\ s.enabled \in BOOLEAN
  BY DEF Saves
<1>3. [record[s.uid] EXCEPT !.limit = s.limit, !.apps = s.apps] \in Record
  BY <1>1, <1>2 DEF Record
<1>4. [record[s.uid] EXCEPT !.enabled = s.enabled, !.limit = s.limit] \in Record
  BY <1>1, <1>2 DEF Record
<1> QED BY <1>3, <1>4 DEF Written

\* What the broker makes of the call it serves, and of any other.
ServedCall(c, reply) ==
  [c EXCEPT !.done = TRUE, !.prefs = reply, !.fresh = c.op = "status"]

LEMMA ServedTyped ==
  ASSUME NEW c \in Calls, CallOK(c), NEW p \in Record \cup {NoRecord},
         c.op \in {"load", "save"} => p \in Record,
         NEW d, d = ServedCall(c, p)
  PROVE  /\ d \in Calls /\ CallOK(d)
         /\ d.op = c.op /\ d.uid = c.uid /\ d.gen = c.gen /\ d.save = c.save
<1>1. PICK b \in BOOLEAN : b = (c.op = "status")
  OBVIOUS
<1>2. d = [c EXCEPT !.done = TRUE, !.prefs = p, !.fresh = b]
  BY <1>1 DEF ServedCall
<1>3. d \in Calls
  BY <1>2 DEF Calls
<1>4. d.op = c.op /\ d.uid = c.uid /\ d.gen = c.gen /\ d.save = c.save /\ d.prefs = p
  BY <1>2 DEF Calls
<1> QED BY <1>3, <1>4 DEF CallOK

LEMMA StaleTyped ==
  ASSUME NEW c \in Calls, CallOK(c), NEW d, d = [c EXCEPT !.fresh = FALSE]
  PROVE  /\ d \in Calls /\ CallOK(d)
         /\ d.op = c.op /\ d.uid = c.uid /\ d.gen = c.gen /\ d.save = c.save
<1>1. d \in Calls
  BY DEF Calls
<1>2. /\ d.op = c.op /\ d.uid = c.uid /\ d.gen = c.gen /\ d.save = c.save
      /\ d.prefs = c.prefs /\ d.done = c.done
  BY DEF Calls
<1> QED BY <1>1, <1>2 DEF CallOK

LEMMA ServeKeeps ==
  ASSUME IInv, NEW c \in w.calls, Serve(c)
  PROVE  InStep
<1>1. w \in Window /\ w.calls \subseteq Calls /\ \A e \in w.calls : CallOK(e)
  BY DEF IInv, Sound, Window
<1>2. c \in Calls /\ CallOK(c) /\ c.op \in {"load", "status", "running", "revoke", "save"}
  BY <1>1 DEF Calls
<1> DEFINE reply == CASE c.op = "load" -> record[c.uid]
                       [] c.op = "save" -> Written(c.save)
                       [] OTHER -> NoRecord
           changes == \/ c.op = "revoke"
                      \/ c.op = "save" /\ reply # [record[c.uid] EXCEPT !.apps = reply.apps]
<1>3. reply \in Record \cup {NoRecord} /\ (c.op \in {"load", "save"} => reply \in Record)
  <2>1. record[c.uid] \in Record
    BY <1>2 DEF CallOK, IInv, TypeOK
  <2>2. c.op = "save" => Written(c.save) \in Record
    BY <1>2, WrittenTyped DEF CallOK, IInv
  <2> QED BY <1>2, <2>1, <2>2
<1> DEFINE f == [d \in w.calls |-> IF d = c THEN ServedCall(c, reply)
                                   ELSE IF changes /\ d.uid = c.uid
                                   THEN [d EXCEPT !.fresh = FALSE] ELSE d]
           cs == {f[e] : e \in w.calls}
           st == IF changes /\ c.uid = w.selected /\ w.status = "fresh"
                 THEN "stale" ELSE w.status
<1>6. w' = [w EXCEPT
              !.calls = {IF changes /\ d.uid = c.uid THEN [d EXCEPT !.fresh = FALSE] ELSE d :
                           d \in w.calls \ {c}} \cup {ServedCall(c, reply)},
              !.status = IF changes /\ c.uid = w.selected /\ @ = "fresh"
                         THEN "stale" ELSE @]
  BY Zenon DEF Serve, ServedCall
<1>7. record' = IF c.op = "save" THEN [record EXCEPT ![c.uid] = reply] ELSE record
  BY Zenon DEF Serve
<1>8. UNCHANGED <<unsure, edits, troubles>>
  BY DEF Serve
<1> HIDE DEF reply, changes
<1>9. reply \in Record \cup {NoRecord} /\ (c.op \in {"load", "save"} => reply \in Record)
  BY <1>3
<1>10. cs = {IF changes /\ d.uid = c.uid THEN [d EXCEPT !.fresh = FALSE] ELSE d :
              d \in w.calls \ {c}} \cup {ServedCall(c, reply)}
  OBVIOUS
<1>11. w' = WithAnswers(w, cs, st)
  BY <1>1, <1>6, <1>10 DEF Window, WithAnswers
<1>12. ASSUME NEW e \in w.calls
       PROVE  /\ f[e] \in Calls /\ CallOK(f[e])
              /\ f[e].op = e.op /\ f[e].uid = e.uid
              /\ f[e].gen = e.gen /\ f[e].save = e.save
  <2>1. CASE e = c
    <3>1. f[e] = ServedCall(c, reply)
      BY <2>1
    <3> QED BY <1>2, <1>9, <2>1, <3>1, ServedTyped
  <2>2. CASE e # c /\ changes /\ e.uid = c.uid
    <3>1. f[e] = [e EXCEPT !.fresh = FALSE]
      BY <2>2
    <3>2. e \in Calls /\ CallOK(e)
      BY <1>1
    <3> QED BY <3>1, <3>2, StaleTyped
  <2>3. CASE e # c /\ ~(changes /\ e.uid = c.uid)
    <3>1. f[e] = e
      BY <2>3
    <3> QED BY <1>1, <3>1
  <2> QED BY <2>1, <2>2, <2>3
<1>13. st \in {"none", "fresh", "stale"}
  BY <1>1 DEF Window
<1> HIDE DEF f, st
<1>14. cs \in SUBSET Calls
  BY <1>12
<1>15. w' \in Window /\ Same(w', w) /\ w'.calls = cs
  BY <1>1, <1>11, <1>13, <1>14, PutCalls
<1>16. Sound(w') /\ w'.stray = w.stray /\ (Order(w) => Order(w'))
  BY <1>12, <1>15, MappedKeeps DEF IInv
<1>17. record' \in [Children -> Record]
  BY <1>2, <1>7, <1>9 DEF IInv, TypeOK, CallOK
<1>18. TypeOK'
  BY <1>8, <1>15, <1>17 DEF IInv, TypeOK
<1> QED BY <1>16, <1>18 DEF IInv, InStep

-----------------------------------------------------------------------------
\* The other steps.

LEMMA Conclude ==
  ASSUME IInv, UNCHANGED <<record, unsure>>,
         edits' \in 0..MaxEdits, troubles' \in 0..MaxTroubles,
         Sound(w'), w'.stray = w.stray, Order(w) => Order(w')
  PROVE  InStep
  BY DEF IInv, TypeOK, Sound, InStep

LEMMA StepsConclude ==
  ASSUME IInv, NEW v, Steps(v), Sound(v), v.stray = w.stray, Order(w) => Order(v)
  PROVE  InStep
  BY Conclude DEF Steps, IInv, TypeOK

LEMMA EditConcludes ==
  ASSUME IInv, NEW v, Edit(v), Sound(v), v.stray = w.stray, Order(w) => Order(v)
  PROVE  InStep
<1>1. edits' \in 0..MaxEdits
  BY BoundsAssumption DEF Edit, IInv, TypeOK
<1> QED BY <1>1, Conclude DEF Edit, IInv, TypeOK

LEMMA UsersAnswerKeeps == ASSUME IInv, UsersAnswer PROVE InStep
<1>1. CASE \E us \in SUBSET Children : Steps(UsersLoaded(w, us))
  <2>1. PICK us \in SUBSET Children : Steps(UsersLoaded(w, us))
    BY <1>1
  <2>2. PICK v : v = UsersLoaded(w, us)
    OBVIOUS
  <2>3. Sound(v) /\ v.stray = w.stray /\ (Order(w) => Order(v))
    BY <2>2, UsersLoadedDoes DEF IInv
  <2> QED BY <2>1, <2>2, <2>3, StepsConclude
<1>2. CASE /\ troubles < MaxTroubles /\ troubles' = troubles + 1
           /\ \E denied \in BOOLEAN : w' = UsersFailed(w, denied)
           /\ UNCHANGED <<record, unsure, edits>>
  <2>1. w' = w \/ w' = Closed
    BY <1>2 DEF UsersFailed
  <2>2. troubles' \in 0..MaxTroubles /\ edits' \in 0..MaxEdits
    BY <1>2, BoundsAssumption DEF IInv, TypeOK
  <2>3. CASE w' = w
    BY <1>2, <2>2, <2>3, Conclude DEF IInv
  <2>4. CASE w' = Closed
    BY <1>2, <2>2, <2>4, ClosedSound DEF IInv, TypeOK, Sound, InStep
  <2> QED BY <2>1, <2>3, <2>4
<1> QED BY <1>1, <1>2 DEF UsersAnswer

LEMMA TimersKeep ==
  ASSUME IInv, RefreshTimeStatus \/ RetryTimeStatus \/ Debounced \/ Close
  PROVE  InStep
<1>1. PICK no \in BOOLEAN : no = FALSE
  OBVIOUS
<1>2. PICK yes \in BOOLEAN : yes = TRUE
  OBVIOUS
<1>3. CASE RefreshTimeStatus
  <2>1. PICK v : v = LoadTimeStatus(w, no)
    OBVIOUS
  <2>2. Sound(v) /\ v.stray = w.stray /\ (Order(w) => Order(v))
    BY <2>1, LoadTimeStatusKeeps DEF IInv
  <2> QED BY <1>1, <1>3, <2>1, <2>2, StepsConclude DEF RefreshTimeStatus
<1>4. CASE RetryTimeStatus
  <2>1. PICK x : x = [w EXCEPT !.retry = FALSE]
    OBVIOUS
  <2>2. PICK v : v = LoadTimeStatus(x, yes)
    OBVIOUS
  <2>3. x \in Window /\ Same(x, w) /\ x.calls = w.calls
    BY <2>1, PutRetry DEF IInv, Sound
  <2>4. Sound(x) /\ x.stray = w.stray /\ (Order(w) => Order(x))
    BY <2>3, SameKeeps, NoMore DEF IInv
  <2>5. Sound(v) /\ v.stray = x.stray /\ (Order(x) => Order(v))
    BY <2>2, <2>4, LoadTimeStatusKeeps
  <2>6. Steps(v)
    BY <1>2, <1>4, <2>1, <2>2 DEF RetryTimeStatus
  <2> QED BY <2>4, <2>5, <2>6, StepsConclude
<1>5. CASE Debounced
  <2>1. PICK v : v = CustomChanged(w)
    OBVIOUS
  <2>2. Sound(v) /\ Frame(v, w) /\ (Order(w) /\ w.focus => Order(v))
    BY <2>1, CustomChangedDoes DEF IInv
  <2>3. Order(w) => w.focus
    BY <1>5 DEF Debounced, Order, Shows
  <2>4. Steps(v)
    BY <1>5, <2>1 DEF Debounced
  <2> QED BY <2>2, <2>3, <2>4, StepsConclude DEF Frame
<1>6. CASE Close
  BY <1>6, ClosedSound DEF Close, Steps, IInv, TypeOK, Sound, InStep
<1> QED BY <1>3, <1>4, <1>5, <1>6

LEMMA SelectKeeps == ASSUME IInv, NEW c \in Children, Select(c) PROVE InStep
<1>1. PICK v : v = LoadSelected([w EXCEPT !.selected = c])
  OBVIOUS
<1>2. Sound(v) /\ v.stray = w.stray /\ (Order(w) => Order(v))
  BY <1>1, SelectDoes DEF IInv
<1>3. Steps(v)
  BY <1>1 DEF Select
<1> QED BY <1>2, <1>3, StepsConclude

\* What of the window a step of the parent meets.
LEMMA Panel ==
  ASSUME IInv, Usable
  PROVE  /\ w \in Window /\ Sound(w) /\ Selected(w) /\ ~Prompted(w)
         /\ w.panel = "content" => w.prefs # NoRecord
         /\ w.ctl \in Controls
  BY DEF IInv, Sound, Usable, Prompted, Window

LEMMA ToggleEnabledKeeps == ASSUME IInv, ToggleEnabled PROVE InStep
<1>1. /\ w \in Window /\ Sound(w) /\ Selected(w) /\ ~Prompted(w)
      /\ w.prefs # NoRecord /\ w.ctl \in Controls
  BY Panel DEF ToggleEnabled
<1>2. PICK k \in Controls : k = [w.ctl EXCEPT !.enabled = ~w.ctl.enabled]
  BY <1>1 DEF Controls
<1>3. PICK x : x = [w EXCEPT !.ctl = k]
  OBVIOUS
<1>4. PICK v : v = EnabledChanged(x)
  OBVIOUS
<1>5. w.ctl.enabled \in BOOLEAN
  BY <1>1 DEF Controls
<1>6. [w EXCEPT !.ctl.enabled = ~w.ctl.enabled] = x
  BY <1>1, <1>2, <1>3 DEF Window
<1>7. SetActive(w, ~w.ctl.enabled) = v
  BY <1>4, <1>5, <1>6 DEF SetActive
<1>8. Edit(v)
  BY <1>7 DEF ToggleEnabled
<1>9. x \in Window /\ OnlyControls(x, w) /\ x.sens = w.sens
  BY <1>1, <1>3, PutControls
<1>10. /\ Sound(x)
       /\ Queue(w) => Queue(x)
       /\ Gens(w) => Gens(x)
       /\ Turns(w) => Turns(x)
       /\ Shows(w) => Shows(x)
  BY <1>1, <1>9, ControlsKept
<1>11. /\ Frame(x, w) /\ x.prefs = w.prefs /\ x.loading = w.loading /\ x.saving = w.saving
  BY <1>9 DEF OnlyControls, SameRecord, SameQueue
<1>12. Order(w) => ~w.loading /\ ~w.saving
  BY <1>1 DEF ToggleEnabled, Order, Right
<1>13. CASE w.loading
  <2>1. v = x
    BY <1>4, <1>11, <1>13 DEF EnabledChanged
  <2> QED BY <1>8, <1>10, <1>11, <1>12, <1>13, <2>1, EditConcludes DEF Frame
<1>14. CASE ~w.loading
  <2>1. CanMinutes(x) /\ ~x.loading /\ Selected(x) /\ ~Prompted(x) /\ x.prefs # NoRecord
    BY <1>1, <1>11, <1>14 DEF CanMinutes, Selected, Prompted, Frame
  <2>2. /\ Sound(v) /\ Frame(v, x)
        /\ /\ x.prefs # NoRecord /\ ~Prompted(x)
           /\ Queue(x) /\ Gens(x) /\ Turns(x) /\ Shows(x) /\ (x.saving => Right(x))
           => Order(v)
    BY <1>4, <1>10, <2>1, EnabledChangedDoes
  <2>3. Order(w) => Order(v)
    BY <1>10, <1>11, <1>12, <2>1, <2>2 DEF Order
  <2> QED BY <1>8, <1>11, <2>2, <2>3, EditConcludes DEF Frame
<1> QED BY <1>13, <1>14

LEMMA ChoosePresetKeeps == ASSUME IInv, NEW p \in Presets, ChoosePreset(p) PROVE InStep
<1>1. /\ w \in Window /\ Sound(w) /\ Selected(w) /\ ~Prompted(w)
      /\ w.prefs # NoRecord /\ w.ctl \in Controls /\ ~w.loading
  BY Panel DEF ChoosePreset
<1>2. PICK k \in Controls : k = [w.ctl EXCEPT !.choice = p]
  BY <1>1 DEF Controls
<1>3. k.enabled = w.ctl.enabled
  BY <1>1, <1>2 DEF Controls
<1>4. PICK x : x = [w EXCEPT !.ctl = k]
  OBVIOUS
<1>5. PICK kind \in Kinds : kind = "parent-control"
  BY DEF Kinds
<1>6. PICK v : v = QueueSave(x, Composed(x, kind))
  OBVIOUS
<1>7. [w EXCEPT !.ctl.choice = p] = x
  BY <1>1, <1>2, <1>4 DEF Window
<1>8. Edit(v)
  BY <1>5, <1>6, <1>7 DEF ChoosePreset, SaveParentControl
<1>9. x \in Window /\ OnlyControls(x, w) /\ x.ctl = k /\ x.sens = w.sens
  BY <1>1, <1>4, PutControls
<1>10. /\ Sound(x)
       /\ Queue(w) => Queue(x)
       /\ Gens(w) => Gens(x)
       /\ Turns(w) => Turns(x)
       /\ Shows(w) => Shows(x)
  BY <1>1, <1>9, ControlsKept
<1>11. /\ Frame(x, w) /\ x.prefs = w.prefs /\ x.loading = w.loading /\ x.saving = w.saving
       /\ x.selected = w.selected
  BY <1>9 DEF OnlyControls, SameRecord, SameQueue, Frame
<1>12. Right(w) => Right(x)
  BY <1>3, <1>9, <1>11, RightKept
<1>13. CanMinutes(x) /\ ~x.loading /\ Selected(x) /\ ~Prompted(x) /\ x.prefs # NoRecord
  BY <1>1, <1>11 DEF CanMinutes, Selected, Prompted, Frame
<1>14. /\ Sound(v) /\ Frame(v, x)
       /\ /\ ~x.loading /\ x.prefs # NoRecord /\ ~Prompted(x)
          /\ Queue(x) /\ Gens(x) /\ Turns(x) /\ Shows(x) /\ (x.saving => Right(x))
          => Order(v)
  BY <1>6, <1>10, <1>13, ComposedQueued
<1>15. Order(w) => Order(v)
  BY <1>10, <1>12, <1>13, <1>14 DEF Order
<1> QED BY <1>8, <1>11, <1>14, <1>15, EditConcludes DEF Frame

LEMMA ChooseCustomKeeps == ASSUME IInv, ChooseCustom PROVE InStep
<1>1. /\ w \in Window /\ Sound(w) /\ Selected(w) /\ ~Prompted(w)
      /\ w.prefs # NoRecord /\ w.ctl \in Controls /\ ~w.loading
  BY Panel DEF ChooseCustom
<1>2. PICK k \in Controls : k = [w.ctl EXCEPT !.choice = Custom]
  BY <1>1 DEF Controls
<1>3. k.enabled = w.ctl.enabled
  BY <1>1, <1>2 DEF Controls
<1>4. PICK x : x = [w EXCEPT !.ctl = k]
  OBVIOUS
<1>5. PICK yes \in BOOLEAN : yes = TRUE
  OBVIOUS
<1>6. PICK v : v = [x EXCEPT !.focus = yes]
  OBVIOUS
<1>7. [w EXCEPT !.ctl.choice = Custom, !.focus = TRUE] = v
  BY <1>1, <1>2, <1>4, <1>5, <1>6 DEF Window
<1>8. Edit(v)
  BY <1>7 DEF ChooseCustom
<1>9. x \in Window /\ OnlyControls(x, w) /\ x.ctl = k /\ x.sens = w.sens
  BY <1>1, <1>4, PutControls
<1>10. /\ Sound(x)
       /\ Queue(w) => Queue(x)
       /\ Gens(w) => Gens(x)
       /\ Turns(w) => Turns(x)
       /\ Shows(w) => Shows(x)
       /\ Waits(w) => Waits(x)
  BY <1>1, <1>9, ControlsKept
<1>11. /\ Frame(x, w) /\ x.prefs = w.prefs /\ x.loading = w.loading /\ x.saving = w.saving
       /\ x.selected = w.selected
  BY <1>9 DEF OnlyControls, SameRecord, SameQueue, Frame
<1>12. Right(w) => Right(x)
  BY <1>3, <1>9, <1>11, RightKept
<1>13. x.prefs # NoRecord /\ ~Prompted(x) /\ ~x.loading
  BY <1>1, <1>11 DEF Prompted, Frame
<1>14. /\ Sound(v) /\ v.stray = x.stray
       /\ /\ Queue(x) /\ Gens(x) /\ Turns(x) /\ Seen(x) /\ Waits(x) /\ Right(x)
          /\ x.focus \/ (yes /\ x.prefs # NoRecord /\ ~Prompted(x) /\ ~x.loading)
          /\ x.debounce => yes
          => Order(v)
  BY <1>6, <1>10, PutFocus
<1>15. Order(w) => Order(v)
  BY <1>5, <1>10, <1>12, <1>13, <1>14 DEF Order, Shows
<1> QED BY <1>8, <1>11, <1>14, <1>15, EditConcludes DEF Frame

LEMMA TypeLimitKeeps ==
  ASSUME IInv, NEW text \in Limits \cup {Invalid}, TypeLimit(text) PROVE InStep
<1>1. /\ w \in Window /\ Sound(w) /\ Selected(w) /\ ~Prompted(w)
      /\ w.prefs # NoRecord /\ w.ctl \in Controls
  BY Panel DEF TypeLimit
<1>2. PICK x : x = SetEntry(w, text)
  OBVIOUS
<1>3. PICK yes \in BOOLEAN : yes = TRUE
  OBVIOUS
<1>4. PICK v : v = [x EXCEPT !.focus = yes]
  OBVIOUS
<1>5. Edit(v)
  BY <1>2, <1>3, <1>4 DEF TypeLimit
<1>6. x \in Window /\ OnlyLimit(x, w)
  BY <1>1, <1>2, SetEntryDoes
<1> USE DEF OnlyLimit, Frame, SameQueue
<1>7. Alike(x, w) /\ MoreStatus(x, w) /\ w.gen \in Nat
  BY <1>1, <1>6, NoMore DEF Alike, Window
<1>8. Sound(x)
  BY <1>1, <1>6, <1>7, SoundKept
<1>9. /\ Queue(w) => Queue(x)
      /\ Gens(w) => Gens(x)
      /\ Turns(w) => Turns(x)
      /\ Seen(w) => Seen(x)
      /\ Waits(w) => Waits(x)
  BY <1>7, Kept
<1>10. Right(w) => Right(x)
  BY <1>6, RightKept
<1>11. x.prefs # NoRecord /\ ~Prompted(x) /\ (Order(w) => ~x.loading)
  BY <1>1, <1>6 DEF Prompted, TypeLimit, Order, Right
<1>12. /\ Sound(v) /\ v.stray = x.stray
       /\ /\ Queue(x) /\ Gens(x) /\ Turns(x) /\ Seen(x) /\ Waits(x) /\ Right(x)
          /\ x.focus \/ (yes /\ x.prefs # NoRecord /\ ~Prompted(x) /\ ~x.loading)
          /\ x.debounce => yes
          => Order(v)
  BY <1>4, <1>8, PutFocus
<1>13. Order(w) => Order(v)
  BY <1>3, <1>9, <1>10, <1>11, <1>12 DEF Order, Shows
<1> QED BY <1>5, <1>6, <1>12, <1>13, EditConcludes

LEMMA CommitKeeps == ASSUME IInv, NEW stays \in BOOLEAN, Commit(stays) PROVE InStep
<1>1. PICK x : x = CustomChanged(w)
  OBVIOUS
<1>2. PICK v : v = [x EXCEPT !.focus = stays]
  OBVIOUS
<1>3. w.focus /\ Steps(v)
  BY <1>1, <1>2 DEF Commit
<1>4. Sound(x) /\ Frame(x, w) /\ ~x.debounce /\ (Order(w) /\ w.focus => Order(x))
  BY <1>1, CustomChangedDoes DEF IInv
<1>5. /\ Sound(v) /\ v.stray = x.stray
      /\ /\ Queue(x) /\ Gens(x) /\ Turns(x) /\ Seen(x) /\ Waits(x) /\ Right(x)
         /\ x.focus \/ (stays /\ x.prefs # NoRecord /\ ~Prompted(x) /\ ~x.loading)
         /\ x.debounce => stays
         => Order(v)
  BY <1>2, <1>4, PutFocus
<1>6. Order(w) => Order(v)
  BY <1>3, <1>4, <1>5 DEF Order, Shows, Frame
<1> QED BY <1>3, <1>4, <1>5, <1>6, StepsConclude DEF Frame

LEMMA ChangeAppsKeeps == ASSUME IInv, NEW a \in Apps, ChangeApps(a) PROVE InStep
<1>1. /\ w \in Window /\ Sound(w) /\ Selected(w) /\ ~Prompted(w) /\ w.ctl \in Controls
      /\ w.prefs # NoRecord
  BY Panel DEF ChangeApps
<1>2. PICK k \in Controls : k = [w.ctl EXCEPT !.apps = a]
  BY <1>1 DEF Controls
<1>3. k.enabled = w.ctl.enabled
  BY <1>1, <1>2 DEF Controls
<1>4. PICK x : x = [w EXCEPT !.ctl = k]
  OBVIOUS
<1>5. PICK kind \in Kinds : kind = "app-policy"
  BY DEF Kinds
<1>6. PICK v : v = IF w.loading THEN x ELSE QueueSave(x, Composed(x, kind))
  OBVIOUS
<1>7. [w EXCEPT !.ctl.apps = a] = x
  BY <1>1, <1>2, <1>4 DEF Window
<1>8. x \in Window /\ OnlyControls(x, w) /\ x.ctl = k /\ x.sens = w.sens
  BY <1>1, <1>4, PutControls
<1>9. /\ Frame(x, w) /\ x.prefs = w.prefs /\ x.loading = w.loading /\ x.saving = w.saving
      /\ x.selected = w.selected
  BY <1>8 DEF OnlyControls, SameRecord, SameQueue, Frame
<1>10. CanMinutes(x) /\ Selected(x) /\ ~Prompted(x) /\ x.prefs # NoRecord
  BY <1>1, <1>9 DEF CanMinutes, Selected, Prompted, Frame
<1>11. SaveAppPolicy(x) = QueueSave(x, Composed(x, kind))
  BY <1>5, <1>10 DEF SaveAppPolicy
<1>12. Edit(v)
  BY <1>6, <1>7, <1>11 DEF ChangeApps
<1>13. /\ Sound(x)
       /\ Queue(w) => Queue(x)
       /\ Gens(w) => Gens(x)
       /\ Turns(w) => Turns(x)
       /\ Shows(w) => Shows(x)
       /\ Waits(w) => Waits(x)
  BY <1>1, <1>8, ControlsKept
<1>14. Right(w) => Right(x)
  BY <1>3, <1>8, <1>9, RightKept
<1>15. CASE w.loading
  <2>1. v = x
    BY <1>6, <1>15
  <2> QED BY <1>9, <1>12, <1>13, <1>14, <2>1, EditConcludes DEF Order, Frame
<1>16. CASE ~w.loading
  <2>1. v = QueueSave(x, Composed(x, kind))
    BY <1>6, <1>16
  <2>2. /\ Sound(v) /\ Frame(v, x)
        /\ /\ ~x.loading /\ x.prefs # NoRecord /\ ~Prompted(x)
           /\ Queue(x) /\ Gens(x) /\ Turns(x) /\ Shows(x) /\ (x.saving => Right(x))
           => Order(v)
    BY <1>10, <1>13, <2>1, ComposedQueued
  <2>3. Order(w) => Order(v)
    BY <1>9, <1>10, <1>13, <1>14, <1>16, <2>2 DEF Order
  <2> QED BY <1>9, <1>12, <2>2, <2>3, EditConcludes DEF Frame
<1> QED BY <1>15, <1>16

\* The window turns to a call of the current load.
Busy(v, op) ==
  Ask(SetSensitive([v EXCEPT !.loading = TRUE], FALSE), op, v.selected, v.gen, NoSave)

LEMMA BusyDoes ==
  ASSUME NEW v, Sound(v), Selected(v), NEW op \in {"running", "revoke"},
         NEW u, u = Busy(v, op)
  PROVE  /\ Sound(u) /\ u.stray = v.stray
         /\ /\ Order(v) /\ ~v.loading /\ ~v.saving /\ ~v.focus /\ ~Prompted(v)
            /\ op = "revoke" => v.prefs # NoRecord
            => Order(u)
<1>1. v \in Window /\ v.selected \in Children /\ v.gen \in Nat
  BY DEF Sound, Selected, Window
<1>20. PICK yes \in BOOLEAN : yes = TRUE
  OBVIOUS
<1>21. PICK no \in BOOLEAN : no = FALSE
  OBVIOUS
<1>2. PICK x : x = [v EXCEPT !.loading = yes]
  OBVIOUS
<1>3. PICK y : y = SetSensitive(x, no)
  OBVIOUS
<1>4. /\ x \in Window /\ Frame(x, v) /\ SameQueue(x, v) /\ SameLooks(x, v)
      /\ x.prefs = v.prefs /\ x.loading /\ x.shown = v.shown
      /\ x.calls = v.calls /\ x.debounce = v.debounce
  BY <1>1, <1>2, <1>20, PutLoading
<1>5. Sound(x)
  BY <1>4, SoundKept, NoMore DEF Frame, SameLooks
<1>6. Sound(y) /\ y.stray = v.stray
  BY <1>3, <1>4, <1>5, SetSensitiveKeeps DEF Frame
<1>7. /\ y \in Window /\ Frame(y, x) /\ SameQueue(y, x) /\ SameRecord(y, x)
      /\ y.calls = x.calls /\ Right(y)
  BY <1>3, <1>4, SetSensitiveDoes
<1>8. PICK uid \in Children : uid = v.selected
  BY <1>1
<1>9. PICK gen \in Nat : gen = v.gen
  BY <1>1
<1>10. PICK o \in {"load", "status", "running", "revoke", "save"} : o = op
  OBVIOUS
<1>11. u = Ask(y, o, uid, gen, NoSave)
  BY <1>2, <1>3, <1>8, <1>9, <1>10, <1>20, <1>21 DEF Busy
<1>12. /\ o \in {"load", "status", "running", "revoke", "save"} /\ o # "save"
       /\ NoSave \in Saves \cup {NoSave}
  BY <1>10
<1>13. /\ u \in Window /\ Same(u, y)
       /\ \E c : /\ u.calls = y.calls \cup {c}
                 /\ CallOK(c) /\ c.op = o /\ c.uid = uid /\ c.gen = gen
  BY <1>7, <1>11, <1>12, AskDoes DEF Asked
<1>14. PICK c : /\ u.calls = y.calls \cup {c}
                /\ CallOK(c) /\ c.op = op /\ c.op # "save" /\ c.uid = uid /\ c.gen = gen
  BY <1>10, <1>12, <1>13
<1>15. Sound(u)
  BY <1>6, <1>13, <1>14 DEF Sound, Same, Frame, SameQueue, SameRecord, SameLooks, Selected
<1>16. u.stray = v.stray
  BY <1>6, <1>13 DEF Same, Frame
<1>17. ASSUME Order(v), ~v.loading, ~v.saving, ~v.focus, ~Prompted(v),
              op = "revoke" => v.prefs # NoRecord
       PROVE  Order(u)
  <2>1. /\ Frame(u, v) /\ SameQueue(u, v) /\ u.prefs = v.prefs /\ u.loading
        /\ u.shown = v.shown /\ u.debounce = v.debounce /\ u.calls = v.calls \cup {c}
    <3>1. Same(u, y)
      BY <1>13
    <3>2. Frame(u, v) /\ SameQueue(u, v)
      BY <1>4, <1>7, <3>1 DEF Same, Frame, SameQueue
    <3>3. u.prefs = v.prefs /\ u.loading /\ u.shown = v.shown /\ u.debounce = v.debounce
      BY <1>4, <1>7, <3>1 DEF Same, SameRecord
    <3> QED BY <1>4, <1>7, <1>14, <3>2, <3>3
  <2>2. \A d \in v.calls : ~Current(v, d)
    BY <1>17 DEF Order, Turns
  <2>3. \A d \in u.calls : Current(u, d) => d = c
    BY <2>1, <2>2 DEF Current, Frame
  <2>4. Current(u, c) /\ c.uid = u.selected
    BY <1>8, <1>9, <1>12, <1>14, <2>1 DEF Current, Frame
  <2>5. Queue(u)
    <3>1. Queue(v)
      BY <1>17 DEF Order
    <3>2. u.saving = v.saving /\ u.active = v.active /\ u.pending = v.pending /\ u.gen = v.gen
      BY <2>1 DEF Frame, SameQueue
    <3>3. \A d \in u.calls : d.op = "save" => d \in v.calls
      BY <1>14, <2>1
    <3>4. v.calls \subseteq u.calls
      BY <2>1
    <3> QED BY <2>1, <3>1, <3>2, <3>3, <3>4 DEF Queue, Of
  <2>6. Gens(u)
    <3>1. Gens(v)
      BY <1>17 DEF Order
    <3>2. u.gen = v.gen /\ u.of = v.of /\ c.gen = v.gen
      BY <1>9, <1>14, <2>1 DEF Frame
    <3> QED BY <1>1, <2>1, <3>1, <3>2 DEF Gens
  <2>7. Turns(u)
    BY <1>14, <1>17, <2>1, <2>3, <2>4 DEF Turns, Prompted, Frame, SameQueue
  <2>8. Shows(u)
    BY <1>17, <2>1 DEF Order, Shows, Seen, Selected, Frame
  <2>9. Waits(u)
    BY <2>1, <2>4 DEF Waits
  <2>10. Right(u)
    BY <1>7, <1>13, RightKept DEF Same, Frame, SameQueue, SameRecord, SameLooks
  <2> QED BY <2>5, <2>6, <2>7, <2>8, <2>9, <2>10 DEF Order
<1> QED BY <1>15, <1>16, <1>17

LEMMA ConfirmRevokeKeeps == ASSUME IInv, ConfirmRevoke PROVE InStep
<1>1. /\ w \in Window /\ Sound(w) /\ Selected(w) /\ ~Prompted(w)
  BY Panel DEF ConfirmRevoke
<1>2. PICK op \in {"running", "revoke"} : op = "running"
  OBVIOUS
<1>3. PICK v : v = Busy(w, op)
  OBVIOUS
<1>4. Edit(v)
  BY Zenon, <1>2, <1>3 DEF ConfirmRevoke, Busy
<1>5. /\ Sound(v) /\ v.stray = w.stray
      /\ /\ Order(w) /\ ~w.loading /\ ~w.saving /\ ~w.focus /\ ~Prompted(w)
         /\ op = "revoke" => w.prefs # NoRecord
         => Order(v)
  BY <1>1, <1>3, BusyDoes
<1>6. ~w.loading /\ ~w.saving /\ ~w.focus
  BY DEF ConfirmRevoke
<1> QED BY <1>1, <1>2, <1>4, <1>5, <1>6, EditConcludes

LEMMA StrayKeeps ==
  ASSUME NEW v, Sound(v), NEW b \in BOOLEAN, NEW u, u = [v EXCEPT !.stray = b]
  PROVE  Sound(u) /\ AsIs(u, v) /\ u.stray = b /\ (Order(v) => Order(u))
<1>1. v \in Window
  BY DEF Sound
<1>2. u \in Window
  BY <1>1 DEF Window
<1>3. AsIs(u, v) /\ u.stray = b /\ u.calls = v.calls
  BY <1>1 DEF Window, AsIs, SameQueue, SameRecord, SameLooks
<1> USE DEF AsIs, SameQueue, SameRecord, SameLooks
<1>4. Sound(u)
  BY <1>2, <1>3, SoundKept, NoMore
<1>5. ASSUME Order(v) PROVE Order(u)
  <2>1. Queue(u) /\ Gens(u) /\ Waits(u)
    BY <1>3, <1>5 DEF Order, Queue, Of, Gens, Waits, Current, Selected
  <2>2. Right(u)
    BY <1>3, <1>5, RightKept DEF Order
  <2>3. Shows(u)
    BY <1>3, <1>5 DEF Order, Shows, Seen, Selected
  <2>4. Turns(u)
    BY <1>3, <1>5 DEF Order, Turns, Current, Prompted, Selected
  <2> QED BY <2>1, <2>2, <2>3, <2>4 DEF Order
<1> QED BY <1>3, <1>4, <1>5

LEMMA RevokeResponseKeeps == ASSUME IInv, NEW ok \in BOOLEAN, RevokeResponse(ok) PROVE InStep
<1>1. w \in Window /\ Sound(w) /\ w.dialog # NoChild /\ w.dialog \in Children /\ w.gen \in Nat
  BY DEF RevokeResponse, IInv, Sound, Window
<1>2. PICK no \in Children \cup {NoChild} : no = NoChild
  OBVIOUS
<1>3. PICK zero \in Nat : zero = 0
  OBVIOUS
<1>4. PICK b \in BOOLEAN : b = (w.stray \/ (ok /\ w.of # w.gen))
  OBVIOUS
<1>5. PICK x : x = WithDialog(w, no, zero)
  OBVIOUS
<1>6. PICK v : v = [x EXCEPT !.stray = b]
  OBVIOUS
<1>7. PICK op \in {"running", "revoke"} : op = "revoke"
  OBVIOUS
<1>8. v = [w EXCEPT !.dialog = NoChild, !.of = 0,
                    !.stray = @ \/ (ok /\ w.of # w.gen)]
  BY <1>1, <1>2, <1>3, <1>4, <1>5, <1>6 DEF WithDialog, Window
<1>9. /\ x \in Window /\ x.dialog = no /\ x.of = zero
      /\ x.selected = w.selected /\ x.gen = w.gen
      /\ x.stray = w.stray /\ x.focus = w.focus
      /\ SameQueue(x, w) /\ SameRecord(x, w)
  <2>1. w \in Window
    BY <1>1
  <2>2. PICK u : u = w
    OBVIOUS
  <2>3. x = WithDialog(u, no, zero) /\ u \in Window
    BY <1>5, <2>1, <2>2
  <2>4. /\ x \in Window /\ x.dialog = no /\ x.of = zero
        /\ x.selected = u.selected /\ x.gen = u.gen
        /\ x.stray = u.stray /\ x.focus = u.focus
        /\ SameQueue(x, u) /\ SameRecord(x, u) /\ SameLooks(x, u) /\ x.calls = u.calls
    BY <2>3, PutDialog
  <2> QED BY <2>2, <2>4
<1>10. Sound(x) /\ (Order(w) => Order(x))
  <2>1. zero <= w.gen
    BY <1>1, <1>3
  <2> QED BY <1>1, <1>2, <1>5, <2>1, DialogKeeps
<1>11. Sound(v) /\ AsIs(v, x) /\ v.stray = b /\ (Order(x) => Order(v))
  BY <1>6, <1>10, StrayKeeps
<1>12. v.selected = w.selected /\ v.gen = w.gen
  BY <1>9, <1>11 DEF AsIs
<1>13. \/ ok /\ w.dialog = w.selected /\ w' = Busy(v, op)
       \/ w' = v
  <2>1. w' = IF ok /\ w.dialog = w.selected
             THEN Ask(SetSensitive([v EXCEPT !.loading = TRUE], FALSE),
                      "revoke", w.selected, w.gen, NoSave)
             ELSE v
    BY <1>8 DEF RevokeResponse, Steps
  <2> QED BY Zenon, <1>7, <1>12, <2>1 DEF Busy
<1>14. UNCHANGED <<record, unsure, edits, troubles>>
  BY DEF RevokeResponse, Steps
<1>15. Sound(w') /\ w'.stray = b /\ (Order(w) /\ ~b => Order(w'))
  <2>1. CASE w' = v
    BY <1>10, <1>11, <2>1
  <2>2. CASE ok /\ w.dialog = w.selected /\ w' = Busy(v, op)
    <3>1. Selected(v)
      BY <1>1, <1>12, <2>2, ChildrenAssumption DEF Selected
    <3>2. /\ Sound(w') /\ w'.stray = v.stray
          /\ /\ Order(v) /\ ~v.loading /\ ~v.saving /\ ~v.focus /\ ~Prompted(v)
             /\ v.prefs # NoRecord
             => Order(w')
      BY <1>11, <2>2, <3>1, BusyDoes
    <3>3. ASSUME Order(w), ~b PROVE Order(w')
      <4>1. Prompted(w)
        BY <1>1, <1>4, <2>2, <3>3 DEF Prompted
      <4>2. ~w.loading /\ ~w.saving /\ ~w.focus /\ w.prefs # NoRecord
        BY <3>3, <4>1 DEF Order, Turns
      <4>3. ~v.loading /\ ~v.saving /\ ~v.focus /\ v.prefs # NoRecord /\ v.dialog = NoChild
        BY <1>2, <1>9, <1>11, <4>2 DEF AsIs, SameQueue, SameRecord
      <4> QED BY <1>10, <1>11, <3>2, <3>3, <4>3 DEF Prompted
    <3> QED BY <1>11, <3>2, <3>3
  <2> QED BY <1>13, <2>1, <2>2
<1>16. TypeOK'
  BY <1>14, <1>15 DEF IInv, TypeOK, Sound
<1> QED BY <1>4, <1>15, <1>16 DEF IInv, InStep

-----------------------------------------------------------------------------
\* The theorems.

LEMMA OpensInOrder == Init => IInv
<1> SUFFICES ASSUME Init PROVE IInv
  OBVIOUS
<1>1. 0 \in 0..MaxEdits /\ 0 \in 0..MaxTroubles
  BY BoundsAssumption
<1>2. record \in [Children -> Record]
  BY InitialAssumption DEF Init
<1>3. Sound(w) /\ Order(w)
  BY OpenedSound DEF Init
<1>4. TypeOK
  BY <1>1, <1>2, <1>3 DEF Init, TypeOK, Sound
<1> QED BY <1>3, <1>4 DEF IInv

LEMMA NextKeeps == IInv /\ [Next]_vars => InStep
<1> SUFFICES ASSUME IInv, [Next]_vars PROVE InStep
  OBVIOUS
<1>1. ASSUME NEW op \in {"load", "status", "running", "revoke", "save"}, Answer(op) PROVE InStep
  <2>1. PICK c \in w.calls : Serve(c) \/ Reply(c) \/ Fail(c)
    BY <1>1 DEF Answer
  <2> QED BY <2>1, ServeKeeps, ReplyKeeps, FailKeeps
<1>2. CASE UsersAnswer
  BY <1>2, UsersAnswerKeeps
<1>3. CASE RefreshTimeStatus \/ RetryTimeStatus \/ Debounced \/ Close
  BY <1>3, TimersKeep
<1>4. CASE Parent
  <2>1. ASSUME NEW c \in Children, Select(c) PROVE InStep
    BY <2>1, SelectKeeps
  <2>2. CASE ToggleEnabled
    BY <2>2, ToggleEnabledKeeps
  <2>3. CASE ChooseCustom
    BY <2>3, ChooseCustomKeeps
  <2>4. ASSUME NEW p \in Presets, ChoosePreset(p) PROVE InStep
    BY <2>4, ChoosePresetKeeps
  <2>5. ASSUME NEW text \in Limits \cup {Invalid}, TypeLimit(text) PROVE InStep
    BY <2>5, TypeLimitKeeps
  <2>6. ASSUME NEW b \in BOOLEAN, Commit(b) PROVE InStep
    BY <2>6, CommitKeeps
  <2>7. ASSUME NEW b \in BOOLEAN, RevokeResponse(b) PROVE InStep
    BY <2>7, RevokeResponseKeeps
  <2>8. ASSUME NEW a \in Apps, ChangeApps(a) PROVE InStep
    BY <2>8, ChangeAppsKeeps
  <2>9. CASE ConfirmRevoke
    BY <2>9, ConfirmRevokeKeeps
  <2> QED BY <1>4, <2>1, <2>2, <2>3, <2>4, <2>5, <2>6, <2>7, <2>8, <2>9 DEF Parent
<1>5. CASE UNCHANGED vars
  BY <1>5 DEF vars, IInv, TypeOK, InStep
<1> QED BY <1>1, <1>2, <1>3, <1>4, <1>5 DEF Next

\* What the theorems below rest on: every window is sound, and until an answer is taken
\* for a child or a load it is not of, calls, queue, controls and record stay in step.
THEOREM WindowInvariant == Spec => []IInv
<1>1. Init => IInv
  BY OpensInOrder
<1>2. IInv /\ [Next]_vars => IInv'
  BY NextKeeps DEF InStep
<1> QED BY <1>1, <1>2, PTL DEF Spec

\* Every reachable window is well typed: a composed save carries a limit that exists,
\* whatever was typed and whether or not a record is there when it is composed.
THEOREM WindowTypes == Spec => []TypeOK
<1>1. IInv => TypeOK
  BY DEF IInv
<1> QED BY <1>1, WindowInvariant, PTL

\* At most one save is under way, the one the queue knows of (_queue_save, _start_save),
\* and each carries what was shown of its own child, for any number of children, edits
\* and failures.
THEOREM SaveOrder == Spec => []SavesInOrder
<1>1. ASSUME IInv, ~w.stray PROVE SavesInOrder
  <2>1. Queue(w) /\ \A c \in w.calls : CallOK(c)
    BY <1>1 DEF IInv, Order, Sound
  <2>2. \A c \in Saving : c \in w.calls /\ c.op = "save"
    BY DEF Saving
  <2>3. \A c \in Saving : c.save = w.active /\ \A d \in Saving : d = c
    BY <2>1, <2>2 DEF Queue
  <2>4. w.saving <=> Saving # {}
    BY <2>1 DEF Queue, Saving
  <2>5. \A c \in Saving : c.save.of = c.uid
    BY <2>1, <2>2 DEF Queue, Of, CallOK
  <2>6. \A i \in DOMAIN w.pending : w.pending[i].of = w.pending[i].uid
    BY <2>1 DEF Queue, Of
  <2> QED BY <2>3, <2>4, <2>5, <2>6 DEF SavesInOrder
<1>2. IInv => SavesInOrder
  BY <1>1 DEF SavesInOrder
<1> QED BY <1>2, WindowInvariant, PTL

\* No sequence of loads, saves, failures, restores and dialogs leaves the controls
\* unusable once nothing is under way (_set_apps_sensitive).
THEOREM AlwaysUsable == Spec => []NeverFrozen
<1>1. ASSUME IInv, Selected(w), w.dialog = NoChild, ~w.stray, \A c \in w.calls : c.op = "status"
      PROVE  /\ ~w.loading /\ ~w.saving
             /\ w.sens.account /\ w.sens.enabled
             /\ w.sens.limit = w.ctl.enabled
  <2>1. Queue(w) /\ Waits(w) /\ Right(w)
    BY <1>1 DEF IInv, Order
  <2>2. ~w.loading
    BY <1>1, <2>1 DEF Waits, Current
  <2>3. ~w.saving
    BY <1>1, <2>1 DEF Queue
  <2> QED BY <1>1, <2>1, <2>2, <2>3 DEF Right
<1>2. IInv => NeverFrozen
  BY <1>1 DEF NeverFrozen
<1> QED BY <1>2, WindowInvariant, PTL

-----------------------------------------------------------------------------
\* What is known of the remaining time.
SameTime(u, v) == u.status = v.status /\ u.retry = v.retry /\ u.tpending = v.tpending

LEMMA SetSensitiveUntimed ==
  ASSUME NEW v \in Window, NEW arg \in BOOLEAN PROVE SameTime(SetSensitive(v, arg), v)
<1>1. PICK s \in Sensitive : SetSensitive(v, arg) = [v EXCEPT !.sens = s]
  BY SetSensitiveIs
<1> QED BY <1>1 DEF SameTime, Window

LEMMA RevealUntimed == ASSUME NEW v \in Window PROVE SameTime(Reveal(v), v)
  BY DEF SameTime, Reveal, Window

LEMMA AskUntimed ==
  ASSUME NEW v \in Window, NEW op, NEW uid, NEW gen, NEW s
  PROVE  SameTime(Ask(v, op, uid, gen, s), v)
  BY DEF SameTime, Ask, Window

LEMMA StartSaveUntimed ==
  ASSUME NEW v \in Window, NEW s \in Saves PROVE SameTime(StartSave(v, s), v)
<1>1. PICK x : x = [v EXCEPT !.saving = TRUE, !.active = s]
  OBVIOUS
<1>2. PICK no \in BOOLEAN : no = FALSE
  OBVIOUS
<1>3. PICK y : y = SetSensitive(x, no)
  OBVIOUS
<1>4. x \in Window /\ SameTime(x, v)
  BY <1>1 DEF SameTime, Window
<1>5. y \in Window /\ SameTime(y, x)
  BY <1>3, <1>4, SetSensitiveDoes, SetSensitiveUntimed
<1>6. StartSave(v, s) = Ask(y, "save", s.uid, s.gen, s)
  BY Zenon, <1>1, <1>2, <1>3 DEF StartSave
<1> QED BY <1>4, <1>5, <1>6, AskUntimed DEF SameTime

LEMMA QueueSaveUntimed ==
  ASSUME NEW v \in Window, NEW s \in Saves PROVE SameTime(QueueSave(v, s), v)
<1>1. CASE v.saving
  BY <1>1 DEF QueueSave, SameTime, Window
<1>2. CASE ~v.saving
  BY <1>2, StartSaveUntimed DEF QueueSave
<1> QED BY <1>1, <1>2

LEMMA SetEntryUntimed ==
  ASSUME NEW v \in Window, NEW text PROVE SameTime(SetEntry(v, text), v)
  BY DEF SameTime, SetEntry, Window

LEMMA SetLimitUntimed ==
  ASSUME NEW v \in Window, NEW limit \in Limits PROVE SameTime(SetLimit(v, limit), v)
  BY DEF SameTime, SetLimit, SetEntry, Window

-----------------------------------------------------------------------------
\* What the controls, the queue and the record have to do with each other.

Queued(v) == {s \in Saves : s = v.active \/ \E i \in DOMAIN v.pending : s = v.pending[i]}

\* A save of an earlier load of the selected child is still to be made.
Old(v) == \E s \in Queued(v) : s.uid = v.selected /\ s.gen # v.gen

\* Only then the controls have to be right.
Clear(v, un) == Selected(v) /\ v.prefs # NoRecord /\ v.selected \notin un /\ ~Old(v)

\* A failed save is followed by the record, once the queue is empty.
Showing(v, un) == Clear(v, un) /\ v.restore # v.selected

Last(v) == IF v.pending # <<>> THEN v.pending[Len(v.pending)] ELSE v.active

Ours(v) == Last(v) # NoSave /\ Last(v).uid = v.selected

\* What is stored once the queue is empty.
Target(v, rec) == IF Ours(v) THEN Last(v) ELSE rec[v.selected]

Draft(v) == v.ctl.choice = Custom /\ (v.ctl.entry = Invalid \/ (v.focus /\ v.ctl.enabled))

LimitShown(v, rec, un) ==
  Showing(v, un) => /\ v.ctl.enabled = Target(v, rec).enabled
                    /\ Draft(v) \/ Minutes(v) = Target(v, rec).limit

\* The app list of the selected child is being saved.
Policy(v) == v.active # NoSave /\ v.active.uid = v.selected /\ v.active.kind = "app-policy"

AppsShown(v, rec, un) ==
  Showing(v, un) => v.ctl.apps = IF Policy(v) THEN v.active.apps ELSE rec[v.selected].apps

\* Such a save changes nothing else.
Agrees(v, rec, un) ==
  Clear(v, un) /\ Policy(v) => /\ rec[v.selected].enabled = v.active.enabled
                               /\ rec[v.selected].limit = v.active.limit

\* It is never queued, and nothing of another child is queued after a save of this one.
NoPolicy(v) == \A i \in DOMAIN v.pending : v.pending[i].kind # "app-policy"
Latest(v, un) == Clear(v, un) /\ (\E s \in Queued(v) : s.uid = v.selected) => Ours(v)

\* The record in the window is the stored one, but for a save not yet answered.
Known(v, rec, un) ==
  Clear(v, un) => \/ v.prefs = rec[v.selected]
                  \/ \E c \in v.calls : c.op = "save" /\ c.done /\ c.uid = v.selected

\* A save that was done has what was written for an answer, a load what was read.
Stored(v, rec) ==
  \A c \in v.calls : c.op = "save" /\ c.done =>
    /\ c.prefs = rec[c.uid] /\ c.prefs.limit = c.save.limit
    /\ c.save.kind # "app-policy" => c.prefs.enabled = c.save.enabled
    /\ c.save.kind = "app-policy" => c.prefs.apps = c.save.apps

Read(v, rec) ==
  \A c \in v.calls : c.op = "load" /\ c.done /\ c.gen = v.gen /\ c.uid = v.selected =>
    c.prefs = rec[c.uid] \/ Old(v)

\* Nothing is typed while the time is revoked.
Away(v) == \A c \in v.calls : c.op = "revoke" /\ c.gen = v.gen => ~v.focus

Core(v, rec, un) ==
  /\ LimitShown(v, rec, un) /\ AppsShown(v, rec, un) /\ Agrees(v, rec, un)
  /\ NoPolicy(v) /\ Latest(v, un) /\ Known(v, rec, un)
  /\ Stored(v, rec) /\ Read(v, rec) /\ Away(v)

Restoring(v) == v.restore # NoChild => v.saving

\* What can be used may be used.
Apt(v) ==
  Selected(v) => /\ v.sens.apps => ~v.loading /\ ~v.saving
                 /\ v.sens.custom => v.ctl.enabled
                 /\ v.sens.limit => v.ctl.enabled

\* The remaining time will be read again.
Due(v, un) ==
  \/ ~Clear(v, un) \/ v.restore = v.selected
  \/ \E c \in v.calls : /\ c.done /\ c.uid = v.selected
                        /\ c.op = "revoke" \/ (c.op = "save" /\ c.save.kind # "app-policy")

ShownTime(v, un) == v.status = "stale" => Due(v, un) \/ Outstanding(v, "status") \/ v.retry

ReadTime(v, un) ==
  \A c \in v.calls : c.op = "status" /\ c.uid = v.selected /\ c.done /\ ~c.fresh =>
    Due(v, un) \/ v.tpending

Time(v, un) == ShownTime(v, un) /\ ReadTime(v, un)

View(u, v) ==
  /\ u.selected = v.selected /\ u.gen = v.gen /\ u.focus = v.focus /\ SameQueue(u, v)
  /\ u.prefs = v.prefs /\ u.restore = v.restore /\ u.ctl = v.ctl

\* No save is answered, and no load or save is done on the way.
CallsKept(u, v) ==
  /\ \A c \in v.calls : c.op = "save" => c \in u.calls
  /\ \A c \in u.calls : c.op \in {"load", "save", "revoke"} =>
       c \in v.calls \/ (~c.done /\ c.op # "revoke")

RevokesKept(u, v) == \A c \in v.calls : c.op = "revoke" => c \in u.calls

LEMMA ViewSame ==
  ASSUME NEW u, NEW v, View(u, v), NEW un
  PROVE  /\ Queued(u) = Queued(v) /\ (Old(u) <=> Old(v)) /\ (Clear(u, un) <=> Clear(v, un))
         /\ (Showing(u, un) <=> Showing(v, un))
         /\ Last(u) = Last(v) /\ (Ours(u) <=> Ours(v)) /\ (Policy(u) <=> Policy(v))
         /\ (Draft(u) <=> Draft(v)) /\ Minutes(u) = Minutes(v)
<1> USE DEF View, Frame, SameQueue
<1>1. Queued(u) = Queued(v)
  BY DEF Queued
<1>2. Old(u) <=> Old(v)
  BY <1>1 DEF Old
<1>3. Clear(u, un) <=> Clear(v, un)
  BY <1>2 DEF Clear, Selected
<1>4. Last(u) = Last(v)
  BY DEF Last
<1>5. Ours(u) <=> Ours(v)
  BY <1>4 DEF Ours
<1> QED BY <1>1, <1>2, <1>3, <1>4, <1>5 DEF Showing, Policy, Draft, Minutes

LEMMA ViewKept ==
  ASSUME NEW u, NEW v, View(u, v), CallsKept(u, v), NEW rec, NEW un
  PROVE  /\ Core(v, rec, un) => Core(u, rec, un)
         /\ RevokesKept(u, v) => (Due(v, un) => Due(u, un))
<1> USE ViewSame
<1>1. ASSUME Core(v, rec, un) PROVE Core(u, rec, un)
  <2>1. u.selected = v.selected /\ u.gen = v.gen /\ u.focus = v.focus
        /\ u.ctl = v.ctl /\ u.prefs = v.prefs /\ u.active = v.active /\ u.pending = v.pending
    BY DEF View, Frame, SameQueue
  <2>2. Target(u, rec) = Target(v, rec)
    BY <2>1 DEF Target
  <2>3. LimitShown(u, rec, un)
    BY <1>1, <2>1, <2>2 DEF Core, LimitShown
  <2>4. AppsShown(u, rec, un) /\ Agrees(u, rec, un)
    BY <1>1, <2>1 DEF Core, AppsShown, Agrees
  <2>5. NoPolicy(u) /\ Latest(u, un)
    BY <1>1, <2>1 DEF Core, NoPolicy, Latest
  <2>6. Known(u, rec, un)
    BY <1>1, <2>1 DEF Core, Known, CallsKept
  <2>7. Stored(u, rec)
    BY <1>1 DEF Core, Stored, CallsKept
  <2>8. Read(u, rec)
    BY <1>1, <2>1 DEF Core, Read, CallsKept
  <2>9. Away(u)
    BY <1>1, <2>1 DEF Core, Away, CallsKept
  <2> QED BY <2>3, <2>4, <2>5, <2>6, <2>7, <2>8, <2>9 DEF Core
<1>2. ASSUME RevokesKept(u, v), Due(v, un) PROVE Due(u, un)
  <2>1. u.selected = v.selected /\ u.restore = v.restore
    BY DEF View, Frame
  <2> QED BY <1>2, <2>1 DEF Due, RevokesKept, CallsKept
<1> QED BY <1>1, <1>2

LEMMA StatusCalls ==
  ASSUME NEW u, NEW v, MoreStatus(u, v) PROVE CallsKept(u, v) /\ RevokesKept(u, v)
  BY DEF MoreStatus, CallsKept, RevokesKept

LEMMA SameView == ASSUME NEW u, NEW v, Same(u, v) PROVE View(u, v)
  BY DEF Same, Frame, SameRecord, SameLooks, View

\* Who looks at other than the time, keeps what is known of it.
LEMMA TimeKept ==
  ASSUME NEW u, NEW v, NEW un, NEW un2, Time(v, un), SameTime(u, v), u.selected = v.selected,
         Due(v, un) => Due(u, un2),
         \A c \in u.calls : c.op = "status" => c \in v.calls,
         \A c \in v.calls : c.op = "status" => c \in u.calls
  PROVE  Time(u, un2)
<1>1. Outstanding(v, "status") => Outstanding(u, "status")
  BY DEF Outstanding
<1>2. ShownTime(u, un2)
  BY <1>1 DEF Time, ShownTime, SameTime
<1>3. ReadTime(u, un2)
  BY DEF Time, ReadTime, SameTime
<1> QED BY <1>2, <1>3 DEF Time

\* The time is read: whatever was known of it before, it is up to date or will be.
LEMMA TimeRead ==
  ASSUME NEW v \in Window, NEW again \in BOOLEAN, NEW un, NEW u, u = LoadTimeStatus(v, again)
  PROVE  Time(u, un)
<1>1. CASE ~Selected(v)
  <2>1. u = v
    BY <1>1 DEF LoadTimeStatus
  <2>2. Due(u, un)
    BY <1>1, <2>1 DEF Due, Clear
  <2> QED BY <2>2 DEF Time, ShownTime, ReadTime
<1>2. CASE Selected(v) /\ Outstanding(v, "status")
  <2>1. u = [v EXCEPT !.tpending = TRUE]
    BY <1>2 DEF LoadTimeStatus
  <2>2. u.tpending /\ u.calls = v.calls
    BY <2>1 DEF Window
  <2> QED BY <1>2, <2>2 DEF Time, ShownTime, ReadTime, Outstanding
<1>3. CASE Selected(v) /\ ~Outstanding(v, "status")
  <2>1. PICK t : t = IF again THEN v ELSE CancelRetry(v)
    OBVIOUS
  <2>2. t \in Window /\ t.calls = v.calls
    BY <2>1, CancelRetryDoes
  <2>3. u = Ask(t, "status", v.selected, v.gen, NoSave)
    BY <1>3, <2>1 DEF LoadTimeStatus
  <2>4. PICK c : c.op = "status" /\ ~c.done /\ u.calls = t.calls \cup {c}
    <3>1. PICK d : d = [op |-> "status", uid |-> v.selected, gen |-> v.gen, save |-> NoSave,
                        done |-> FALSE, prefs |-> NoRecord, fresh |-> FALSE]
      OBVIOUS
    <3>2. d.op = "status" /\ ~d.done
      BY <3>1
    <3>3. u = [t EXCEPT !.calls = @ \cup {d}]
      BY Zenon, <2>3, <3>1 DEF Ask
    <3>4. u.calls = t.calls \cup {d}
      BY <2>2, <3>3 DEF Window
    <3> QED BY <3>2, <3>4
  <2> QED BY <1>3, <2>2, <2>4 DEF Time, ShownTime, ReadTime, Outstanding
<1> QED BY <1>1, <1>2, <1>3

LEMMA AptKept ==
  ASSUME NEW u, NEW v, Apt(v), u.selected = v.selected, u.sens = v.sens,
         u.loading = v.loading, u.saving = v.saving, u.ctl.enabled = v.ctl.enabled
  PROVE  Apt(u)
  BY DEF Apt, Selected

LEMMA SetSensitiveApt ==
  ASSUME NEW v \in Window, NEW arg \in BOOLEAN, NEW u, u = SetSensitive(v, arg)
  PROVE  Apt(u)
<1>1. /\ Frame(u, v) /\ SameQueue(u, v) /\ SameRecord(u, v) /\ u.ctl = v.ctl
  BY SetSensitiveDoes
<1>2. u.sens.apps => ~v.loading /\ ~v.saving
  BY DEF SetSensitive, Sensitive, Window, Controls
<1>3. u.sens.custom => v.ctl.enabled
  BY DEF SetSensitive, Sensitive, Window, Controls
<1>4. u.sens.limit => v.ctl.enabled
  BY DEF SetSensitive, Sensitive, Window, Controls
<1> QED BY <1>1, <1>2, <1>3, <1>4 DEF Apt, SameQueue, SameRecord

LEMMA SetSensitiveView ==
  ASSUME NEW v \in Window, NEW arg \in BOOLEAN, NEW u, u = SetSensitive(v, arg)
  PROVE  u \in Window /\ View(u, v) /\ u.calls = v.calls /\ SameTime(u, v) /\ Apt(u)
<1>1. /\ u \in Window /\ Frame(u, v) /\ SameQueue(u, v) /\ SameRecord(u, v)
      /\ u.ctl = v.ctl /\ u.calls = v.calls
  BY SetSensitiveDoes
<1>2. SameTime(u, v) /\ Apt(u)
  BY SetSensitiveUntimed, SetSensitiveApt
<1> QED BY <1>1, <1>2 DEF View, Frame, SameRecord

LEMMA LoadTimeView ==
  ASSUME NEW v \in Window, NEW again \in BOOLEAN, NEW u, u = LoadTimeStatus(v, again)
  PROVE  /\ u \in Window /\ View(u, v) /\ CallsKept(u, v) /\ RevokesKept(u, v)
         /\ Apt(v) => Apt(u)
<1>1. u \in Window /\ Same(u, v) /\ MoreStatus(u, v)
  BY LoadTimeStatusDoes
<1>2. View(u, v) /\ CallsKept(u, v) /\ RevokesKept(u, v)
  BY <1>1, SameView, StatusCalls
<1>3. Apt(v) => Apt(u)
  BY <1>1, AptKept DEF Same, Frame, SameQueue, SameRecord, SameLooks
<1> QED BY <1>1, <1>2, <1>3

LEMMA RevealView ==
  ASSUME NEW v \in Window, NEW u, u = Reveal(v)
  PROVE  /\ u \in Window /\ View(u, v) /\ u.calls = v.calls /\ SameTime(u, v)
         /\ Apt(v) => Apt(u)
<1>1. /\ u \in Window /\ Frame(u, v) /\ SameQueue(u, v) /\ SameRecord(u, v)
      /\ u.ctl = v.ctl /\ u.sens = v.sens /\ u.calls = v.calls
  BY RevealDoes
<1>2. Apt(v) => Apt(u)
  BY <1>1, AptKept DEF Frame, SameQueue, SameRecord
<1>3. SameTime(u, v)
  BY RevealUntimed
<1> QED BY <1>1, <1>2, <1>3 DEF View, Frame, SameRecord

LEMMA LoadingUntimed ==
  ASSUME NEW v \in Window, NEW b \in BOOLEAN PROVE SameTime([v EXCEPT !.loading = b], v)
  BY DEF SameTime, Window

LEMMA LoadingEndsView ==
  ASSUME NEW v \in Window, NEW arg \in BOOLEAN,
         NEW u, u = SetSensitive([v EXCEPT !.loading = FALSE], arg)
  PROVE  u \in Window /\ View(u, v) /\ u.calls = v.calls /\ SameTime(u, v) /\ Apt(u)
<1>1. PICK no \in BOOLEAN : no = FALSE
  OBVIOUS
<1>2. PICK z : z = [v EXCEPT !.loading = no]
  OBVIOUS
<1>3. /\ z \in Window /\ Frame(z, v) /\ SameQueue(z, v) /\ SameLooks(z, v)
      /\ z.prefs = v.prefs /\ z.restore = v.restore /\ z.calls = v.calls
  BY <1>2, PutLoading
<1>4. SameTime(z, v)
  BY <1>2, LoadingUntimed
<1>5. u = SetSensitive(z, arg)
  BY <1>1, <1>2
<1>6. u \in Window /\ View(u, z) /\ u.calls = z.calls /\ SameTime(u, z) /\ Apt(u)
  BY <1>3, <1>5, SetSensitiveView
<1>7. View(u, v)
  BY <1>3, <1>6 DEF View, Frame, SameQueue, SameLooks
<1>8. SameTime(u, v)
  BY <1>4, <1>6 DEF SameTime
<1> QED BY <1>3, <1>6, <1>7, <1>8

LEMMA ControlsUntimed ==
  ASSUME NEW v \in Window, NEW k \in Controls PROVE SameTime([v EXCEPT !.ctl = k], v)
  BY DEF SameTime, Window

\* While loading, the switch only takes its new place.
LEMMA SetActiveLoading ==
  ASSUME NEW v \in Window, v.loading, NEW on \in BOOLEAN, NEW u, u = SetActive(v, on)
  PROVE  /\ u \in Window /\ OnlyControls(u, v) /\ SameTime(u, v)
         /\ u.ctl.enabled = on /\ u.ctl.apps = v.ctl.apps
<1>1. CASE v.ctl.enabled = on
  BY <1>1 DEF SetActive, OnlyControls, Frame, SameQueue, SameRecord, SameTime
<1>2. CASE v.ctl.enabled # on
  <2>1. PICK k : k = [v.ctl EXCEPT !.enabled = on]
    OBVIOUS
  <2>2. k \in Controls /\ k.enabled = on /\ k.apps = v.ctl.apps
    BY <2>1 DEF Window, Controls
  <2>3. PICK t : t = [v EXCEPT !.ctl = k]
    OBVIOUS
  <2>4. t \in Window /\ OnlyControls(t, v) /\ t.ctl = k
    BY <2>2, <2>3, PutControls
  <2>5. SameTime(t, v)
    BY <2>2, <2>3, ControlsUntimed
  <2>6. u = EnabledChanged(t)
    BY <1>2, <2>1, <2>3 DEF SetActive, Window
  <2>7. u = t
    BY <2>4, <2>6 DEF EnabledChanged, OnlyControls, SameRecord
  <2> QED BY <2>2, <2>4, <2>5, <2>7
<1> QED BY <1>1, <1>2

LEMMA SetEntryIs ==
  ASSUME NEW v \in Window, NEW text \in Limits \cup {Invalid}, NEW u, u = SetEntry(v, text)
  PROVE  u.ctl.entry = text /\ u.ctl.choice = v.ctl.choice
  BY DEF SetEntry, Window, Controls

LEMMA SetLimitIs ==
  ASSUME NEW v \in Window, NEW limit \in Limits, NEW u, u = SetLimit(v, limit)
  PROVE  Minutes(u) = limit
<1> DEFINE choice == IF limit \in Presets THEN limit ELSE Custom
           ctl == [v.ctl EXCEPT !.choice = choice]
           t == [v EXCEPT !.ctl = ctl]
<1>1. u = SetEntry(t, limit)
  BY DEF SetLimit, Window
<1>2. ctl \in Controls /\ ctl.choice = choice
  BY DEF Window, Controls
<1> HIDE DEF ctl
<1>3. t \in Window /\ t.ctl = ctl
  BY <1>2 DEF Window
<1> HIDE DEF t
<1>4. u.ctl.entry = limit /\ u.ctl.choice = choice
  BY <1>1, <1>2, <1>3, SetEntryIs
<1> QED BY <1>4, ChoicesAssumption DEF Minutes

\* The controls show a record.
Loads(u, v, p) ==
  /\ u.selected = v.selected /\ u.gen = v.gen /\ u.focus = v.focus
  /\ SameQueue(u, v) /\ u.restore = v.restore
  /\ u.prefs = p /\ u.ctl.enabled = p.enabled /\ Minutes(u) = p.limit

LEMMA ShownUntimed ==
  ASSUME NEW v \in Window, NEW c \in Children \cup {NoChild}
  PROVE  SameTime([v EXCEPT !.shown = c], v)
  BY DEF SameTime, Window

LEMMA PrefsUntimed ==
  ASSUME NEW v \in Window, NEW p \in Record PROVE SameTime([v EXCEPT !.prefs = p], v)
  BY DEF SameTime, Window

LEMMA PreferencesLoadedView ==
  ASSUME NEW v \in Window, v.loading, NEW p \in Record, NEW un, NEW u, u = PreferencesLoaded(v, p)
  PROVE  /\ u \in Window /\ Loads(u, v, p) /\ u.ctl.apps = p.apps
         /\ CallsKept(u, v) /\ RevokesKept(u, v) /\ Apt(u) /\ Time(u, un)
<1>1. p.enabled \in BOOLEAN /\ p.limit \in Limits /\ p.apps \in Apps
  BY DEF Record
<1>2. PICK x0 : x0 = [v EXCEPT !.prefs = p]
  OBVIOUS
<1>3. PICK x1 : x1 = SetActive(x0, p.enabled)
  OBVIOUS
<1>4. PICK x2 : x2 = SetLimit(x1, p.limit)
  OBVIOUS
<1>5. PICK x3 : x3 = [x2 EXCEPT !.ctl.apps = p.apps, !.shown = v.selected, !.loading = FALSE]
  OBVIOUS
<1>6. PICK x4 : x4 = SetSensitive(x3, TRUE)
  OBVIOUS
<1>7. PICK x5 : x5 = Reveal(x4)
  OBVIOUS
<1>8. u = LoadTimeStatus(x5, FALSE)
  BY Zenon, <1>2, <1>3, <1>4, <1>5, <1>6, <1>7 DEF PreferencesLoaded
<1>11. /\ x0 \in Window /\ Frame(x0, v) /\ SameQueue(x0, v) /\ SameLooks(x0, v)
       /\ x0.prefs = p /\ x0.restore = v.restore
       /\ x0.calls = v.calls
  BY <1>2, PutPrefs
<1>9. x0.loading
  BY <1>2 DEF Window
<1>12. x1 \in Window /\ OnlyControls(x1, x0) /\ x1.ctl.enabled = p.enabled
  BY <1>1, <1>3, <1>9, <1>11, SetActiveLoading
<1>13. x2 \in Window /\ OnlyLimit(x2, x1) /\ Minutes(x2) = p.limit
  BY <1>1, <1>4, <1>12, SetLimitDoes, SetLimitIs
<1>14. PICK k \in Controls : k = [x2.ctl EXCEPT !.apps = p.apps]
  BY <1>1, <1>13 DEF Window, Controls
<1>15. /\ k.enabled = x2.ctl.enabled /\ k.choice = x2.ctl.choice /\ k.entry = x2.ctl.entry
       /\ k.apps = p.apps
  BY <1>1, <1>13, <1>14 DEF Window, Controls
<1>16. PICK c \in Children \cup {NoChild} : c = v.selected
  BY DEF Window
<1>17. PICK no \in BOOLEAN : no = FALSE
  OBVIOUS
<1>18. PICK y : y = [x2 EXCEPT !.ctl = k]
  OBVIOUS
<1>19. PICK z : z = [y EXCEPT !.shown = c]
  OBVIOUS
<1>20. x3 = [z EXCEPT !.loading = no]
  BY <1>5, <1>13, <1>14, <1>16, <1>17, <1>18, <1>19 DEF Window
<1>21. y \in Window /\ OnlyControls(y, x2) /\ y.ctl = k
  BY <1>13, <1>18, PutControls
<1>22. /\ z \in Window /\ Frame(z, y) /\ SameQueue(z, y) /\ SameLooks(z, y)
       /\ z.prefs = y.prefs /\ z.restore = y.restore /\ z.calls = y.calls
  BY <1>16, <1>19, <1>21, PutShown
<1>23. /\ x3 \in Window /\ Frame(x3, z) /\ SameQueue(x3, z) /\ SameLooks(x3, z)
       /\ x3.prefs = z.prefs /\ x3.restore = z.restore /\ x3.calls = z.calls
  BY <1>17, <1>20, <1>22, PutLoading
<1>24. x4 \in Window /\ View(x4, x3) /\ x4.calls = x3.calls /\ Apt(x4)
  <2>1. TRUE \in BOOLEAN
    OBVIOUS
  <2> QED BY <1>6, <1>23, <2>1, SetSensitiveView
<1>25. x5 \in Window /\ View(x5, x4) /\ x5.calls = x4.calls /\ Apt(x5)
  BY <1>7, <1>24, RevealView
<1>26. /\ u \in Window /\ View(u, x5) /\ CallsKept(u, x5) /\ RevokesKept(u, x5)
       /\ Apt(u) /\ Time(u, un)
  <2>1. FALSE \in BOOLEAN
    OBVIOUS
  <2> QED BY <1>8, <1>25, <2>1, LoadTimeView, TimeRead
<1>27. x5.calls = v.calls
  BY <1>11, <1>12, <1>13, <1>21, <1>22, <1>23, <1>24, <1>25 DEF OnlyControls, OnlyLimit
<1>28. /\ u.selected = v.selected /\ u.gen = v.gen /\ u.focus = v.focus
       /\ SameQueue(u, v)
  BY <1>11, <1>12, <1>13, <1>21, <1>22, <1>23, <1>24, <1>25, <1>26
     DEF OnlyControls, OnlyLimit, View, Frame, SameQueue
<1>29. u.restore = v.restore /\ u.prefs = p /\ u.prefs = x2.prefs
  BY <1>11, <1>12, <1>13, <1>21, <1>22, <1>23, <1>24, <1>25, <1>26
     DEF OnlyControls, OnlyLimit, View, SameRecord
<1>30. u.ctl = k
  BY <1>21, <1>22, <1>23, <1>24, <1>25, <1>26 DEF View, SameLooks
<1>31. u.ctl.enabled = p.enabled /\ u.ctl.apps = p.apps
  BY <1>12, <1>13, <1>15, <1>30 DEF OnlyLimit
<1>32. Minutes(u) = p.limit
  BY <1>13, <1>15, <1>29, <1>30 DEF Minutes
<1>33. Loads(u, v, p)
  BY <1>28, <1>29, <1>31, <1>32 DEF Loads
<1>34. CallsKept(u, v) /\ RevokesKept(u, v)
  BY <1>26, <1>27 DEF CallsKept, RevokesKept
<1> QED BY <1>26, <1>31, <1>33, <1>34

LEMMA FailedView ==
  ASSUME NEW v \in Window, NEW u, u = Failed(v)
  PROVE  /\ u \in Window /\ u.calls = v.calls /\ SameTime(u, v) /\ Apt(u)
         /\ v.prefs = NoRecord => View(u, v)
         /\ v.prefs # NoRecord => Loads(u, v, v.prefs) /\ u.ctl.apps = v.ctl.apps
<1>1. PICK yes \in BOOLEAN : yes = TRUE
  OBVIOUS
<1>2. PICK y : y = [v EXCEPT !.loading = yes]
  OBVIOUS
<1>3. PICK t : t = IF v.prefs = NoRecord THEN y
                   ELSE SetLimit(SetActive(y, v.prefs.enabled), v.prefs.limit)
  OBVIOUS
<1>4. PICK arg \in BOOLEAN : arg = (v.prefs # NoRecord)
  OBVIOUS
<1>5. u = SetSensitive([t EXCEPT !.loading = FALSE], arg)
  BY Zenon, <1>1, <1>2, <1>3, <1>4 DEF Failed
<1>6. /\ y \in Window /\ Frame(y, v) /\ SameQueue(y, v) /\ SameLooks(y, v)
      /\ y.prefs = v.prefs /\ y.loading /\ y.restore = v.restore /\ y.calls = v.calls
  BY <1>1, <1>2, PutLoading
<1>7. SameTime(y, v)
  BY <1>1, <1>2, LoadingUntimed
<1>8. CASE v.prefs = NoRecord
  <2>1. t = y
    BY <1>3, <1>8
  <2>2. u \in Window /\ View(u, y) /\ u.calls = y.calls /\ SameTime(u, y) /\ Apt(u)
    BY <1>5, <1>6, <2>1, LoadingEndsView
  <2>3. View(u, v)
    BY <1>6, <2>2 DEF View, Frame, SameQueue, SameLooks
  <2> QED BY <1>6, <1>7, <1>8, <2>2, <2>3 DEF SameTime
<1>9. CASE v.prefs # NoRecord
  <2>1. v.prefs.enabled \in BOOLEAN /\ v.prefs.limit \in Limits
    BY <1>9 DEF Window, Record
  <2>2. PICK x : x = SetActive(y, v.prefs.enabled)
    OBVIOUS
  <2>3. t = SetLimit(x, v.prefs.limit)
    BY <1>3, <1>9, <2>2
  <2>4. /\ x \in Window /\ OnlyControls(x, y) /\ SameTime(x, y)
        /\ x.ctl.enabled = v.prefs.enabled /\ x.ctl.apps = y.ctl.apps
    BY <1>6, <2>1, <2>2, SetActiveLoading
  <2>5. t \in Window /\ OnlyLimit(t, x) /\ Minutes(t) = v.prefs.limit /\ SameTime(t, x)
    BY <2>1, <2>3, <2>4, SetLimitDoes, SetLimitIs, SetLimitUntimed
  <2>6. u \in Window /\ View(u, t) /\ u.calls = t.calls /\ SameTime(u, t) /\ Apt(u)
    BY <1>5, <2>5, LoadingEndsView
  <2>7. /\ u.selected = v.selected /\ u.gen = v.gen /\ u.focus = v.focus
        /\ SameQueue(u, v)
    BY <1>6, <2>4, <2>5, <2>6 DEF View, OnlyControls, OnlyLimit, Frame, SameQueue
  <2>8. u.restore = v.restore /\ u.prefs = v.prefs /\ u.calls = v.calls
    BY <1>6, <2>4, <2>5, <2>6 DEF View, OnlyControls, OnlyLimit, SameRecord
  <2>9. u.ctl.enabled = v.prefs.enabled /\ u.ctl.apps = v.ctl.apps
    BY <1>6, <2>4, <2>5, <2>6 DEF View, OnlyLimit, SameLooks
  <2>10. Minutes(u) = v.prefs.limit
    BY <2>5, <2>6 DEF View, Minutes
  <2>11. SameTime(u, v)
    BY <1>7, <2>4, <2>5, <2>6 DEF SameTime
  <2> QED BY <1>9, <2>6, <2>7, <2>8, <2>9, <2>10, <2>11 DEF Loads
<1> QED BY <1>8, <1>9

LEMMA StartSaveApt ==
  ASSUME NEW v \in Window, NEW s \in Saves, s.uid \in Children, NEW u, u = StartSave(v, s)
  PROVE  Apt(u)
<1>1. PICK x : x = [v EXCEPT !.saving = TRUE, !.active = s]
  OBVIOUS
<1>2. PICK no \in BOOLEAN : no = FALSE
  OBVIOUS
<1>3. PICK y : y = SetSensitive(x, no)
  OBVIOUS
<1>4. x \in Window
  BY <1>1 DEF Window
<1>5. y \in Window /\ Apt(y)
  BY <1>3, <1>4, SetSensitiveView
<1>6. u = Ask(y, "save", s.uid, s.gen, s)
  BY Zenon, <1>1, <1>2, <1>3 DEF StartSave
<1>7. /\ u.selected = y.selected /\ u.sens = y.sens
      /\ u.loading = y.loading /\ u.saving = y.saving /\ u.ctl = y.ctl
  BY <1>5, <1>6 DEF Ask, Window
<1> QED BY <1>5, <1>7, AptKept

LEMMA QueueSaveApt ==
  ASSUME NEW v \in Window, NEW s \in Saves, s.uid \in Children, NEW u, u = QueueSave(v, s)
  PROVE  ~v.saving \/ Apt(v) => Apt(u)
<1>1. CASE v.saving
  <2>1. u = [v EXCEPT !.pending = Append(@, s)]
    BY <1>1 DEF QueueSave
  <2>2. /\ u.selected = v.selected /\ u.sens = v.sens
        /\ u.loading = v.loading /\ u.saving = v.saving /\ u.ctl = v.ctl
    BY <2>1 DEF Window
  <2> QED BY <1>1, <2>2, AptKept
<1>2. CASE ~v.saving
  BY <1>2, StartSaveApt DEF QueueSave
<1> QED BY <1>1, <1>2

-----------------------------------------------------------------------------
\* How the controls, the queue and the record stay in step.

LEMMA LastQueued ==
  ASSUME NEW v \in Window
  PROVE  /\ Last(v) # NoSave => Last(v) \in Queued(v)
         /\ v.active # NoSave => v.active \in Queued(v)
         /\ Ours(v) \/ Policy(v) => \E s \in Queued(v) : s.uid = v.selected
<1>1. v.active \in Saves \cup {NoSave} /\ v.pending \in Seq(Saves)
  BY DEF Window
<1>2. v.active # NoSave => v.active \in Queued(v)
  BY <1>1 DEF Queued
<1>3. Last(v) # NoSave => Last(v) \in Queued(v)
  <2>1. CASE v.pending = <<>>
    BY <1>2, <2>1 DEF Last
  <2>2. CASE v.pending # <<>>
    <3>1. Len(v.pending) \in DOMAIN v.pending /\ v.pending[Len(v.pending)] \in Saves
      BY <1>1, <2>2
    <3> QED BY <2>2, <3>1 DEF Last, Queued
  <2> QED BY <2>1, <2>2
<1> QED BY <1>2, <1>3 DEF Ours, Policy

\* Without a record, or without a child, the controls show nothing.
LEMMA CoreBlank ==
  ASSUME NEW u, NEW rec, NEW un, u.prefs = NoRecord \/ ~Selected(u),
         NoPolicy(u), Stored(u, rec), Read(u, rec), Away(u)
  PROVE  Core(u, rec, un) /\ Due(u, un)
<1>1. ~Clear(u, un)
  BY DEF Clear
<1> QED BY <1>1 DEF Core, LimitShown, AppsShown, Showing, Agrees, Latest, Known, Due

LEMMA TimeDue == ASSUME NEW u, NEW un, Due(u, un) PROVE Time(u, un)
  BY DEF Time, ShownTime, ReadTime

\* A window that shows the stored record of a child nothing is saved for.
LEMMA CoreLoads ==
  ASSUME NEW u \in Window, NEW v, NEW p, NEW rec, NEW un, Loads(u, v, p), CallsKept(u, v),
         NoPolicy(v), Stored(v, rec), Away(v),
         \A c \in v.calls : c.op = "load" => c.gen # v.gen,
         Clear(u, un) => /\ p = rec[u.selected] /\ u.ctl.apps = p.apps
                         /\ \A s \in Queued(u) : s.uid # u.selected
  PROVE  Core(u, rec, un)
<1>1. /\ u.selected = v.selected /\ u.gen = v.gen /\ u.focus = v.focus
      /\ u.pending = v.pending
  BY DEF Loads, Frame, SameQueue
<1>2. Clear(u, un) => ~Ours(u) /\ ~Policy(u)
  BY LastQueued
<1>3. LimitShown(u, rec, un)
  BY <1>2 DEF LimitShown, Showing, Target, Loads
<1>4. AppsShown(u, rec, un)
  BY <1>2 DEF AppsShown, Showing
<1>5. Agrees(u, rec, un) /\ Latest(u, un)
  BY <1>2 DEF Agrees, Latest
<1>6. Known(u, rec, un)
  BY DEF Known, Loads
<1>7. NoPolicy(u)
  BY <1>1 DEF NoPolicy
<1>8. Stored(u, rec)
  BY DEF Stored, CallsKept
<1>9. Read(u, rec) /\ Away(u)
  BY <1>1 DEF Read, Away, CallsKept
<1> QED BY <1>3, <1>4, <1>5, <1>6, <1>7, <1>8, <1>9 DEF Core

LEMMA ComposedIs ==
  ASSUME NEW v \in Window, NEW kind \in Kinds, NEW s, s = Composed(v, kind)
  PROVE  /\ s.kind = kind /\ s.uid = v.selected /\ s.gen = v.gen
         /\ s.enabled = v.ctl.enabled /\ s.limit = Minutes(v) /\ s.apps = v.ctl.apps
  BY DEF Composed

LEMMA AppendQueued ==
  ASSUME NEW v \in Window, NEW s \in Saves, NEW u, u.active = v.active,
         u.pending = Append(v.pending, s)
  PROVE  Queued(u) = Queued(v) \cup {s} /\ Last(u) = s
<1>1. v.pending \in Seq(Saves)
  BY DEF Window
<1>2. Last(u) = s
  BY <1>1 DEF Last
<1>3. \A t : (\E i \in DOMAIN u.pending : t = u.pending[i])
             <=> t = s \/ \E i \in DOMAIN v.pending : t = v.pending[i]
  <2>1. Len(v.pending) + 1 \in DOMAIN u.pending /\ u.pending[Len(v.pending) + 1] = s
    BY <1>1
  <2>2. \A i \in DOMAIN v.pending : i \in DOMAIN u.pending /\ u.pending[i] = v.pending[i]
    BY <1>1
  <2>3. \A i \in DOMAIN u.pending : i \in DOMAIN v.pending \/ u.pending[i] = s
    BY <1>1
  <2> QED BY <2>1, <2>2, <2>3
<1>4. Queued(u) = Queued(v) \cup {s}
  BY <1>3 DEF Queued
<1> QED BY <1>2, <1>4

\* What the controls show is what will be stored.
Exact(v, rec, un) ==
  Showing(v, un) => /\ v.ctl.enabled = Target(v, rec).enabled
                    /\ Minutes(v) = Target(v, rec).limit

\* What the controls show is queued.
LEMMA ComposedCore ==
  ASSUME NEW v \in Window, NEW kind \in Kinds, NEW rec, NEW un, Selected(v), CanMinutes(v),
         v.saving <=> v.active # NoSave, ~v.saving => v.pending = <<>>,
         AppsShown(v, rec, un) \/ kind = "app-policy",
         Agrees(v, rec, un), NoPolicy(v), Latest(v, un), Known(v, rec, un),
         Stored(v, rec), Read(v, rec), Away(v),
         kind = "app-policy" =>
           /\ ~v.saving
           /\ Clear(v, un) => v.ctl.enabled = rec[v.selected].enabled
                              /\ Minutes(v) = rec[v.selected].limit,
         NEW u, u = QueueSave(v, Composed(v, kind))
  PROVE  /\ Core(u, rec, un) /\ Restoring(u) /\ Exact(u, rec, un)
         /\ Time(v, un) => Time(u, un)
         /\ ~v.saving \/ Apt(v) => Apt(u)
<1>1. PICK s : s = Composed(v, kind)
  OBVIOUS
<1>2. Minutes(v) \in Limits
  BY MinutesTyped DEF CanMinutes
<1>3. s \in Saves /\ s.uid \in Children
  BY <1>1, <1>2, ComposedDoes
<1>4. /\ s.kind = kind /\ s.uid = v.selected /\ s.gen = v.gen
      /\ s.enabled = v.ctl.enabled /\ s.limit = Minutes(v) /\ s.apps = v.ctl.apps
  BY <1>1, ComposedIs
<1>5. u = QueueSave(v, s)
  BY <1>1
<1>6. s # NoSave
  BY <1>3, SaveReal
<1>7. /\ u \in Window /\ Frame(u, v) /\ SameRecord(u, v) /\ u.ctl = v.ctl /\ u.saving
  BY <1>3, <1>5, QueueSaveDoes
<1>8. /\ u.selected = v.selected /\ u.gen = v.gen /\ u.focus = v.focus
      /\ u.prefs = v.prefs /\ u.restore = v.restore
  BY <1>7 DEF Frame, SameRecord
<1>9. Queued(u) = Queued(v) \cup {s} /\ Last(u) = s
  <2>1. CASE v.saving
    <3>1. u.pending = Append(v.pending, s) /\ u.active = v.active
      BY <1>3, <1>5, <2>1, QueueSaveDoes
    <3> QED BY <1>3, <3>1, AppendQueued
  <2>2. CASE ~v.saving
    <3>1. u.pending = <<>> /\ u.active = s /\ v.active = NoSave /\ v.pending = <<>>
      BY <1>3, <1>5, <2>2, QueueSaveDoes
    <3>2. Queued(v) = {}
      BY <3>1, SaveReal DEF Queued
    <3> QED BY <1>3, <3>1, <3>2 DEF Queued, Last
  <2> QED BY <2>1, <2>2
<1>10. (Old(u) <=> Old(v)) /\ (Clear(u, un) <=> Clear(v, un)) /\ (Showing(u, un) <=> Showing(v, un))
  BY <1>4, <1>8, <1>9 DEF Old, Clear, Showing, Selected
<1>11. Ours(u) /\ Target(u, rec) = s
  BY <1>4, <1>6, <1>8, <1>9 DEF Ours, Target
<1>21. /\ v.calls \subseteq u.calls
       /\ \A c \in u.calls : c \in v.calls \/ (c.op = "save" /\ ~c.done)
  <2>1. CASE v.saving
    BY <1>3, <1>5, <2>1, QueueSaveDoes
  <2>2. CASE ~v.saving
    <3>1. \E c : u.calls = v.calls \cup {c} /\ c.op = "save" /\ ~c.done
      BY <1>3, <1>5, <2>2, QueueSaveDoes
    <3> QED BY <3>1
  <2> QED BY <2>1, <2>2
<1>12. CallsKept(u, v)
  BY <1>21 DEF CallsKept
<1>22. Exact(u, rec, un)
  <2>1. Minutes(u) = Minutes(v)
    BY <1>7, <1>8 DEF Minutes
  <2> QED BY <1>4, <1>7, <1>11, <2>1 DEF Exact
<1>13. LimitShown(u, rec, un)
  BY <1>22 DEF LimitShown, Exact
<1>23. Time(v, un) => Time(u, un)
  <2>1. Due(v, un) => Due(u, un)
    BY <1>8, <1>10, <1>21 DEF Due
  <2>2. SameTime(u, v)
    BY <1>3, <1>5, QueueSaveUntimed
  <2> QED BY <1>8, <1>21, <2>1, <2>2, TimeKept
<1>24. ~v.saving \/ Apt(v) => Apt(u)
  BY <1>3, <1>5, QueueSaveApt
<1>14. AppsShown(u, rec, un) /\ Agrees(u, rec, un)
  <2>1. CASE v.saving
    <3>1. u.active = v.active /\ kind # "app-policy"
      BY <1>3, <1>5, <2>1, QueueSaveDoes
    <3>2. Policy(u) <=> Policy(v)
      BY <1>8, <3>1 DEF Policy
    <3> QED BY <1>7, <1>8, <1>10, <3>1, <3>2 DEF AppsShown, Agrees
  <2>2. CASE ~v.saving
    <3>1. u.active = s /\ v.active = NoSave
      BY <1>3, <1>5, <2>2, QueueSaveDoes
    <3>2. ~Policy(v) /\ (Policy(u) <=> kind = "app-policy")
      BY <1>4, <1>6, <1>8, <3>1 DEF Policy
    <3>3. CASE kind = "app-policy"
      BY <1>4, <1>7, <1>8, <1>10, <3>1, <3>2, <3>3 DEF AppsShown, Agrees
    <3>4. CASE kind # "app-policy"
      BY <1>7, <1>8, <1>10, <3>2, <3>4 DEF AppsShown, Agrees
    <3> QED BY <3>3, <3>4
  <2> QED BY <2>1, <2>2
<1>15. NoPolicy(u)
  <2>1. CASE v.saving
    <3>1. u.pending = Append(v.pending, s) /\ kind # "app-policy"
      BY <1>3, <1>5, <2>1, QueueSaveDoes
    <3>2. v.pending \in Seq(Saves)
      BY DEF Window
    <3>3. \A i \in DOMAIN u.pending :
            u.pending[i] = s \/ (i \in DOMAIN v.pending /\ u.pending[i] = v.pending[i])
      BY <3>1, <3>2
    <3> QED BY <1>4, <3>1, <3>3 DEF NoPolicy
  <2>2. CASE ~v.saving
    <3>1. u.pending = <<>>
      BY <1>3, <1>5, <2>2, QueueSaveDoes
    <3> QED BY <3>1 DEF NoPolicy
  <2> QED BY <2>1, <2>2
<1>16. Latest(u, un)
  BY <1>11 DEF Latest
<1>17. Known(u, rec, un)
  BY <1>8, <1>10, <1>12 DEF Known, CallsKept
<1>18. Stored(u, rec)
  BY <1>12 DEF Stored, CallsKept
<1>19. Read(u, rec) /\ Away(u)
  BY <1>8, <1>10, <1>12 DEF Read, Away, CallsKept
<1>20. Restoring(u)
  BY <1>7 DEF Restoring
<1>25. Core(u, rec, un)
  BY <1>13, <1>14, <1>15, <1>16, <1>17, <1>18, <1>19 DEF Core
<1> QED BY <1>20, <1>22, <1>23, <1>24, <1>25

\* The save that is over leaves the queue.
LEMMA DropQueued ==
  ASSUME NEW v \in Window, NEW x, x.active = NoSave, x.pending = v.pending
  PROVE  /\ Queued(x) \subseteq Queued(v)
         /\ \A s \in Queued(v) : s \in Queued(x) \/ s = v.active
         /\ v.pending # <<>> => Last(x) = Last(v)
         /\ v.pending = <<>> => Queued(x) = {} /\ Last(x) = NoSave /\ Last(v) = v.active
<1>1. \A s \in Saves : s # NoSave
  BY SaveReal
<1>2. v.pending # <<>> => Last(x) = Last(v)
  BY DEF Last
<1>3. v.pending = <<>> => Queued(x) = {} /\ Last(x) = NoSave /\ Last(v) = v.active
  BY <1>1 DEF Last, Queued
<1> QED BY <1>1, <1>2, <1>3 DEF Queued

\* The window after the answer to a save, before the next one is started.
Dropped(x, v, c) ==
  /\ x.selected = v.selected /\ x.gen = v.gen /\ x.focus = v.focus /\ x.ctl = v.ctl
  /\ x.pending = v.pending /\ x.active = NoSave /\ x.calls = v.calls \ {c}

LEMMA CoreSaved ==
  ASSUME NEW v \in Window, Queue(v), NEW rec, NEW un, Core(v, rec, un),
         NEW c \in v.calls, c.op = "save", c.done, CallOK(c),
         c.uid = v.selected => c.gen = v.gen /\ v.prefs # NoRecord,
         NEW x \in Window, Dropped(x, v, c), x.restore = v.restore,
         x.prefs = IF c.uid = v.selected THEN c.prefs ELSE v.prefs
  PROVE  Core(x, rec, un) /\ (Clear(x, un) => Clear(v, un))
<1>1. /\ c.save = v.active /\ v.active \in Saves /\ c.uid = v.active.uid /\ c.gen = v.active.gen
      /\ \A d \in x.calls : d \in v.calls /\ d.op # "save"
  BY DEF Queue, CallOK, Dropped
<1>2. /\ x.selected = v.selected /\ x.gen = v.gen /\ x.focus = v.focus /\ x.ctl = v.ctl
      /\ x.pending = v.pending /\ x.active = NoSave
  BY DEF Dropped
<1>3. /\ Queued(x) \subseteq Queued(v)
      /\ \A s \in Queued(v) : s \in Queued(x) \/ s = v.active
      /\ v.pending # <<>> => Last(x) = Last(v)
      /\ v.pending = <<>> => Queued(x) = {} /\ Last(x) = NoSave /\ Last(v) = v.active
  BY <1>2, DropQueued
<1>4. v.active # NoSave
  BY <1>1, SaveReal
<1>5. Old(x) <=> Old(v)
  BY <1>1, <1>2, <1>3 DEF Old
<1>6. c.prefs \in Record /\ c.prefs # NoRecord
  BY RecordReal DEF CallOK
<1>7. (Clear(x, un) <=> Clear(v, un)) /\ (Showing(x, un) <=> Showing(v, un))
  BY <1>2, <1>5, <1>6 DEF Clear, Showing, Selected
<1>8. /\ c.prefs = rec[c.uid] /\ c.prefs.limit = v.active.limit
      /\ v.active.kind # "app-policy" => c.prefs.enabled = v.active.enabled
      /\ v.active.kind = "app-policy" => c.prefs.apps = v.active.apps
  BY <1>1 DEF Core, Stored
<1>9. ~Policy(x)
  BY <1>2 DEF Policy
<1>10. Clear(v, un) => /\ Target(x, rec).enabled = Target(v, rec).enabled
                       /\ Target(x, rec).limit = Target(v, rec).limit
  <2>1. CASE v.pending # <<>>
    BY <1>2, <1>3, <2>1 DEF Target, Ours
  <2>2. CASE v.pending = <<>>
    <3>1. Target(x, rec) = rec[v.selected]
      BY <1>2, <1>3, <2>2 DEF Target, Ours
    <3>2. CASE v.active.uid # v.selected
      BY <1>3, <2>2, <3>1, <3>2 DEF Target, Ours
    <3>3. CASE v.active.uid = v.selected
      <4>1. Target(v, rec) = v.active
        BY <1>3, <1>4, <2>2, <3>3 DEF Target, Ours
      <4>2. rec[v.selected].limit = v.active.limit
        BY <1>1, <1>8, <3>3
      <4>3. v.active.kind # "app-policy" => rec[v.selected].enabled = v.active.enabled
        BY <1>1, <1>8, <3>3
      <4>4. v.active.kind = "app-policy" /\ Clear(v, un) =>
              rec[v.selected].enabled = v.active.enabled
        BY <1>4, <3>3 DEF Core, Agrees, Policy
      <4> QED BY <3>1, <4>1, <4>2, <4>3, <4>4
    <3> QED BY <3>2, <3>3
  <2> QED BY <2>1, <2>2
<1>11. ~Draft(v) => Minutes(x) = Minutes(v) /\ ~Draft(x)
  BY <1>2 DEF Draft, Minutes
<1>12. Draft(v) => Draft(x)
  BY <1>2 DEF Draft
<1>13. LimitShown(x, rec, un)
  BY <1>2, <1>7, <1>10, <1>11, <1>12 DEF Core, LimitShown, Showing
<1>14. AppsShown(x, rec, un)
  <2>1. CASE Policy(v)
    BY <1>1, <1>2, <1>7, <1>8, <1>9, <2>1 DEF Core, AppsShown, Policy
  <2>2. CASE ~Policy(v)
    BY <1>2, <1>7, <1>9, <2>2 DEF Core, AppsShown
  <2> QED BY <2>1, <2>2
<1>15. Agrees(x, rec, un) /\ NoPolicy(x)
  BY <1>2, <1>9 DEF Core, Agrees, NoPolicy
<1>16. Latest(x, un)
  BY <1>2, <1>3, <1>7 DEF Core, Latest, Ours
<1>17. Known(x, rec, un)
  <2>1. CASE c.uid = v.selected
    BY <1>2, <1>8, <2>1 DEF Known
  <2>2. CASE c.uid # v.selected
    <3>1. \A d \in v.calls : d.op = "save" => d = c
      BY DEF Queue
    <3>2. Clear(v, un) => v.prefs = rec[v.selected]
      BY <2>2, <3>1 DEF Core, Known
    <3> QED BY <1>2, <1>7, <2>2, <3>2 DEF Known
  <2> QED BY <2>1, <2>2
<1>18. Stored(x, rec)
  BY <1>1 DEF Stored
<1>19. Read(x, rec) /\ Away(x)
  BY <1>1, <1>2, <1>5 DEF Core, Read, Away
<1> QED BY <1>7, <1>13, <1>14, <1>15, <1>16, <1>17, <1>18, <1>19 DEF Core

LEMMA CoreUnsaved ==
  ASSUME NEW v \in Window, Queue(v), NEW rec, NEW un, Core(v, rec, un),
         NEW c \in v.calls, c.op = "save", CallOK(c),
         c.uid = v.selected => c.gen = v.gen,
         NEW x \in Window, Dropped(x, v, c), x.prefs = v.prefs,
         x.restore = IF c.uid = v.selected THEN c.uid ELSE v.restore,
         NEW un2, un2 = IF c.done THEN un \cup {c.uid} ELSE un
  PROVE  /\ Core(x, rec, un2)
         /\ Due(v, un) => Due(x, un2)
         /\ c.uid = v.selected => Due(x, un2)
<1>1. /\ c.save = v.active /\ v.active \in Saves /\ c.uid = v.active.uid /\ c.gen = v.active.gen
      /\ \A d \in x.calls : d \in v.calls /\ d.op # "save"
      /\ \A d \in v.calls : d.op = "save" => d = c
  BY DEF Queue, CallOK, Dropped
<1>2. /\ x.selected = v.selected /\ x.gen = v.gen /\ x.focus = v.focus /\ x.ctl = v.ctl
      /\ x.pending = v.pending /\ x.active = NoSave
  BY DEF Dropped
<1>3. /\ Queued(x) \subseteq Queued(v)
      /\ \A s \in Queued(v) : s \in Queued(x) \/ s = v.active
      /\ v.pending # <<>> => Last(x) = Last(v)
      /\ v.pending = <<>> => Queued(x) = {} /\ Last(x) = NoSave /\ Last(v) = v.active
  BY <1>2, DropQueued
<1>4. v.active # NoSave
  BY <1>1, SaveReal
<1>5. Old(x) <=> Old(v)
  BY <1>1, <1>2, <1>3 DEF Old
<1>6. Clear(x, un2) => Clear(v, un) /\ ~(c.uid = v.selected /\ c.done)
  BY <1>2, <1>5 DEF Clear, Selected
<1>7. Showing(x, un2) => Showing(v, un) /\ c.uid # v.selected
  BY <1>2, <1>6 DEF Showing
<1>8. ~Policy(x) /\ (c.uid # v.selected => ~Policy(v))
  BY <1>1, <1>2 DEF Policy
<1>9. c.uid # v.selected => Target(x, rec) = Target(v, rec)
  <2>1. CASE v.pending # <<>>
    BY <1>2, <1>3, <2>1 DEF Target, Ours
  <2>2. CASE v.pending = <<>>
    BY <1>1, <1>2, <1>3, <2>2 DEF Target, Ours
  <2> QED BY <2>1, <2>2
<1>10. (Draft(x) <=> Draft(v)) /\ Minutes(x) = Minutes(v)
  BY <1>2 DEF Draft, Minutes
<1>11. LimitShown(x, rec, un2)
  BY <1>2, <1>7, <1>9, <1>10 DEF Core, LimitShown
<1>12. AppsShown(x, rec, un2)
  BY <1>2, <1>7, <1>8 DEF Core, AppsShown
<1>13. Agrees(x, rec, un2) /\ NoPolicy(x)
  BY <1>2, <1>8 DEF Core, Agrees, NoPolicy
<1>14. Latest(x, un2)
  BY <1>2, <1>3, <1>6 DEF Core, Latest, Ours
<1>15. Known(x, rec, un2)
  BY <1>1, <1>2, <1>6 DEF Core, Known
<1>16. Stored(x, rec)
  BY <1>1 DEF Stored
<1>17. Read(x, rec) /\ Away(x)
  BY <1>1, <1>2, <1>5 DEF Core, Read, Away
<1>18. c.uid = v.selected => Due(x, un2)
  BY <1>2 DEF Due
<1>19. Due(v, un) => Due(x, un2)
  <2>1. CASE c.uid = v.selected
    BY <1>18, <2>1
  <2>2. CASE c.uid # v.selected
    <3>1. \A d \in v.calls : d.uid = v.selected => d \in x.calls
      BY <2>2 DEF Dropped
    <3>2. x.restore = v.restore
      BY <2>2
    <3> QED BY <1>2, <1>6, <3>1, <3>2 DEF Due
  <2> QED BY <2>1, <2>2
<1> QED BY <1>11, <1>12, <1>13, <1>14, <1>15, <1>16, <1>17, <1>18, <1>19 DEF Core

\* Only what is no matter of the controls, the queue or the time differs.
LEMMA ViewOnly ==
  ASSUME NEW u, NEW v, View(u, v), u.calls = v.calls, NEW rec, NEW un
  PROVE  /\ Core(v, rec, un) => Core(u, rec, un)
         /\ Restoring(v) => Restoring(u)
         /\ Due(v, un) => Due(u, un)
         /\ SameTime(u, v) /\ Time(v, un) => Time(u, un)
<1>1. CallsKept(u, v) /\ RevokesKept(u, v)
  BY DEF CallsKept, RevokesKept
<1>2. /\ Core(v, rec, un) => Core(u, rec, un)
      /\ Due(v, un) => Due(u, un)
  BY <1>1, ViewKept
<1>3. Restoring(v) => Restoring(u)
  BY DEF Restoring, View, SameQueue
<1>4. SameTime(u, v) /\ Time(v, un) => Time(u, un)
  BY <1>2, TimeKept DEF View, Frame
<1> QED BY <1>2, <1>3, <1>4

LEMMA EmptyWhole == ASSUME NEW S, NEW q \in Seq(S) PROVE q = <<>> <=> Len(q) = 0
  OBVIOUS

LEMMA LastOfTail ==
  ASSUME NEW S, NEW q \in Seq(S), q # <<>>
  PROVE  /\ Tail(q) = <<>> => q[Len(q)] = q[1]
         /\ Tail(q) # <<>> => Tail(q)[Len(Tail(q))] = q[Len(q)]
<1>1. PICK n \in Nat : n = Len(q)
  OBVIOUS
<1>2. n # 0 /\ Tail(q) \in Seq(S) /\ Len(Tail(q)) = n - 1
  BY <1>1
<1>3. CASE n = 1
  <2>1. Len(Tail(q)) = 0
    BY <1>2, <1>3
  <2>2. Tail(q) = <<>>
    BY <1>2, <2>1, EmptyWhole
  <2> QED BY <1>1, <1>3, <2>2
<1>4. CASE n > 1
  <2>1. n - 1 \in 1..(n - 1)
    BY <1>4
  <2>2. Tail(q)[n - 1] = q[n]
    BY <1>1, <1>2, <2>1
  <2>3. Tail(q) # <<>>
    <3>1. Len(Tail(q)) # 0
      BY <1>2, <1>4
    <3> QED BY <1>2, <3>1, EmptyWhole
  <2> QED BY <1>1, <1>2, <2>2, <2>3
<1> QED BY <1>2, <1>3, <1>4

LEMMA HeadQueued ==
  ASSUME NEW v \in Window, v.active = NoSave, v.pending # <<>>,
         NEW u, u.active = Head(v.pending), u.pending = Tail(v.pending)
  PROVE  /\ Head(v.pending) \in Saves /\ Queued(u) = Queued(v) /\ Last(u) = Last(v)
         /\ NoPolicy(v) => NoPolicy(u) /\ u.active.kind # "app-policy"
<1>1. v.pending \in Seq(Saves)
  BY DEF Window
<1>2. Head(v.pending) = v.pending[1] /\ 1 \in DOMAIN v.pending /\ v.pending[1] \in Saves
  BY <1>1
<1>3. \A i \in DOMAIN u.pending : i + 1 \in DOMAIN v.pending /\ u.pending[i] = v.pending[i + 1]
  BY <1>1
<1>4. \A i \in DOMAIN v.pending :
        i = 1 \/ (i - 1 \in DOMAIN u.pending /\ v.pending[i] = u.pending[i - 1])
  BY <1>1
<1>5. \A s \in Saves : s # NoSave
  BY SaveReal
<1>6. \A s \in Saves : s \in Queued(u) <=> s \in Queued(v)
  BY <1>2, <1>3, <1>4, <1>5 DEF Queued
<1>7. Last(u) = Last(v)
  BY <1>1, <1>2, LastOfTail DEF Last
<1>8. NoPolicy(v) => NoPolicy(u) /\ u.active.kind # "app-policy"
  BY <1>2, <1>3 DEF NoPolicy
<1> QED BY <1>2, <1>6, <1>7, <1>8 DEF Queued

LEMMA TailUntimed ==
  ASSUME NEW v \in Window PROVE SameTime([v EXCEPT !.pending = Tail(@)], v)
  BY DEF SameTime, Window

LEMMA RestoreUntimed ==
  ASSUME NEW v \in Window, NEW c \in Children \cup {NoChild}
  PROVE  SameTime([v EXCEPT !.restore = c], v)
  BY DEF SameTime, Window

\* No save is under way, and who has a record waits for no load.
Idle(v) ==
  /\ ~v.saving /\ v.active = NoSave /\ \A c \in v.calls : c.op # "save"
  /\ v.prefs # NoRecord /\ Selected(v) => \A c \in v.calls : c.op = "load" => c.gen # v.gen

LEMMA StartNextSaveCore ==
  ASSUME NEW v, Sound(v), Idle(v), NEW rec, NEW un, Core(v, rec, un), Time(v, un),
         NEW u, u = StartNextSave(v)
  PROVE  /\ u \in Window /\ Core(u, rec, un) /\ Restoring(u) /\ Time(u, un)
         /\ u.saving => Apt(u)
<1>1. v \in Window
  BY DEF Sound
<1>2. PICK no \in Children \cup {NoChild} : no = NoChild
  OBVIOUS
<1>3. PICK yes \in BOOLEAN : yes = TRUE
  OBVIOUS
<1>4. PICK y : y = [v EXCEPT !.restore = no]
  OBVIOUS
<1>5. PICK z : z = [y EXCEPT !.loading = yes]
  OBVIOUS
<1>6. PICK t : t = [v EXCEPT !.pending = Tail(@)]
  OBVIOUS
<1>7. \/ v.pending # <<>> /\ u = StartSave(t, Head(v.pending))
      \/ v.pending = <<>> /\ v.prefs # NoRecord /\ Selected(v) /\ u = PreferencesLoaded(z, v.prefs)
      \/ v.pending = <<>> /\ u = y /\ (Showing(v, un) \/ ~Clear(v, un))
  BY Zenon, <1>2, <1>3, <1>4, <1>5, <1>6 DEF StartNextSave, Showing, Clear, Selected
<1>8. /\ y \in Window /\ Frame(y, v) /\ SameQueue(y, v) /\ SameLooks(y, v)
      /\ y.prefs = v.prefs /\ y.restore = no /\ y.calls = v.calls
  BY <1>1, <1>4, PutRestore
<1>9. SameTime(y, v)
  BY <1>1, <1>4, RestoreUntimed
<1>10. CASE v.pending # <<>> /\ u = StartSave(t, Head(v.pending))
  <2>1. /\ t \in Window /\ Frame(t, v) /\ SameRecord(t, v) /\ SameLooks(t, v)
        /\ t.pending = Tail(v.pending) /\ t.calls = v.calls
    BY <1>1, <1>6, <1>10, PutTail
  <2>2. SameTime(t, v)
    BY <1>1, <1>6, TailUntimed
  <2>3. v.pending \in Seq(Saves)
    BY <1>1 DEF Window
  <2>4. PICK s \in Saves : s = Head(v.pending) /\ s = v.pending[1] /\ 1 \in DOMAIN v.pending
    BY <1>10, <2>3
  <2>5. s.uid \in Children
    BY <2>4 DEF Sound
  <2>6. u = StartSave(t, s)
    BY <1>10, <2>4
  <2>7. /\ u \in Window /\ Frame(u, t) /\ SameRecord(u, t) /\ u.ctl = t.ctl
        /\ u.pending = t.pending /\ u.saving /\ u.active = s
    BY <2>1, <2>5, <2>6, StartSaveDoes
  <2>8. PICK c : u.calls = v.calls \cup {c} /\ c.op = "save" /\ ~c.done
    <3>1. \E c : u.calls = t.calls \cup {c} /\ c.op = "save" /\ ~c.done
      BY <2>1, <2>5, <2>6, StartSaveDoes
    <3> QED BY <2>1, <3>1
  <2>9. Apt(u)
    BY <2>1, <2>5, <2>6, StartSaveApt
  <2>10. SameTime(u, v)
    <3>1. SameTime(u, t)
      BY <2>1, <2>6, StartSaveUntimed
    <3> QED BY <2>2, <3>1 DEF SameTime
  <2>11. /\ u.selected = v.selected /\ u.gen = v.gen /\ u.focus = v.focus
         /\ u.prefs = v.prefs /\ u.restore = v.restore /\ u.ctl = v.ctl
    BY <2>1, <2>7 DEF Frame, SameRecord, SameLooks
  <2>12. /\ Queued(u) = Queued(v) /\ Last(u) = Last(v)
         /\ NoPolicy(u) /\ u.active.kind # "app-policy"
    BY <1>1, <1>10, <2>1, <2>4, <2>7, HeadQueued DEF Idle, Core
  <2>13. (Old(u) <=> Old(v)) /\ (Ours(u) <=> Ours(v))
    BY <2>11, <2>12 DEF Old, Ours
  <2>14. (Clear(u, un) <=> Clear(v, un)) /\ (Showing(u, un) <=> Showing(v, un))
    BY <2>11, <2>13 DEF Clear, Showing, Selected
  <2>15. Target(u, rec) = Target(v, rec)
    BY <2>11, <2>12, <2>13 DEF Target
  <2>16. ~Policy(u) /\ ~Policy(v)
    BY <2>12 DEF Policy, Idle
  <2>17. (Draft(u) <=> Draft(v)) /\ Minutes(u) = Minutes(v)
    BY <2>11 DEF Draft, Minutes
  <2>18. LimitShown(u, rec, un) /\ AppsShown(u, rec, un) /\ Agrees(u, rec, un)
    BY <2>11, <2>14, <2>15, <2>16, <2>17 DEF Core, LimitShown, AppsShown, Agrees
  <2>19. Latest(u, un)
    BY <2>11, <2>12, <2>13, <2>14 DEF Core, Latest
  <2>20. Known(u, rec, un)
    BY <2>8, <2>11, <2>14 DEF Core, Known
  <2>21. Stored(u, rec) /\ Read(u, rec) /\ Away(u)
    BY <2>8, <2>11, <2>13 DEF Core, Stored, Read, Away
  <2>22. Core(u, rec, un)
    BY <2>12, <2>18, <2>19, <2>20, <2>21 DEF Core
  <2>23. Due(v, un) => Due(u, un)
    BY <2>8, <2>11, <2>14 DEF Due
  <2>24. Time(u, un)
    BY <2>8, <2>10, <2>11, <2>23, TimeKept
  <2> QED BY <2>7, <2>9, <2>22, <2>24 DEF Restoring
<1>11. CASE /\ v.pending = <<>> /\ v.prefs # NoRecord /\ Selected(v)
            /\ u = PreferencesLoaded(z, v.prefs)
  <2>1. PICK p \in Record : p = v.prefs
    BY <1>1, <1>11 DEF Window
  <2>2. u = PreferencesLoaded(z, p)
    BY <1>11, <2>1
  <2>3. /\ z \in Window /\ Frame(z, y) /\ SameQueue(z, y) /\ SameLooks(z, y)
        /\ z.restore = y.restore /\ z.calls = y.calls
    BY <1>3, <1>5, <1>8, PutLoading
  <2>4. z.loading
    BY <1>3, <1>5, <1>8 DEF Window
  <2>5. /\ u \in Window /\ Loads(u, z, p) /\ u.ctl.apps = p.apps
        /\ CallsKept(u, z) /\ RevokesKept(u, z) /\ Apt(u) /\ Time(u, un)
    BY <2>2, <2>3, <2>4, PreferencesLoadedView
  <2>6. /\ z.calls = v.calls /\ z.pending = v.pending /\ z.active = v.active /\ z.gen = v.gen
        /\ z.selected = v.selected /\ z.focus = v.focus /\ z.restore = NoChild
    BY <1>2, <1>8, <2>3 DEF Frame, SameQueue
  <2>7. /\ u.pending = <<>> /\ u.active = NoSave /\ u.selected = v.selected
        /\ u.prefs = v.prefs /\ u.restore = NoChild
    BY <1>11, <2>1, <2>5, <2>6 DEF Loads, Frame, SameQueue, Idle
  <2>8. Queued(u) = {} /\ Queued(v) = {}
    BY <1>11, <2>7, SaveReal DEF Queued, Idle
  <2>9. Clear(u, un) => p = rec[u.selected]
    <3>1. Clear(u, un) => Clear(v, un)
      BY <2>7, <2>8 DEF Clear, Old, Selected
    <3> QED BY <2>1, <2>7, <3>1 DEF Core, Known, Idle
  <2>10. NoPolicy(z) /\ Stored(z, rec) /\ Away(z)
    BY <2>6 DEF Core, NoPolicy, Stored, Away
  <2>11. \A c \in z.calls : c.op = "load" => c.gen # z.gen
    BY <1>11, <2>6 DEF Idle
  <2>12. Core(u, rec, un)
    BY <2>5, <2>8, <2>9, <2>10, <2>11, CoreLoads
  <2> QED BY <2>5, <2>7, <2>12 DEF Restoring
<1>12. CASE v.pending = <<>> /\ u = y /\ (Showing(v, un) \/ ~Clear(v, un))
  <2>1. /\ u \in Window /\ u.selected = v.selected /\ u.gen = v.gen /\ u.focus = v.focus
        /\ u.active = v.active /\ u.pending = v.pending /\ u.ctl = v.ctl /\ u.saving = v.saving
        /\ u.prefs = v.prefs /\ u.restore = NoChild /\ u.calls = v.calls
    BY <1>2, <1>8, <1>12 DEF Frame, SameQueue, SameLooks
  <2>2. Queued(u) = Queued(v) /\ Last(u) = Last(v)
    BY <2>1 DEF Queued, Last
  <2>3. /\ (Old(u) <=> Old(v)) /\ (Ours(u) <=> Ours(v)) /\ (Policy(u) <=> Policy(v))
        /\ (Draft(u) <=> Draft(v)) /\ Minutes(u) = Minutes(v)
    BY <2>1, <2>2 DEF Old, Ours, Policy, Draft, Minutes
  <2>4. (Clear(u, un) <=> Clear(v, un)) /\ (Showing(u, un) => Showing(v, un))
    BY <1>12, <2>1, <2>3 DEF Clear, Showing, Selected
  <2>5. Target(u, rec) = Target(v, rec)
    BY <2>1, <2>2, <2>3 DEF Target
  <2>6. LimitShown(u, rec, un) /\ AppsShown(u, rec, un) /\ Agrees(u, rec, un)
    BY <2>1, <2>3, <2>4, <2>5 DEF Core, LimitShown, AppsShown, Agrees
  <2>7. NoPolicy(u) /\ Latest(u, un) /\ Known(u, rec, un)
    BY <2>1, <2>2, <2>3, <2>4 DEF Core, NoPolicy, Latest, Known
  <2>8. Stored(u, rec) /\ Read(u, rec) /\ Away(u)
    BY <2>1, <2>3 DEF Core, Stored, Read, Away
  <2>9. Core(u, rec, un)
    BY <2>6, <2>7, <2>8 DEF Core
  <2>10. Due(v, un) => Due(u, un)
    BY <1>12, <2>1, <2>4 DEF Due, Showing
  <2>11. Time(u, un)
    BY <1>9, <1>12, <2>1, <2>10, TimeKept
  <2> QED BY <2>1, <2>9, <2>11 DEF Restoring, Idle
<1> QED BY <1>7, <1>10, <1>11, <1>12

LEMMA SaveEndedCore ==
  ASSUME NEW v, Sound(v), Idle(v), NEW rec, NEW un, Core(v, rec, un), Time(v, un),
         NEW u, u = SaveEnded(v)
  PROVE  Core(u, rec, un) /\ Restoring(u) /\ Time(u, un) /\ Apt(u)
<1>1. PICK x : x = StartNextSave(v)
  OBVIOUS
<1>2. PICK yes \in BOOLEAN : yes = TRUE
  OBVIOUS
<1>3. (x.saving /\ u = x) \/ (~x.saving /\ u = SetSensitive(x, yes))
  BY Zenon, <1>1, <1>2 DEF SaveEnded
<1>4. /\ x \in Window /\ Core(x, rec, un) /\ Restoring(x) /\ Time(x, un)
      /\ x.saving => Apt(x)
  BY <1>1, StartNextSaveCore
<1>5. CASE x.saving /\ u = x
  BY <1>4, <1>5
<1>6. CASE ~x.saving /\ u = SetSensitive(x, yes)
  <2>1. View(u, x) /\ u.calls = x.calls /\ SameTime(u, x) /\ Apt(u)
    BY <1>4, <1>6, SetSensitiveView
  <2>2. Core(u, rec, un) /\ Restoring(u) /\ Time(u, un)
    BY <1>4, <2>1, ViewOnly
  <2> QED BY <2>1, <2>2
<1> QED BY <1>3, <1>5, <1>6

-----------------------------------------------------------------------------
\* The second layer of the invariant, and what a step leaves of it.

Good(v, rec, un) == Core(v, rec, un) /\ Restoring(v) /\ Time(v, un) /\ Apt(v)

LEMMA ViewGood ==
  ASSUME NEW u, NEW v, View(u, v), u.calls = v.calls, SameTime(u, v), Apt(v) => Apt(u),
         NEW rec, NEW un, Good(v, rec, un)
  PROVE  Good(u, rec, un)
  BY ViewOnly DEF Good

LEMMA SameGood ==
  ASSUME NEW u, NEW v, Same(u, v), u.calls = v.calls, SameTime(u, v),
         NEW rec, NEW un, Good(v, rec, un)
  PROVE  Good(u, rec, un)
<1>1. View(u, v)
  BY SameView
<1>2. Apt(v) => Apt(u)
  BY AptKept DEF Same, Frame, SameQueue, SameRecord, SameLooks
<1> QED BY <1>1, <1>2, ViewGood

\* All but what depends on the limit that is being chosen.
Steady(v, rec, un) ==
  /\ AppsShown(v, rec, un) /\ Agrees(v, rec, un)
  /\ NoPolicy(v) /\ Latest(v, un) /\ Known(v, rec, un)
  /\ Stored(v, rec) /\ Read(v, rec)

\* The parent changed the limit controls, or asked for something.
Chosen(u, v) ==
  /\ u.selected = v.selected /\ u.gen = v.gen /\ SameQueue(u, v)
  /\ u.prefs = v.prefs /\ u.restore = v.restore /\ SameTime(u, v)
  /\ v.calls \subseteq u.calls
  /\ \A c \in u.calls : c \in v.calls \/ (~c.done /\ c.op # "status")

LEMMA ChosenSame ==
  ASSUME NEW u, NEW v, Chosen(u, v), NEW rec, NEW un
  PROVE  /\ Queued(u) = Queued(v) /\ (Clear(u, un) <=> Clear(v, un))
         /\ (Showing(u, un) <=> Showing(v, un)) /\ (Policy(u) <=> Policy(v))
         /\ Target(u, rec) = Target(v, rec) /\ (Old(u) <=> Old(v)) /\ (Ours(u) <=> Ours(v))
<1> USE DEF Chosen, SameQueue
<1>1. Queued(u) = Queued(v)
  BY DEF Queued
<1>2. Old(u) <=> Old(v)
  BY <1>1 DEF Old
<1>3. Clear(u, un) <=> Clear(v, un)
  BY <1>2 DEF Clear, Selected
<1>4. Last(u) = Last(v)
  BY DEF Last
<1>5. Ours(u) <=> Ours(v)
  BY <1>4 DEF Ours
<1> QED BY <1>1, <1>2, <1>3, <1>4, <1>5 DEF Showing, Policy, Target

LEMMA ChosenKept ==
  ASSUME NEW u, NEW v, Chosen(u, v), NEW rec, NEW un
  PROVE  /\ Steady(v, rec, un) /\ u.ctl.apps = v.ctl.apps => Steady(u, rec, un)
         /\ Steady(v, rec, un) => /\ Agrees(u, rec, un) /\ NoPolicy(u) /\ Latest(u, un)
                                  /\ Known(u, rec, un) /\ Stored(u, rec) /\ Read(u, rec)
         /\ Due(v, un) => Due(u, un)
         /\ Time(v, un) => Time(u, un)
         /\ Restoring(v) => Restoring(u)
<1>1. /\ Queued(u) = Queued(v) /\ (Clear(u, un) <=> Clear(v, un))
      /\ (Showing(u, un) <=> Showing(v, un)) /\ (Policy(u) <=> Policy(v))
      /\ (Old(u) <=> Old(v)) /\ (Ours(u) <=> Ours(v))
  BY ChosenSame
<1>2. /\ u.selected = v.selected /\ u.gen = v.gen /\ u.active = v.active
      /\ u.pending = v.pending /\ u.saving = v.saving
      /\ u.prefs = v.prefs /\ u.restore = v.restore /\ SameTime(u, v)
  BY DEF Chosen, SameQueue
<1>3. /\ \A c \in v.calls : c \in u.calls
      /\ \A c \in u.calls : c \in v.calls \/ (~c.done /\ c.op # "status")
  BY DEF Chosen
<1>4. ASSUME Steady(v, rec, un)
      PROVE  /\ Agrees(u, rec, un) /\ NoPolicy(u) /\ Latest(u, un)
             /\ Known(u, rec, un) /\ Stored(u, rec) /\ Read(u, rec)
  <2>1. Agrees(u, rec, un)
    BY <1>1, <1>2, <1>4 DEF Steady, Agrees
  <2>2. NoPolicy(u) /\ Latest(u, un)
    BY <1>1, <1>2, <1>4 DEF Steady, NoPolicy, Latest
  <2>3. Known(u, rec, un)
    BY <1>1, <1>2, <1>3, <1>4 DEF Steady, Known
  <2>4. Stored(u, rec)
    BY <1>3, <1>4 DEF Steady, Stored
  <2>5. Read(u, rec)
    BY <1>1, <1>2, <1>3, <1>4 DEF Steady, Read
  <2> QED BY <2>1, <2>2, <2>3, <2>4, <2>5
<1>8. ASSUME Steady(v, rec, un), u.ctl.apps = v.ctl.apps PROVE Steady(u, rec, un)
  <2>1. AppsShown(u, rec, un)
    BY <1>1, <1>2, <1>8 DEF Steady, AppsShown
  <2> QED BY <1>4, <1>8, <2>1 DEF Steady
<1>5. Due(v, un) => Due(u, un)
  BY <1>1, <1>2, <1>3 DEF Due
<1>6. Time(v, un) => Time(u, un)
  BY <1>2, <1>3, <1>5, TimeKept
<1>7. Restoring(v) => Restoring(u)
  BY <1>2 DEF Restoring
<1> QED BY <1>4, <1>5, <1>6, <1>7, <1>8

LEMMA SteadyCore ==
  ASSUME NEW v, NEW rec, NEW un
  PROVE  Core(v, rec, un) <=> Steady(v, rec, un) /\ LimitShown(v, rec, un) /\ Away(v)
  BY DEF Core, Steady

-----------------------------------------------------------------------------
\* Selections.

LEMMA LoadSelectedGood ==
  ASSUME NEW v \in Window, Selected(v), NEW rec, NEW un,
         NoPolicy(v), Stored(v, rec), Gens(v), Restoring(v), NEW u, u = LoadSelected(v)
  PROVE  Good(u, rec, un)
<1>1. v.gen \in Nat /\ v.selected \in Children /\ v.calls \subseteq Calls
  BY DEF Window, Selected
<1>2. PICK x : x = [v EXCEPT !.panel = "blank", !.prefs = NoRecord, !.loading = TRUE,
                             !.revocable = FALSE, !.ready = FALSE, !.status = "none",
                             !.gen = @ + 1]
  OBVIOUS
<1>3. PICK no \in BOOLEAN : no = FALSE
  OBVIOUS
<1>4. PICK y : y = SetSensitive(x, no)
  OBVIOUS
<1>5. u = Ask(y, "load", x.selected, x.gen, NoSave)
  BY Zenon, <1>2, <1>3, <1>4 DEF LoadSelected
<1>6. x \in Window
  <2>1. PICK a : a = [v EXCEPT !.panel = "blank", !.prefs = NoRecord, !.loading = TRUE]
    OBVIOUS
  <2>2. PICK b : b = [a EXCEPT !.revocable = FALSE, !.ready = FALSE, !.status = "none"]
    OBVIOUS
  <2>3. a \in Window
    BY Zenon, <2>1, BlankTyped
  <2>4. b \in Window
    BY Zenon, <2>2, <2>3, UnreadyTyped
  <2>5. x = [b EXCEPT !.gen = @ + 1]
    BY <1>1, <1>2, <2>1, <2>2 DEF Window
  <2> QED BY Zenon, <2>4, <2>5, GenTyped
<1>7. /\ x.gen = v.gen + 1 /\ SameQueue(x, v) /\ x.prefs = NoRecord
      /\ x.restore = v.restore /\ x.calls = v.calls
  BY <1>1, <1>2 DEF Window, SameQueue
<1>8. y \in Window /\ View(y, x) /\ y.calls = x.calls /\ Apt(y)
  BY <1>4, <1>6, SetSensitiveView
<1>9. PICK op : op = "load"
  OBVIOUS
<1>10. PICK c : c = [op |-> op, uid |-> x.selected, gen |-> x.gen, save |-> NoSave,
                     done |-> FALSE, prefs |-> NoRecord, fresh |-> FALSE]
  OBVIOUS
<1>11. c.op = "load" /\ ~c.done
  BY <1>9, <1>10
<1>12. u = [y EXCEPT !.calls = @ \cup {c}]
  BY Zenon, <1>5, <1>9, <1>10 DEF Ask
<1>13. /\ u.selected = y.selected /\ u.gen = y.gen /\ u.prefs = y.prefs /\ u.restore = y.restore
       /\ u.pending = y.pending /\ u.saving = y.saving /\ u.calls = y.calls \cup {c}
       /\ u.sens = y.sens /\ u.loading = y.loading /\ u.ctl = y.ctl
  BY <1>8, <1>12 DEF Window
<1>14. /\ u.gen = v.gen + 1 /\ u.pending = v.pending /\ u.saving = v.saving
       /\ u.prefs = NoRecord /\ u.restore = v.restore /\ u.calls = v.calls \cup {c}
  BY <1>7, <1>8, <1>13 DEF View, SameQueue
<1>15. \A d \in v.calls : d.gen # v.gen + 1
  <2>1. \A d \in v.calls : d.gen \in Nat
    BY <1>1 DEF Calls
  <2> QED BY <1>1, <2>1 DEF Gens
<1>16. NoPolicy(u) /\ Restoring(u)
  BY <1>14 DEF NoPolicy, Restoring
<1>17. Stored(u, rec)
  BY <1>11, <1>14 DEF Stored
<1>18. Read(u, rec) /\ Away(u)
  BY <1>11, <1>14, <1>15 DEF Read, Away
<1>19. Core(u, rec, un) /\ Time(u, un)
  BY <1>14, <1>16, <1>17, <1>18, CoreBlank, TimeDue
<1>20. Apt(u)
  BY <1>8, <1>13, AptKept
<1> QED BY <1>16, <1>19, <1>20 DEF Good

LEMMA SelectGood ==
  ASSUME NEW v, Sound(v), Order(v), NEW rec, NEW un, Good(v, rec, un),
         NEW c \in Children, NEW u, u = LoadSelected([v EXCEPT !.selected = c])
  PROVE  Good(u, rec, un)
<1>1. v \in Window /\ c \in Children \cup {NoChild}
  BY DEF Sound
<1>2. PICK x : x = [v EXCEPT !.selected = c]
  OBVIOUS
<1>3. /\ x \in Window /\ x.selected = c /\ x.gen = v.gen /\ x.of = v.of
      /\ SameQueue(x, v) /\ SameRecord(x, v) /\ x.calls = v.calls
  BY <1>1, <1>2, PutSelected
<1>4. Selected(x)
  BY <1>3, ChildrenAssumption DEF Selected
<1>5. Gens(x) /\ Restoring(x) /\ NoPolicy(x) /\ Stored(x, rec)
  BY <1>3 DEF Order, Gens, Good, Core, Restoring, NoPolicy, Stored, SameQueue, SameRecord
<1> QED BY <1>2, <1>3, <1>4, <1>5, LoadSelectedGood

\* Without a child there is nothing to show.
LEMMA UnselectedGood ==
  ASSUME NEW v, Sound(v), ~Selected(v), NEW rec, NEW un,
         NoPolicy(v), Stored(v, rec), Away(v), Restoring(v)
  PROVE  Good(v, rec, un)
<1>1. \A c \in v.calls : c.uid # v.selected
  BY ChildrenAssumption DEF Sound, CallOK, Selected
<1>2. Read(v, rec)
  BY <1>1 DEF Read
<1>3. Core(v, rec, un) /\ Time(v, un)
  BY <1>2, CoreBlank, TimeDue
<1> QED BY <1>3 DEF Good, Apt

LEMMA UsersLoadedGood ==
  ASSUME NEW v, Sound(v), Order(v), NEW rec, NEW un, Good(v, rec, un),
         NEW us \in SUBSET Children, NEW u, u = UsersLoaded(v, us)
  PROVE  Good(u, rec, un)
<1>1. v \in Window
  BY DEF Sound
<1>2. PICK x : x = [v EXCEPT !.users = us, !.known = TRUE]
  OBVIOUS
<1>3. x \in Window /\ Same(x, v) /\ x.calls = v.calls
  BY <1>1, <1>2, PutUsers
<1>4. SameTime(x, v)
  BY <1>1, <1>2 DEF SameTime, Window
<1>5. Sound(x) /\ Order(x) /\ Good(x, rec, un)
  BY <1>1, <1>3, <1>4, StatusKeeps, NoMore, SameGood
<1>6. \/ u = x
      \/ us # {} /\ u = LoadSelected([x EXCEPT !.selected = First(us)])
      \/ u = [x EXCEPT !.selected = NoChild, !.panel = "content"]
  BY Zenon, <1>2 DEF UsersLoaded
<1>7. CASE us # {} /\ u = LoadSelected([x EXCEPT !.selected = First(us)])
  <2>1. PICK c \in Children : c = First(us)
    BY <1>7, FirstListed
  <2>2. u = LoadSelected([x EXCEPT !.selected = c])
    BY <1>7, <2>1
  <2> QED BY <1>5, <2>2, SelectGood
<1>8. CASE u = [x EXCEPT !.selected = NoChild, !.panel = "content"]
  <2>1. PICK c \in Children \cup {NoChild} : c = NoChild
    OBVIOUS
  <2>2. PICK y : y = [x EXCEPT !.selected = c]
    OBVIOUS
  <2>3. u = [y EXCEPT !.panel = "content"]
    BY <1>8, <2>1, <2>2
  <2>4. /\ y \in Window /\ y.selected = c /\ y.gen = x.gen /\ y.focus = x.focus
        /\ SameQueue(y, x) /\ SameRecord(y, x) /\ y.calls = x.calls
    BY <1>3, <2>2, PutSelected
  <2>5. /\ u \in Window /\ Frame(u, y) /\ SameQueue(u, y) /\ SameRecord(u, y)
        /\ u.calls = y.calls
    BY <2>3, <2>4, PutPanel
  <2>6. /\ ~Selected(u) /\ u.gen = x.gen /\ u.focus = x.focus
        /\ SameQueue(u, x) /\ SameRecord(u, x) /\ u.calls = x.calls
    BY <2>1, <2>4, <2>5 DEF Frame, SameQueue, SameRecord, Selected
  <2>7. Sound(u)
    BY <1>5, <2>5, <2>6 DEF Sound, SameQueue
  <2>8. NoPolicy(u) /\ Stored(u, rec) /\ Away(u) /\ Restoring(u)
    BY <1>5, <2>6 DEF Good, Core, NoPolicy, Stored, Away, Restoring, SameQueue, SameRecord
  <2> QED BY <2>6, <2>7, <2>8, UnselectedGood
<1> QED BY <1>5, <1>6, <1>7, <1>8

LEMMA OpenedGood == ASSUME NEW rec, NEW un PROVE Good(Opened, rec, un) /\ Good(Closed, rec, un)
<1>1. /\ Sound(Opened) /\ ~Selected(Opened) /\ Opened.calls = {} /\ Opened.pending = <<>>
      /\ Opened.restore = NoChild
  BY OpenedSound DEF Opened, Selected
<1>2. NoPolicy(Opened) /\ Stored(Opened, rec) /\ Away(Opened) /\ Restoring(Opened)
  BY <1>1 DEF NoPolicy, Stored, Away, Restoring
<1>3. Opened \in Window
  BY OpenedSound
<1>4. /\ Sound(Closed) /\ Closed.selected = Opened.selected /\ Closed.calls = Opened.calls
      /\ Closed.pending = Opened.pending /\ Closed.restore = Opened.restore
  BY <1>3, ClosedSound DEF Closed, Window
<1>5. /\ ~Selected(Closed)
      /\ NoPolicy(Closed) /\ Stored(Closed, rec) /\ Away(Closed) /\ Restoring(Closed)
  BY <1>1, <1>4 DEF NoPolicy, Stored, Away, Restoring, Selected
<1> QED BY <1>1, <1>2, <1>4, <1>5, UnselectedGood

-----------------------------------------------------------------------------
\* The broker serves a call.

\* f is what becomes of each call, reply what is answered to c.
Served(u, v, c, f, reply, stales) ==
  /\ Same(u, v) /\ u.tpending = v.tpending /\ u.retry = v.retry
  /\ u.status = IF stales /\ c.uid = v.selected /\ v.status = "fresh" THEN "stale" ELSE v.status
  /\ u.calls = {f[e] : e \in v.calls}
  /\ \A e \in v.calls : /\ f[e].op = e.op /\ f[e].uid = e.uid
                        /\ f[e].gen = e.gen /\ f[e].save = e.save
                        /\ e # c => /\ f[e].done = e.done /\ f[e].prefs = e.prefs
                                    /\ ~(stales /\ e.uid = c.uid) => f[e].fresh = e.fresh
  /\ f[c].done /\ f[c].prefs = reply /\ (c.op = "status" => f[c].fresh)

LEMMA ServedSame ==
  ASSUME NEW u, NEW v, Same(u, v), NEW rec, NEW un
  PROVE  /\ u.selected = v.selected /\ u.gen = v.gen /\ u.focus = v.focus
         /\ u.ctl = v.ctl /\ u.prefs = v.prefs /\ u.active = v.active /\ u.pending = v.pending
         /\ u.restore = v.restore /\ u.saving = v.saving
         /\ Queued(u) = Queued(v) /\ (Old(u) <=> Old(v)) /\ (Clear(u, un) <=> Clear(v, un))
         /\ (Showing(u, un) <=> Showing(v, un)) /\ Last(u) = Last(v) /\ (Ours(u) <=> Ours(v))
         /\ (Policy(u) <=> Policy(v)) /\ (Draft(u) <=> Draft(v)) /\ Minutes(u) = Minutes(v)
<1>1. View(u, v)
  BY SameView
<1> QED BY <1>1, ViewSame DEF View, Same, SameQueue

LEMMA ServedNoSave ==
  ASSUME NEW u, NEW v, NEW c \in v.calls, NEW f, NEW reply, NEW stales,
         Served(u, v, c, f, reply, stales), ~c.done,
         NEW rec, NEW un, Core(v, rec, un),
         c.op # "save", c.op = "load" => reply = rec[c.uid]
  PROVE  Core(u, rec, un)
<1>1. /\ u.selected = v.selected /\ u.gen = v.gen /\ u.focus = v.focus
      /\ u.ctl = v.ctl /\ u.prefs = v.prefs /\ u.active = v.active /\ u.pending = v.pending
      /\ Queued(u) = Queued(v) /\ (Old(u) <=> Old(v)) /\ (Clear(u, un) <=> Clear(v, un))
      /\ (Showing(u, un) <=> Showing(v, un)) /\ Last(u) = Last(v) /\ (Ours(u) <=> Ours(v))
      /\ (Policy(u) <=> Policy(v)) /\ (Draft(u) <=> Draft(v)) /\ Minutes(u) = Minutes(v)
  BY ServedSame DEF Served
<1>2. /\ u.calls = {f[e] : e \in v.calls}
      /\ \A e \in v.calls : /\ f[e].op = e.op /\ f[e].uid = e.uid
                            /\ f[e].gen = e.gen /\ f[e].save = e.save
                            /\ e # c => f[e].done = e.done /\ f[e].prefs = e.prefs
      /\ f[c].done /\ f[c].prefs = reply
  BY DEF Served
<1>3. LimitShown(u, rec, un) /\ AppsShown(u, rec, un) /\ Agrees(u, rec, un)
  BY <1>1 DEF Core, LimitShown, AppsShown, Agrees, Target
<1>4. NoPolicy(u) /\ Latest(u, un)
  BY <1>1 DEF Core, NoPolicy, Latest
<1>5. Known(u, rec, un)
  BY <1>1, <1>2 DEF Core, Known
<1>6. Stored(u, rec)
  BY <1>2 DEF Core, Stored
<1>7. Read(u, rec)
  <2>1. SUFFICES ASSUME NEW e \in v.calls,
                        f[e].op = "load", f[e].done, f[e].gen = u.gen, f[e].uid = u.selected
                 PROVE  f[e].prefs = rec[f[e].uid] \/ Old(u)
    BY <1>2 DEF Read
  <2>2. CASE e = c
    BY <1>2, <2>1, <2>2
  <2>3. CASE e # c
    BY <1>1, <1>2, <2>1, <2>3 DEF Core, Read
  <2> QED BY <2>2, <2>3
<1>8. Away(u)
  BY <1>1, <1>2 DEF Core, Away
<1> QED BY <1>3, <1>4, <1>5, <1>6, <1>7, <1>8 DEF Core

LEMMA ServedSave ==
  ASSUME NEW v \in Window, Queue(v), Turns(v), NEW c \in v.calls, c.op = "save", ~c.done,
         \A e \in v.calls : CallOK(e),
         NEW u, NEW f, NEW reply, NEW stales, Served(u, v, c, f, reply, stales),
         NEW rec, NEW un, Core(v, rec, un), NEW rec2,
         \A d \in Children : rec2[d] = IF d = c.uid THEN reply ELSE rec[d],
         c.save.kind = "app-policy" =>
           reply.enabled = rec[c.uid].enabled /\ reply.apps = c.save.apps,
         c.save.kind # "app-policy" =>
           reply.enabled = c.save.enabled /\ reply.apps = rec[c.uid].apps,
         reply.limit = c.save.limit
  PROVE  Core(u, rec2, un)
<1>1. /\ u.selected = v.selected /\ u.gen = v.gen /\ u.focus = v.focus
      /\ u.ctl = v.ctl /\ u.prefs = v.prefs /\ u.active = v.active /\ u.pending = v.pending
      /\ Queued(u) = Queued(v) /\ (Old(u) <=> Old(v)) /\ (Clear(u, un) <=> Clear(v, un))
      /\ (Showing(u, un) <=> Showing(v, un)) /\ Last(u) = Last(v) /\ (Ours(u) <=> Ours(v))
      /\ (Policy(u) <=> Policy(v)) /\ (Draft(u) <=> Draft(v)) /\ Minutes(u) = Minutes(v)
  BY ServedSame DEF Served
<1>2. /\ u.calls = {f[e] : e \in v.calls}
      /\ \A e \in v.calls : /\ f[e].op = e.op /\ f[e].uid = e.uid
                            /\ f[e].gen = e.gen /\ f[e].save = e.save
                            /\ e # c => f[e].done = e.done /\ f[e].prefs = e.prefs
      /\ f[c].done /\ f[c].prefs = reply
  BY DEF Served
<1>3. /\ v.saving /\ c.save = v.active /\ v.active \in Saves /\ v.active # NoSave
      /\ c.uid = v.active.uid /\ c.uid \in Children
      /\ \A e \in v.calls : e.op = "save" => e = c
  BY SaveReal DEF Queue, CallOK
<1>4. v.active \in Queued(v) /\ Of(v, v.active)
  BY <1>3, LastQueued DEF Queue
<1>5. Clear(v, un) => v.prefs = rec[v.selected]
  BY <1>3 DEF Core, Known
<1>6. /\ rec2[c.uid] = reply
      /\ Clear(v, un) /\ c.uid # v.selected => rec2[v.selected] = rec[v.selected]
  <2>1. Clear(v, un) => v.selected \in Children
    BY DEF Clear, Selected, Window
  <2> QED BY <1>3, <2>1
<1>7. Clear(v, un) /\ c.uid = v.selected => Ours(v)
  BY <1>3, <1>4 DEF Core, Latest
<1>8. Clear(v, un) /\ c.uid = v.selected => (Policy(v) <=> c.save.kind = "app-policy")
  BY <1>3 DEF Policy
<1>9. LimitShown(u, rec2, un)
  <2>1. Clear(v, un) => Target(u, rec2) = Target(v, rec)
    BY <1>1, <1>6, <1>7 DEF Target
  <2> QED BY <1>1, <2>1 DEF Core, LimitShown, Showing
<1>10. AppsShown(u, rec2, un)
  <2>1. CASE c.uid = v.selected
    BY <1>1, <1>6, <1>8, <2>1 DEF Core, AppsShown, Showing
  <2>2. CASE c.uid # v.selected
    BY <1>1, <1>6, <2>2 DEF Core, AppsShown, Showing
  <2> QED BY <2>1, <2>2
<1>11. Agrees(u, rec2, un)
  <2>1. CASE c.uid = v.selected
    BY <1>1, <1>3, <1>6, <1>8, <2>1 DEF Core, Agrees
  <2>2. CASE c.uid # v.selected
    BY <1>1, <1>3, <2>2 DEF Agrees, Policy
  <2> QED BY <2>1, <2>2
<1>12. NoPolicy(u) /\ Latest(u, un)
  BY <1>1 DEF Core, NoPolicy, Latest
<1>13. Known(u, rec2, un)
  <2>1. CASE c.uid = v.selected
    BY <1>1, <1>2, <2>1 DEF Known
  <2>2. CASE c.uid # v.selected
    BY <1>1, <1>5, <1>6, <2>2 DEF Known
  <2> QED BY <2>1, <2>2
<1>14. Stored(u, rec2)
  BY <1>2, <1>3, <1>6 DEF Stored
<1>15. Read(u, rec2)
  <2>1. SUFFICES ASSUME NEW e \in v.calls,
                        f[e].op = "load", f[e].done, f[e].gen = u.gen, f[e].uid = u.selected
                 PROVE  f[e].prefs = rec2[f[e].uid] \/ Old(u)
    BY <1>2 DEF Read
  <2>2. e # c /\ e.op = "load" /\ e.done /\ e.gen = v.gen /\ e.uid = v.selected
        /\ f[e].prefs = e.prefs /\ f[e].uid = e.uid
    BY <1>1, <1>2, <2>1
  <2>3. CASE c.uid = v.selected
    <3>1. v.prefs = NoRecord
      BY <2>2 DEF Turns, Current
    <3>2. v.active.gen # v.gen
      BY <1>4, <3>1 DEF Of
    <3>3. Old(v)
      BY <1>3, <1>4, <2>3, <3>2 DEF Old
    <3> QED BY <1>1, <3>3
  <2>4. CASE c.uid # v.selected
    <3>1. e.prefs = rec[e.uid] \/ Old(v)
      BY <2>2 DEF Core, Read
    <3>2. e.uid \in Children /\ e.uid # c.uid
      BY <2>2, <2>4 DEF CallOK
    <3>3. rec2[e.uid] = rec[e.uid]
      BY <3>2
    <3> QED BY <1>1, <2>2, <3>1, <3>3
  <2> QED BY <2>3, <2>4
<1>16. Away(u)
  BY <1>1, <1>2 DEF Core, Away
<1> QED BY <1>9, <1>10, <1>11, <1>12, <1>13, <1>14, <1>15, <1>16 DEF Core

LEMMA ServedTime ==
  ASSUME NEW u, NEW v, NEW c \in v.calls, NEW f, NEW reply, NEW stales \in BOOLEAN,
         Served(u, v, c, f, reply, stales), ~c.done,
         NEW un, Time(v, un), stales /\ c.uid = v.selected => Due(u, un)
  PROVE  Time(u, un)
<1>1. /\ u.selected = v.selected /\ (Clear(u, un) <=> Clear(v, un)) /\ u.restore = v.restore
  BY ServedSame DEF Served
<1>2. /\ u.calls = {f[e] : e \in v.calls}
      /\ \A e \in v.calls : /\ f[e].op = e.op /\ f[e].uid = e.uid /\ f[e].save = e.save
                            /\ e # c => /\ f[e].done = e.done
                                        /\ ~(stales /\ e.uid = c.uid) => f[e].fresh = e.fresh
      /\ f[c].done /\ (c.op = "status" => f[c].fresh)
  BY DEF Served
<1>3. CASE stales /\ c.uid = v.selected
  BY <1>3, TimeDue
<1>4. CASE ~(stales /\ c.uid = v.selected)
  <2>1. u.status = v.status /\ u.tpending = v.tpending /\ u.retry = v.retry
    BY <1>4 DEF Served
  <2>2. Due(v, un) => Due(u, un)
    BY <1>1, <1>2 DEF Due
  <2>3. Outstanding(v, "status") => Outstanding(u, "status")
    BY <1>2 DEF Outstanding
  <2>4. ShownTime(u, un)
    BY <2>1, <2>2, <2>3 DEF Time, ShownTime
  <2>5. ReadTime(u, un)
    <3>1. SUFFICES ASSUME NEW e \in v.calls,
                          f[e].op = "status", f[e].uid = u.selected, f[e].done, ~f[e].fresh
                   PROVE  Due(u, un) \/ u.tpending
      BY <1>2 DEF ReadTime
    <3>2. e # c
      BY <1>2, <3>1
    <3>3. e.op = "status" /\ e.uid = v.selected /\ e.done /\ ~e.fresh
      BY <1>1, <1>2, <1>4, <3>1, <3>2
    <3> QED BY <2>1, <2>2, <3>3 DEF Time, ReadTime
  <2> QED BY <2>4, <2>5 DEF Time
<1> QED BY <1>3, <1>4

LEMMA ServedCallIs ==
  ASSUME NEW c \in Calls, NEW p, NEW d, d = ServedCall(c, p)
  PROVE  /\ d.op = c.op /\ d.uid = c.uid /\ d.gen = c.gen /\ d.save = c.save
         /\ d.done /\ d.prefs = p /\ (c.op = "status" => d.fresh)
<1>1. PICK b \in BOOLEAN : b = (c.op = "status")
  OBVIOUS
<1>2. d = [c EXCEPT !.done = TRUE, !.prefs = p, !.fresh = b]
  BY <1>1 DEF ServedCall
<1> QED BY <1>1, <1>2 DEF Calls

LEMMA StaleIs ==
  ASSUME NEW c \in Calls, NEW d, d = [c EXCEPT !.fresh = FALSE]
  PROVE  /\ d.op = c.op /\ d.uid = c.uid /\ d.gen = c.gen /\ d.save = c.save
         /\ d.done = c.done /\ d.prefs = c.prefs
  BY DEF Calls

LEMMA WithAnswersIs ==
  ASSUME NEW v \in Window, NEW cs, NEW st, NEW u, u = WithAnswers(v, cs, st)
  PROVE  u.tpending = v.tpending /\ u.retry = v.retry /\ u.status = st /\ u.calls = cs
  BY DEF WithAnswers, Window

LEMMA ServeGood ==
  ASSUME IInv, ~w.stray, Good(w, record, unsure), NEW c \in w.calls, Serve(c)
  PROVE  Good(w', record', unsure')
<1>1. w \in Window /\ w.calls \subseteq Calls /\ \A e \in w.calls : CallOK(e)
  BY DEF IInv, Sound, Window
<1>2. c \in Calls /\ CallOK(c) /\ c.op \in {"load", "status", "running", "revoke", "save"}
  BY <1>1 DEF Calls
<1>3. Order(w) /\ ~c.done /\ c.uid \in Children /\ record \in [Children -> Record]
  BY <1>2 DEF IInv, TypeOK, Serve, CallOK
<1> DEFINE reply == CASE c.op = "load" -> record[c.uid]
                       [] c.op = "save" -> Written(c.save)
                       [] OTHER -> NoRecord
           changes == \/ c.op = "revoke"
                      \/ c.op = "save" /\ reply # [record[c.uid] EXCEPT !.apps = reply.apps]
           f == [d \in w.calls |-> IF d = c THEN ServedCall(c, reply)
                                   ELSE IF changes /\ d.uid = c.uid
                                   THEN [d EXCEPT !.fresh = FALSE] ELSE d]
           cs == {f[e] : e \in w.calls}
           st == IF changes /\ c.uid = w.selected /\ w.status = "fresh"
                 THEN "stale" ELSE w.status
<1>4. w' = [w EXCEPT
              !.calls = {IF changes /\ d.uid = c.uid THEN [d EXCEPT !.fresh = FALSE] ELSE d :
                           d \in w.calls \ {c}} \cup {ServedCall(c, reply)},
              !.status = IF changes /\ c.uid = w.selected /\ @ = "fresh"
                         THEN "stale" ELSE @]
  BY Zenon DEF Serve, ServedCall
<1>5. record' = IF c.op = "save" THEN [record EXCEPT ![c.uid] = reply] ELSE record
  BY Zenon DEF Serve
<1>6. unsure' = unsure
  BY DEF Serve
<1>7. /\ c.op = "load" => reply = record[c.uid]
      /\ c.op = "save" => reply = Written(c.save)
      /\ changes \in BOOLEAN
      /\ changes => \/ c.op = "revoke"
                    \/ c.op = "save" /\ reply # [record[c.uid] EXCEPT !.apps = reply.apps]
  OBVIOUS
<1> HIDE DEF reply, changes
<1>8. cs = {IF changes /\ d.uid = c.uid THEN [d EXCEPT !.fresh = FALSE] ELSE d :
              d \in w.calls \ {c}} \cup {ServedCall(c, reply)}
  OBVIOUS
<1>9. w' = WithAnswers(w, cs, st)
  BY <1>1, <1>4, <1>8 DEF Window, WithAnswers
<1>10. ASSUME NEW e \in w.calls
       PROVE  /\ f[e].op = e.op /\ f[e].uid = e.uid
              /\ f[e].gen = e.gen /\ f[e].save = e.save
              /\ e # c => /\ f[e].done = e.done /\ f[e].prefs = e.prefs
                          /\ ~(changes /\ e.uid = c.uid) => f[e].fresh = e.fresh
              /\ e = c => f[e].done /\ f[e].prefs = reply /\ (c.op = "status" => f[e].fresh)
  <2>1. CASE e = c
    <3>1. f[e] = ServedCall(c, reply)
      BY <2>1
    <3> QED BY <1>2, <2>1, <3>1, ServedCallIs
  <2>2. CASE e # c /\ changes /\ e.uid = c.uid
    <3>1. f[e] = [e EXCEPT !.fresh = FALSE]
      BY <2>2
    <3>2. e \in Calls
      BY <1>1
    <3> QED BY <2>2, <3>1, <3>2, StaleIs
  <2>3. CASE e # c /\ ~(changes /\ e.uid = c.uid)
    <3>1. f[e] = e
      BY <2>3
    <3> QED BY <2>3, <3>1
  <2> QED BY <2>1, <2>2, <2>3
<1>11. PICK s : s = st
  OBVIOUS
<1>12. s \in {"none", "fresh", "stale"}
  BY <1>1, <1>11 DEF Window
<1>13. PICK q : q = cs
  OBVIOUS
<1>15. w' = WithAnswers(w, q, s)
  BY <1>9, <1>11, <1>13
<1>14. q \in SUBSET Calls
  <2>1. IInv'
    BY ServeKeeps DEF InStep
  <2>2. w' \in Window
    BY <2>1 DEF IInv, Sound
  <2>3. w'.calls = q
    BY <1>1, <1>15, WithAnswersIs
  <2> QED BY <2>2, <2>3 DEF Window
<1>16. w' \in Window /\ Same(w', w) /\ w'.calls = q
  BY <1>1, <1>12, <1>14, <1>15, PutCalls
<1>17. w'.tpending = w.tpending /\ w'.retry = w.retry /\ w'.status = s
  BY <1>1, <1>15, WithAnswersIs
<1>18. Served(w', w, c, f, reply, changes)
  <2>1. w'.status = IF changes /\ c.uid = w.selected /\ w.status = "fresh"
                    THEN "stale" ELSE w.status
    BY <1>11, <1>17
  <2>2. w'.calls = {f[e] : e \in w.calls}
    BY <1>13, <1>16
  <2> HIDE DEF f, cs, st
  <2> QED BY <1>10, <1>16, <1>17, <2>1, <2>2 DEF Served
<1> HIDE DEF f, cs, st
<1>19. ASSUME c.op = "save"
       PROVE  /\ c.save.kind = "app-policy" =>
                   reply.enabled = record[c.uid].enabled /\ reply.apps = c.save.apps
              /\ c.save.kind # "app-policy" =>
                   reply.enabled = c.save.enabled /\ reply.apps = record[c.uid].apps
              /\ reply.limit = c.save.limit
              /\ c.save.kind = "app-policy" /\ changes => record[c.uid].limit # c.save.limit
  <2>1. c.save \in Saves /\ c.uid = c.save.uid
    BY <1>2, <1>19 DEF CallOK
  <2>2. PICK r \in Record : r = record[c.uid]
    BY <1>3
  <2>3. c.save.kind = "app-policy" =>
          reply = [r EXCEPT !.limit = c.save.limit, !.apps = c.save.apps]
    BY <1>7, <1>19, <2>1, <2>2 DEF Written
  <2>4. c.save.kind # "app-policy" =>
          reply = [r EXCEPT !.enabled = c.save.enabled, !.limit = c.save.limit]
    BY <1>7, <1>19, <2>1, <2>2 DEF Written
  <2>5. c.save.kind = "app-policy" =>
          reply.enabled = r.enabled /\ reply.apps = c.save.apps /\ reply.limit = c.save.limit
    BY <2>3 DEF Record
  <2>6. c.save.kind # "app-policy" =>
          /\ reply.enabled = c.save.enabled /\ reply.apps = r.apps
          /\ reply.limit = c.save.limit
    BY <2>4 DEF Record
  <2>7. c.save.kind = "app-policy" /\ r.limit = c.save.limit =>
          reply = [r EXCEPT !.apps = reply.apps]
    BY <2>3, <2>5 DEF Record
  <2>8. changes => reply # [r EXCEPT !.apps = reply.apps]
    BY <1>7, <1>19, <2>2
  <2> QED BY <2>2, <2>5, <2>6, <2>7, <2>8
<1>20. Core(w, record, unsure) /\ Restoring(w) /\ Time(w, unsure) /\ Apt(w)
  BY DEF Good
<1>21. Core(w', record', unsure)
  <2>1. CASE c.op # "save"
    BY <1>3, <1>5, <1>7, <1>18, <1>20, <2>1, ServedNoSave
  <2>2. CASE c.op = "save"
    <3>1. \A d \in Children : record'[d] = IF d = c.uid THEN reply ELSE record[d]
      BY <1>3, <1>5, <2>2
    <3>2. Queue(w) /\ Turns(w)
      BY <1>3 DEF Order
    <3> QED BY <1>1, <1>3, <1>18, <1>19, <1>20, <2>2, <3>1, <3>2, ServedSave
  <2> QED BY <2>1, <2>2
<1>22. Time(w', unsure)
  <2>1. ASSUME changes, c.uid = w.selected PROVE Due(w', unsure)
    <3>1. /\ f[c] \in w'.calls /\ f[c].done /\ f[c].uid = w'.selected
          /\ f[c].op = c.op /\ f[c].save = c.save
      BY <1>18, <2>1 DEF Served, Same, Frame
    <3>2. CASE c.op = "revoke" \/ (c.op = "save" /\ c.save.kind # "app-policy")
      BY <3>1, <3>2 DEF Due
    <3>3. CASE c.op = "save" /\ c.save.kind = "app-policy"
      <4>1. record[w.selected].limit # w.active.limit /\ Policy(w)
        <5>1. c.save = w.active /\ w.active.uid = c.uid /\ w.active # NoSave
          BY <1>2, <1>3, <3>3, SaveReal DEF Order, Queue, CallOK
        <5> QED BY <1>19, <2>1, <3>3, <5>1 DEF Policy
      <4>2. ~Clear(w, unsure)
        BY <1>20, <4>1 DEF Core, Agrees
      <4>3. ~Clear(w', unsure)
        BY <1>16, <4>2, ServedSame
      <4> QED BY <4>3 DEF Due
    <3> QED BY <1>7, <2>1, <3>2, <3>3
  <2> QED BY <1>3, <1>7, <1>18, <1>20, <2>1, ServedTime
<1>23. Restoring(w') /\ Apt(w')
  <2>1. Restoring(w')
    BY <1>16, <1>20 DEF Restoring, Same, SameQueue, SameRecord
  <2>2. Apt(w')
    BY <1>16, <1>20, AptKept DEF Same, Frame, SameQueue, SameRecord, SameLooks
  <2> QED BY <2>1, <2>2
<1> QED BY <1>6, <1>21, <1>22, <1>23 DEF Good

-----------------------------------------------------------------------------
\* Answers.

LEMMA TakenView ==
  ASSUME IInv, NEW c \in w.calls, NEW ok \in BOOLEAN, NEW v, v = Taken(c, ok)
  PROVE  /\ v \in Window /\ Sound(v) /\ AsIs(v, w) /\ View(v, w) /\ SameTime(v, w)
         /\ v.calls = w.calls \ {c} /\ (Apt(w) => Apt(v)) /\ (Restoring(w) => Restoring(v))
         /\ v.stray <=> w.stray \/ Strays(c, ok)
<1>1. Sound(v) /\ AsIs(v, w) /\ v.calls = w.calls \ {c} /\ (v.stray <=> w.stray \/ Strays(c, ok))
  BY TakenSound DEF IInv
<1>2. w \in Window /\ v \in Window
  BY <1>1 DEF IInv, Sound
<1>3. View(v, w)
  BY <1>1 DEF AsIs, View, SameRecord, SameLooks
<1>4. SameTime(v, w)
  BY <1>2 DEF Taken, SameTime, Window
<1>5. Apt(w) => Apt(v)
  BY <1>1, AptKept DEF AsIs, SameQueue, SameRecord, SameLooks
<1>6. Restoring(w) => Restoring(v)
  BY <1>3 DEF Restoring, View, SameQueue
<1> QED BY <1>1, <1>2, <1>3, <1>4, <1>5, <1>6

LEMMA TakenCore ==
  ASSUME NEW v, NEW c, View(v, w), SameTime(v, w), v.calls = w.calls \ {c},
         NEW rec, NEW un, c.op # "save", Core(w, rec, un)
  PROVE  /\ Core(v, rec, un)
         /\ c.op # "revoke" => (Due(w, un) => Due(v, un))
         /\ c.op \notin {"revoke", "status"} /\ Time(w, un) => Time(v, un)
<1>1. CallsKept(v, w) /\ (c.op # "revoke" => RevokesKept(v, w))
  BY DEF CallsKept, RevokesKept
<1>2. Core(v, rec, un) /\ (c.op # "revoke" => (Due(w, un) => Due(v, un)))
  BY <1>1, ViewKept
<1>3. ASSUME c.op \notin {"revoke", "status"}, Time(w, un) PROVE Time(v, un)
  <2>1. v.selected = w.selected
    BY DEF View
  <2> QED BY <1>2, <1>3, <2>1, TimeKept
<1> QED BY <1>2, <1>3

LEMMA LoadedGood ==
  ASSUME IInv, ~w.stray, NEW rec, NEW un, Good(w, rec, un),
         NEW c \in w.calls, c.op = "load", c.done,
         NEW v, v = Taken(c, TRUE), NEW u, u = Loaded(v, c),
         NEW un2, un2 = IF c.gen = w.gen THEN un \ {c.uid} ELSE un
  PROVE  Good(u, rec, un2)
<1>1. PICK ok \in BOOLEAN : ok = TRUE
  OBVIOUS
<1>2. /\ v \in Window /\ Sound(v) /\ AsIs(v, w) /\ View(v, w) /\ SameTime(v, w)
      /\ v.calls = w.calls \ {c} /\ Apt(v) /\ Restoring(v)
  BY <1>1, TakenView DEF Good
<1>3. PICK p \in Record : p = c.prefs
  BY DEF IInv, Sound, CallOK
<1>4. Sound(w) /\ Order(w) /\ Core(w, rec, un) /\ Time(w, un)
  BY DEF IInv, Good
<1>5. Core(v, rec, un) /\ Time(v, un)
  BY <1>2, <1>4, TakenCore
<1>6. /\ v.selected = w.selected /\ v.gen = w.gen /\ v.active = w.active
      /\ v.pending = w.pending /\ v.prefs = w.prefs
  BY <1>2 DEF View, SameQueue
<1>7. CASE c.gen # v.gen
  <2>1. u = v /\ un2 = un
    BY <1>6, <1>7 DEF Loaded
  <2> QED BY <1>2, <1>5, <2>1 DEF Good
<1>8. CASE c.gen = v.gen
  <2>1. Current(w, c)
    BY <1>6, <1>8 DEF Current
  <2>2. /\ \A d \in v.calls : ~Current(v, d)
        /\ v.loading /\ v.prefs = NoRecord /\ (Selected(v) => c.uid = v.selected)
    BY <1>2, <1>4, <2>1, TakenOrder
  <2>3. CASE c.uid # v.selected
    <3>1. u = v /\ ~Selected(v)
      BY <2>2, <2>3 DEF Loaded
    <3>2. NoPolicy(v) /\ Stored(v, rec) /\ Away(v)
      BY <1>5 DEF Core
    <3> QED BY <1>2, <3>1, <3>2, UnselectedGood
  <2>4. CASE c.uid = v.selected
    <3>1. u = PreferencesLoaded(v, p)
      BY Zenon, <1>3, <1>8, <2>4 DEF Loaded
    <3>2. /\ u \in Window /\ Loads(u, v, p) /\ u.ctl.apps = p.apps
          /\ CallsKept(u, v) /\ Apt(u) /\ Time(u, un2)
      <4>1. v \in Window /\ v.loading /\ p \in Record
        BY <1>2, <2>2
      <4> QED BY <3>1, <4>1, PreferencesLoadedView, ZenonT(60)
    <3>3. /\ u.selected = v.selected /\ u.gen = v.gen /\ u.active = v.active
          /\ u.pending = v.pending /\ u.saving = v.saving /\ u.restore = v.restore
      BY <3>2 DEF Loads, SameQueue
    <3>4. Queued(u) = Queued(w) /\ (Old(u) <=> Old(w))
      <4>1. /\ u.active = w.active /\ u.pending = w.pending
            /\ u.selected = w.selected /\ u.gen = w.gen
        BY <1>6, <3>3
      <4>2. Queued(u) = Queued(w)
        BY <4>1 DEF Queued
      <4> QED BY <4>1, <4>2 DEF Old
    <3>5. \A s \in Queued(w) : s.gen # w.gen
      <4>1. Queue(w) /\ \A s \in Saves : s # NoSave
        BY <1>4, SaveReal DEF Order
      <4>2. \A s \in Queued(w) : Of(w, s)
        BY <4>1 DEF Queue, Queued
      <4> QED BY <1>6, <2>2, <4>2 DEF Of
    <3>6. \A d \in v.calls : d.op = "load" => d.gen # v.gen
      BY <2>2 DEF Current
    <3>7. Clear(u, un2) => ~Old(w)
      BY <3>4 DEF Clear
    <3>8. Clear(u, un2) => p = rec[u.selected]
      BY <1>3, <1>4, <1>6, <1>8, <2>4, <3>3, <3>7 DEF Core, Read
    <3>9. Clear(u, un2) => \A s \in Queued(u) : s.uid # u.selected
      BY <1>6, <3>3, <3>4, <3>5, <3>7 DEF Old
    <3>10. NoPolicy(v) /\ Stored(v, rec) /\ Away(v)
      BY <1>5 DEF Core
    <3>11. Core(u, rec, un2)
      BY <3>2, <3>6, <3>8, <3>9, <3>10, CoreLoads
    <3>12. Restoring(u)
      BY <1>2, <3>3 DEF Restoring
    <3> QED BY <3>2, <3>11, <3>12 DEF Good
  <2> QED BY <2>3, <2>4
<1> QED BY <1>7, <1>8

\* The time read last is either current, or it is read once more.
Heard(u, v, c, un) ==
  /\ u \in Window /\ View(u, v) /\ CallsKept(u, v) /\ RevokesKept(u, v) /\ (Apt(v) => Apt(u))
  /\ \/ Time(u, un)
     \/ /\ u.calls = v.calls /\ u.tpending = v.tpending
        /\ u.status = "stale" => u.retry \/ (~c.fresh /\ c.uid = v.selected /\ ~v.tpending)

LEMMA StatusForOtherHeard ==
  ASSUME NEW v \in Window, NEW c, NEW un, NEW u, u = StatusForOther(v)
  PROVE  Heard(u, v, c, un) /\ Time(u, un)
<1>1. PICK x : x = [v EXCEPT !.tpending = FALSE]
  OBVIOUS
<1>2. PICK no \in BOOLEAN : no = FALSE
  OBVIOUS
<1>3. x \in Window /\ Same(x, v) /\ x.calls = v.calls
  BY <1>1, PutPending
<1>4. View(x, v) /\ (Apt(v) => Apt(x))
  BY <1>3, SameView, AptKept DEF Same, Frame, SameQueue, SameRecord, SameLooks
<1>5. u = LoadTimeStatus(x, no)
  BY <1>1, <1>2 DEF StatusForOther
<1>6. /\ u \in Window /\ View(u, x) /\ CallsKept(u, x) /\ RevokesKept(u, x)
      /\ Apt(x) => Apt(u)
  BY <1>3, <1>5, LoadTimeView
<1>7. Time(u, un)
  BY <1>3, <1>5, TimeRead
<1>8. CallsKept(u, v) /\ RevokesKept(u, v)
  BY <1>3, <1>6 DEF CallsKept, RevokesKept
<1>9. View(u, v)
  BY <1>4, <1>6 DEF View, SameQueue
<1> QED BY <1>4, <1>6, <1>7, <1>8, <1>9 DEF Heard

LEMMA LoadPendingHeard ==
  ASSUME NEW v \in Window, NEW un, NEW u, u = LoadPendingTimeStatus(v)
  PROVE  /\ u \in Window /\ View(u, v) /\ CallsKept(u, v) /\ RevokesKept(u, v)
         /\ Apt(v) => Apt(u)
         /\ Time(u, un) \/ (~v.tpending /\ u = v)
<1>1. PICK x : x = [v EXCEPT !.tpending = FALSE]
  OBVIOUS
<1>2. PICK no \in BOOLEAN : no = FALSE
  OBVIOUS
<1>3. CASE ~v.tpending
  <2>1. u = v
    BY <1>3 DEF LoadPendingTimeStatus
  <2> QED BY <1>3, <2>1 DEF View, SameQueue, CallsKept, RevokesKept
<1>4. CASE v.tpending
  <2>1. u = StatusForOther(v)
    BY <1>4 DEF LoadPendingTimeStatus, StatusForOther
  <2>2. x \in Window /\ Same(x, v) /\ x.calls = v.calls
    BY <1>1, PutPending
  <2>3. u = LoadTimeStatus(x, no)
    BY <1>1, <1>2, <2>1 DEF StatusForOther
  <2>4. Time(u, un)
    BY <2>2, <2>3, TimeRead
  <2>5. PICK c : c = v
    OBVIOUS
  <2> QED BY <2>1, <2>4, StatusForOtherHeard DEF Heard
<1> QED BY <1>3, <1>4

LEMMA StatusLoadedHeard ==
  ASSUME NEW v \in Window, NEW c, NEW un, NEW u, u = StatusLoaded(v, c)
  PROVE  Heard(u, v, c, un)
<1>1. PICK x : x = CancelRetry(v)
  OBVIOUS
<1>2. x \in Window /\ Same(x, v) /\ x.calls = v.calls
  BY <1>1, CancelRetryDoes
<1>3. x.tpending = v.tpending
  BY <1>1 DEF CancelRetry, Window
<1>4. PICK s \in {"none", "fresh", "stale"} : s = IF c.fresh THEN "fresh" ELSE "stale"
  OBVIOUS
<1>5. PICK yes \in BOOLEAN : yes = TRUE
  OBVIOUS
<1>6. PICK t : t = [x EXCEPT !.revocable = TRUE, !.ready = TRUE, !.status = s]
  OBVIOUS
<1>7. PICK y : y = SetSensitive(t, yes)
  OBVIOUS
<1>8. PICK z : z = Reveal(y)
  OBVIOUS
<1>9. x.selected = v.selected /\ View(x, v) /\ (Apt(v) => Apt(x))
  BY <1>2, SameView, AptKept DEF Same, Frame, SameQueue, SameRecord, SameLooks
<1>10. \/ u = StatusForOther(x)
       \/ c.uid = v.selected /\ u = LoadPendingTimeStatus(z)
  BY Zenon, <1>1, <1>4, <1>5, <1>6, <1>7, <1>8 DEF StatusLoaded
<1>11. CASE u = StatusForOther(x)
  <2>1. /\ u \in Window /\ View(u, x) /\ CallsKept(u, x) /\ RevokesKept(u, x)
        /\ Apt(x) => Apt(u)
    BY <1>2, <1>11, StatusForOtherHeard DEF Heard
  <2>2. View(u, v) /\ CallsKept(u, v) /\ RevokesKept(u, v)
    BY <1>2, <1>9, <2>1 DEF View, SameQueue, CallsKept, RevokesKept
  <2>3. Time(u, un)
    <3>1. PICK r : r = [x EXCEPT !.tpending = FALSE]
      OBVIOUS
    <3>2. PICK no \in BOOLEAN : no = FALSE
      OBVIOUS
    <3>3. r \in Window
      BY <1>2, <3>1, PutPending
    <3>4. u = LoadTimeStatus(r, no)
      BY <1>11, <3>1, <3>2 DEF StatusForOther
    <3> QED BY <3>3, <3>4, TimeRead
  <2> QED BY <1>9, <2>1, <2>2, <2>3 DEF Heard
<1>12. CASE c.uid = v.selected /\ u = LoadPendingTimeStatus(z)
  <2>1. PICK r : r = [x EXCEPT !.revocable = TRUE, !.ready = TRUE]
    OBVIOUS
  <2>2. t = [r EXCEPT !.status = s]
    BY Zenon, <1>6, <2>1
  <2>3. r \in Window /\ Same(r, x) /\ r.calls = x.calls /\ r.tpending = x.tpending
    <3>1. r.tpending = x.tpending
      BY <1>2, <2>1 DEF Window
    <3> QED BY <1>2, <2>1, <3>1, PutAvailable
  <2>4. t \in Window /\ Same(t, r) /\ t.calls = r.calls /\ t.tpending = r.tpending /\ t.status = s
    <3>1. t.tpending = r.tpending /\ t.status = s
      BY <2>2, <2>3 DEF Window
    <3> QED BY <2>2, <2>3, <3>1, PutStatus
  <2>5. y \in Window /\ View(y, t) /\ y.calls = t.calls /\ SameTime(y, t) /\ Apt(y)
    BY <1>5, <1>7, <2>4, SetSensitiveView
  <2>6. z \in Window /\ View(z, y) /\ z.calls = y.calls /\ SameTime(z, y) /\ Apt(z)
    BY <1>8, <2>5, RevealView
  <2>7. View(r, x) /\ View(t, r)
    BY <2>3, <2>4, SameView
  <2>8. View(z, v)
    BY <1>9, <2>5, <2>6, <2>7 DEF View, SameQueue
  <2>9. z.calls = v.calls /\ z.tpending = v.tpending /\ z.status = s
    BY <1>2, <1>3, <2>3, <2>4, <2>5, <2>6 DEF SameTime
  <2>10. /\ u \in Window /\ View(u, z) /\ CallsKept(u, z) /\ RevokesKept(u, z)
         /\ Apt(z) => Apt(u)
         /\ Time(u, un) \/ (~z.tpending /\ u = z)
    BY <1>12, <2>6, LoadPendingHeard
  <2>11. View(u, v) /\ CallsKept(u, v) /\ RevokesKept(u, v)
    BY <2>8, <2>9, <2>10 DEF View, SameQueue, CallsKept, RevokesKept
  <2>12. u = z /\ ~z.tpending =>
           /\ u.calls = v.calls /\ u.tpending = v.tpending
           /\ u.status = "stale" => ~c.fresh /\ c.uid = v.selected /\ ~v.tpending
    BY <1>4, <1>12, <2>9
  <2> QED BY <2>6, <2>10, <2>11, <2>12 DEF Heard
<1> QED BY <1>10, <1>11, <1>12

LEMMA StatusFailedHeard ==
  ASSUME NEW v \in Window, NEW c, NEW un, NEW u, u = StatusFailed(v, c)
  PROVE  Heard(u, v, c, un) /\ (u.status = "stale" => u.retry \/ Time(u, un))
<1>1. \/ u = StatusForOther(v)
      \/ v.tpending /\ u = LoadPendingTimeStatus(v)
      \/ v.retries < Retries /\ u = [v EXCEPT !.retries = @ + 1, !.retry = TRUE]
      \/ u = Reveal([v EXCEPT !.ready = TRUE, !.status = "none"])
  BY DEF StatusFailed
<1>2. CASE u = StatusForOther(v)
  BY <1>2, StatusForOtherHeard
<1>3. CASE v.tpending /\ u = LoadPendingTimeStatus(v)
  BY <1>3, LoadPendingHeard DEF Heard
<1>4. CASE v.retries < Retries /\ u = [v EXCEPT !.retries = @ + 1, !.retry = TRUE]
  <2>1. u \in Window /\ Same(u, v) /\ u.calls = v.calls
    BY <1>4, PutRetries
  <2>2. u.retry /\ u.tpending = v.tpending
    BY <1>4 DEF Window
  <2>3. View(u, v) /\ (Apt(v) => Apt(u))
    BY <2>1, SameView, AptKept DEF Same, Frame, SameQueue, SameRecord, SameLooks
  <2>4. CallsKept(u, v) /\ RevokesKept(u, v)
    BY <2>1 DEF CallsKept, RevokesKept
  <2> QED BY <2>1, <2>2, <2>3, <2>4 DEF Heard
<1>5. CASE u = Reveal([v EXCEPT !.ready = TRUE, !.status = "none"])
  <2>1. PICK x : x = [v EXCEPT !.ready = TRUE, !.status = "none"]
    OBVIOUS
  <2>2. x \in Window /\ Same(x, v) /\ x.calls = v.calls
    BY <2>1, PutReady
  <2>3. x.status = "none" /\ x.tpending = v.tpending
    BY <2>1 DEF Window
  <2>4. View(x, v) /\ (Apt(v) => Apt(x))
    BY <2>2, SameView, AptKept DEF Same, Frame, SameQueue, SameRecord, SameLooks
  <2>5. u \in Window /\ View(u, x) /\ u.calls = x.calls /\ SameTime(u, x) /\ (Apt(x) => Apt(u))
    BY <1>5, <2>1, <2>2, RevealView
  <2>6. View(u, v) /\ CallsKept(u, v) /\ RevokesKept(u, v)
    BY <2>2, <2>4, <2>5 DEF View, SameQueue, CallsKept, RevokesKept
  <2> QED BY <2>2, <2>3, <2>4, <2>5, <2>6 DEF Heard, SameTime
<1> QED BY <1>1, <1>2, <1>3, <1>4, <1>5

LEMMA StatusAnsweredGood ==
  ASSUME IInv, NEW rec, NEW un, Good(w, rec, un),
         NEW c \in w.calls, c.op = "status", NEW ok \in BOOLEAN,
         NEW v, v = Taken(c, ok), NEW u, Heard(u, v, c, un),
         c.done \/ (u.status = "stale" => u.retry \/ Time(u, un))
  PROVE  Good(u, rec, un)
<1>1. /\ v \in Window /\ View(v, w) /\ SameTime(v, w)
      /\ v.calls = w.calls \ {c} /\ Apt(v) /\ Restoring(v)
  BY TakenView DEF Good
<1>2. Core(v, rec, un) /\ (Due(w, un) => Due(v, un))
  BY <1>1, TakenCore DEF Good
<1>3. /\ View(u, v) /\ CallsKept(u, v) /\ RevokesKept(u, v) /\ Apt(u)
      /\ \/ Time(u, un)
         \/ /\ u.calls = v.calls /\ u.tpending = v.tpending
            /\ u.status = "stale" => u.retry \/ (~c.fresh /\ c.uid = v.selected /\ ~v.tpending)
  BY <1>1 DEF Heard
<1>4. Core(u, rec, un) /\ (Due(v, un) => Due(u, un))
  BY <1>2, <1>3, ViewKept
<1>5. Restoring(u)
  BY <1>1, <1>3 DEF Restoring, View, SameQueue
<1>6. Time(u, un)
  <2>1. SUFFICES ASSUME ~Time(u, un),
                        u.calls = v.calls, u.tpending = v.tpending,
                        u.status = "stale" =>
                          u.retry \/ (~c.fresh /\ c.uid = v.selected /\ ~v.tpending)
                 PROVE  Time(u, un)
    BY <1>3
  <2>2. u.selected = w.selected /\ u.tpending = w.tpending /\ v.selected = w.selected
    BY <1>1, <1>3, <2>1 DEF View, SameTime
  <2>3. ReadTime(w, un)
    BY DEF Good, Time
  <2>4. ReadTime(u, un)
    BY <1>1, <1>2, <1>4, <2>1, <2>2, <2>3 DEF ReadTime
  <2>5. ShownTime(u, un)
    <3>1. SUFFICES ASSUME u.status = "stale", ~u.retry PROVE Due(u, un)
      BY DEF ShownTime
    <3>2. c.done /\ ~c.fresh /\ c.uid = w.selected /\ ~w.tpending
      BY <2>1, <2>2, <3>1
    <3> QED BY <1>2, <1>4, <2>3, <3>2 DEF ReadTime
  <2> QED BY <2>4, <2>5 DEF Time
<1> QED BY <1>3, <1>4, <1>5, <1>6 DEF Good

LEMMA StatusReplyGood ==
  ASSUME IInv, NEW rec, NEW un, Good(w, rec, un),
         NEW c \in w.calls, c.op = "status", c.done,
         NEW v, v = Taken(c, TRUE), NEW u, u = StatusLoaded(v, c)
  PROVE  Good(u, rec, un)
<1>1. PICK ok \in BOOLEAN : ok = TRUE
  OBVIOUS
<1>2. v = Taken(c, ok)
  BY <1>1
<1>3. v \in Window
  BY <1>2, TakenView
<1>4. Heard(u, v, c, un)
  BY <1>3, StatusLoadedHeard
<1> QED BY <1>2, <1>4, StatusAnsweredGood

LEMMA StatusFailGood ==
  ASSUME IInv, NEW rec, NEW un, Good(w, rec, un),
         NEW c \in w.calls, c.op = "status",
         NEW v, v = Taken(c, FALSE), NEW u, u = StatusFailed(v, c)
  PROVE  Good(u, rec, un)
<1>1. PICK ok \in BOOLEAN : ok = FALSE
  OBVIOUS
<1>2. v = Taken(c, ok)
  BY <1>1
<1>3. v \in Window
  BY <1>2, TakenView
<1>4. Heard(u, v, c, un) /\ (u.status = "stale" => u.retry \/ Time(u, un))
  BY <1>3, StatusFailedHeard
<1> QED BY <1>2, <1>4, StatusAnsweredGood

LEMMA DialogGood ==
  ASSUME NEW v \in Window, NEW c \in Children \cup {NoChild}, NEW n \in Nat,
         NEW u, u = WithDialog(v, c, n), NEW rec, NEW un, Good(v, rec, un)
  PROVE  Good(u, rec, un)
<1>1. /\ u.selected = v.selected /\ u.gen = v.gen /\ u.focus = v.focus
      /\ SameQueue(u, v) /\ SameRecord(u, v) /\ SameLooks(u, v) /\ u.calls = v.calls
  BY PutDialog
<1>2. View(u, v) /\ (Apt(v) => Apt(u))
  BY <1>1, AptKept DEF View, SameRecord, SameLooks, SameQueue
<1>3. SameTime(u, v)
  BY DEF SameTime, WithDialog, Window
<1> QED BY <1>1, <1>2, <1>3, ViewGood

\* An answer that is not stray is of the current load.
LEMMA RunningReplyGood ==
  ASSUME IInv, ~w.stray, NEW rec, NEW un, Good(w, rec, un),
         NEW c \in w.calls, c.op = "running",
         NEW v, v = Taken(c, TRUE), NEW u, u = RunningListed(v, c)
  PROVE  Good(u, rec, un)
<1>1. PICK yes \in BOOLEAN : yes = TRUE
  OBVIOUS
<1>2. /\ v \in Window /\ View(v, w) /\ SameTime(v, w) /\ v.calls = w.calls \ {c}
      /\ Apt(v) /\ Restoring(v)
  BY <1>1, TakenView DEF Good
<1>3. Core(v, rec, un) /\ Time(v, un)
  BY <1>2, TakenCore DEF Good
<1>4. Good(v, rec, un)
  BY <1>2, <1>3 DEF Good
<1>5. PICK x : x = SetSensitive([v EXCEPT !.loading = FALSE], yes)
  OBVIOUS
<1>6. x \in Window /\ View(x, v) /\ x.calls = v.calls /\ SameTime(x, v) /\ Apt(x)
  BY <1>2, <1>5, LoadingEndsView
<1>7. Good(x, rec, un)
  BY <1>4, <1>6, ViewGood
<1>8. PICK d \in Children : d = c.uid
  BY DEF IInv, Sound, CallOK
<1>9. PICK n \in Nat : n = v.gen
  BY <1>2 DEF Window
<1>10. \/ u = x
       \/ x.prefs = NoRecord /\ u = Failed(x)
       \/ u = WithDialog(x, d, n)
  <2>1. x.prefs = v.prefs
    BY <1>6 DEF View
  <2>2. u = IF c.uid # v.selected THEN x
            ELSE IF v.prefs = NoRecord THEN Failed(x)
            ELSE [x EXCEPT !.dialog = c.uid, !.of = v.gen]
    BY Zenon, <1>1, <1>5 DEF RunningListed
  <2> QED BY <1>8, <1>9, <2>1, <2>2 DEF WithDialog
<1>11. CASE x.prefs = NoRecord /\ u = Failed(x)
  BY <1>6, <1>7, <1>11, FailedView, ViewGood
<1>12. CASE u = WithDialog(x, d, n)
  <2>1. x \in Window /\ d \in Children \cup {NoChild}
    BY <1>6
  <2> QED BY <1>7, <1>12, <2>1, DialogGood
<1> QED BY <1>7, <1>10, <1>11, <1>12

LEMMA RevokeReplyGood ==
  ASSUME IInv, ~w.stray, NEW rec, NEW un, Good(w, rec, un),
         NEW c \in w.calls, c.op = "revoke",
         NEW v, v = Taken(c, TRUE), ~v.stray, NEW u, u = RevokeSucceeded(v, c)
  PROVE  Good(u, rec, un)
<1>1. PICK yes \in BOOLEAN : yes = TRUE
  OBVIOUS
<1>2. PICK no \in BOOLEAN : no = FALSE
  OBVIOUS
<1>3. /\ v \in Window /\ Sound(v) /\ AsIs(v, w) /\ View(v, w) /\ SameTime(v, w)
      /\ v.calls = w.calls \ {c} /\ Apt(v) /\ Restoring(v)
      /\ v.stray <=> w.stray \/ Strays(c, yes)
  BY <1>1, TakenView DEF Good
<1>4. Core(v, rec, un)
  BY <1>3, TakenCore DEF Good
<1>5. Current(w, c)
  BY <1>3 DEF Strays, Current
<1>6. Selected(v) => c.uid = v.selected
  BY <1>3, <1>5, TakenOrder DEF IInv
<1>7. CASE c.uid # v.selected
  <2>1. u = v /\ ~Selected(v)
    BY <1>6, <1>7 DEF RevokeSucceeded
  <2>2. NoPolicy(v) /\ Stored(v, rec) /\ Away(v)
    BY <1>4 DEF Core
  <2> QED BY <1>3, <2>1, <2>2, UnselectedGood
<1>8. CASE c.uid = v.selected
  <2>1. PICK x : x = SetSensitive([v EXCEPT !.loading = FALSE], yes)
    OBVIOUS
  <2>2. x \in Window /\ View(x, v) /\ x.calls = v.calls /\ SameTime(x, v) /\ Apt(x)
    BY <1>3, <2>1, LoadingEndsView
  <2>3. Core(x, rec, un) /\ Restoring(x)
    BY <1>3, <1>4, <2>2, ViewOnly
  <2>4. u = LoadTimeStatus(x, no)
    BY <1>1, <1>2, <1>8, <2>1 DEF RevokeSucceeded
  <2>5. View(u, x) /\ CallsKept(u, x) /\ Apt(u)
    BY <2>2, <2>4, LoadTimeView
  <2>6. Core(u, rec, un)
    BY <2>3, <2>5, ViewKept
  <2>7. Restoring(u)
    BY <2>3, <2>5 DEF Restoring, View, SameQueue
  <2>8. Time(u, un)
    BY <2>2, <2>4, TimeRead
  <2> QED BY <2>5, <2>6, <2>7, <2>8 DEF Good
<1> QED BY <1>7, <1>8

LEMMA IdleKept ==
  ASSUME NEW u, NEW v, Idle(v), u.selected = v.selected, u.gen = v.gen, u.prefs = v.prefs,
         SameQueue(u, v), MoreStatus(u, v)
  PROVE  Idle(u)
BY DEF Idle, SameQueue, MoreStatus, Selected

LEMMA SaveReplyGood ==
  ASSUME IInv, ~w.stray, NEW rec, NEW un, Good(w, rec, un),
         NEW c \in w.calls, c.op = "save", c.done,
         NEW v, v = Taken(c, TRUE), ~v.stray, NEW u, u = SaveSucceeded(v, c)
  PROVE  Good(u, rec, un)
<1>1. PICK yes \in BOOLEAN : yes = TRUE
  OBVIOUS
<1>2. PICK no \in BOOLEAN : no = FALSE
  OBVIOUS
<1>3. /\ v \in Window /\ Sound(v) /\ AsIs(v, w) /\ View(v, w) /\ SameTime(v, w)
      /\ v.calls = w.calls \ {c} /\ Restoring(v)
      /\ v.stray <=> w.stray \/ Strays(c, yes)
  BY <1>1, TakenView DEF Good
<1>4. /\ w \in Window /\ Sound(w) /\ Order(w) /\ Queue(w) /\ CallOK(c)
      /\ Core(w, rec, un) /\ Time(w, un)
  BY DEF IInv, Sound, Order, Good
<1>5. c.uid \in Children /\ c.prefs \in Record
  BY <1>4 DEF CallOK
<1>6. SaveTaken(v) /\ (c.gen = v.gen => v.prefs # NoRecord)
  BY <1>3, <1>4, TakenOrder
<1>7. /\ v.selected = w.selected /\ v.gen = w.gen /\ v.focus = w.focus /\ v.ctl = w.ctl
      /\ v.prefs = w.prefs /\ v.restore = w.restore /\ v.pending = w.pending
  BY <1>3 DEF View, SameQueue
<1>8. c.uid = w.selected => c.gen = w.gen /\ w.prefs # NoRecord
  BY <1>3, <1>6, <1>7 DEF Strays
<1>9. PICK t : t = [v EXCEPT !.saving = FALSE, !.active = NoSave]
  OBVIOUS
<1>10. /\ t \in Window /\ Frame(t, v) /\ SameRecord(t, v) /\ SameLooks(t, v)
       /\ t.active = NoSave /\ ~t.saving /\ t.pending = v.pending
       /\ t.calls = v.calls
  BY <1>3, <1>9, PutSaved
<1>11. SameTime(t, v)
  BY <1>3, <1>9 DEF SameTime, Window
<1>12. PICK x : x = IF c.uid = v.selected THEN [t EXCEPT !.prefs = c.prefs] ELSE t
  OBVIOUS
<1>13. /\ x \in Window /\ Frame(x, t) /\ SameQueue(x, t) /\ SameLooks(x, t)
       /\ x.prefs = IF c.uid = v.selected THEN c.prefs ELSE t.prefs
       /\ x.restore = t.restore /\ x.calls = t.calls /\ SameTime(x, t)
  <2>1. CASE c.uid = v.selected
    <3>1. PICK p \in Record : p = c.prefs
      BY <1>5
    <3>2. x = [t EXCEPT !.prefs = p]
      BY <1>12, <2>1, <3>1
    <3>3. /\ x \in Window /\ Frame(x, t) /\ SameQueue(x, t) /\ SameLooks(x, t)
          /\ x.prefs = p /\ x.restore = t.restore /\ x.calls = t.calls
      <4>1. t \in Window
        BY <1>10
      <4> QED BY <3>2, <4>1, PutPrefs
    <3>4. SameTime(x, t)
      BY <1>10, <3>2, PrefsUntimed
    <3> QED BY <2>1, <3>1, <3>3, <3>4
  <2>2. CASE c.uid # v.selected
    <3>1. x = t
      BY <1>12, <2>2
    <3> QED BY <1>10, <2>2, <3>1 DEF Frame, SameQueue, SameLooks, SameTime
  <2> QED BY <2>1, <2>2
<1>14. [v EXCEPT !.saving = FALSE, !.active = NoSave,
                 !.prefs = IF c.uid = v.selected THEN c.prefs ELSE @] = x
  <2>1. CASE c.uid = v.selected
    BY <1>3, <1>9, <1>12, <2>1 DEF Window
  <2>2. CASE c.uid # v.selected
    BY <1>3, <1>9, <1>12, <2>2 DEF Window
  <2> QED BY <2>1, <2>2
<1>15. /\ x.selected = w.selected /\ x.gen = w.gen /\ x.focus = w.focus /\ x.ctl = w.ctl
       /\ x.pending = w.pending /\ x.active = NoSave /\ ~x.saving
       /\ x.calls = w.calls \ {c} /\ x.restore = w.restore
       /\ x.prefs = IF c.uid = w.selected THEN c.prefs ELSE w.prefs
  BY <1>3, <1>7, <1>10, <1>13 DEF Frame, SameQueue, SameRecord, SameLooks
<1>16. Core(x, rec, un) /\ (Clear(x, un) => Clear(w, un))
  BY <1>4, <1>8, <1>13, <1>15, CoreSaved DEF Dropped
<1>17. SameTime(x, w)
  BY <1>3, <1>11, <1>13 DEF SameTime
<1>18. PICK y : y = IF c.save.kind = "app-policy" THEN x ELSE LoadTimeStatus(x, no)
  OBVIOUS
<1>19. y \in Window /\ View(y, x) /\ CallsKept(y, x) /\ Core(y, rec, un) /\ Time(y, un)
  <2>1. CASE c.save.kind = "app-policy"
    <3>1. y = x
      BY <1>18, <2>1
    <3>2. Due(w, un) => Due(x, un)
      BY <1>15, <1>16, <2>1 DEF Due
    <3>3. Time(x, un)
      BY <1>4, <1>15, <1>17, <3>2, TimeKept
    <3> QED BY <1>13, <1>16, <3>1, <3>3 DEF View, SameQueue, CallsKept
  <2>2. CASE c.save.kind # "app-policy"
    <3>1. y = LoadTimeStatus(x, no)
      BY <1>18, <2>2
    <3>2. y \in Window /\ View(y, x) /\ CallsKept(y, x)
      BY <1>13, <3>1, LoadTimeView
    <3>3. Core(y, rec, un)
      BY <1>16, <3>2, ViewKept
    <3>4. Time(y, un)
      BY <1>13, <3>1, TimeRead
    <3> QED BY <3>2, <3>3, <3>4
  <2> QED BY <2>1, <2>2
<1>20. u = SaveEnded(y)
  BY <1>2, <1>14, <1>18 DEF SaveSucceeded
<1>21. Sound(x) /\ Idle(x)
  <2>1. Sound(t)
    BY <1>3, <1>9, SaveTakenEnds
  <2>2. t.prefs # NoRecord => x.prefs # NoRecord
    BY <1>3, <1>4, <1>5, <1>13, RecordReal
  <2>3. Sound(x)
    BY <1>13, <2>1, <2>2, SoundKept, NoMore DEF Frame, SameLooks
  <2>4. \A d \in x.calls : d.op # "save"
    BY <1>4, <1>15 DEF Queue
  <2>5. x.prefs # NoRecord => w.prefs # NoRecord
    BY <1>8, <1>15
  <2>6. \A d \in w.calls : d.op = "load" /\ d.gen = w.gen => w.prefs = NoRecord
    BY <1>4 DEF Order, Turns, Current
  <2>7. x.prefs # NoRecord /\ Selected(x) => \A d \in x.calls : d.op = "load" => d.gen # x.gen
    BY <1>15, <2>5, <2>6
  <2> QED BY <1>15, <2>3, <2>4, <2>7 DEF Idle
<1>22. Sound(y) /\ Idle(y)
  <2>1. CASE y = x
    BY <1>21, <2>1
  <2>2. CASE y = LoadTimeStatus(x, no)
    <3>1. Sound(y)
      BY <1>21, <2>2, LoadTimeStatusKeeps
    <3>2. Same(y, x) /\ MoreStatus(y, x)
      BY <1>13, <2>2, LoadTimeStatusDoes
    <3> QED BY <1>21, <3>1, <3>2, IdleKept DEF Same, Frame, SameRecord
  <2> QED BY <1>18, <2>1, <2>2
<1> QED BY <1>19, <1>20, <1>22, SaveEndedCore DEF Good

\* The window takes note that a save failed.
SaveLost(v, uid) ==
  [v EXCEPT !.saving = FALSE, !.active = NoSave,
            !.restore = IF uid = v.selected THEN uid ELSE @]

Lost(x, v, uid) ==
  /\ x.selected = v.selected /\ x.gen = v.gen /\ x.focus = v.focus /\ x.ctl = v.ctl
  /\ x.prefs = v.prefs /\ x.pending = v.pending /\ x.calls = v.calls
  /\ x.active = NoSave /\ ~x.saving
  /\ x.restore = IF uid = v.selected THEN uid ELSE v.restore

LEMMA SaveFailedNotes ==
  ASSUME NEW v, Sound(v), NEW uid \in Children, NEW x, x = SaveLost(v, uid)
  PROVE  x \in Window /\ Sound(x) /\ SameTime(x, v) /\ Lost(x, v, uid)
<1>1. v \in Window
  BY DEF Sound
<1>2. PICK t : t = [v EXCEPT !.saving = FALSE, !.active = NoSave]
  OBVIOUS
<1>3. /\ t \in Window /\ Frame(t, v) /\ SameRecord(t, v) /\ SameLooks(t, v)
      /\ t.active = NoSave /\ ~t.saving /\ t.pending = v.pending
      /\ t.calls = v.calls
  BY <1>1, <1>2, PutSaved
<1>4. Sound(t)
  BY <1>2, SaveTakenEnds
<1>5. SameTime(t, v)
  BY <1>1, <1>2 DEF SameTime, Window
<1>6. PICK r \in Children \cup {NoChild} : r = IF uid = v.selected THEN uid ELSE v.restore
  BY <1>1 DEF Window
<1>7. PICK y : y = [t EXCEPT !.restore = r]
  OBVIOUS
<1>8. t \in Window
  BY <1>3
<1>9. /\ y \in Window /\ Frame(y, t) /\ SameQueue(y, t) /\ SameLooks(y, t)
      /\ y.prefs = t.prefs /\ y.restore = r /\ y.calls = t.calls
  BY <1>7, <1>8, PutRestore
<1>10. SameTime(y, t)
  BY <1>7, <1>8, RestoreUntimed
<1>11. x = y
  <2>1. CASE uid = v.selected
    BY <1>1, <1>2, <1>6, <1>7, <2>1 DEF SaveLost, Window
  <2>2. CASE uid # v.selected
    BY <1>1, <1>2, <1>6, <1>7, <2>2 DEF SaveLost, Window
  <2> QED BY <2>1, <2>2
<1>12. Sound(y)
  BY <1>4, <1>9, SoundKept, NoMore DEF Frame, SameLooks
<1>13. SameTime(y, v)
  BY <1>5, <1>10 DEF SameTime
<1>14. /\ y.selected = v.selected /\ y.gen = v.gen /\ y.focus = v.focus /\ y.ctl = v.ctl
       /\ y.prefs = v.prefs /\ y.pending = v.pending /\ y.calls = v.calls
       /\ y.active = NoSave /\ ~y.saving
  BY <1>3, <1>9 DEF Frame, SameQueue, SameRecord, SameLooks
<1>15. Lost(y, v, uid)
  <2>1. y.restore = IF uid = v.selected THEN uid ELSE v.restore
    BY <1>6, <1>9
  <2> QED BY <1>14, <2>1 DEF Lost
<1> QED BY <1>9, <1>11, <1>12, <1>13, <1>15

LEMMA SaveFailGood ==
  ASSUME IInv, ~w.stray, NEW rec, NEW un, Good(w, rec, un),
         NEW c \in w.calls, c.op = "save",
         NEW v, v = Taken(c, FALSE), ~v.stray, NEW u, u = SaveFailed(v, c),
         NEW un2, un2 = IF c.done THEN un \cup {c.uid} ELSE un
  PROVE  Good(u, rec, un2)
<1>1. PICK no \in BOOLEAN : no = FALSE
  OBVIOUS
<1>2. /\ v \in Window /\ Sound(v) /\ AsIs(v, w) /\ View(v, w) /\ SameTime(v, w)
      /\ v.calls = w.calls \ {c} /\ Restoring(v)
      /\ v.stray <=> w.stray \/ Strays(c, no)
  BY <1>1, TakenView DEF Good
<1>3. /\ w \in Window /\ Sound(w) /\ Order(w) /\ Queue(w) /\ CallOK(c)
      /\ Core(w, rec, un) /\ Time(w, un)
  BY DEF IInv, Sound, Order, Good
<1>4. c.uid \in Children
  BY <1>3 DEF CallOK
<1>5. /\ v.selected = w.selected /\ v.gen = w.gen /\ v.focus = w.focus /\ v.ctl = w.ctl
      /\ v.prefs = w.prefs /\ v.restore = w.restore /\ v.pending = w.pending
  BY <1>2 DEF View, SameQueue
<1>6. c.uid = w.selected => c.gen = w.gen
  BY <1>2 DEF Strays
<1>7. PICK uid \in Children : uid = c.uid
  BY <1>4
<1>8. PICK x : x = SaveLost(v, uid)
  OBVIOUS
<1>9. Sound(v)
  BY <1>2
<1>10. x \in Window /\ Sound(x) /\ SameTime(x, v) /\ Lost(x, v, uid)
  BY <1>8, <1>9, SaveFailedNotes
<1>15. u = SaveEnded(x)
  BY <1>7, <1>8 DEF SaveFailed, SaveLost
<1>16. /\ x.selected = w.selected /\ x.gen = w.gen /\ x.focus = w.focus /\ x.ctl = w.ctl
       /\ x.pending = w.pending /\ x.active = NoSave /\ ~x.saving
       /\ x.calls = w.calls \ {c} /\ x.prefs = w.prefs
       /\ x.restore = IF c.uid = w.selected THEN c.uid ELSE w.restore
  BY <1>2, <1>5, <1>7, <1>10 DEF Lost
<1>17. Core(x, rec, un2) /\ (Due(w, un) => Due(x, un2))
  BY <1>3, <1>6, <1>10, <1>16, CoreUnsaved DEF Dropped
<1>18. Time(x, un2)
  <2>1. SameTime(x, w)
    BY <1>2, <1>10 DEF SameTime
  <2> QED BY <1>3, <1>16, <1>17, <2>1, TimeKept
<1>20. Idle(x)
  <2>1. \A d \in x.calls : d.op # "save"
    BY <1>3, <1>16 DEF Queue
  <2>2. \A d \in w.calls : d.op = "load" /\ d.gen = w.gen => w.prefs = NoRecord
    BY <1>3 DEF Order, Turns, Current
  <2>3. x.prefs # NoRecord => \A d \in x.calls : d.op = "load" => d.gen # x.gen
    BY <1>16, <2>2
  <2> QED BY <1>16, <2>1, <2>3 DEF Idle
<1> QED BY <1>10, <1>15, <1>17, <1>18, <1>20, SaveEndedCore DEF Good

LEMMA RevokeFailGood ==
  ASSUME IInv, ~w.stray, NEW rec, NEW un, Good(w, rec, un),
         NEW c \in w.calls, c.op = "revoke",
         NEW v, v = Taken(c, FALSE), ~v.stray, NEW u, u = SaveFailed(v, c)
  PROVE  Good(u, rec, un)
<1>1. PICK no \in BOOLEAN : no = FALSE
  OBVIOUS
<1>2. /\ v \in Window /\ Sound(v) /\ AsIs(v, w) /\ View(v, w) /\ SameTime(v, w)
      /\ v.calls = w.calls \ {c} /\ Restoring(v)
      /\ v.stray <=> w.stray \/ Strays(c, no)
  BY <1>1, TakenView DEF Good
<1>3. /\ Order(w) /\ Sound(w) /\ CallOK(c) /\ Core(w, rec, un)
  BY DEF IInv, Sound, Good
<1>4. c.uid \in Children
  BY <1>3 DEF CallOK
<1>5. Current(w, c)
  BY <1>2 DEF Strays, Current
<1>6. /\ \A d \in v.calls : ~Current(v, d)
      /\ Selected(v) => c.uid = v.selected
      /\ ~v.saving /\ v.pending = <<>>
      /\ Queue(v)
  BY <1>2, <1>3, <1>5, TakenOrder
<1>7. Core(v, rec, un)
  BY <1>2, <1>3, TakenCore
<1>8. v.active = NoSave /\ \A d \in v.calls : d.op # "save"
  BY <1>6 DEF Queue
<1>9. PICK uid \in Children : uid = c.uid
  BY <1>4
<1>10. PICK x : x = SaveLost(v, uid)
  OBVIOUS
<1>11. Sound(v)
  BY <1>2
<1>12. x \in Window /\ Sound(x) /\ SameTime(x, v) /\ Lost(x, v, uid)
  BY <1>10, <1>11, SaveFailedNotes
<1>13. x.active = v.active
  BY <1>8, <1>12 DEF Lost
<1>15. u = SaveEnded(x)
  BY <1>9, <1>10 DEF SaveFailed, SaveLost
<1>17. Idle(x)
  BY <1>6, <1>8, <1>12 DEF Idle, Current, Lost
<1>18. Core(x, rec, un) /\ Due(x, un)
  <2>1. x.restore = x.selected \/ ~Selected(x)
    BY <1>6, <1>9, <1>12 DEF Selected, Lost
  <2>2. ~Showing(x, un) /\ Due(x, un)
    BY <2>1 DEF Showing, Clear, Due
  <2>3. /\ Agrees(v, rec, un) /\ NoPolicy(v) /\ Latest(v, un) /\ Known(v, rec, un)
        /\ Stored(v, rec) /\ Read(v, rec) /\ Away(v)
    BY <1>7 DEF Core
  <2>4. /\ x.selected = v.selected /\ x.gen = v.gen /\ x.focus = v.focus /\ x.calls = v.calls
        /\ x.active = v.active /\ x.pending = v.pending /\ x.prefs = v.prefs
    BY <1>12, <1>13 DEF Lost
  <2>5. Queued(x) = Queued(v) /\ (Ours(x) <=> Ours(v))
    BY <2>4 DEF Queued, Ours, Last
  <2>6. (Old(x) <=> Old(v)) /\ (Policy(x) <=> Policy(v))
    BY <2>4, <2>5 DEF Old, Policy
  <2>7. Clear(x, un) <=> Clear(v, un)
    BY <2>4, <2>6 DEF Clear, Selected
  <2>8. Agrees(x, rec, un) /\ Latest(x, un) /\ Known(x, rec, un)
    BY <2>3, <2>4, <2>5, <2>6, <2>7 DEF Agrees, Latest, Known
  <2>9. NoPolicy(x) /\ Stored(x, rec) /\ Read(x, rec) /\ Away(x)
    BY <2>3, <2>4, <2>6 DEF NoPolicy, Stored, Read, Away
  <2>10. LimitShown(x, rec, un) /\ AppsShown(x, rec, un)
    BY <2>2 DEF LimitShown, AppsShown
  <2> QED BY <2>2, <2>8, <2>9, <2>10 DEF Core
<1>19. Time(x, un)
  BY <1>18, TimeDue
<1> QED BY <1>12, <1>15, <1>17, <1>18, <1>19, SaveEndedCore DEF Good

LEMMA OtherFailGood ==
  ASSUME IInv, ~w.stray, NEW rec, NEW un, Good(w, rec, un),
         NEW c \in w.calls, c.op \in {"load", "running"},
         NEW v, v = Taken(c, FALSE), ~v.stray, NEW u, u = Failed(v)
  PROVE  Good(u, rec, un)
<1>1. PICK no \in BOOLEAN : no = FALSE
  OBVIOUS
<1>2. /\ v \in Window /\ Sound(v) /\ AsIs(v, w) /\ View(v, w) /\ SameTime(v, w)
      /\ v.calls = w.calls \ {c} /\ Apt(v) /\ Restoring(v)
      /\ v.stray <=> w.stray \/ Strays(c, no)
  BY <1>1, TakenView DEF Good
<1>3. Order(w) /\ Sound(w)
  BY DEF IInv
<1>4. Core(v, rec, un) /\ Time(v, un)
  BY <1>2, TakenCore DEF Good
<1>5. Good(v, rec, un)
  BY <1>2, <1>4 DEF Good
<1>6. Current(w, c)
  BY <1>1, <1>2 DEF Strays, Current
<1>7. /\ Queue(v) /\ \A d \in v.calls : ~Current(v, d)
      /\ c.op = "load" => v.prefs = NoRecord
      /\ c.op # "load" => ~v.saving /\ v.pending = <<>>
  BY <1>2, <1>3, <1>6, TakenOrder
<1>8. /\ u \in Window /\ u.calls = v.calls /\ SameTime(u, v) /\ Apt(u)
      /\ v.prefs = NoRecord => View(u, v)
      /\ v.prefs # NoRecord => Loads(u, v, v.prefs) /\ u.ctl.apps = v.ctl.apps
  BY <1>2, FailedView
<1>9. CASE v.prefs = NoRecord
  BY <1>5, <1>8, <1>9, ViewGood
<1>10. CASE v.prefs # NoRecord
  <2>1. Loads(u, v, v.prefs) /\ u.ctl.apps = v.ctl.apps
    BY <1>8, <1>10
  <2>2. ~v.saving /\ v.pending = <<>> /\ v.active = NoSave /\ \A d \in v.calls : d.op # "save"
    BY <1>7, <1>10 DEF Queue
  <2>3. Queued(v) = {} /\ ~Policy(v)
    <3>1. ~Policy(v)
      BY <2>2 DEF Policy
    <3>2. Queued(v) = {}
      BY <1>2, <2>2, DropQueued
    <3> QED BY <3>1, <3>2
  <2>4. /\ u.selected = v.selected /\ u.gen = v.gen /\ u.active = v.active
        /\ u.pending = v.pending /\ u.saving = v.saving /\ u.restore = v.restore
        /\ u.prefs = v.prefs
    BY <2>1 DEF Loads, SameQueue
  <2>5. Queued(u) = Queued(v)
    BY <2>4 DEF Queued
  <2>6. Old(u) <=> Old(v)
    BY <2>4, <2>5 DEF Old
  <2>7. Clear(u, un) <=> Clear(v, un)
    BY <2>4, <2>6 DEF Clear, Selected
  <2>8. v.restore = NoChild
    BY <1>2, <2>2 DEF Restoring
  <2>9. Clear(v, un) => Showing(v, un) /\ v.prefs = rec[v.selected]
    BY <1>4, <2>2, <2>8 DEF Core, Known, Showing, Clear, Selected
  <2>10. Clear(v, un) => v.ctl.apps = rec[v.selected].apps
    BY <1>4, <2>3, <2>9 DEF Core, AppsShown
  <2>11. Clear(u, un) => /\ v.prefs = rec[u.selected] /\ u.ctl.apps = v.prefs.apps
                         /\ \A s \in Queued(u) : s.uid # u.selected
    BY <2>1, <2>3, <2>4, <2>5, <2>7, <2>9, <2>10
  <2>12. CallsKept(u, v)
    BY <1>8 DEF CallsKept
  <2>13. \A d \in v.calls : d.op = "load" => d.gen # v.gen
    BY <1>7 DEF Current
  <2>14. NoPolicy(v) /\ Stored(v, rec) /\ Away(v)
    BY <1>4 DEF Core
  <2>15. Core(u, rec, un)
    BY <1>8, <2>1, <2>11, <2>12, <2>13, <2>14, CoreLoads
  <2>16. Due(v, un) => Due(u, un)
    BY <1>8, <2>4, <2>7 DEF Due
  <2>17. Time(u, un)
    BY <1>4, <1>8, <2>4, <2>16, TimeKept
  <2>18. Restoring(u)
    BY <1>2, <2>4 DEF Restoring
  <2> QED BY <1>8, <2>15, <2>17, <2>18 DEF Good
<1> QED BY <1>9, <1>10

LEMMA ReplyGood ==
  ASSUME IInv, ~w.stray, Good(w, record, unsure), NEW c \in w.calls, Reply(c), ~w'.stray
  PROVE  Good(w', record', unsure')
<1>1. c.op \in {"load", "status", "running", "revoke", "save"} /\ Sound(w)
  BY DEF IInv, Sound, Window, Calls
<1>2. PICK v : v = Taken(c, TRUE)
  OBVIOUS
<1>3. record' = record /\ (c.op # "load" => unsure' = unsure)
  BY DEF Reply
<1>4. CASE c.op = "load"
  <2>1. w' = Loaded(v, c) /\ c.done
    BY <1>2, <1>4 DEF Reply
  <2>2. unsure' = IF c.gen = w.gen THEN unsure \ {c.uid} ELSE unsure
    BY <1>4 DEF Reply
  <2>3. Good(w', record, unsure')
    BY <1>2, <1>4, <2>1, <2>2, LoadedGood
  <2> QED BY <1>3, <2>3
<1>5. CASE c.op = "status"
  <2>1. w' = StatusLoaded(v, c) /\ c.done
    BY <1>2, <1>5 DEF Reply
  <2>2. Good(w', record, unsure)
    BY <1>2, <1>5, <2>1, StatusReplyGood
  <2> QED BY <1>3, <1>5, <2>2
<1>6. CASE c.op = "running"
  <2>1. w' = RunningListed(v, c)
    BY <1>2, <1>6 DEF Reply
  <2>2. Good(w', record, unsure)
    BY <1>2, <1>6, <2>1, RunningReplyGood
  <2> QED BY <1>3, <1>6, <2>2
<1>7. CASE c.op = "revoke"
  <2>1. w' = RevokeSucceeded(v, c)
    BY <1>2, <1>7 DEF Reply
  <2>2. ~v.stray
    BY <1>1, <1>2, <1>7, <2>1, RevokeAnswered
  <2>3. Good(w', record, unsure)
    BY <1>2, <1>7, <2>1, <2>2, RevokeReplyGood
  <2> QED BY <1>3, <1>7, <2>3
<1>8. CASE c.op = "save"
  <2>1. w' = SaveSucceeded(v, c) /\ c.done
    BY <1>2, <1>8 DEF Reply
  <2>2. ~v.stray
    BY <1>1, <1>2, <1>8, <2>1, SaveAnswered
  <2>3. Good(w', record, unsure)
    BY <1>2, <1>8, <2>1, <2>2, SaveReplyGood
  <2> QED BY <1>3, <1>8, <2>3
<1> QED BY <1>1, <1>4, <1>5, <1>6, <1>7, <1>8

LEMMA FailGood ==
  ASSUME IInv, ~w.stray, Good(w, record, unsure), NEW c \in w.calls, Fail(c), ~w'.stray
  PROVE  Good(w', record', unsure')
<1>1. c.op \in {"load", "status", "running", "revoke", "save"} /\ Sound(w)
  BY DEF IInv, Sound, Window, Calls
<1>2. PICK v : v = Taken(c, FALSE)
  OBVIOUS
<1>3. record' = record /\ (c.op # "save" => unsure' = unsure)
  BY DEF Fail
<1>4. CASE c.op = "status"
  <2>1. w' = StatusFailed(v, c)
    BY <1>2, <1>4 DEF Fail
  <2>2. Good(w', record, unsure)
    BY <1>2, <1>4, <2>1, StatusFailGood
  <2> QED BY <1>3, <1>4, <2>2
<1>5. CASE c.op \in {"save", "revoke"}
  <2>1. w' = SaveFailed(v, c)
    BY <1>2, <1>5 DEF Fail
  <2>2. ~v.stray
    BY <1>1, <1>2, <1>5, <2>1, SaveOrRevokeFails
  <2>3. CASE c.op = "save"
    <3>1. unsure' = IF c.done THEN unsure \cup {c.uid} ELSE unsure
      BY <2>3 DEF Fail
    <3>2. Good(w', record, unsure')
      BY <1>2, <2>1, <2>2, <2>3, <3>1, SaveFailGood
    <3> QED BY <1>3, <3>2
  <2>4. CASE c.op = "revoke"
    <3>1. Good(w', record, unsure)
      BY <1>2, <2>1, <2>2, <2>4, RevokeFailGood
    <3> QED BY <1>3, <2>4, <3>1
  <2> QED BY <1>5, <2>3, <2>4
<1>6. CASE c.op \in {"load", "running"}
  <2>1. w' = Failed(v)
    BY <1>2, <1>6 DEF Fail
  <2>2. ~v.stray
    BY <1>1, <1>2, <1>6, <2>1, OtherFails
  <2>3. Good(w', record, unsure)
    BY <1>2, <1>6, <2>1, <2>2, OtherFailGood
  <2> QED BY <1>3, <1>6, <2>3
<1> QED BY <1>1, <1>4, <1>5, <1>6

-----------------------------------------------------------------------------
\* The other steps.

LEMMA UsersAnswerGood ==
  ASSUME IInv, ~w.stray, Good(w, record, unsure), UsersAnswer
  PROVE  Good(w', record', unsure')
<1>1. CASE \E us \in SUBSET Children : Steps(UsersLoaded(w, us))
  <2>1. PICK us \in SUBSET Children : Steps(UsersLoaded(w, us))
    BY <1>1
  <2>2. Good(UsersLoaded(w, us), record, unsure)
    BY UsersLoadedGood DEF IInv
  <2> QED BY <2>1, <2>2 DEF Steps
<1>2. CASE /\ \E denied \in BOOLEAN : w' = UsersFailed(w, denied)
           /\ UNCHANGED <<record, unsure, edits>>
  <2>1. w' = w \/ w' = Closed
    BY <1>2 DEF UsersFailed
  <2> QED BY <1>2, <2>1, OpenedGood
<1> QED BY <1>1, <1>2 DEF UsersAnswer

LEMMA TimeStatusGood ==
  ASSUME NEW v \in Window, NEW again \in BOOLEAN, NEW rec, NEW un, Good(v, rec, un),
         NEW u, u = LoadTimeStatus(v, again)
  PROVE  Good(u, rec, un)
<1>1. /\ View(u, v) /\ CallsKept(u, v) /\ (Apt(v) => Apt(u))
  BY LoadTimeView
<1>2. Core(u, rec, un)
  BY <1>1, ViewKept DEF Good
<1>3. Time(u, un)
  BY TimeRead
<1>4. Restoring(u)
  BY <1>1 DEF Good, Restoring, View, SameQueue
<1> QED BY <1>1, <1>2, <1>3, <1>4 DEF Good

LEMMA TimeStepsGood ==
  ASSUME IInv, Good(w, record, unsure), RefreshTimeStatus \/ RetryTimeStatus \/ Close
  PROVE  Good(w', record', unsure')
<1>1. PICK no \in BOOLEAN : no = FALSE
  OBVIOUS
<1>2. PICK yes \in BOOLEAN : yes = TRUE
  OBVIOUS
<1>3. w \in Window
  BY DEF IInv, Sound
<1>4. CASE RefreshTimeStatus
  <2>1. PICK v : v = LoadTimeStatus(w, no)
    OBVIOUS
  <2>2. Good(v, record, unsure)
    BY <1>3, <2>1, TimeStatusGood
  <2> QED BY <1>1, <1>4, <2>1, <2>2 DEF RefreshTimeStatus, Steps
<1>5. CASE RetryTimeStatus
  <2>1. PICK x : x = [w EXCEPT !.retry = FALSE]
    OBVIOUS
  <2>2. PICK v : v = LoadTimeStatus(x, yes)
    OBVIOUS
  <2>3. x \in Window /\ Same(x, w) /\ x.calls = w.calls
    BY <1>3, <2>1, PutRetry
  <2>4. View(x, w) /\ (Apt(w) => Apt(x))
    BY <2>3, SameView, AptKept DEF Same, Frame, SameQueue, SameRecord, SameLooks
  <2>5. View(v, x) /\ CallsKept(v, x) /\ (Apt(x) => Apt(v))
    BY <2>2, <2>3, LoadTimeView
  <2>6. Core(x, record, unsure) /\ (Restoring(w) => Restoring(x))
    BY <2>3, <2>4, ViewOnly DEF Good
  <2>7. Core(v, record, unsure)
    BY <2>5, <2>6, ViewKept
  <2>8. Restoring(v)
    BY <2>5, <2>6 DEF Good, Restoring, View, SameQueue
  <2>9. Time(v, unsure)
    BY <2>2, <2>3, TimeRead
  <2>10. Good(v, record, unsure)
    BY <2>4, <2>5, <2>7, <2>8, <2>9 DEF Good
  <2> QED BY <1>2, <1>5, <2>1, <2>2, <2>10 DEF RetryTimeStatus, Steps
<1>6. CASE Close
  BY <1>6, OpenedGood DEF Close, Steps
<1> QED BY <1>4, <1>5, <1>6

-----------------------------------------------------------------------------
\* The parent.

\* The limit is being chosen: but for the limit controls and the focus, the window stays.
LEMMA LimitGood ==
  ASSUME NEW v, NEW rec, NEW un, Good(v, rec, un), NEW u, Chosen(u, v), u.calls = v.calls,
         u.ctl.apps = v.ctl.apps, u.ctl.enabled = v.ctl.enabled,
         u.sens = v.sens, u.loading = v.loading,
         LimitShown(u, rec, un),
         \A c \in v.calls : c.op = "revoke" => c.gen # v.gen
  PROVE  Good(u, rec, un)
<1>1. Steady(v, rec, un) /\ Time(v, un) /\ Restoring(v) /\ Apt(v)
  BY SteadyCore DEF Good
<1>2. Steady(u, rec, un) /\ Time(u, un) /\ Restoring(u)
  BY <1>1, ChosenKept
<1>3. Away(u)
  BY DEF Away, Chosen
<1>4. Apt(u)
  BY <1>1, AptKept DEF Chosen, SameQueue
<1> QED BY <1>2, <1>3, <1>4, SteadyCore DEF Good

LEMMA PutFocusAlso ==
  ASSUME NEW v \in Window, NEW b \in BOOLEAN, NEW u, u = [v EXCEPT !.focus = b]
  PROVE  /\ Chosen(u, v) /\ u.calls = v.calls /\ u.ctl = v.ctl /\ u.sens = v.sens
         /\ u.loading = v.loading /\ u.focus = b
<1>1. /\ u.selected = v.selected /\ u.gen = v.gen /\ SameQueue(u, v)
      /\ u.prefs = v.prefs /\ u.restore = v.restore
  BY DEF SameQueue, Window
<1>2. SameTime(u, v) /\ u.calls = v.calls
  BY DEF SameTime, Window
<1>3. u.ctl = v.ctl /\ u.sens = v.sens /\ u.loading = v.loading /\ u.focus = b
  BY DEF Window
<1> QED BY <1>1, <1>2, <1>3 DEF Chosen

\* What is typed, if it is a limit, is stored or queued.
Entered(v, rec, un) ==
  Showing(v, un) => /\ v.ctl.enabled = Target(v, rec).enabled
                    /\ \/ v.ctl.choice = Custom /\ v.ctl.entry = Invalid
                       \/ Minutes(v) = Target(v, rec).limit

LEMMA CustomChangedGood ==
  ASSUME NEW v, Sound(v), Order(v), v.focus, NEW rec, NEW un, Good(v, rec, un),
         NEW u, u = CustomChanged(v)
  PROVE  Good(u, rec, un) /\ Entered(u, rec, un)
<1>1. v \in Window /\ Queue(v) /\ Turns(v) /\ Waits(v)
  BY DEF Sound, Order
<1>2. PICK no \in BOOLEAN : no = FALSE
  OBVIOUS
<1>3. PICK t : t = [v EXCEPT !.debounce = no]
  OBVIOUS
<1>4. /\ t \in Window /\ Frame(t, v) /\ SameQueue(t, v) /\ SameLooks(t, v)
      /\ t.prefs = v.prefs /\ t.loading = v.loading /\ t.restore = v.restore
      /\ t.calls = v.calls
  BY <1>1, <1>3, PutDebounce
<1>5. View(t, v) /\ t.selected = v.selected /\ t.ctl = v.ctl
  BY <1>4 DEF View, Frame, SameLooks
<1>6. SameTime(t, v)
  BY <1>1, <1>3 DEF SameTime, Window
<1>7. Apt(v) => Apt(t)
  BY <1>4, AptKept DEF Frame, SameQueue, SameLooks
<1>8. Good(t, rec, un)
  BY <1>4, <1>5, <1>6, <1>7, ViewGood
<1>9. Steady(t, rec, un) /\ LimitShown(t, rec, un) /\ Away(t) /\ Time(t, un) /\ Apt(t)
  BY <1>8, SteadyCore DEF Good
<1>10. \A c \in v.calls : c.op = "revoke" => c.gen # v.gen
  BY DEF Good, Core, Away
<1>11. PICK kind \in Kinds : kind = "custom-allowance"
  BY DEF Kinds
<1>12. PICK s : s = Composed(t, kind)
  OBVIOUS
<1>13. \/ u = t /\ (v.loading \/ ~Selected(v) \/ v.ctl.choice # Custom
                      \/ ~v.ctl.enabled \/ v.ctl.entry = Invalid)
       \/ /\ u = t /\ Committed(t, s)
          /\ ~v.loading /\ Selected(v) /\ v.ctl.choice = Custom
          /\ v.ctl.enabled /\ v.ctl.entry # Invalid
       \/ /\ u = QueueSave(t, s)
          /\ Selected(v) /\ v.ctl.choice = Custom /\ v.ctl.entry # Invalid
  BY Zenon, <1>2, <1>3, <1>11, <1>12 DEF CustomChanged, SaveCustom
<1>14. ASSUME v.loading \/ ~Selected(v) \/ v.ctl.choice # Custom
                \/ ~v.ctl.enabled \/ v.ctl.entry = Invalid
       PROVE  Entered(t, rec, un)
  <2>1. SUFFICES ASSUME Showing(t, un)
                 PROVE  /\ t.ctl.enabled = Target(t, rec).enabled
                        /\ \/ t.ctl.choice = Custom /\ t.ctl.entry = Invalid
                           \/ Minutes(t) = Target(t, rec).limit
    BY DEF Entered
  <2>2. Selected(v) /\ v.prefs # NoRecord
    BY <1>4, <1>5, <2>1 DEF Showing, Clear, Selected
  <2>3. ~v.loading
    BY <1>1, <1>10, <2>2 DEF Waits, Turns, Current
  <2>4. /\ t.ctl.enabled = Target(t, rec).enabled
        /\ Draft(t) \/ Minutes(t) = Target(t, rec).limit
    BY <1>9, <2>1 DEF LimitShown
  <2> QED BY <1>5, <1>14, <2>2, <2>3, <2>4 DEF Draft
<1>15. CASE /\ Committed(t, s) /\ u = t
            /\ Selected(v) /\ v.ctl.choice = Custom /\ v.ctl.entry # Invalid
  <2>1. /\ s.kind = kind /\ s.uid = t.selected
        /\ s.enabled = t.ctl.enabled /\ s.limit = Minutes(t)
    BY <1>4, <1>11, <1>12, ComposedIs
  <2>2. CASE Last(t) # NoSave
    <3>1. SameWrite(Last(t), s)
      BY <1>15, <2>2 DEF Committed, Last
    <3>2. Ours(t)
      BY <2>1, <2>2, <3>1 DEF Ours, SameWrite
    <3>3. Target(t, rec) = Last(t)
      BY <3>2 DEF Target
    <3>4. Entered(t, rec, un)
      BY <2>1, <3>1, <3>3 DEF Entered, SameWrite
    <3> QED BY <1>8, <1>15, <3>4
  <2>3. CASE Last(t) = NoSave
    <3>1. t.prefs # NoRecord /\ t.prefs.enabled = s.enabled /\ t.prefs.limit = s.limit
      BY <1>15, <2>3 DEF Committed, Last
    <3>2. Target(t, rec) = rec[t.selected]
      BY <2>3 DEF Target, Ours
    <3>3. t.active = NoSave
      <4>1. t.pending = <<>> \/ Last(t) \in Saves
        <5>1. t.pending \in Seq(Saves)
          BY <1>4 DEF Window
        <5>2. SUFFICES ASSUME t.pending # <<>> PROVE t.pending[Len(t.pending)] \in Saves
          BY DEF Last
        <5>3. Len(t.pending) \in DOMAIN t.pending
          BY <5>1, <5>2, EmptyWhole
        <5> QED BY <5>1, <5>3
      <4>2. t.pending = <<>>
        BY <2>3, <4>1, SaveReal
      <4> QED BY <2>3, <4>2 DEF Last
    <3>4. \A c \in t.calls : c.op # "save"
      BY <1>1, <1>4, <3>3 DEF Queue, SameQueue
    <3>5. Clear(t, un) => t.prefs = rec[t.selected]
      BY <1>9, <3>4 DEF Steady, Known
    <3>6. Entered(t, rec, un)
      BY <2>1, <3>1, <3>2, <3>5 DEF Entered, Showing
    <3> QED BY <1>8, <1>15, <3>6
  <2> QED BY <2>2, <2>3
<1>16. CASE /\ u = QueueSave(t, s)
            /\ Selected(v) /\ v.ctl.choice = Custom /\ v.ctl.entry # Invalid
  <2>1. u = QueueSave(t, Composed(t, kind)) /\ kind # "app-policy"
    BY <1>11, <1>12, <1>16
  <2>2. CanMinutes(t) /\ Selected(t)
    BY <1>5, <1>16 DEF CanMinutes, Selected
  <2>3. (t.saving <=> t.active # NoSave) /\ (~t.saving => t.pending = <<>>)
    BY <1>1, <1>4 DEF Queue, SameQueue
  <2>4. /\ AppsShown(t, rec, un) /\ Agrees(t, rec, un) /\ NoPolicy(t) /\ Latest(t, un)
        /\ Known(t, rec, un) /\ Stored(t, rec) /\ Read(t, rec) /\ Away(t)
    BY <1>9 DEF Steady
  <2>5. /\ Core(u, rec, un) /\ Restoring(u) /\ Exact(u, rec, un)
        /\ Time(t, un) => Time(u, un)
        /\ ~t.saving \/ Apt(t) => Apt(u)
    BY <1>4, <1>11, <2>1, <2>2, <2>3, <2>4, ComposedCore
  <2>6. Entered(u, rec, un)
    BY <2>5 DEF Exact, Entered
  <2> QED BY <1>9, <2>5, <2>6 DEF Good
<1>17. CASE /\ u = t
            /\ v.loading \/ ~Selected(v) \/ v.ctl.choice # Custom
                 \/ ~v.ctl.enabled \/ v.ctl.entry = Invalid
  BY <1>8, <1>14, <1>17
<1> QED BY <1>13, <1>15, <1>16, <1>17

LEMMA DebouncedGood ==
  ASSUME IInv, ~w.stray, Good(w, record, unsure), Debounced
  PROVE  Good(w', record', unsure')
<1>1. PICK v : v = CustomChanged(w)
  OBVIOUS
<1>2. Sound(w) /\ Order(w) /\ w.focus
  BY DEF Debounced, IInv, Order, Shows
<1>3. Good(v, record, unsure)
  BY <1>1, <1>2, CustomChangedGood
<1> QED BY <1>1, <1>3 DEF Debounced, Steps

LEMMA CommitGood ==
  ASSUME IInv, ~w.stray, Good(w, record, unsure), NEW stays \in BOOLEAN, Commit(stays)
  PROVE  Good(w', record', unsure')
<1>1. PICK x : x = CustomChanged(w)
  OBVIOUS
<1>2. PICK v : v = [x EXCEPT !.focus = stays]
  OBVIOUS
<1>3. w.focus /\ Sound(w) /\ Order(w)
  BY DEF Commit, IInv
<1>4. Sound(x) /\ Frame(x, w)
  BY <1>1, <1>3, CustomChangedDoes
<1>5. Good(x, record, unsure) /\ Entered(x, record, unsure)
  BY <1>1, <1>3, CustomChangedGood
<1>6. x \in Window /\ x.focus = w.focus
  BY <1>4 DEF Sound, Frame
<1>7. /\ Chosen(v, x) /\ v.calls = x.calls /\ v.ctl = x.ctl /\ v.sens = x.sens
      /\ v.loading = x.loading
  BY <1>2, <1>6, PutFocusAlso
<1>8. \A c \in x.calls : c.op = "revoke" => c.gen # x.gen
  BY <1>3, <1>5, <1>6 DEF Good, Core, Away
<1>9. LimitShown(v, record, unsure)
  <2>1. (Showing(v, unsure) <=> Showing(x, unsure)) /\ Target(v, record) = Target(x, record)
    BY <1>7, ChosenSame
  <2>2. Minutes(v) = Minutes(x)
    BY <1>7 DEF Minutes, Chosen
  <2> QED BY <1>5, <1>7, <2>1, <2>2 DEF Entered, LimitShown, Draft
<1>10. Good(v, record, unsure)
  BY <1>5, <1>7, <1>8, <1>9, LimitGood
<1> QED BY <1>1, <1>2, <1>10 DEF Commit, Steps

LEMMA ControlsChosen ==
  ASSUME NEW v \in Window, NEW k \in Controls, NEW u, u = [v EXCEPT !.ctl = k]
  PROVE  /\ u \in Window /\ Chosen(u, v) /\ u.calls = v.calls /\ u.ctl = k /\ u.sens = v.sens
         /\ u.loading = v.loading /\ u.focus = v.focus
<1>1. u \in Window /\ OnlyControls(u, v) /\ u.ctl = k /\ u.sens = v.sens
  BY PutControls
<1>2. SameTime(u, v)
  BY ControlsUntimed
<1> QED BY <1>1, <1>2 DEF OnlyControls, Chosen, Frame, SameRecord

\* The parent changed the limit controls and they are saved.
LEMMA ChosenSaved ==
  ASSUME NEW v, Queue(v), NEW rec, NEW un, Good(v, rec, un),
         NEW x \in Window, Chosen(x, v), x.calls = v.calls, x.focus = v.focus,
         x.ctl.apps = v.ctl.apps, Selected(x), CanMinutes(x), ~v.saving \/ Apt(x),
         NEW kind \in Kinds, kind # "app-policy", NEW u, u = QueueSave(x, Composed(x, kind))
  PROVE  Good(u, rec, un)
<1>1. Steady(v, rec, un) /\ Away(v) /\ Time(v, un)
  BY SteadyCore DEF Good
<1>2. Steady(x, rec, un) /\ Time(x, un)
  BY <1>1, ChosenKept
<1>3. Away(x)
  BY <1>1 DEF Away, Chosen
<1>4. /\ AppsShown(x, rec, un) /\ Agrees(x, rec, un) /\ NoPolicy(x) /\ Latest(x, un)
      /\ Known(x, rec, un) /\ Stored(x, rec) /\ Read(x, rec)
  BY <1>2 DEF Steady
<1>5. (x.saving <=> x.active # NoSave) /\ (~x.saving => x.pending = <<>>)
  BY DEF Queue, Chosen, SameQueue
<1>6. /\ Core(u, rec, un) /\ Restoring(u)
      /\ Time(x, un) => Time(u, un)
      /\ ~x.saving \/ Apt(x) => Apt(u)
  BY <1>3, <1>4, <1>5, ComposedCore
<1> QED BY <1>2, <1>6 DEF Good, Chosen, SameQueue

LEMMA ToggleEnabledGood ==
  ASSUME IInv, ~w.stray, Good(w, record, unsure), ToggleEnabled
  PROVE  Good(w', record', unsure')
<1>1. /\ w \in Window /\ Selected(w) /\ w.prefs # NoRecord /\ w.ctl \in Controls
  BY Panel DEF ToggleEnabled
<1>2. Queue(w) /\ ~w.loading /\ ~w.saving
  BY <1>1 DEF ToggleEnabled, IInv, Order, Right
<1>3. PICK k \in Controls : k = [w.ctl EXCEPT !.enabled = ~w.ctl.enabled]
  BY <1>1 DEF Controls
<1>4. k.apps = w.ctl.apps
  BY <1>1, <1>3 DEF Controls
<1>5. PICK x : x = [w EXCEPT !.ctl = k]
  OBVIOUS
<1>6. PICK s \in Sensitive : s = [w.sens EXCEPT !.limit = k.enabled]
  BY <1>1, <1>3 DEF Window, Sensitive, Controls
<1>7. PICK y : y = [x EXCEPT !.sens = s]
  OBVIOUS
<1>8. PICK kind \in Kinds : kind = "parent-control"
  BY DEF Kinds
<1>9. w.ctl.enabled \in BOOLEAN
  BY <1>1 DEF Controls
<1>10. [w EXCEPT !.ctl.enabled = ~w.ctl.enabled] = x
  BY <1>1, <1>3, <1>5 DEF Window
<1>11. /\ x \in Window /\ Chosen(x, w) /\ x.calls = w.calls /\ x.ctl = k /\ x.sens = w.sens
       /\ x.loading = w.loading /\ x.focus = w.focus
  BY <1>1, <1>5, ControlsChosen
<1>12. /\ y \in Window /\ Chosen(y, w) /\ y.calls = w.calls /\ y.ctl = k /\ y.focus = w.focus
  <2>1. x \in Window
    BY <1>11
  <2>2. y \in Window /\ OnlyControls(y, x) /\ y.ctl = x.ctl
    BY <1>7, <2>1, PutSensitive
  <2>3. SameTime(y, x)
    BY <1>7, <2>1 DEF SameTime, Window
  <2>4. /\ y.selected = x.selected /\ y.gen = x.gen /\ y.focus = x.focus /\ SameQueue(y, x)
        /\ y.prefs = x.prefs /\ y.restore = x.restore /\ y.calls = x.calls
    BY <2>2 DEF OnlyControls, Frame, SameRecord
  <2>5. Chosen(y, w)
    BY <1>11, <2>3, <2>4 DEF Chosen, SameQueue, SameTime
  <2> QED BY <1>11, <2>2, <2>4, <2>5
<1>13. [x EXCEPT !.sens.limit = x.ctl.enabled] = y
  BY <1>6, <1>7, <1>11 DEF Window
<1>14. Selected(x) /\ ~x.loading
  BY <1>1, <1>2, <1>11 DEF Selected, Chosen
<1>15. EnabledChanged(x) = QueueSave(y, Composed(y, kind))
  BY <1>8, <1>13, <1>14 DEF EnabledChanged, SaveParentControl
<1>16. PICK v : v = QueueSave(y, Composed(y, kind))
  OBVIOUS
<1>17. SetActive(w, ~w.ctl.enabled) = v
  BY <1>9, <1>10, <1>15, <1>16 DEF SetActive
<1>18. Edit(v)
  BY <1>17 DEF ToggleEnabled
<1>19. Selected(y) /\ CanMinutes(y) /\ y.ctl.apps = w.ctl.apps
  BY <1>1, <1>4, <1>12 DEF Selected, CanMinutes, Chosen
<1>20. kind # "app-policy"
  BY <1>8
<1>21. Good(v, record, unsure)
  BY <1>2, <1>12, <1>16, <1>19, <1>20, ChosenSaved
<1> QED BY <1>18, <1>21 DEF Edit

LEMMA ChoosePresetGood ==
  ASSUME IInv, ~w.stray, Good(w, record, unsure), NEW p \in Presets, ChoosePreset(p)
  PROVE  Good(w', record', unsure')
<1>1. /\ w \in Window /\ Selected(w) /\ w.prefs # NoRecord /\ w.ctl \in Controls
  BY Panel DEF ChoosePreset
<1>2. Queue(w)
  BY DEF IInv, Order
<1>3. PICK k \in Controls : k = [w.ctl EXCEPT !.choice = p]
  BY <1>1 DEF Controls
<1>4. k.apps = w.ctl.apps /\ k.enabled = w.ctl.enabled
  BY <1>1, <1>3 DEF Controls
<1>5. PICK x : x = [w EXCEPT !.ctl = k]
  OBVIOUS
<1>6. PICK kind \in Kinds : kind = "parent-control"
  BY DEF Kinds
<1>7. PICK v : v = QueueSave(x, Composed(x, kind))
  OBVIOUS
<1>8. [w EXCEPT !.ctl.choice = p] = x
  BY <1>1, <1>3, <1>5 DEF Window
<1>9. Edit(v)
  BY <1>6, <1>7, <1>8 DEF ChoosePreset, SaveParentControl
<1>10. /\ x \in Window /\ Chosen(x, w) /\ x.calls = w.calls /\ x.ctl = k /\ x.sens = w.sens
       /\ x.loading = w.loading /\ x.focus = w.focus
  BY <1>1, <1>5, ControlsChosen
<1>11. Selected(x) /\ CanMinutes(x) /\ x.ctl.apps = w.ctl.apps
  BY <1>1, <1>4, <1>10 DEF Selected, CanMinutes, Chosen
<1>12. Apt(x)
  BY <1>4, <1>10, AptKept DEF Good, Chosen, SameQueue
<1>13. kind # "app-policy"
  BY <1>6
<1>14. Good(v, record, unsure)
  BY <1>2, <1>7, <1>10, <1>11, <1>12, <1>13, ChosenSaved
<1> QED BY <1>9, <1>14 DEF Edit

LEMMA ChooseCustomGood ==
  ASSUME IInv, ~w.stray, Good(w, record, unsure), ChooseCustom
  PROVE  Good(w', record', unsure')
<1>1. /\ w \in Window /\ Selected(w) /\ w.ctl \in Controls /\ ~w.loading /\ w.sens.limit
  BY Panel DEF ChooseCustom
<1>2. PICK k \in Controls : k = [w.ctl EXCEPT !.choice = Custom]
  BY <1>1 DEF Controls
<1>3. k.apps = w.ctl.apps /\ k.enabled = w.ctl.enabled /\ k.choice = Custom
  BY <1>1, <1>2 DEF Controls
<1>4. PICK x : x = [w EXCEPT !.ctl = k]
  OBVIOUS
<1>5. PICK yes \in BOOLEAN : yes = TRUE
  OBVIOUS
<1>6. PICK v : v = [x EXCEPT !.focus = yes]
  OBVIOUS
<1>7. [w EXCEPT !.ctl.choice = Custom, !.focus = TRUE] = v
  BY <1>1, <1>2, <1>4, <1>5, <1>6 DEF Window
<1>8. Edit(v)
  BY <1>7 DEF ChooseCustom
<1>9. /\ x \in Window /\ Chosen(x, w) /\ x.calls = w.calls /\ x.ctl = k /\ x.sens = w.sens
      /\ x.loading = w.loading
  BY <1>1, <1>4, ControlsChosen
<1>10. x \in Window
  BY <1>9
<1>11. /\ Chosen(v, x) /\ v.calls = x.calls /\ v.ctl = x.ctl /\ v.sens = x.sens
       /\ v.loading = x.loading /\ v.focus = yes
  BY <1>6, <1>10, PutFocusAlso
<1>12. Chosen(v, w)
  BY <1>9, <1>11 DEF Chosen, SameQueue, SameTime
<1>13. w.ctl.enabled
  BY <1>1 DEF Good, Apt
<1>14. LimitShown(v, record, unsure)
  <2>1. (Showing(v, unsure) <=> Showing(w, unsure)) /\ Target(v, record) = Target(w, record)
    BY <1>12, ChosenSame
  <2>2. Draft(v)
    BY <1>3, <1>5, <1>9, <1>11, <1>13 DEF Draft
  <2> QED BY <1>3, <1>9, <1>11, <2>1, <2>2 DEF Good, Core, LimitShown
<1>15. \A c \in w.calls : c.op = "revoke" => c.gen # w.gen
  BY <1>1 DEF IInv, Order, Turns, Current
<1>16. Good(v, record, unsure)
  BY <1>3, <1>9, <1>11, <1>12, <1>14, <1>15, LimitGood
<1> QED BY <1>8, <1>16 DEF Edit

LEMMA TypeLimitGood ==
  ASSUME IInv, ~w.stray, Good(w, record, unsure),
         NEW text \in Limits \cup {Invalid}, TypeLimit(text)
  PROVE  Good(w', record', unsure')
<1>1. /\ w \in Window /\ Selected(w) /\ w.sens.custom /\ w.ctl.choice = Custom
  BY Panel DEF TypeLimit
<1>2. PICK x : x = SetEntry(w, text)
  OBVIOUS
<1>3. PICK yes \in BOOLEAN : yes = TRUE
  OBVIOUS
<1>4. PICK v : v = [x EXCEPT !.focus = yes]
  OBVIOUS
<1>5. Edit(v)
  BY <1>2, <1>3, <1>4 DEF TypeLimit
<1>6. x \in Window /\ OnlyLimit(x, w)
  BY <1>1, <1>2, SetEntryDoes
<1>7. SameTime(x, w)
  BY <1>1, <1>2, SetEntryUntimed
<1>8. x.ctl.choice = Custom
  BY <1>1, <1>2, SetEntryIs
<1>9. Chosen(x, w) /\ x.calls = w.calls
  BY <1>6, <1>7 DEF OnlyLimit, Chosen, Frame
<1>10. /\ x.ctl.enabled = w.ctl.enabled /\ x.ctl.apps = w.ctl.apps /\ x.sens = w.sens
       /\ x.loading = w.loading
  BY <1>6 DEF OnlyLimit
<1>11. /\ Chosen(v, x) /\ v.calls = x.calls /\ v.ctl = x.ctl /\ v.sens = x.sens
       /\ v.loading = x.loading /\ v.focus = yes
  <2>1. x \in Window
    BY <1>6
  <2> QED BY <1>4, <2>1, PutFocusAlso
<1>12. Chosen(v, w)
  BY <1>9, <1>11 DEF Chosen, SameQueue, SameTime
<1>13. w.ctl.enabled
  BY <1>1 DEF Good, Apt
<1>14. LimitShown(v, record, unsure)
  <2>1. (Showing(v, unsure) <=> Showing(w, unsure)) /\ Target(v, record) = Target(w, record)
    BY <1>12, ChosenSame
  <2>2. Draft(v)
    BY <1>3, <1>8, <1>10, <1>11, <1>13 DEF Draft
  <2> QED BY <1>10, <1>11, <2>1, <2>2 DEF Good, Core, LimitShown
<1>15. \A c \in w.calls : c.op = "revoke" => c.gen # w.gen
  <2>1. ~w.loading
    BY <1>1 DEF IInv, Order, Right
  <2> QED BY <2>1 DEF IInv, Order, Turns, Current
<1>16. Good(v, record, unsure)
  BY <1>9, <1>10, <1>11, <1>12, <1>14, <1>15, LimitGood
<1> QED BY <1>5, <1>16 DEF Edit

LEMMA ChangeAppsGood ==
  ASSUME IInv, ~w.stray, Good(w, record, unsure), NEW a \in Apps, ChangeApps(a)
  PROVE  Good(w', record', unsure')
<1>1. /\ w \in Window /\ Selected(w) /\ w.prefs # NoRecord /\ w.ctl \in Controls
      /\ ~w.focus /\ w.sens.apps
  BY Panel DEF ChangeApps
<1>2. ~w.loading /\ ~w.saving
  BY <1>1 DEF Good, Apt
<1>3. w.active = NoSave /\ w.pending = <<>> /\ \A c \in w.calls : c.op # "save"
  BY <1>2 DEF IInv, Order, Queue
<1>4. PICK k \in Controls : k = [w.ctl EXCEPT !.apps = a]
  BY <1>1 DEF Controls
<1>5. k.enabled = w.ctl.enabled /\ k.choice = w.ctl.choice /\ k.entry = w.ctl.entry
  BY <1>1, <1>4 DEF Controls
<1>6. PICK x : x = [w EXCEPT !.ctl = k]
  OBVIOUS
<1>7. PICK kind \in Kinds : kind = "app-policy"
  BY DEF Kinds
<1>8. PICK v : v = QueueSave(x, Composed(x, kind))
  OBVIOUS
<1>9. [w EXCEPT !.ctl.apps = a] = x
  BY <1>1, <1>4, <1>6 DEF Window
<1>10. /\ x \in Window /\ Chosen(x, w) /\ x.calls = w.calls /\ x.ctl = k
       /\ x.loading = w.loading /\ x.focus = w.focus
  BY <1>1, <1>6, ControlsChosen
<1>11. /\ x.selected = w.selected /\ x.prefs = w.prefs /\ x.gen = w.gen /\ x.saving = w.saving
       /\ x.active = w.active /\ x.pending = w.pending
  BY <1>10 DEF Chosen, SameQueue
<1>12. Selected(x) /\ CanMinutes(x) /\ x.prefs # NoRecord
  BY <1>1, <1>11 DEF Selected, CanMinutes
<1>13. SaveAppPolicy(x) = v
  BY <1>7, <1>8, <1>12 DEF SaveAppPolicy
<1>14. Edit(v)
  BY <1>2, <1>9, <1>13 DEF ChangeApps
<1>15. Steady(w, record, unsure) /\ LimitShown(w, record, unsure)
       /\ Away(w) /\ Time(w, unsure) /\ Restoring(w)
  BY SteadyCore DEF Good
<1>16. /\ Agrees(x, record, unsure) /\ NoPolicy(x) /\ Latest(x, unsure)
       /\ Known(x, record, unsure) /\ Stored(x, record) /\ Read(x, record)
       /\ Time(x, unsure)
  BY <1>10, <1>15, ChosenKept
<1>17. Away(x)
  BY <1>10, <1>11, <1>15 DEF Away
<1>18. Clear(x, unsure) => /\ x.ctl.enabled = record[x.selected].enabled
                           /\ Minutes(x) = record[x.selected].limit
  <2>1. SUFFICES ASSUME Clear(x, unsure)
                 PROVE  /\ x.ctl.enabled = record[x.selected].enabled
                        /\ Minutes(x) = record[x.selected].limit
    OBVIOUS
  <2>2. Clear(w, unsure)
    BY <1>10, <2>1, ChosenSame
  <2>3. Showing(w, unsure)
    BY <1>1, <1>2, <1>15, <2>2 DEF Showing, Restoring, Selected
  <2>4. Target(w, record) = record[w.selected]
    BY <1>3 DEF Target, Ours, Last
  <2>5. /\ w.ctl.enabled = record[w.selected].enabled
        /\ Draft(w) \/ Minutes(w) = record[w.selected].limit
    BY <1>15, <2>3, <2>4 DEF LimitShown
  <2>6. w.prefs = record[w.selected]
    BY <1>3, <1>15, <2>2 DEF Steady, Known
  <2>7. Minutes(w) = record[w.selected].limit
    BY <1>1, <2>5, <2>6 DEF Draft, Minutes
  <2>8. Minutes(x) = Minutes(w)
    BY <1>5, <1>10, <1>11 DEF Minutes
  <2> QED BY <1>5, <1>10, <1>11, <2>5, <2>7, <2>8
<1>19. (x.saving <=> x.active # NoSave) /\ ~x.saving /\ x.pending = <<>>
  BY <1>2, <1>3, <1>11
<1>20. /\ Core(v, record, unsure) /\ Restoring(v)
       /\ Time(x, unsure) => Time(v, unsure)
       /\ ~x.saving \/ Apt(x) => Apt(v)
  BY <1>7, <1>8, <1>10, <1>12, <1>16, <1>17, <1>18, <1>19, ComposedCore
<1>21. Good(v, record, unsure)
  BY <1>16, <1>19, <1>20 DEF Good
<1> QED BY <1>14, <1>21 DEF Edit

LEMMA BusyGood ==
  ASSUME NEW v \in Window, Selected(v), NEW rec, NEW un, Good(v, rec, un),
         NEW op \in {"running", "revoke"}, op = "revoke" => ~v.focus, NEW u, u = Busy(v, op)
  PROVE  Good(u, rec, un)
<1>1. PICK uid \in Children : uid = v.selected
  BY DEF Selected, Window
<1>2. PICK gen \in Nat : gen = v.gen
  BY DEF Window
<1>3. PICK yes \in BOOLEAN : yes = TRUE
  OBVIOUS
<1>4. PICK no \in BOOLEAN : no = FALSE
  OBVIOUS
<1>5. PICK x : x = [v EXCEPT !.loading = yes]
  OBVIOUS
<1>6. PICK y : y = SetSensitive(x, no)
  OBVIOUS
<1>7. x \in Window /\ View(x, v) /\ x.calls = v.calls /\ SameTime(x, v)
  <2>1. /\ x \in Window /\ Frame(x, v) /\ SameQueue(x, v) /\ SameLooks(x, v)
        /\ x.prefs = v.prefs /\ x.restore = v.restore /\ x.calls = v.calls
    BY <1>5, PutLoading
  <2>2. SameTime(x, v)
    BY <1>5, LoadingUntimed
  <2> QED BY <2>1, <2>2 DEF View, Frame, SameLooks
<1>8. y \in Window /\ View(y, x) /\ y.calls = x.calls /\ SameTime(y, x) /\ Apt(y)
  BY <1>6, <1>7, SetSensitiveView
<1>9. Core(y, rec, un) /\ Restoring(y) /\ Time(y, un)
  <2>1. Core(x, rec, un) /\ Restoring(x) /\ Time(x, un)
    BY <1>7, ViewOnly DEF Good
  <2> QED BY <1>8, <2>1, ViewOnly
<1>10. PICK o \in {"load", "status", "running", "revoke", "save"} : o = op
  OBVIOUS
<1>11. u = Ask(y, o, uid, gen, NoSave)
  BY <1>1, <1>2, <1>3, <1>4, <1>5, <1>6, <1>10 DEF Busy
<1>12. o # "save" /\ NoSave \in Saves \cup {NoSave}
  BY <1>10
<1>13. u \in Window /\ Same(u, y) /\ Asked(u, y, o, uid, gen, NoSave)
  BY <1>8, <1>11, <1>12, AskDoes
<1>14. SameTime(u, y)
  BY <1>8, <1>11, AskUntimed
<1>15. PICK c : u.calls = y.calls \cup {c} /\ c.op = op /\ c.gen = gen /\ ~c.done
  BY <1>10, <1>13 DEF Asked
<1>16. /\ u.selected = y.selected /\ u.gen = y.gen /\ u.focus = y.focus /\ SameQueue(u, y)
       /\ u.prefs = y.prefs /\ u.restore = y.restore /\ u.ctl = y.ctl
       /\ u.sens = y.sens /\ u.loading = y.loading
  BY <1>13 DEF Same, Frame, SameRecord, SameLooks
<1>17. Chosen(u, y)
  BY <1>14, <1>15, <1>16 DEF Chosen
<1>18. Steady(y, rec, un) /\ LimitShown(y, rec, un) /\ Away(y)
  BY <1>9, SteadyCore
<1>19. Steady(u, rec, un) /\ Time(u, un) /\ Restoring(u)
  BY <1>9, <1>16, <1>17, <1>18, ChosenKept
<1>20. LimitShown(u, rec, un)
  <2>1. (Showing(u, un) <=> Showing(y, un)) /\ Target(u, rec) = Target(y, rec)
    BY <1>17, ChosenSame
  <2>2. Minutes(u) = Minutes(y) /\ (Draft(u) <=> Draft(y))
    BY <1>16 DEF Minutes, Draft
  <2> QED BY <1>16, <1>18, <2>1, <2>2 DEF LimitShown
<1>21. Away(u)
  <2>1. op = "revoke" => ~u.focus
    BY <1>7, <1>8, <1>16 DEF View
  <2> QED BY <1>15, <1>16, <1>18, <2>1 DEF Away
<1>22. Apt(u)
  BY <1>8, <1>16, AptKept DEF SameQueue
<1> QED BY <1>19, <1>20, <1>21, <1>22, SteadyCore DEF Good

LEMMA ConfirmRevokeGood ==
  ASSUME IInv, Good(w, record, unsure), ConfirmRevoke
  PROVE  Good(w', record', unsure')
<1>1. w \in Window /\ Selected(w)
  BY Panel DEF ConfirmRevoke
<1>2. PICK op \in {"running", "revoke"} : op = "running"
  OBVIOUS
<1>3. PICK v : v = Busy(w, op)
  OBVIOUS
<1>4. Edit(v)
  BY Zenon, <1>2, <1>3 DEF ConfirmRevoke, Busy
<1>5. Good(v, record, unsure)
  BY <1>1, <1>2, <1>3, BusyGood
<1> QED BY <1>4, <1>5 DEF Edit

LEMMA StrayGood ==
  ASSUME NEW v, Sound(v), NEW b \in BOOLEAN, NEW rec, NEW un, Good(v, rec, un),
         NEW u, u = [v EXCEPT !.stray = b]
  PROVE  u \in Window /\ Good(u, rec, un) /\ u.focus = v.focus /\ u.selected = v.selected
<1>1. Sound(u) /\ AsIs(u, v)
  BY StrayKeeps
<1>2. u.calls = v.calls /\ SameTime(u, v)
  BY DEF Sound, SameTime, Window
<1>3. View(u, v)
  BY <1>1 DEF AsIs, View, SameRecord, SameLooks
<1>4. Apt(v) => Apt(u)
  BY <1>1, AptKept DEF AsIs, SameQueue, SameRecord, SameLooks
<1> QED BY <1>1, <1>2, <1>3, <1>4, ViewGood DEF Sound, AsIs

LEMMA RevokeResponseGood ==
  ASSUME IInv, ~w.stray, Good(w, record, unsure),
         NEW ok \in BOOLEAN, RevokeResponse(ok), ~w'.stray
  PROVE  Good(w', record', unsure')
<1>1. w \in Window /\ Sound(w) /\ w.dialog # NoChild /\ w.dialog \in Children /\ w.gen \in Nat
  BY DEF RevokeResponse, IInv, Sound, Window
<1>2. PICK no \in Children \cup {NoChild} : no = NoChild
  OBVIOUS
<1>3. PICK zero \in Nat : zero = 0
  OBVIOUS
<1>4. PICK b \in BOOLEAN : b = (w.stray \/ (ok /\ w.of # w.gen))
  OBVIOUS
<1>5. PICK x : x = WithDialog(w, no, zero)
  OBVIOUS
<1>6. PICK v : v = [x EXCEPT !.stray = b]
  OBVIOUS
<1>7. PICK op \in {"running", "revoke"} : op = "revoke"
  OBVIOUS
<1>8. v = [w EXCEPT !.dialog = NoChild, !.of = 0,
                    !.stray = @ \/ (ok /\ w.of # w.gen)]
  BY <1>1, <1>2, <1>3, <1>4, <1>5, <1>6 DEF WithDialog, Window
<1>9. /\ Sound(x) /\ x.selected = w.selected /\ x.gen = w.gen /\ x.focus = w.focus
      /\ Good(x, record, unsure)
  <2>1. PICK z : z = w
    OBVIOUS
  <2>2. z \in Window /\ Sound(z) /\ Good(z, record, unsure) /\ x = WithDialog(z, no, zero)
    BY <1>1, <1>5, <2>1
  <2>3. Good(x, record, unsure)
    BY <2>2, DialogGood
  <2>4. x.selected = z.selected /\ x.gen = z.gen /\ x.focus = z.focus
    BY <2>2, PutDialog
  <2>5. Sound(x)
    BY <2>2, DialogKeeps
  <2> QED BY <2>1, <2>3, <2>4, <2>5
<1>10. /\ v \in Window /\ Good(v, record, unsure) /\ v.focus = w.focus
       /\ v.selected = w.selected
  BY <1>6, <1>9, StrayGood
<1>11. v.gen = w.gen
  BY <1>1, <1>8 DEF Window
<1>12. \/ ok /\ w.dialog = w.selected /\ w' = Busy(v, op)
       \/ w' = v
  <2>1. w' = IF ok /\ w.dialog = w.selected
             THEN Ask(SetSensitive([v EXCEPT !.loading = TRUE], FALSE),
                      "revoke", w.selected, w.gen, NoSave)
             ELSE v
    BY <1>8 DEF RevokeResponse, Steps
  <2> QED BY Zenon, <1>7, <1>10, <1>11, <2>1 DEF Busy
<1>13. UNCHANGED <<record, unsure>>
  BY DEF RevokeResponse, Steps
<1>14. CASE w' = v
  BY <1>10, <1>13, <1>14
<1>15. CASE ok /\ w.dialog = w.selected /\ w' = Busy(v, op)
  <2>1. Selected(v)
    BY <1>1, <1>10, <1>15, ChildrenAssumption DEF Selected
  <2>2. ~b
    <3>1. v.stray = b
      BY <1>9, <1>6, StrayKeeps
    <3>2. Sound(v)
      BY <1>9, <1>6, StrayKeeps
    <3>3. w'.stray = v.stray
      BY <1>15, <2>1, <3>2, BusyDoes
    <3> QED BY <3>1, <3>3
  <2>3. Prompted(w)
    BY <1>1, <1>4, <1>15, <2>2 DEF Prompted
  <2>4. ~w.focus
    BY <2>3 DEF IInv, Order, Turns
  <2>5. Good(w', record, unsure)
    BY <1>10, <1>15, <2>1, <2>4, BusyGood
  <2> QED BY <1>13, <2>5
<1> QED BY <1>12, <1>14, <1>15

LEMMA SelectedGood ==
  ASSUME IInv, ~w.stray, Good(w, record, unsure), NEW c \in Children, Select(c)
  PROVE  Good(w', record', unsure')
<1>1. PICK v : v = LoadSelected([w EXCEPT !.selected = c])
  OBVIOUS
<1>2. Good(v, record, unsure)
  BY <1>1, SelectGood DEF IInv
<1>3. Steps(v)
  BY <1>1 DEF Select
<1> QED BY <1>2, <1>3 DEF Steps

-----------------------------------------------------------------------------
\* The theorems about what the parent sees.

\* Order and, on top of it, what relates the window to what the broker has stored.
SeenInv == IInv /\ (~w.stray => Good(w, record, unsure))

LEMMA OpensSeen == Init => SeenInv
<1>1. Init => IInv
  BY OpensInOrder
<1>2. Good(Opened, record, unsure)
  BY OpenedGood
<1> QED BY <1>1, <1>2 DEF Init, SeenInv

LEMMA NextSeen == SeenInv /\ [Next]_vars => SeenInv'
<1> SUFFICES ASSUME SeenInv, [Next]_vars PROVE SeenInv'
  OBVIOUS
<1>1. IInv
  BY DEF SeenInv
<1>2. IInv' /\ ((w.stray => w'.stray) \/ w' = Closed)
  BY <1>1, NextKeeps DEF InStep
<1>3. CASE w' = Closed
  <2>1. Good(Closed, record', unsure')
    BY OpenedGood
  <2> QED BY <1>2, <1>3, <2>1 DEF SeenInv
<1>4. ASSUME ~w.stray, ~w'.stray PROVE Good(w', record', unsure')
  <2>1. Good(w, record, unsure)
    BY <1>4 DEF SeenInv
  <2>2. ASSUME NEW op \in {"load", "status", "running", "revoke", "save"}, Answer(op)
        PROVE  Good(w', record', unsure')
    <3>1. PICK c \in w.calls : Serve(c) \/ Reply(c) \/ Fail(c)
      BY <2>2 DEF Answer
    <3>2. CASE Serve(c)
      BY <1>1, <1>4, <2>1, <3>2, ServeGood
    <3>3. CASE Reply(c)
      BY <1>1, <1>4, <2>1, <3>3, ReplyGood
    <3>4. CASE Fail(c)
      BY <1>1, <1>4, <2>1, <3>4, FailGood
    <3> QED BY <3>1, <3>2, <3>3, <3>4
  <2>3. CASE UsersAnswer
    BY <1>1, <1>4, <2>1, <2>3, UsersAnswerGood
  <2>4. CASE RefreshTimeStatus \/ RetryTimeStatus \/ Close
    BY <1>1, <2>1, <2>4, TimeStepsGood
  <2>5. CASE Debounced
    BY <1>1, <1>4, <2>1, <2>5, DebouncedGood
  <2>6. CASE Parent
    <3>1. ASSUME NEW c \in Children, Select(c) PROVE Good(w', record', unsure')
      BY <1>1, <1>4, <2>1, <3>1, SelectedGood
    <3>2. CASE ToggleEnabled
      BY <1>1, <1>4, <2>1, <3>2, ToggleEnabledGood
    <3>3. CASE ChooseCustom
      BY <1>1, <1>4, <2>1, <3>3, ChooseCustomGood
    <3>4. ASSUME NEW p \in Presets, ChoosePreset(p) PROVE Good(w', record', unsure')
      BY <1>1, <1>4, <2>1, <3>4, ChoosePresetGood
    <3>5. ASSUME NEW text \in Limits \cup {Invalid}, TypeLimit(text)
          PROVE  Good(w', record', unsure')
      BY <1>1, <1>4, <2>1, <3>5, TypeLimitGood
    <3>6. ASSUME NEW b \in BOOLEAN, Commit(b) PROVE Good(w', record', unsure')
      BY <1>1, <1>4, <2>1, <3>6, CommitGood
    <3>7. ASSUME NEW b \in BOOLEAN, RevokeResponse(b) PROVE Good(w', record', unsure')
      BY <1>1, <1>4, <2>1, <3>7, RevokeResponseGood
    <3>8. ASSUME NEW a \in Apps, ChangeApps(a) PROVE Good(w', record', unsure')
      BY <1>1, <1>4, <2>1, <3>8, ChangeAppsGood
    <3>9. CASE ConfirmRevoke
      BY <1>1, <2>1, <3>9, ConfirmRevokeGood
    <3> QED BY <2>6, <3>1, <3>2, <3>3, <3>4, <3>5, <3>6, <3>7, <3>8, <3>9 DEF Parent
  <2>7. CASE UNCHANGED vars
    BY <2>1, <2>7 DEF vars
  <2> QED BY <2>2, <2>3, <2>4, <2>5, <2>6, <2>7 DEF Next
<1> QED BY <1>2, <1>3, <1>4 DEF SeenInv

\* Behind the two theorems below: until answers are mixed up, the controls show the latest
\* save of the selected child or, without one, its record, and a time known to be stale
\* will be read again.
THEOREM SeenInvariant == Spec => []SeenInv
<1>1. Init => SeenInv
  BY OpensSeen
<1>2. SeenInv /\ [Next]_vars => SeenInv'
  BY NextSeen
<1> QED BY <1>1, <1>2, PTL DEF Spec

\* A window at rest has no saves left, so that what is known of it holds.
LEMMA RestsClear ==
  ASSUME SeenInv, AtRest, w.selected \notin unsure
  PROVE  /\ Good(w, record, unsure) /\ Clear(w, unsure) /\ w.restore # w.selected
         /\ w.active = NoSave /\ Last(w) = NoSave
         /\ \A c \in w.calls : c.op # "save"
<1>1. ~w.stray /\ Selected(w) /\ w.prefs # NoRecord /\ ~w.saving /\ w.pending = <<>>
  BY DEF AtRest
<1>2. Good(w, record, unsure) /\ Queue(w)
  BY <1>1 DEF SeenInv, IInv, Order
<1>3. w.active = NoSave /\ \A c \in w.calls : c.op # "save"
  BY <1>1, <1>2 DEF Queue
<1>4. Last(w) = NoSave
  BY <1>1, <1>3 DEF Last
<1>5. ~Old(w)
  <2>1. DOMAIN w.pending = {}
    BY <1>1
  <2>2. \A s \in Saves : s # NoSave
    BY SaveReal
  <2> QED BY <1>3, <2>1, <2>2 DEF Old, Queued
<1>6. Clear(w, unsure)
  BY <1>1, <1>5 DEF Clear
<1>7. w.restore # w.selected
  BY <1>1, <1>2 DEF Good, Restoring, Selected
<1> QED BY <1>2, <1>3, <1>4, <1>6, <1>7

\* Once nothing is loaded, saved or typed, the controls show the stored record of the
\* selected child, after any edits, failed saves, restores and selections of any number of
\* children (_queue_save, _save_failed, _preferences_loaded).
THEOREM ControlsMatch == Spec => []ControlsConfirmed
<1>1. ASSUME SeenInv, AtRest, w.selected \notin unsure,
             ~(w.ctl.choice = Custom /\ w.ctl.entry = Invalid)
      PROVE  [enabled |-> w.ctl.enabled, limit |-> Minutes(w), apps |-> w.ctl.apps]
               = record[w.selected]
  <2>1. /\ Good(w, record, unsure) /\ Clear(w, unsure) /\ w.restore # w.selected
        /\ w.active = NoSave /\ Last(w) = NoSave
    BY <1>1, RestsClear
  <2>2. Showing(w, unsure) /\ LimitShown(w, record, unsure) /\ AppsShown(w, record, unsure)
    BY <2>1 DEF Good, Core, Showing
  <2>3. Target(w, record) = record[w.selected]
    BY <2>1 DEF Target, Ours
  <2>4. ~Draft(w) /\ ~Policy(w)
    BY <1>1, <2>1 DEF Draft, AtRest, Policy
  <2>5. /\ w.ctl.enabled = record[w.selected].enabled
        /\ Minutes(w) = record[w.selected].limit
        /\ w.ctl.apps = record[w.selected].apps
    BY <2>2, <2>3, <2>4 DEF LimitShown, AppsShown
  <2>6. record[w.selected] \in Record
    BY <1>1 DEF SeenInv, IInv, TypeOK, Window, AtRest, Selected
  <2> QED BY <2>5, <2>6 DEF Record
<1>2. SeenInv => ControlsConfirmed
  BY <1>1 DEF ControlsConfirmed
<1> QED BY <1>2, SeenInvariant, PTL

\* When no read, retry, save or revocation is under way, the time shown was read after the
\* last change the window made, however reads were merged or overtaken (_load_time_status).
THEOREM StatusFresh == Spec => []StatusCurrent
<1>1. ASSUME SeenInv, AtRest, w.selected \notin unsure, ~w.retry,
             ~Outstanding(w, "status"), ~Outstanding(w, "revoke")
      PROVE  w.status # "stale"
  <2>1. /\ Good(w, record, unsure) /\ Clear(w, unsure) /\ w.restore # w.selected
        /\ \A c \in w.calls : c.op # "save"
    BY <1>1, RestsClear
  <2>2. ~Due(w, unsure)
    BY <1>1, <2>1 DEF Due, Outstanding
  <2> QED BY <1>1, <2>1, <2>2 DEF Good, Time, ShownTime
<1>2. SeenInv => StatusCurrent
  BY <1>1 DEF StatusCurrent
<1> QED BY <1>2, SeenInvariant, PTL

===============================================================================
