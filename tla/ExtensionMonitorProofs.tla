------------------------ MODULE ExtensionMonitorProofs ------------------------
(***************************************************************************)
(* The safety of the extension monitor, for any delays, any highest        *)
(* backoff level and any number of moves of the child.                     *)
(*                                                                         *)
(* A check acts on what it observed some steps ago, so each property needs *)
(* to say what the steps in between may do: a check owns its watch while   *)
(* it runs (Act), its stages under the lock are the lock (Locked), and     *)
(* what the thread knows of faults and lost Shells lags behind the child's *)
(* session by no more than the signals still queued (Faults, Suspects).    *)
(***************************************************************************)
EXTENDS ExtensionMonitor, TLAPS

Signals == {"changed", "lost", "gained", "replaced", "closed"}

\* The Shell was lost, and the thread has not handled it.
Losses(q) == {"lost", "replaced", "closed"} \cap Range(q) # {}

\* The timer fires no earlier than a check is allowed.
Timed(w) == w.source # Off => w.next <= w.source

\* A watch on its own: nothing is kept of a child that is not watched.
WatchInv(w) ==
  /\ w \in Watches /\ w.next >= 0
  /\ ~w.present => /\ w.source = Off /\ ~w.connecting /\ ~w.connection
                   /\ ~w.failed /\ ~w.recoveryRecent /\ ~w.interrupted
  /\ w.connecting => ~w.connection
  /\ w.connection \/ w.connecting => Timed(w)

\* The attempt of a watch is waited for; signals come over its connection.
Linked ==
  /\ attempt.pending /\ attempt.owner = "watch" => watch.connecting
  /\ inbox # <<>> => watch.connection

\* A check has the watch to itself while it runs.
Act == check.stage \notin {"idle", "ended"} =>
         watch.connection /\ watch.shell /\ watch.source = Off

Acting == {"reconcile", "enable", "report"}

\* The monitor's stages under the lock, and no transaction beside them.
Locked ==
  /\ check.stage \in Acting <=> lock = "monitor"
  /\ check.stage \in Acting => ~check.overtaken

\* A fault that bars recovery is known to the watch, and no callback that is due
\* will erase it.
Faults ==
  /\ history.barred => watch.failed /\ (rearm.due => rearm.newerFault \/ rearm.replaced)
  /\ check.stage = "enable" => ~history.barred
  /\ rearm.due /\ ~rearm.replaced => watch.present

\* A Shell lost soon after a recovery has interrupted it, or will when its signal
\* is handled; a recovery without its Shell was interrupted.
Suspects ==
  /\ check.stage # "ended" =>
       /\ history.suspect = "lost" => watch.interrupted \/ (LossQueued /\ watch.recoveryRecent)
       /\ watch.recoveryRecent => watch.interrupted \/ (watch.connection /\ watch.shell)
  /\ check.stage = "enable" /\ ~check.global => ~watch.interrupted

MonitorInv ==
  /\ TypeOK /\ WatchInv(watch)
  /\ Linked /\ Act /\ Locked /\ Faults /\ Suspects

-----------------------------------------------------------------------------
(* Signals. *)

LEMMA LossesAppended ==
  ASSUME NEW q \in Seq(Signals), NEW m \in Signals
  PROVE  /\ Append(q, m) \in Seq(Signals) /\ Append(q, m) # <<>>
         /\ Losses(Append(q, m)) <=> Losses(q) \/ m \in {"lost", "replaced", "closed"}
<1> DEFINE a == Append(q, m)
<1>1. /\ DOMAIN q = 1..Len(q) /\ DOMAIN a = 1..(Len(q) + 1) /\ Len(q) \in Nat
      /\ a[Len(q) + 1] = m /\ \A i \in 1..Len(q) : a[i] = q[i]
      /\ a \in Seq(Signals) /\ a # <<>>
  OBVIOUS
<1> HIDE DEF a
<1>2. /\ \A i \in DOMAIN a : i \in DOMAIN q \/ i = Len(q) + 1
      /\ Len(q) + 1 \in DOMAIN a /\ \A i \in DOMAIN q : i \in DOMAIN a /\ a[i] = q[i]
  BY <1>1
<1>3. Range(a) = Range(q) \cup {m}
  BY <1>1, <1>2 DEF Range
<1>4. QED
  BY <1>1, <1>3 DEF Losses, a

LEMMA LossesLeft ==
  ASSUME NEW q \in Seq(Signals), q # <<>>
  PROVE  /\ Tail(q) \in Seq(Signals) /\ Head(q) \in Signals
         /\ Losses(Tail(q)) => Losses(q)
         /\ Losses(q) => Losses(Tail(q)) \/ Head(q) \in {"lost", "replaced", "closed"}
<1> DEFINE t == Tail(q)
<1>1. /\ DOMAIN t = 1..(Len(q) - 1) /\ DOMAIN q = 1..Len(q) /\ Len(q) \in Nat /\ Len(q) > 0
      /\ Head(q) = q[1] /\ \A i \in 1..(Len(q) - 1) : t[i] = q[i + 1]
      /\ t \in Seq(Signals) /\ Head(q) \in Signals
  OBVIOUS
<1> HIDE DEF t
<1>2. /\ \A i \in DOMAIN t : i + 1 \in DOMAIN q /\ t[i] = q[i + 1]
      /\ \A i \in DOMAIN q : i = 1 \/ (i - 1 \in DOMAIN t /\ t[i - 1] = q[i])
  BY <1>1
<1>3. Range(t) \subseteq Range(q) /\ Range(q) \subseteq Range(t) \cup {Head(q)}
  BY <1>1, <1>2 DEF Range
<1>4. QED
  BY <1>1, <1>3 DEF Losses, t

LEMMA NoLosses == ~Losses(<<>>)
  BY DEF Losses, Range

-----------------------------------------------------------------------------
(* The watch. *)

\* v is w but for its timer, its level and its reports.
Alike(v, w) ==
  /\ v \in Watches /\ v.next >= 0
  /\ v.present = w.present /\ v.connecting = w.connecting /\ v.connection = w.connection
  /\ v.shell = w.shell /\ v.failed = w.failed
  /\ v.recoveryRecent = w.recoveryRecent /\ v.interrupted = w.interrupted

LEMMA Numbers ==
  /\ Interval \in Nat /\ MaxLevel \in Nat /\ MaxLevel >= 1 /\ Interval >= 1
  /\ Ticks = {i \in Int : -1 <= i /\ i <= Interval + MaxLevel}
  BY MonitorAssumption DEF Ticks, Off, Debounce

LEMMA ScheduleAlike ==
  ASSUME NEW w \in Watches, w.next >= 0
  PROVE  /\ Alike(Schedule(w), w) /\ (Timed(w) => Timed(Schedule(w)))
         /\ Schedule(w).level = w.level
<1>1. w.next \in Ticks /\ w.source \in Ticks
  BY DEF Watches
<1>2. /\ Most(Debounce, w.next) \in Ticks /\ w.next <= Most(Debounce, w.next)
      /\ Most(Debounce, w.next) # Off
  BY <1>1, Numbers DEF Most, Debounce, Off
<1>3. CASE stopped \/ w.source # Off
  BY <1>3 DEF Schedule, Alike, Timed
<1>4. CASE ~(stopped \/ w.source # Off)
  <2> DEFINE m == Most(Debounce, w.next)
             v == [w EXCEPT !.source = m]
  <2>1. Schedule(w) = v
    BY <1>4 DEF Schedule
  <2>2. m \in Ticks /\ w.next <= m
    BY <1>2
  <2> HIDE DEF m
  <2>3. Alike(v, w) /\ v.source = m /\ v.next = w.next /\ v.level = w.level
    BY <2>2 DEF Alike, Watches
  <2>4. QED
    BY <2>1, <2>2, <2>3 DEF Timed
<1>5. QED
  BY <1>3, <1>4

LEMMA RetryAlike ==
  ASSUME NEW w \in Watches, w.next >= 0
  PROVE  Alike(Retry(w), w) /\ (w.source = Off => Timed(Retry(w)))
<1> DEFINE l == Least(MaxLevel, w.level + 1)
           n == Interval + l - 1
           v == [w EXCEPT !.level = l, !.next = n]
<1>1. l \in 0..MaxLevel /\ n \in Ticks /\ n >= 0
  <2>1. w.level \in 0..MaxLevel
    BY DEF Watches
  <2>2. QED
    BY <2>1, Numbers DEF Least
<1>2. Retry(w) = Schedule(v)
  BY DEF Retry
<1> HIDE DEF l, n
<1>3. v \in Watches /\ v.next >= 0 /\ v.source = w.source /\ Alike(v, w)
  BY <1>1 DEF Alike, Watches
<1> HIDE DEF v
<1>4. Alike(Schedule(v), v) /\ (Timed(v) => Timed(Schedule(v)))
  BY <1>3, ScheduleAlike
<1>5. QED
  BY <1>2, <1>3, <1>4 DEF Alike, Timed

LEMMA BusyAlike ==
  ASSUME NEW w \in Watches, w.next >= 0
  PROVE  Alike(Busy(w), w) /\ (w.source = Off => Timed(Busy(w)))
<1> DEFINE v == [w EXCEPT !.next = Interval]
<1>1. Interval \in Ticks /\ Interval >= 0
  BY Numbers
<1>2. Busy(w) = Schedule(v)
  BY DEF Busy
<1>3. v \in Watches /\ v.next >= 0 /\ v.source = w.source /\ Alike(v, w)
  BY <1>1 DEF Alike, Watches
<1> HIDE DEF v
<1>4. Alike(Schedule(v), v) /\ (Timed(v) => Timed(Schedule(v)))
  BY <1>3, ScheduleAlike
<1>5. QED
  BY <1>2, <1>3, <1>4 DEF Alike, Timed

LEMMA DisconnectedWatch ==
  ASSUME NEW w \in Watches, w.next >= 0
  PROVE  LET v == Disconnected(w) IN
         /\ v \in Watches /\ v.next >= 0 /\ v.source = Off
         /\ ~v.connecting /\ ~v.connection /\ ~v.shell
         /\ v.present = w.present /\ v.failed = w.failed
         /\ v.recoveryRecent = w.recoveryRecent /\ v.interrupted = w.interrupted
<1>1. Off \in Ticks
  BY Numbers DEF Off
<1>2. QED
  BY <1>1 DEF Disconnected, Watches

\* What a timer may do to a watch that is present.
LEMMA AlikeInv ==
  ASSUME NEW w, NEW v, WatchInv(w), Alike(v, w), w.present,
         w.connection \/ w.connecting => Timed(v)
  PROVE  WatchInv(v)
  BY DEF WatchInv, Alike

LEMMA NoWatchInv ==
  /\ WatchInv(NoWatch) /\ WatchInv([NoWatch EXCEPT !.present = TRUE])
  /\ NoWatch.next = 0 /\ NoWatch.source = Off
<1>1. Off \in Ticks /\ 0 \in Ticks /\ 0 \in 0..MaxLevel
  BY Numbers DEF Off
<1>2. /\ NoWatch \in Watches /\ ~NoWatch.connecting /\ ~NoWatch.connection
      /\ NoWatch.next = 0 /\ NoWatch.source = Off /\ ~NoWatch.failed
      /\ ~NoWatch.recoveryRecent /\ ~NoWatch.interrupted
  BY <1>1 DEF NoWatch, Watches
<1> DEFINE w == [NoWatch EXCEPT !.present = TRUE]
<1>3. w \in Watches /\ w.next = 0 /\ w.present /\ ~w.connecting /\ ~w.connection
  BY <1>2 DEF Watches
<1> HIDE DEF w
<1>4. WatchInv(NoWatch) /\ WatchInv(w)
  BY <1>2, <1>3 DEF WatchInv
<1>5. QED
  BY <1>2, <1>4 DEF w

-----------------------------------------------------------------------------
(* The attempt: every function of it keeps its owner, and does not reopen it. *)

\* b is the attempt a after a step that may settle it.
Goes(a, b) ==
  /\ b \in Attempts /\ b.owner = a.owner
  /\ b.pending => a.pending
  /\ a.pending /\ ~b.pending => ~Unreaped(a)

LEMMA SettleGoes ==
  ASSUME NEW a \in Attempts
  PROVE  /\ Goes(a, Settle(a))
         /\ Settle(a).hello = a.hello /\ Settle(a).done = a.done
         /\ (Unreaped(a) => Unreaped(Settle(a)))
         /\ a.pending /\ ~Settle(a).pending => a.hello # "pending"
<1> DEFINE k == [a EXCEPT !.killed = TRUE]
           h == [a EXCEPT !.helper = "reaped"]
           o == [a EXCEPT !.helper = "reaped", !.pending = FALSE]
<1>1. /\ k \in Attempts /\ k.owner = a.owner /\ k.pending = a.pending
      /\ k.helper = a.helper /\ k.hello = a.hello /\ k.done = a.done
  BY DEF Attempts
<1>2. /\ h \in Attempts /\ h.owner = a.owner /\ h.pending = a.pending /\ h.hello = a.hello
      /\ h.done = a.done
  BY DEF Attempts
<1>3. o \in Attempts /\ o.owner = a.owner /\ ~o.pending /\ o.hello = a.hello
      /\ o.done = a.done
  BY DEF Attempts
<1>4. Settle(a) = IF Unreaped(a) THEN k ELSE IF a.hello = "pending" THEN h ELSE o
  BY DEF Settle
<1> HIDE DEF k, h, o
<1>5. CASE Unreaped(a)
  BY <1>1, <1>4, <1>5 DEF Goes, Unreaped
<1>6. CASE ~Unreaped(a) /\ a.hello = "pending"
  BY <1>2, <1>4, <1>6 DEF Goes
<1>7. CASE ~Unreaped(a) /\ a.hello # "pending"
  BY <1>3, <1>4, <1>7 DEF Goes
<1>8. QED
  BY <1>5, <1>6, <1>7

LEMMA FinishGoes ==
  ASSUME NEW a \in Attempts, NEW result \in {"connection", "error"}
  PROVE  /\ Goes(a, Finish(a, result)) /\ Finish(a, result).hello = a.hello
         /\ Finish(a, result).done
         /\ Unreaped(a) => Unreaped(Finish(a, result))
         /\ a.pending /\ ~Finish(a, result).pending => a.hello # "pending"
<1> DEFINE c == a.cut \/ (result = "error" /\ a.hello = "pending")
           b == [a EXCEPT !.done = TRUE, !.result = result, !.descriptor = FALSE,
                          !.packet = "none", !.cut = c]
<1>1. c \in BOOLEAN /\ result \in {"none", "connection", "error"}
  BY DEF Attempts
<1>2. Finish(a, result) = IF a.done THEN a ELSE Settle(b)
  BY DEF Finish, Attempts
<1> HIDE DEF c
<1>3. /\ b \in Attempts /\ b.owner = a.owner /\ b.pending = a.pending
      /\ b.helper = a.helper /\ b.hello = a.hello /\ b.done
  BY <1>1 DEF Attempts
<1> HIDE DEF b
<1>4. /\ Goes(b, Settle(b)) /\ Settle(b).hello = b.hello /\ Settle(b).done = b.done
      /\ Unreaped(b) => Unreaped(Settle(b))
      /\ b.pending /\ ~Settle(b).pending => b.hello # "pending"
  BY <1>3, SettleGoes
<1>5. QED
  BY <1>2, <1>3, <1>4 DEF Goes, Unreaped

LEMMA PollGoes ==
  ASSUME NEW a \in Attempts, NEW sound \in BOOLEAN
  PROVE  /\ Goes(a, Poll(a, sound))
         /\ a.pending /\ ~Poll(a, sound).pending => a.hello # "pending"
<1> DEFINE Ok(b) == Goes(a, b) /\ (a.pending /\ ~b.pending => a.hello # "pending")
           r == [a EXCEPT !.descriptor = TRUE, !.packet = "none"]
<1>1. r \in Attempts /\ r.owner = a.owner /\ r.pending = a.pending /\ r.helper = a.helper
      /\ r.hello = a.hello
  BY DEF Attempts
<1>2. Ok(a) /\ Ok(Settle(a)) /\ Ok(Finish(a, "error"))
  BY FinishGoes, SettleGoes DEF Goes
<1>3. Ok([a EXCEPT !.helper = "running"])
  BY DEF Goes, Attempts, Unreaped
<1>4. Goes(r, Finish(r, "error")) /\ (r.pending /\ ~Finish(r, "error").pending => r.hello # "pending")
  BY <1>1, FinishGoes
<1>5. Ok([r EXCEPT !.descriptor = FALSE, !.hello = "pending"])
  BY <1>1 DEF Goes, Attempts, Unreaped
<1>6. Ok(Handover(r, sound))
  <2>1. Ok(r) /\ Ok(Finish(r, "error"))
    BY <1>1, <1>4 DEF Goes, Unreaped
  <2> HIDE DEF Ok, r
  <2>2. QED
    BY <2>1, <1>5 DEF Handover
<1>7. Ok(Receive(a, sound))
  <2> HIDE DEF Ok
  <2>1. QED
    BY <1>2, <1>6 DEF Receive
<1>8. Ok(Poll(a, sound))
  <2> HIDE DEF Ok
  <2>1. QED
    BY <1>2, <1>3, <1>7 DEF Poll
<1>9. QED
  BY <1>8

LEMMA HelloGoes ==
  ASSUME NEW a \in Attempts, NEW success \in BOOLEAN
  PROVE  Goes(a, HelloReturns(a, success))
<1> DEFINE result == IF success /\ ~a.expired THEN "connection" ELSE "error"
           f == Finish(a, result)
           b == [f EXCEPT !.hello = "over"]
<1>1. result \in {"connection", "error"}
  OBVIOUS
<1> HIDE DEF result
<1>2. /\ Goes(a, f) /\ (Unreaped(a) => Unreaped(f))
  BY <1>1, FinishGoes
<1>a. f \in Attempts
  BY <1>2 DEF Goes
<1> HIDE DEF f
<1>3. b \in Attempts /\ b.owner = f.owner /\ b.pending = f.pending /\ b.helper = f.helper
  BY <1>a DEF Attempts
<1> HIDE DEF b
<1>4. Goes(b, Settle(b))
  BY <1>3, SettleGoes
<1>5. HelloReturns(a, success) = Settle(b)
  BY DEF HelloReturns, b, f, result
<1>6. QED
  BY <1>2, <1>3, <1>4, <1>5 DEF Goes, Unreaped

LEMMA CutOffGoes ==
  ASSUME NEW a \in Attempts
  PROVE  CutOff(a) \in Attempts /\ CutOff(a).owner = a.owner /\ CutOff(a).pending = a.pending
<1> DEFINE b == [a EXCEPT !.cut = TRUE]
<1>1. b \in Attempts /\ b.owner = a.owner /\ b.pending = a.pending
  BY DEF Attempts
<1>2. CutOff(a) = a \/ CutOff(a) = b
  BY DEF CutOff
<1> HIDE DEF b
<1>3. QED
  BY <1>1, <1>2

LEMMA NoAttemptTyped ==
  /\ NoAttempt \in Attempts /\ ~NoAttempt.pending
  /\ NewAttempt \in Attempts /\ NewAttempt.pending /\ NewAttempt.owner = "watch"
  BY DEF NoAttempt, NewAttempt, Attempts

\* A watch that is removed leaves no attempt it is waited for.
LEMMA AbandonedGoes ==
  ASSUME NEW a \in Attempts
  PROVE  /\ Abandoned(a) \in Attempts /\ Abandoned(a).owner # "watch"
         /\ a.pending /\ ~Abandoned(a).pending /\ a.owner = "watch"
              => ~Unreaped(a) /\ a.hello # "pending"
<1> DEFINE b == [a EXCEPT !.owner = "orphan"]
<1>1. b \in Attempts /\ b.owner = "orphan" /\ b.pending = a.pending
      /\ b.helper = a.helper /\ b.hello = a.hello
  BY DEF Attempts
<1> HIDE DEF b
<1>2. Goes(b, Cancel(b)) /\ (b.pending /\ ~Cancel(b).pending => b.hello # "pending")
  BY <1>1, FinishGoes DEF Cancel
<1>3. NoAttempt.owner # "watch"
  BY DEF NoAttempt
<1>4. CASE a.owner = "watch"
  <2>1. Abandoned(a) = Settled(Cancel(b))
    BY <1>4 DEF Abandoned, b
  <2>2. QED
    BY <1>1, <1>2, <1>3, <2>1, NoAttemptTyped DEF Settled, Goes, Unreaped
<1>5. CASE a.owner # "watch"
  BY <1>5 DEF Abandoned
<1>6. QED
  BY <1>4, <1>5

-----------------------------------------------------------------------------
(* The signals a step queues. *)

LEMMA InboxTyped == TypeOK => inbox \in Seq(Signals)
  BY DEF TypeOK, Signals

LEMMA ChangeSignalled ==
  ASSUME MonitorInv
  PROVE  /\ SignalChange \in Seq(Signals) /\ (SignalChange # <<>> => watch.connection)
         /\ Losses(SignalChange) <=> Losses(inbox)
<1>1. inbox \in Seq(Signals) /\ (inbox # <<>> => watch.connection)
  BY InboxTyped DEF MonitorInv, Linked
<1>2. CASE ~Hears \/ {"changed", "gained", "replaced"} \cap Range(inbox) # {}
  BY <1>1, <1>2 DEF SignalChange
<1>3. CASE ~(~Hears \/ {"changed", "gained", "replaced"} \cap Range(inbox) # {})
  <2>1. SignalChange = Append(inbox, "changed") /\ watch.connection
    BY <1>3 DEF SignalChange, Hears
  <2>2. QED
    BY <1>1, <2>1, LossesAppended DEF Signals
<1>4. QED
  BY <1>2, <1>3

\* A connection that does not hear has its loss queued.
LEMMA Signalled ==
  ASSUME MonitorInv, NEW m \in Signals, inbox' = IF Hears THEN Append(inbox, m) ELSE inbox
  PROVE  /\ inbox' \in Seq(Signals) /\ (inbox' # <<>> => watch.connection)
         /\ Losses(inbox) => Losses(inbox')
         /\ m \in {"lost", "replaced", "closed"} /\ watch.connection => Losses(inbox')
<1>1. inbox \in Seq(Signals) /\ (inbox # <<>> => watch.connection)
  BY InboxTyped DEF MonitorInv, Linked
<1>2. CASE Hears
  BY <1>1, <1>2, LossesAppended DEF Hears
<1>3. CASE ~Hears
  <2>1. watch.connection => Losses(inbox)
    BY <1>3 DEF Hears, Losses
  <2>2. QED
    BY <1>1, <1>3, <2>1
<1>4. QED
  BY <1>2, <1>3

LEMMA SessionTyped ==
  ASSUME NEW s \in Sessions
  PROVE  /\ \A h \in Shells : [s EXCEPT !.shell = h] \in Sessions
         /\ s.shell \in Shells
         /\ [ext |-> "active", global |-> TRUE] \in Shells
         /\ \A ext \in ExtensionStates : (ext = "active" => s.shell.global)
               => [s EXCEPT !.shell.ext = ext] \in Sessions
         /\ [s EXCEPT !.shell.global = TRUE] \in Sessions
<1>1. s.shell \in Shells /\ \A h \in Shells : [s EXCEPT !.shell = h] \in Sessions
  BY DEF Sessions
<1>2. \A ext \in ExtensionStates : (ext = "active" => s.shell.global)
        => [s.shell EXCEPT !.ext = ext] \in Shells
  BY <1>1 DEF Shells
<1>3. [s.shell EXCEPT !.global = TRUE] \in Shells /\ [ext |-> "active", global |-> TRUE] \in Shells
  BY <1>1 DEF Shells, ExtensionStates
<1>4. /\ \A ext : [s EXCEPT !.shell.ext = ext] = [s EXCEPT !.shell = [s.shell EXCEPT !.ext = ext]]
      /\ [s EXCEPT !.shell.global = TRUE] = [s EXCEPT !.shell = [s.shell EXCEPT !.global = TRUE]]
  BY DEF Sessions
<1>5. QED
  BY <1>1, <1>2, <1>3, <1>4

-----------------------------------------------------------------------------
(* The child's session, and the rest of the broker. *)

\* A step beside the monitor: it queues signals, and may lose a Shell.
LEMMA BesideInv ==
  ASSUME MonitorInv, TypeOK', watch' = watch,
         check'.stage = check.stage, check'.global = check.global,
         lock' = lock, rearm' = rearm, check.stage \in Acting => ~check'.overtaken,
         attempt'.pending /\ attempt'.owner = "watch" => attempt.pending /\ attempt.owner = "watch",
         inbox' # <<>> => watch.connection, Losses(inbox) => Losses(inbox'),
         history'.barred = history.barred,
         history'.suspect = "lost" =>
           history.suspect = "lost" \/ (watch.recoveryRecent /\ (watch.connection => Losses(inbox')))
  PROVE  MonitorInv'
<1>1. LossQueued <=> Losses(inbox)
  BY DEF LossQueued, Losses
<1>2. LossQueued' <=> Losses(inbox')
  BY DEF LossQueued, Losses
<1>3. WatchInv(watch')
  BY DEF MonitorInv
<1>4. Linked' /\ Act' /\ Locked' /\ Faults'
  BY DEF MonitorInv, Linked, Act, Locked, Faults
<1>5. Suspects'
  BY <1>1, <1>2 DEF MonitorInv, Suspects
<1>6. QED
  BY <1>3, <1>4, <1>5 DEF MonitorInv

LEMMA ShellLostKeeps ==
  ASSUME MonitorInv, ShellLost
  PROVE  /\ history' \in [barred : BOOLEAN, suspect : {"no", "lost", "lifted"}]
         /\ history'.barred = history.barred
         /\ history'.suspect = "lost" => history.suspect = "lost" \/ watch.recoveryRecent
  BY DEF MonitorInv, TypeOK, ShellLost

LEMMA EnvironmentInv == MonitorInv /\ Environment => MonitorInv'
<1> SUFFICES ASSUME MonitorInv, Environment PROVE MonitorInv'
  OBVIOUS
<1> USE DEF Move, Acting
<1>0. /\ TypeOK /\ session \in Sessions /\ attempt \in Attempts /\ moves \in 0..MaxMoves
      /\ inbox \in Seq(Signals) /\ (inbox # <<>> => watch.connection)
      /\ check.stage \in Acting => ~check.overtaken
      /\ MaxMoves \in Nat
  BY InboxTyped, MonitorAssumption DEF MonitorInv, TypeOK, Linked, Locked
<1>a. moves < MaxMoves => moves + 1 \in 0..MaxMoves
  BY <1>0
<1>1. ASSUME NEW shell \in Shells, ChildChanges(shell) PROVE MonitorInv'
  <2>1. session' \in Sessions /\ moves' \in 0..MaxMoves
    BY <1>0, <1>1, <1>a, SessionTyped DEF ChildChanges
  <2>2. TypeOK'
    BY <1>0, <1>1, <2>1, ChangeSignalled DEF ChildChanges, TypeOK, Signals
  <2>3. QED
    BY <1>0, <1>1, <2>2, ChangeSignalled, BesideInv DEF ChildChanges
<1>2. ASSUME NEW shell \in NewShells, ShellStarts(shell) PROVE MonitorInv'
  <2>1. session' \in Sessions
    <3>1. shell \in Shells
      BY DEF NewShells
    <3>2. QED
      BY <1>0, <1>2, <3>1 DEF ShellStarts, Sessions
  <2>2. /\ inbox' \in Seq(Signals) /\ (inbox' # <<>> => watch.connection)
        /\ Losses(inbox) => Losses(inbox')
    BY <1>2, Signalled DEF ShellStarts, Signals
  <2>3. TypeOK'
    <3>1. refresh' \in BOOLEAN
      BY <1>0, <1>2 DEF ShellStarts, TypeOK, Sessions
    <3>2. QED
      BY <1>0, <1>2, <2>1, <2>2, <3>1 DEF ShellStarts, TypeOK, Signals
  <2>4. QED
    BY <1>0, <1>2, <2>2, <2>3, BesideInv DEF ShellStarts
<1>3. ASSUME NEW shell \in NewShells, ShellReplaced(shell) PROVE MonitorInv'
  <2>1. session' \in Sessions /\ moves' \in 0..MaxMoves
    BY <1>0, <1>3, <1>a, SessionTyped DEF ShellReplaced, NewShells
  <2>2. /\ inbox' \in Seq(Signals) /\ (inbox' # <<>> => watch.connection)
        /\ Losses(inbox) => Losses(inbox')
        /\ watch.connection => Losses(inbox')
    BY <1>3, Signalled DEF ShellReplaced, Signal, Signals
  <2>3. TypeOK'
    BY <1>0, <1>3, <2>1, <2>2, ShellLostKeeps DEF ShellReplaced, TypeOK, Signals
  <2>4. /\ history'.barred = history.barred
        /\ history'.suspect = "lost" =>
             history.suspect = "lost" \/ (watch.recoveryRecent /\ (watch.connection => Losses(inbox')))
    BY <1>3, <2>2, ShellLostKeeps DEF ShellReplaced
  <2>5. UNCHANGED <<lock, watch, attempt, check, rearm>>
    BY <1>3 DEF ShellReplaced
  <2>6. QED
    BY <1>0, <2>2, <2>3, <2>4, <2>5, BesideInv
<1>4. CASE ShellSettles
  <2>1. session' \in Sessions
    BY <1>0, <1>4, SessionTyped DEF ShellSettles, ExtensionStates
  <2>2. TypeOK'
    BY <1>0, <1>4, <2>1, ChangeSignalled DEF ShellSettles, TypeOK, Signals
  <2>3. QED
    BY <1>0, <1>4, <2>2, ChangeSignalled, BesideInv DEF ShellSettles
<1>5. CASE ShellDies
  <2>1. session' \in Sessions /\ moves' \in 0..MaxMoves
    BY <1>0, <1>5, <1>a DEF ShellDies, Sessions
  <2>2. /\ inbox' \in Seq(Signals) /\ (inbox' # <<>> => watch.connection)
        /\ Losses(inbox) => Losses(inbox')
        /\ watch.connection => Losses(inbox')
    BY <1>5, Signalled DEF ShellDies, Signal, Signals
  <2>3. TypeOK'
    BY <1>0, <1>5, <2>1, <2>2, ShellLostKeeps DEF ShellDies, TypeOK, Signals
  <2>4. /\ history'.barred = history.barred
        /\ history'.suspect = "lost" =>
             history.suspect = "lost" \/ (watch.recoveryRecent /\ (watch.connection => Losses(inbox')))
    BY <1>5, <2>2, ShellLostKeeps DEF ShellDies
  <2>5. UNCHANGED <<lock, watch, attempt, check, rearm>>
    BY <1>5 DEF ShellDies
  <2>6. QED
    BY <1>0, <2>2, <2>3, <2>4, <2>5, BesideInv
<1>6. CASE BusDies
  <2>1. session' \in Sessions /\ moves' \in 0..MaxMoves
    BY <1>0, <1>6, <1>a DEF BusDies, Sessions
  <2>2. /\ inbox' \in Seq(Signals) /\ (inbox' # <<>> => watch.connection)
        /\ Losses(inbox) => Losses(inbox')
        /\ watch.connection => Losses(inbox')
    BY <1>6, Signalled DEF BusDies, Signal, Signals
  <2>3. /\ history' \in [barred : BOOLEAN, suspect : {"no", "lost", "lifted"}]
        /\ history'.barred = history.barred
        /\ history'.suspect = "lost" => history.suspect = "lost" \/ watch.recoveryRecent
    BY <1>0, <1>6, ShellLostKeeps DEF BusDies, TypeOK
  <2>4. /\ attempt' \in Attempts /\ attempt'.owner = attempt.owner
        /\ attempt'.pending = attempt.pending
    BY <1>0, <1>6, CutOffGoes DEF BusDies
  <2>5. TypeOK'
    BY <1>0, <1>6, <2>1, <2>2, <2>3, <2>4 DEF BusDies, TypeOK, Signals
  <2>6. history'.suspect = "lost" =>
          history.suspect = "lost" \/ (watch.recoveryRecent /\ (watch.connection => Losses(inbox')))
    BY <2>2, <2>3
  <2>7. UNCHANGED <<lock, watch, check, rearm>>
    BY <1>6 DEF BusDies
  <2>8. QED
    BY <1>0, <2>2, <2>3, <2>4, <2>5, <2>6, <2>7, BesideInv
<1>7. CASE AnswersChange
  <2>1. session' \in Sessions /\ moves' \in 0..MaxMoves
    BY <1>0, <1>7, <1>a DEF AnswersChange, Sessions
  <2>2. TypeOK'
    BY <1>0, <1>7, <2>1 DEF AnswersChange, TypeOK
  <2>3. QED
    BY <1>0, <1>7, <2>2, BesideInv DEF AnswersChange
<1>8. CASE EligibilityChanges
  <2>1. policy' \in [eligible : BOOLEAN, on : BOOLEAN] /\ moves' \in 0..MaxMoves
    BY <1>0, <1>8, <1>a DEF EligibilityChanges, TypeOK
  <2>2. TypeOK'
    BY <1>0, <1>8, <2>1 DEF EligibilityChanges, TypeOK
  <2>3. QED
    BY <1>0, <1>8, <2>2, BesideInv DEF EligibilityChanges
<1>9. CASE MinutePasses
  <2> DEFINE r == [watch EXCEPT !.recoveryRecent = FALSE]
             f == [watch EXCEPT !.faultRecent = FALSE]
  <2>1. WatchInv(watch) /\ watch \in Watches /\ watch.next >= 0
    BY DEF MonitorInv, WatchInv
  <2>2. \A w \in {r, f} :
          /\ w \in Watches /\ w.next = watch.next /\ w.source = watch.source
          /\ w.present = watch.present /\ w.connecting = watch.connecting
          /\ w.connection = watch.connection /\ w.shell = watch.shell /\ w.failed = watch.failed
          /\ w.interrupted = watch.interrupted /\ (w.recoveryRecent => watch.recoveryRecent)
    BY <2>1 DEF Watches
  <2>3. watch' \in {r, f}
    BY <1>9 DEF MinutePasses
  <2> HIDE DEF r, f
  <2>4. WatchInv(watch')
    BY <2>1, <2>2, <2>3 DEF WatchInv, Timed
  <2>5. TypeOK' /\ Linked' /\ Act' /\ Locked' /\ Faults'
    BY <1>9, <2>2, <2>3 DEF MinutePasses, MonitorInv, TypeOK, Linked, Act, Locked, Faults
  <2>6. ~LossQueued
    BY <1>9, NoLosses DEF MinutePasses, LossQueued, Losses
  <2>7. Suspects'
    BY <1>9, <2>2, <2>3, <2>6 DEF MinutePasses, MonitorInv, Suspects
  <2>8. QED
    BY <2>4, <2>5, <2>7 DEF MonitorInv
<1>10. QED
  BY <1>1, <1>2, <1>3, <1>4, <1>5, <1>6, <1>7, <1>8, <1>9 DEF Environment

\* Other transactions hold the lock; an explicit recovery lifts the bar, and its
\* callback finds the watch as it was.
LEMMA BrokerInv ==
  MonitorInv /\ (Begin \/ End \/ ParentSaves \/ ExplicitRecovery \/ Stop) => MonitorInv'
<1> SUFFICES ASSUME MonitorInv, Begin \/ End \/ ParentSaves \/ ExplicitRecovery \/ Stop
             PROVE  MonitorInv'
  OBVIOUS
<1> USE DEF Acting
<1>0. /\ TypeOK /\ session \in Sessions /\ moves \in 0..MaxMoves /\ MaxMoves \in Nat
      /\ inbox \in Seq(Signals) /\ (inbox # <<>> => watch.connection)
      /\ check \in Checks /\ WatchInv(watch) /\ watch.present \in BOOLEAN
  BY InboxTyped, MonitorAssumption DEF MonitorInv, TypeOK, Linked, WatchInv, Watches
<1>1. CASE Begin
  <2>1. /\ check' \in Checks /\ check'.stage = check.stage /\ check'.global = check.global
        /\ check.stage \notin Acting
    <3> DEFINE o == check.stage \in {"info", "switch", "acquire"}
    <3>1. o \in BOOLEAN /\ check' = [check EXCEPT !.overtaken = o]
      BY <1>1 DEF Begin
    <3> HIDE DEF o
    <3>2. check' \in Checks /\ check'.stage = check.stage /\ check'.global = check.global
      BY <1>0, <3>1 DEF Checks
    <3>3. check.stage \notin Acting
      BY <1>1 DEF Begin, MonitorInv, Locked
    <3>4. QED
      BY <3>2, <3>3
  <2>2. TypeOK' /\ WatchInv(watch')
    BY <1>0, <1>1, <2>1 DEF Begin, TypeOK
  <2>3. Linked' /\ Act' /\ Locked' /\ Faults' /\ Suspects'
    BY <1>1, <2>1 DEF Begin, MonitorInv, Linked, Act, Locked, Faults, Suspects, LossQueued
  <2>4. QED
    BY <2>2, <2>3 DEF MonitorInv
<1>2. CASE End
  <2>1. TypeOK' /\ WatchInv(watch')
    BY <1>0, <1>2 DEF End, TypeOK
  <2>2. Linked' /\ Act' /\ Locked' /\ Faults' /\ Suspects'
    BY <1>2 DEF End, MonitorInv, Linked, Act, Locked, Faults, Suspects, LossQueued
  <2>3. QED
    BY <2>1, <2>2 DEF MonitorInv
<1>3. CASE ParentSaves
  <2>1. session' \in Sessions
    BY <1>0, <1>3, SessionTyped DEF ParentSaves, Recovered, ExtensionStates
  <2>2. policy' \in [eligible : BOOLEAN, on : BOOLEAN] /\ moves' \in 0..MaxMoves
    <3> DEFINE p == ~policy.on
    <3>1. /\ policy' = [policy EXCEPT !.on = p] /\ p \in BOOLEAN
          /\ moves' = moves + 1 /\ moves < MaxMoves
      BY <1>0, <1>3 DEF ParentSaves, TypeOK
    <3>2. policy \in [eligible : BOOLEAN, on : BOOLEAN]
      BY <1>0 DEF TypeOK
    <3> HIDE DEF p
    <3>3. QED
      BY <1>0, <3>1, <3>2
  <2>3. TypeOK'
    BY <1>0, <1>3, <2>1, <2>2, ChangeSignalled DEF ParentSaves, TypeOK, Signals
  <2>4. check.stage \in Acting => ~check.overtaken
    BY DEF MonitorInv, Locked
  <2>5. QED
    BY <1>0, <1>3, <2>3, <2>4, ChangeSignalled, BesideInv DEF ParentSaves
<1>4. CASE ExplicitRecovery
  <2>1. session' \in Sessions
    BY <1>0, <1>4, SessionTyped DEF ExplicitRecovery, Recovered
  <2>2. /\ inbox' \in Seq(Signals) /\ (inbox' # <<>> => watch.connection)
        /\ Losses(inbox') <=> Losses(inbox)
    BY <1>4, ChangeSignalled DEF ExplicitRecovery
  <2>3. /\ rearm' \in Rearms
        /\ rearm'.due => watch.present \/ rearm'.replaced
    BY <1>0, <1>4 DEF ExplicitRecovery, NoRearm, Rearms, TypeOK
  <2>4. /\ history' \in [barred : BOOLEAN, suspect : {"no", "lost", "lifted"}]
        /\ ~history'.barred /\ (history'.suspect = "lost" => history.suspect = "lost")
    BY <1>0, <1>4 DEF ExplicitRecovery, TypeOK
  <2>5. TypeOK' /\ WatchInv(watch')
    BY <1>0, <1>4, <2>1, <2>2, <2>3, <2>4 DEF ExplicitRecovery, TypeOK, Signals
  <2>6. Linked' /\ Act' /\ Locked' /\ Faults'
    BY <1>4, <2>2, <2>3, <2>4 DEF ExplicitRecovery, MonitorInv, Linked, Act, Locked, Faults
  <2>7. LossQueued' <=> LossQueued
    BY <2>2 DEF LossQueued, Losses
  <2>8. Suspects'
    BY <1>4, <2>4, <2>7 DEF ExplicitRecovery, MonitorInv, Suspects
  <2>9. QED
    BY <2>5, <2>6, <2>8 DEF MonitorInv
<1>5. CASE Stop
  <2>1. TypeOK' /\ WatchInv(watch')
    BY <1>0, <1>5 DEF Stop, TypeOK
  <2>2. Linked' /\ Act' /\ Locked' /\ Faults' /\ Suspects'
    BY <1>5 DEF Stop, MonitorInv, Linked, Act, Locked, Faults, Suspects, LossQueued
  <2>3. QED
    BY <2>1, <2>2 DEF MonitorInv
<1>6. QED
  BY <1>1, <1>2, <1>3, <1>4, <1>5

-----------------------------------------------------------------------------
(* The attempts of a watch. *)

LEMMA WatchTyped ==
  ASSUME MonitorInv
  PROVE  /\ watch \in Watches /\ watch.next >= 0 /\ attempt \in Attempts /\ check \in Checks
         /\ session \in Sessions /\ rearm \in Rearms /\ session.up \in BOOLEAN
         /\ history \in [barred : BOOLEAN, suspect : {"no", "lost", "lifted"}]
         /\ WatchInv(watch) /\ inbox \in Seq(Signals)
  BY InboxTyped DEF MonitorInv, WatchInv, TypeOK, Sessions

\* The callback finds its watch waiting, or somebody else's as it was.
LEMMA ConnectedWatch ==
  ASSUME MonitorInv, attempt.pending, NEW a, a.owner = attempt.owner, NEW w \in Connected(a)
  PROVE  /\ WatchInv(w) /\ w.present = watch.present /\ w.failed = watch.failed
         /\ w.recoveryRecent = watch.recoveryRecent /\ w.interrupted = watch.interrupted
         /\ watch.connection => w = watch
<1>1. CASE a.owner # "watch"
  BY <1>1, WatchTyped DEF Connected
<1>2. CASE a.owner = "watch"
  <2> DEFINE x == [watch EXCEPT !.connecting = FALSE]
             y == [x EXCEPT !.connection = TRUE, !.shell = session.up, !.level = 0]
             d == Disconnected(x)
  <2>1. watch.connecting /\ ~watch.connection /\ watch.present /\ Timed(watch)
    BY <1>2 DEF MonitorInv, Linked, WatchInv
  <2>2. /\ x \in Watches /\ x.next = watch.next /\ x.source = watch.source
        /\ x.present /\ ~x.connecting /\ ~x.connection /\ x.failed = watch.failed
        /\ x.recoveryRecent = watch.recoveryRecent /\ x.interrupted = watch.interrupted
    BY <2>1, WatchTyped DEF Watches
  <2>3. w \in {Retry(x), Schedule(y), Retry(d)}
    BY <1>2 DEF Connected
  <2> HIDE DEF x
  <2>4. /\ y \in Watches /\ y.next = watch.next /\ y.source = watch.source
        /\ y.present /\ ~y.connecting /\ y.failed = watch.failed
        /\ y.recoveryRecent = watch.recoveryRecent /\ y.interrupted = watch.interrupted
    <3>1. 0 \in 0..MaxLevel
      BY Numbers
    <3>2. QED
      BY <2>2, <3>1, WatchTyped DEF Watches
  <2>5. /\ d \in Watches /\ d.next >= 0 /\ d.source = Off /\ ~d.connecting /\ ~d.connection
        /\ d.present /\ d.failed = watch.failed
        /\ d.recoveryRecent = watch.recoveryRecent /\ d.interrupted = watch.interrupted
    BY <2>2, WatchTyped, DisconnectedWatch
  <2> HIDE DEF y, d
  <2>6. Alike(Retry(x), x) /\ Alike(Schedule(y), y) /\ Alike(Retry(d), d)
        /\ (Timed(y) => Timed(Schedule(y)))
    BY <2>2, <2>4, <2>5, WatchTyped, RetryAlike, ScheduleAlike
  <2>7. Timed(Schedule(y))
    BY <2>1, <2>4, <2>6 DEF Timed
  <2>8. WatchInv(Retry(x)) /\ WatchInv(Schedule(y)) /\ WatchInv(Retry(d))
    BY <2>2, <2>4, <2>5, <2>6, <2>7 DEF WatchInv, Alike
  <2>9. QED
    BY <2>1, <2>2, <2>3, <2>4, <2>5, <2>6, <2>8 DEF Alike
<1>3. QED
  BY <1>1, <1>2

LEMMA HelperStepsTyped ==
  ASSUME NEW b \in Attempts, NEW a \in HelperSteps(b)
  PROVE  a \in Attempts /\ a.owner = b.owner /\ a.pending = b.pending
<1> DEFINE Next1(h, p) == [b EXCEPT !.helper = h, !.packet = p]
<1>1. \A h \in {"sent", "success", "failure"}, p \in {"none", "socket", "error"} :
        /\ Next1(h, p) \in Attempts /\ Next1(h, p).owner = b.owner
        /\ Next1(h, p).pending = b.pending
  BY DEF Attempts
<1>2. \E h \in {"sent", "success", "failure"}, p \in {"none", "socket", "error"} : a = Next1(h, p)
  <2>1. \A h : [b EXCEPT !.helper = h] = Next1(h, b.packet)
    BY DEF Attempts
  <2>2. b.packet \in {"none", "socket", "error"}
    BY DEF Attempts
  <2>3. CASE b.helper = "running"
    BY <2>1, <2>2, <2>3 DEF HelperSteps
  <2>4. CASE b.helper = "sent"
    BY <2>1, <2>2, <2>4 DEF HelperSteps
  <2>5. QED
    BY <2>3, <2>4 DEF HelperSteps
<1>3. QED
  BY <1>1, <1>2

LEMMA AttemptBecomesInv ==
  ASSUME MonitorInv, BetweenChecks, attempt.pending, NEW a, Goes(attempt, a), AttemptBecomes(a),
         UNCHANGED <<session, policy, lock, inbox, check, refresh, rearm, stopped, moves, history>>
  PROVE  MonitorInv'
<1>1. a.owner = attempt.owner /\ a \in Attempts
  BY DEF Goes
<1>2. /\ attempt' \in Attempts
      /\ attempt'.pending => watch' = watch /\ attempt'.owner = attempt.owner
  BY <1>1, NoAttemptTyped DEF AttemptBecomes, Settled
<1>3. watch' = watch \/ watch' \in Connected(a)
  BY DEF AttemptBecomes
<1>4. /\ WatchInv(watch') /\ watch'.present = watch.present /\ watch'.failed = watch.failed
      /\ watch'.recoveryRecent = watch.recoveryRecent /\ watch'.interrupted = watch.interrupted
      /\ watch.connection => watch' = watch
  BY <1>1, <1>3, WatchTyped, ConnectedWatch
<1>5. TypeOK'
  BY <1>2, <1>4 DEF MonitorInv, TypeOK, WatchInv
<1>6. Linked' /\ Act' /\ Locked' /\ Faults'
  BY <1>2, <1>4 DEF MonitorInv, Linked, Act, Locked, Faults, BetweenChecks
<1>7. Suspects'
  BY <1>4 DEF MonitorInv, Suspects, LossQueued
<1>8. QED
  BY <1>4, <1>5, <1>6, <1>7 DEF MonitorInv

LEMMA AttemptInv == MonitorInv /\ AttemptRuns => MonitorInv'
<1> SUFFICES ASSUME MonitorInv, AttemptRuns PROVE MonitorInv'
  OBVIOUS
<1>0. attempt \in Attempts
  BY WatchTyped
<1>1. CASE AttemptPolls
  <2>1. PICK sound \in BusLooks : AttemptBecomes(Poll(attempt, sound))
    BY <1>1 DEF AttemptPolls
  <2>2. sound \in BOOLEAN
    BY DEF BusLooks
  <2>3. Goes(attempt, Poll(attempt, sound))
    BY <1>0, <2>2, PollGoes
  <2>4. QED
    BY <1>1, <2>1, <2>3, AttemptBecomesInv DEF AttemptPolls
<1>2. CASE HelloEnds
  <2>1. PICK success \in BOOLEAN : AttemptBecomes(HelloReturns(attempt, success))
    BY <1>2 DEF HelloEnds
  <2>2. Goes(attempt, HelloReturns(attempt, success))
    BY <1>0, HelloGoes
  <2>3. QED
    BY <1>2, <2>1, <2>2, AttemptBecomesInv DEF HelloEnds
<1>3. ASSUME attempt' \in Attempts, attempt'.owner = attempt.owner,
             attempt'.pending = attempt.pending,
             UNCHANGED <<session, policy, lock, watch, inbox, check, refresh, rearm, stopped,
                         moves, history>>
      PROVE  MonitorInv'
  <2>1. TypeOK' /\ WatchInv(watch')
    BY <1>3 DEF MonitorInv, TypeOK
  <2>2. Linked' /\ Act' /\ Locked' /\ Faults' /\ Suspects'
    BY <1>3 DEF MonitorInv, Linked, Act, Locked, Faults, Suspects, LossQueued
  <2>3. QED
    BY <2>1, <2>2 DEF MonitorInv
<1>4. CASE HelperRuns
  <2>1. \A a \in HelperSteps(attempt) :
          a \in Attempts /\ a.owner = attempt.owner /\ a.pending = attempt.pending
    BY <1>0, HelperStepsTyped
  <2>2. attempt' \in HelperSteps(attempt)
    BY <1>4 DEF HelperRuns
  <2>3. QED
    BY <1>3, <1>4, <2>1, <2>2 DEF HelperRuns
<1>5. CASE DeadlinePasses
  <2>1. attempt' \in Attempts /\ attempt'.owner = attempt.owner /\ attempt'.pending = attempt.pending
    BY <1>0, <1>5 DEF DeadlinePasses, Attempts
  <2>2. QED
    BY <1>3, <1>5, <2>1 DEF DeadlinePasses
<1>6. QED
  BY <1>1, <1>2, <1>4, <1>5 DEF AttemptRuns

-----------------------------------------------------------------------------
(* The monitor's thread between two checks. *)

\* A step of the thread that leaves faults, losses and the lock alone.
LEMMA ThreadInv ==
  ASSUME MonitorInv, TypeOK', WatchInv(watch'), lock' = lock, inbox' = inbox, history' = history,
         check'.stage = check.stage \/ (check.stage = "idle" /\ check'.stage = "info"
                                        /\ watch'.connection /\ watch'.shell /\ watch'.source = Off),
         check'.stage = check.stage => check' = check,
         check.stage = "idle",
         watch'.present = watch.present, watch'.connection = watch.connection,
         watch'.shell = watch.shell, watch'.failed = watch.failed,
         watch'.recoveryRecent = watch.recoveryRecent, watch'.interrupted = watch.interrupted,
         attempt'.pending /\ attempt'.owner = "watch" => watch'.connecting,
         rearm' = rearm
  PROVE  MonitorInv'
<1>1. Linked' /\ Act' /\ Locked' /\ Faults'
  BY DEF MonitorInv, Linked, Act, Locked, Faults, Acting
<1>2. Suspects'
  BY DEF MonitorInv, Suspects, LossQueued
<1>3. QED
  BY <1>1, <1>2 DEF MonitorInv


\* Nothing is kept of a child that is not watched.
LEMMA Unwatched ==
  ASSUME MonitorInv, ~watch.present
  PROVE  /\ ~history.barred /\ ~(attempt.pending /\ attempt.owner = "watch") /\ inbox = <<>>
         /\ ~(rearm.due /\ ~rearm.replaced)
         /\ check.stage # "ended" => history.suspect # "lost"
  BY DEF MonitorInv, WatchInv, Linked, Faults, Suspects

LEMMA RefreshInv == MonitorInv /\ Refresh => MonitorInv'
<1> SUFFICES ASSUME MonitorInv, Refresh PROVE MonitorInv'
  OBVIOUS
<1>0. /\ check.stage = "idle" /\ refresh' = FALSE
      /\ UNCHANGED <<session, policy, lock, check, stopped, moves>>
  BY DEF Refresh, Idle
<1>1. CASE policy.eligible /\ watch.present
  <2> DEFINE x == IF watch.connection THEN watch ELSE [watch EXCEPT !.level = 0]
  <2>1. UNCHANGED <<inbox, attempt, rearm, history>> /\ watch' = Schedule(x)
    BY <1>1 DEF Refresh
  <2>2. /\ x \in Watches /\ x.next >= 0 /\ Alike(x, watch)
        /\ x.next = watch.next /\ x.source = watch.source
    <3>1. 0 \in 0..MaxLevel
      BY Numbers
    <3>2. QED
      BY <3>1, WatchTyped DEF Alike, Watches
  <2> HIDE DEF x
  <2>3. Alike(Schedule(x), x) /\ (Timed(x) => Timed(Schedule(x)))
    BY <2>2, ScheduleAlike
  <2>4. Alike(watch', watch) /\ (Timed(watch) => Timed(watch'))
    BY <2>1, <2>2, <2>3 DEF Alike, Timed
  <2>5. WatchInv(watch')
    <3>1. WatchInv(watch) /\ (watch.connection \/ watch.connecting => Timed(watch))
      BY WatchTyped DEF WatchInv
    <3>2. QED
      BY <1>1, <2>4, <3>1, AlikeInv
  <2>6. TypeOK'
    BY <1>0, <2>1, <2>5 DEF MonitorInv, TypeOK, WatchInv
  <2>7. attempt.pending /\ attempt.owner = "watch" => watch.connecting
    BY DEF MonitorInv, Linked
  <2>8. QED
    BY <1>0, <2>1, <2>4, <2>5, <2>6, <2>7, ThreadInv DEF Alike
<1>2. CASE policy.eligible /\ ~watch.present
  <2> DEFINE y == [NoWatch EXCEPT !.present = TRUE]
             x == [y EXCEPT !.level = 0]
  <2>1. /\ y \in Watches /\ y.next = 0 /\ y.present /\ y.source = Off
        /\ ~y.connecting /\ ~y.connection /\ ~y.recoveryRecent
    <3>1. WatchInv(NoWatch) /\ WatchInv(y) /\ NoWatch.next = 0 /\ NoWatch.source = Off
      BY NoWatchInv
    <3>2. NoWatch \in Watches /\ y \in Watches
      BY <3>1 DEF WatchInv
    <3>3. QED
      BY <3>1, <3>2 DEF NoWatch, Watches
  <2>2. UNCHANGED <<inbox, attempt, rearm, history>> /\ watch' = Schedule(x)
    <3>1. watch' = Schedule(IF y.connection THEN y ELSE [y EXCEPT !.level = 0])
      BY <1>2 DEF Refresh
    <3>2. QED
      BY <1>2, <2>1, <3>1 DEF Refresh
  <2> HIDE DEF y
  <2>3. /\ x \in Watches /\ x.next >= 0 /\ x.present
        /\ ~x.connecting /\ ~x.connection /\ ~x.recoveryRecent
    <3>1. 0 \in 0..MaxLevel
      BY Numbers
    <3>2. QED
      BY <2>1, <3>1 DEF Watches
  <2> HIDE DEF x
  <2>4. Alike(watch', x)
    BY <2>2, <2>3, ScheduleAlike
  <2>5. /\ WatchInv(watch') /\ watch'.present /\ ~watch'.recoveryRecent
    BY <2>3, <2>4 DEF Alike, WatchInv
  <2>6. TypeOK'
    BY <1>0, <2>2, <2>5 DEF MonitorInv, TypeOK, WatchInv
  <2>7. Linked' /\ Act' /\ Locked' /\ Faults' /\ Suspects'
    BY <1>0, <1>2, <2>2, <2>5, Unwatched
       DEF MonitorInv, Linked, Act, Locked, Faults, Suspects, Acting
  <2>8. QED
    BY <2>5, <2>6, <2>7 DEF MonitorInv
<1>3. CASE ~policy.eligible
  <2>1. /\ watch' = NoWatch /\ inbox' = <<>> /\ attempt' = Abandoned(attempt)
        /\ rearm' = [rearm EXCEPT !.replaced = TRUE]
        /\ history' = [barred |-> FALSE, suspect |-> "no"]
    BY <1>3 DEF Refresh, ReplacedRearm
  <2>2. /\ attempt' \in Attempts /\ attempt'.owner # "watch"
        /\ rearm' \in Rearms /\ rearm'.replaced
        /\ WatchInv(watch') /\ ~watch'.recoveryRecent
    BY <2>1, WatchTyped, AbandonedGoes, NoWatchInv DEF Rearms, NoWatch
  <2>3. TypeOK'
    <3>1. /\ inbox' \in Seq({"changed", "lost", "gained", "replaced", "closed"})
          /\ history' \in [barred : BOOLEAN, suspect : {"no", "lost", "lifted"}]
          /\ watch' \in Watches /\ TypeOK
      BY <2>1, <2>2 DEF MonitorInv, WatchInv
    <3>2. QED
      BY <1>0, <2>2, <3>1 DEF TypeOK
  <2>4. Linked' /\ Act' /\ Locked' /\ Faults' /\ Suspects'
    BY <1>0, <2>1, <2>2 DEF MonitorInv, Linked, Act, Locked, Faults, Suspects, Acting
  <2>5. QED
    BY <2>2, <2>3, <2>4 DEF MonitorInv
<1>4. QED
  BY <1>1, <1>2, <1>3

\* The callback of an explicit recovery finds no fault it may not erase.
LEMMA RearmInv == MonitorInv /\ Rearm => MonitorInv'
<1> SUFFICES ASSUME MonitorInv, Rearm PROVE MonitorInv'
  OBVIOUS
<1>0. /\ check.stage = "idle" /\ rearm.due /\ rearm' = NoRearm /\ watch' = Rearmed(watch)
      /\ UNCHANGED <<session, policy, lock, inbox, attempt, check, refresh, stopped, moves, history>>
  BY DEF Rearm, Idle
<1>1. rearm' \in Rearms /\ ~rearm'.due
  BY <1>0 DEF NoRearm, Rearms
<1>2. /\ WatchInv(watch') /\ watch'.present = watch.present
      /\ watch'.connecting = watch.connecting /\ watch'.connection = watch.connection
      /\ watch'.shell = watch.shell /\ watch'.recoveryRecent = watch.recoveryRecent
      /\ watch'.interrupted = watch.interrupted
      /\ history.barred => watch'.failed
  <2>1. CASE rearm.newerFault \/ rearm.replaced
    <3>1. watch' = watch
      BY <1>0, <2>1 DEF Rearmed
    <3>2. history.barred => watch.failed
      BY DEF MonitorInv, Faults
    <3>3. QED
      BY <3>1, <3>2, WatchTyped
  <2>2. CASE ~(rearm.newerFault \/ rearm.replaced)
    <3> DEFINE x == [watch EXCEPT !.failed = FALSE]
    <3>1. ~history.barred /\ watch.present
      BY <1>0, <2>2 DEF MonitorInv, Faults
    <3>2. watch' = Schedule(x)
      BY <1>0, <2>2 DEF Rearmed
    <3>3. /\ x \in Watches /\ x.next = watch.next /\ x.source = watch.source
          /\ x.present = watch.present /\ x.connecting = watch.connecting
          /\ x.connection = watch.connection /\ x.shell = watch.shell /\ ~x.failed
          /\ x.recoveryRecent = watch.recoveryRecent /\ x.interrupted = watch.interrupted
      BY WatchTyped DEF Watches
    <3> HIDE DEF x
    <3>4. Alike(watch', x) /\ (Timed(x) => Timed(watch'))
      BY <3>2, <3>3, WatchTyped, ScheduleAlike
    <3>5. WatchInv(x) /\ (x.connection \/ x.connecting => Timed(x))
      BY <3>1, <3>3, WatchTyped DEF WatchInv, Timed
    <3>6. WatchInv(watch')
      BY <3>1, <3>3, <3>4, <3>5, AlikeInv
    <3>7. QED
      BY <3>1, <3>3, <3>4, <3>6 DEF Alike
  <2>3. QED
    BY <2>1, <2>2
<1>3. TypeOK'
  BY <1>0, <1>1, <1>2 DEF MonitorInv, TypeOK, WatchInv
<1>4. Linked' /\ Act' /\ Locked' /\ Faults'
  BY <1>0, <1>1, <1>2 DEF MonitorInv, Linked, Act, Locked, Faults, Acting
<1>5. Suspects'
  BY <1>0, <1>2 DEF MonitorInv, Suspects, LossQueued
<1>6. QED
  BY <1>2, <1>3, <1>4, <1>5 DEF MonitorInv

LEMMA LostWatch ==
  ASSUME NEW w \in Watches, w.next >= 0
  PROVE  /\ Lost(w) \in Watches /\ Lost(w).next = w.next /\ Lost(w).source = w.source
         /\ Lost(w).present = w.present /\ Lost(w).connecting = w.connecting
         /\ Lost(w).connection = w.connection /\ Lost(w).failed = w.failed
         /\ Lost(w).recoveryRecent = w.recoveryRecent
         /\ Lost(w).interrupted <=> w.interrupted \/ w.recoveryRecent
<1> DEFINE i == w.interrupted \/ w.recoveryRecent
<1>1. i \in BOOLEAN /\ Lost(w) = [w EXCEPT !.interrupted = i]
  BY DEF Lost, Watches
<1> HIDE DEF i
<1>2. /\ Lost(w) \in Watches /\ Lost(w).interrupted = i /\ Lost(w).next = w.next
      /\ Lost(w).source = w.source
      /\ Lost(w).present = w.present /\ Lost(w).connecting = w.connecting
      /\ Lost(w).connection = w.connection /\ Lost(w).failed = w.failed
      /\ Lost(w).recoveryRecent = w.recoveryRecent
  BY <1>1 DEF Watches
<1>3. QED
  BY <1>2 DEF i

\* A signal is handled: a loss it tells of interrupts a recent recovery.
LEMMA DispatchGoes ==
  ASSUME MonitorInv, Dispatch, WatchInv(watch'), inbox' \in Seq(Signals),
         inbox' # <<>> => watch'.connection,
         watch'.present = watch.present, watch'.failed = watch.failed,
         watch'.recoveryRecent = watch.recoveryRecent,
         watch.interrupted => watch'.interrupted,
         watch.recoveryRecent =>
           watch'.interrupted \/ (watch'.connection /\ watch'.shell
                                  /\ (Losses(inbox) => Losses(inbox')))
  PROVE  MonitorInv'
<1>1. /\ check.stage = "idle"
      /\ UNCHANGED <<session, policy, lock, attempt, check, refresh, rearm, stopped, moves, history>>
  BY DEF Dispatch, Idle
<1>2. watch.connection /\ ~watch.connecting
  BY DEF Dispatch, MonitorInv, Linked, WatchInv
<1>3. TypeOK'
  BY <1>1 DEF MonitorInv, TypeOK, WatchInv, Signals
<1>4. Linked' /\ Act' /\ Locked' /\ Faults'
  BY <1>1, <1>2 DEF MonitorInv, Linked, Act, Locked, Faults, Acting
<1>5. (LossQueued <=> Losses(inbox)) /\ (LossQueued' <=> Losses(inbox'))
  BY DEF LossQueued, Losses
<1>6. Suspects'
  BY <1>1, <1>5 DEF MonitorInv, Suspects
<1>7. QED
  BY <1>3, <1>4, <1>6 DEF MonitorInv

LEMMA DispatchInv == MonitorInv /\ Dispatch => MonitorInv'
<1> SUFFICES ASSUME MonitorInv, Dispatch PROVE MonitorInv'
  OBVIOUS
<1> DEFINE m == Head(inbox)
           lost == IF m \in {"lost", "replaced"} THEN Lost(watch) ELSE watch
<1>0. 0 \in 0..MaxLevel
  BY Numbers
<1>1. /\ inbox \in Seq(Signals) /\ inbox # <<>> /\ watch.connection /\ ~watch.connecting
      /\ watch.present /\ Timed(watch) /\ watch \in Watches /\ watch.next >= 0
  BY WatchTyped DEF Dispatch, MonitorInv, Linked, WatchInv
<1>2. /\ Tail(inbox) \in Seq(Signals) /\ m \in Signals
      /\ Losses(inbox) => Losses(Tail(inbox)) \/ m \in {"lost", "replaced", "closed"}
  BY <1>1, LossesLeft
<1>3. /\ lost \in Watches /\ lost.next = watch.next /\ lost.source = watch.source
      /\ lost.present = watch.present /\ lost.connecting = watch.connecting
      /\ lost.connection = watch.connection /\ lost.failed = watch.failed
      /\ lost.recoveryRecent = watch.recoveryRecent
      /\ watch.interrupted => lost.interrupted
      /\ m \in {"lost", "replaced"} /\ watch.recoveryRecent => lost.interrupted
  BY <1>1, LostWatch
<1>4. CASE m = "changed"
  <2>1. watch' = Schedule(watch) /\ inbox' = Tail(inbox)
    BY <1>4 DEF Dispatch
  <2>2. Alike(watch', watch) /\ Timed(watch')
    BY <1>1, <2>1, ScheduleAlike
  <2>3. WatchInv(watch')
    BY <1>1, <2>2, WatchTyped, AlikeInv
  <2>4. watch.recoveryRecent => watch.interrupted \/ watch.shell
    BY DEF Dispatch, Idle, MonitorInv, Suspects
  <2>5. QED
    BY <1>1, <1>2, <1>4, <2>1, <2>2, <2>3, <2>4, DispatchGoes DEF Alike
<1>5. CASE m = "lost"
  <2> DEFINE x == [lost EXCEPT !.shell = FALSE, !.level = 0]
  <2>1. watch' = x /\ inbox' = Tail(inbox)
    BY <1>5 DEF Dispatch
  <2> HIDE DEF lost
  <2>2. /\ x \in Watches /\ x.next = lost.next /\ x.source = lost.source
        /\ x.present = lost.present /\ x.connecting = lost.connecting
        /\ x.connection = lost.connection /\ x.failed = lost.failed
        /\ x.recoveryRecent = lost.recoveryRecent /\ x.interrupted = lost.interrupted
    BY <1>0, <1>3 DEF Watches
  <2> HIDE DEF x, m
  <2>3. WatchInv(watch')
    BY <1>1, <1>3, <2>1, <2>2 DEF WatchInv, Timed
  <2>4. QED
    BY <1>1, <1>2, <1>3, <1>5, <2>1, <2>2, <2>3, DispatchGoes
<1>6. CASE m \in {"gained", "replaced"}
  <2> DEFINE x == [lost EXCEPT !.shell = TRUE, !.level = 0]
  <2>1. watch' = Schedule(x) /\ inbox' = Tail(inbox)
    BY <1>6 DEF Dispatch
  <2> HIDE DEF lost
  <2>2. /\ x \in Watches /\ x.next = lost.next /\ x.source = lost.source /\ x.shell
        /\ x.present = lost.present /\ x.connecting = lost.connecting
        /\ x.connection = lost.connection /\ x.failed = lost.failed
        /\ x.recoveryRecent = lost.recoveryRecent /\ x.interrupted = lost.interrupted
    BY <1>0, <1>3 DEF Watches
  <2> HIDE DEF x, m
  <2>3. Alike(watch', x) /\ (Timed(x) => Timed(watch'))
    BY <1>1, <1>3, <2>1, <2>2, ScheduleAlike
  <2>4. WatchInv(watch')
    BY <1>1, <1>3, <2>2, <2>3 DEF WatchInv, Timed, Alike
  <2>5. QED
    BY <1>1, <1>2, <1>3, <1>6, <2>1, <2>2, <2>3, <2>4, DispatchGoes DEF Alike
<1>7. CASE m = "closed"
  <2> DEFINE x == IF watch.shell THEN Lost(watch) ELSE watch
             d == Disconnected(x)
  <2>1. watch' = Retry(d) /\ inbox' = <<>>
    BY <1>7 DEF Dispatch
  <2>2. watch.recoveryRecent => watch.interrupted \/ watch.shell
    BY DEF Dispatch, Idle, MonitorInv, Suspects
  <2>3. /\ x \in Watches /\ x.next = watch.next /\ x.present = watch.present
        /\ x.failed = watch.failed /\ x.recoveryRecent = watch.recoveryRecent
        /\ watch.interrupted \/ watch.recoveryRecent => x.interrupted
    BY <1>1, <2>2, LostWatch
  <2> HIDE DEF x
  <2>4. /\ d \in Watches /\ d.next >= 0 /\ d.source = Off /\ ~d.connecting /\ ~d.connection
        /\ d.present = x.present /\ d.failed = x.failed
        /\ d.recoveryRecent = x.recoveryRecent /\ d.interrupted = x.interrupted
    BY <1>1, <2>3, DisconnectedWatch
  <2> HIDE DEF d
  <2>5. Alike(watch', d)
    BY <2>1, <2>4, RetryAlike
  <2>6. WatchInv(watch')
    BY <1>1, <2>3, <2>4, <2>5 DEF WatchInv, Alike
  <2>7. inbox' \in Seq(Signals)
    BY <2>1
  <2>8. QED
    BY <2>1, <2>3, <2>4, <2>5, <2>6, <2>7, DispatchGoes DEF Alike
<1>8. QED
  BY <1>2, <1>4, <1>5, <1>6, <1>7 DEF Signals

\* The timer fired, and is off for the step.
LEMMA Fired ==
  ASSUME MonitorInv, watch.source = 0, NEW w, w = [watch EXCEPT !.source = Off]
  PROVE  /\ w \in Watches /\ w.next >= 0 /\ w.source = Off /\ w.present /\ watch.present
         /\ w.next = watch.next /\ w.level = watch.level
         /\ w.connecting = watch.connecting /\ w.connection = watch.connection
         /\ w.shell = watch.shell /\ w.failed = watch.failed
         /\ w.recoveryRecent = watch.recoveryRecent /\ w.interrupted = watch.interrupted
         /\ WatchInv(w) /\ Alike(Retry(w), w) /\ WatchInv(Retry(w))
         /\ Alike(Busy(w), w) /\ WatchInv(Busy(w))
<1>1. Off \in Ticks /\ Off # 0
  BY Numbers DEF Off
<1>2. watch.present /\ watch \in Watches /\ watch.next >= 0
  BY <1>1, WatchTyped DEF WatchInv
<1>3. /\ w \in Watches /\ w.next = watch.next /\ w.level = watch.level
      /\ w.connecting = watch.connecting /\ w.connection = watch.connection
      /\ w.shell = watch.shell /\ w.failed = watch.failed /\ w.present = watch.present
      /\ w.recoveryRecent = watch.recoveryRecent /\ w.interrupted = watch.interrupted
      /\ w.source = Off
  BY <1>1, <1>2 DEF Watches
<1>4. WatchInv(w)
  BY <1>2, <1>3, WatchTyped DEF WatchInv, Timed
<1>5. Alike(Retry(w), w) /\ Timed(Retry(w)) /\ Alike(Busy(w), w) /\ Timed(Busy(w))
  BY <1>2, <1>3, RetryAlike, BusyAlike
<1>6. WatchInv(Retry(w)) /\ WatchInv(Busy(w))
  BY <1>2, <1>3, <1>4, <1>5, AlikeInv
<1>7. QED
  BY <1>2, <1>3, <1>4, <1>5, <1>6

LEMMA ConnectInv == MonitorInv /\ Connect => MonitorInv'
<1> SUFFICES ASSUME MonitorInv, Connect PROVE MonitorInv'
  OBVIOUS
<1> DEFINE w == [watch EXCEPT !.source = Off]
           n == [w EXCEPT !.connecting = TRUE]
<1>0. /\ check.stage = "idle" /\ watch.source = 0 /\ ~watch.connection
      /\ UNCHANGED <<session, policy, lock, inbox, check, refresh, rearm, stopped, moves, history>>
  BY DEF Connect, Idle
<1>1. \/ watch' \in {w, Retry(w)} /\ attempt' = attempt
      \/ watch' = n /\ attempt' = NewAttempt
  BY DEF Connect
<1>2. /\ w \in Watches /\ w.next >= 0 /\ w.source = Off /\ w.present /\ watch.present
      /\ w.connecting = watch.connecting /\ w.connection = watch.connection
      /\ w.shell = watch.shell /\ w.failed = watch.failed
      /\ w.recoveryRecent = watch.recoveryRecent /\ w.interrupted = watch.interrupted
      /\ WatchInv(w) /\ Alike(Retry(w), w) /\ WatchInv(Retry(w))
  BY <1>0, Fired
<1> HIDE DEF w
<1>3. /\ n \in Watches /\ n.next = w.next /\ n.source = Off /\ n.connecting
      /\ n.present = w.present /\ n.connection = w.connection
      /\ n.shell = w.shell /\ n.failed = w.failed
      /\ n.recoveryRecent = w.recoveryRecent /\ n.interrupted = w.interrupted
  BY <1>2 DEF Watches
<1> HIDE DEF n
<1>4. WatchInv(n)
  BY <1>0, <1>2, <1>3 DEF WatchInv, Timed
<1>5. attempt' \in Attempts
  BY <1>1, NoAttemptTyped, WatchTyped
<1>6. WatchInv(watch')
  BY <1>1, <1>2, <1>4
<1>7. TypeOK'
  BY <1>0, <1>5, <1>6 DEF MonitorInv, TypeOK, WatchInv
<1>8. attempt'.pending /\ attempt'.owner = "watch" => watch'.connecting
  BY <1>1, <1>2, <1>3 DEF MonitorInv, Linked, Alike
<1>9. QED
  BY <1>0, <1>1, <1>2, <1>3, <1>6, <1>7, <1>8, ThreadInv DEF Alike

LEMMA BeginCheckInv == MonitorInv /\ BeginCheck => MonitorInv'
<1> SUFFICES ASSUME MonitorInv, BeginCheck PROVE MonitorInv'
  OBVIOUS
<1> DEFINE w == [watch EXCEPT !.source = Off]
           n == [w EXCEPT !.next = Interval]
<1>0. /\ check.stage = "idle" /\ watch.source = 0 /\ watch.connection
      /\ UNCHANGED <<session, policy, lock, inbox, attempt, refresh, rearm, stopped, moves, history>>
  BY DEF BeginCheck, Idle
<1>1. \/ watch' \in {w, Busy(w)} /\ check' = check
      \/ watch' = n /\ check' = [check EXCEPT !.stage = "info"] /\ watch.shell
  BY DEF BeginCheck, Becomes
<1>2. /\ w \in Watches /\ w.next >= 0 /\ w.source = Off /\ w.present /\ watch.present
      /\ w.connecting = watch.connecting /\ w.connection = watch.connection
      /\ w.shell = watch.shell /\ w.failed = watch.failed
      /\ w.recoveryRecent = watch.recoveryRecent /\ w.interrupted = watch.interrupted
      /\ WatchInv(w) /\ Alike(Busy(w), w) /\ WatchInv(Busy(w))
  BY <1>0, Fired
<1> HIDE DEF w
<1>3. /\ n \in Watches /\ n.next >= 0 /\ n.source = Off /\ n.connecting = w.connecting
      /\ n.present = w.present /\ n.connection = w.connection
      /\ n.shell = w.shell /\ n.failed = w.failed
      /\ n.recoveryRecent = w.recoveryRecent /\ n.interrupted = w.interrupted
  <2>1. Interval \in Ticks /\ Interval >= 0
    BY Numbers
  <2>2. QED
    BY <1>2, <2>1 DEF Watches
<1> HIDE DEF n
<1>4. WatchInv(n)
  BY <1>2, <1>3 DEF WatchInv, Timed
<1>5. WatchInv(watch')
  BY <1>1, <1>2, <1>4
<1>6. check' \in Checks
  BY <1>1, WatchTyped DEF Checks, CheckStages
<1>7. TypeOK'
  BY <1>0, <1>5, <1>6 DEF MonitorInv, TypeOK, WatchInv
<1>8. attempt'.pending /\ attempt'.owner = "watch" => watch'.connecting
  BY <1>0, <1>1, <1>2, <1>3 DEF MonitorInv, Linked, Alike
<1>9. /\ check'.stage = check.stage \/ check'.stage = "info"
      /\ check'.stage = check.stage => check' = check
  BY <1>0, <1>1, WatchTyped DEF Checks
<1>10. CASE check' = check
  <2>1. Alike(watch', w)
    BY <1>0, <1>1, <1>2, <1>10, WatchTyped DEF Alike, Checks
  <2>2. QED
    BY <1>0, <1>2, <1>5, <1>7, <1>8, <1>10, <2>1, ThreadInv DEF Alike
<1>11. CASE check' # check
  <2>1. /\ watch' = n /\ watch.shell /\ check'.stage = "info"
    BY <1>1, <1>11, WatchTyped DEF Checks
  <2>2. QED
    BY <1>0, <1>2, <1>3, <1>5, <1>7, <1>8, <1>11, <2>1, ThreadInv
<1>12. QED
  BY <1>10, <1>11

LEMMA ShutDownInv == MonitorInv /\ ShutDown => MonitorInv'
<1> SUFFICES ASSUME MonitorInv, ShutDown PROVE MonitorInv'
  OBVIOUS
<1>0. /\ check.stage = "idle" /\ watch' = Disconnected(watch) /\ attempt' = Abandoned(attempt)
      /\ inbox' = <<>> /\ refresh' = FALSE /\ rearm' = NoRearm
      /\ check' = [check EXCEPT !.stage = "ended"]
      /\ UNCHANGED <<session, policy, lock, stopped, moves, history>>
  BY DEF ShutDown, Becomes
<1>1. /\ attempt' \in Attempts /\ attempt'.owner # "watch"
  BY <1>0, WatchTyped, AbandonedGoes
<1>2. /\ watch' \in Watches /\ watch'.next >= 0 /\ watch'.source = Off
      /\ ~watch'.connecting /\ ~watch'.connection /\ ~watch'.shell
      /\ watch'.present = watch.present /\ watch'.failed = watch.failed
      /\ watch'.recoveryRecent = watch.recoveryRecent /\ watch'.interrupted = watch.interrupted
  BY <1>0, WatchTyped, DisconnectedWatch
<1>3. /\ check' \in Checks /\ check'.stage = "ended" /\ rearm' \in Rearms /\ ~rearm'.due
  BY <1>0, WatchTyped DEF Checks, CheckStages, NoRearm, Rearms
<1>4. WatchInv(watch')
  BY <1>2, WatchTyped DEF WatchInv
<1>5. TypeOK'
  <2>1. inbox' \in Seq({"changed", "lost", "gained", "replaced", "closed"})
    BY <1>0
  <2>2. QED
    BY <1>0, <1>1, <1>2, <1>3, <2>1 DEF MonitorInv, TypeOK
<1>6. Linked' /\ Act' /\ Locked' /\ Faults' /\ Suspects'
  BY <1>0, <1>1, <1>2, <1>3 DEF MonitorInv, Linked, Act, Locked, Faults, Suspects, Acting
<1>7. QED
  BY <1>4, <1>5, <1>6 DEF MonitorInv

\* The timer and the next check's time run down together.
LEMMA TickInv == MonitorInv /\ Tick => MonitorInv'
<1> SUFFICES ASSUME MonitorInv, Tick PROVE MonitorInv'
  OBVIOUS
<1> DEFINE s == IF watch.source > 0 THEN watch.source - 1 ELSE watch.source
           n == IF watch.next > 0 THEN watch.next - 1 ELSE watch.next
<1>0. /\ check.stage = "idle" /\ watch' = [watch EXCEPT !.source = s, !.next = n]
      /\ UNCHANGED <<session, policy, lock, inbox, attempt, check, refresh, rearm, stopped,
                     moves, history>>
  BY DEF Tick, Idle
<1>1. watch.source \in Ticks /\ watch.next \in Ticks /\ watch.next >= 0 /\ watch \in Watches
  BY WatchTyped DEF Watches
<1>2. /\ s \in Ticks /\ n \in Ticks /\ n >= 0
      /\ watch.source = Off <=> s = Off
      /\ watch.source # Off /\ watch.next <= watch.source => n <= s
  BY <1>1, Numbers DEF Off
<1> HIDE DEF s, n
<1>3. /\ watch' \in Watches /\ watch'.source = s /\ watch'.next = n
      /\ watch'.present = watch.present /\ watch'.connecting = watch.connecting
      /\ watch'.connection = watch.connection /\ watch'.shell = watch.shell
      /\ watch'.failed = watch.failed /\ watch'.recoveryRecent = watch.recoveryRecent
      /\ watch'.interrupted = watch.interrupted
  BY <1>0, <1>1, <1>2 DEF Watches
<1>4. WatchInv(watch')
  BY <1>2, <1>3, WatchTyped DEF WatchInv, Timed
<1>5. TypeOK'
  BY <1>0, <1>3 DEF MonitorInv, TypeOK
<1>6. attempt'.pending /\ attempt'.owner = "watch" => watch'.connecting
  BY <1>0, <1>3 DEF MonitorInv, Linked
<1>7. QED
  BY <1>0, <1>3, <1>4, <1>5, <1>6, ThreadInv

-----------------------------------------------------------------------------
(* A check. *)

\* A watch whose check runs.
Checked(w) ==
  /\ w \in Watches /\ w.next >= 0 /\ w.present /\ w.connection /\ w.shell
  /\ ~w.connecting /\ Timed(w)

\* What a check's invariants say of a watch.
SameHolds(v, w) ==
  v.failed = w.failed /\ v.recoveryRecent = w.recoveryRecent /\ v.interrupted = w.interrupted

Runs(stage) == stage \notin {"idle", "ended"}

LEMMA CheckedWatch ==
  ASSUME MonitorInv, Runs(check.stage)
  PROVE  Checked(watch) /\ watch.source = Off /\ watch.level \in 0..MaxLevel
<1>1. watch.connection /\ watch.shell /\ watch.source = Off
  BY DEF MonitorInv, Act, Runs
<1>2. watch \in Watches
  BY WatchTyped
<1>3. QED
  BY <1>1, <1>2, WatchTyped DEF WatchInv, Checked, Watches

LEMMA CheckedTimers ==
  ASSUME NEW w, Checked(w), w.source = Off
  PROVE  /\ Checked(Retry(w)) /\ SameHolds(Retry(w), w)
         /\ Checked(Busy(w)) /\ SameHolds(Busy(w), w)
<1>1. w \in Watches /\ w.next >= 0
  BY DEF Checked
<1>2. Alike(Retry(w), w) /\ Timed(Retry(w)) /\ Alike(Busy(w), w) /\ Timed(Busy(w))
  BY <1>1, RetryAlike, BusyAlike
<1>3. QED
  BY <1>2 DEF Checked, Alike, SameHolds

LEMMA CheckedLevel ==
  ASSUME NEW w, Checked(w), w.source = Off, NEW v, v = [w EXCEPT !.level = 0]
  PROVE  Checked(v) /\ v.source = Off /\ SameHolds(v, w) /\ v.report = w.report
<1>1. 0 \in 0..MaxLevel /\ w \in Watches
  BY Numbers DEF Checked
<1>2. /\ v \in Watches /\ v.next = w.next /\ v.source = w.source /\ v.present = w.present
      /\ v.connection = w.connection /\ v.shell = w.shell /\ v.connecting = w.connecting
      /\ v.failed = w.failed /\ v.recoveryRecent = w.recoveryRecent
      /\ v.interrupted = w.interrupted /\ v.report = w.report
  BY <1>1 DEF Watches
<1>3. QED
  BY <1>2 DEF Checked, SameHolds, Timed

LEMMA NoCheckTyped == NoCheck \in Checks /\ NoCheck.stage = "idle"
  BY DEF NoCheck, Checks, CheckStages, ExtensionStates

LEMMA StageTyped ==
  ASSUME NEW c \in Checks, NEW stage \in CheckStages, NEW d, d = [c EXCEPT !.stage = stage]
  PROVE  d \in Checks /\ d.stage = stage /\ d.global = c.global /\ d.ext = c.ext
         /\ d.overtaken = c.overtaken
  BY DEF Checks

\* What a step of a check keeps to, whichever stage it is of.
LEMMA CheckGoesOn ==
  ASSUME MonitorInv, TypeOK', Runs(check.stage), Checked(watch'), attempt' = attempt,
         check'.stage # "ended", Runs(check'.stage) => watch'.source = Off,
         check'.stage \in Acting <=> lock' = "monitor",
         check'.stage \in Acting => ~check'.overtaken,
         Losses(inbox') <=> Losses(inbox),
         rearm'.due = rearm.due, rearm'.replaced = rearm.replaced,
         history'.barred =>
           watch'.failed /\ (rearm.due => rearm'.newerFault \/ rearm.replaced),
         check'.stage = "enable" => ~history'.barred,
         check'.stage = "enable" /\ ~check'.global => ~watch'.interrupted,
         history'.suspect = "lost" =>
           watch'.interrupted \/ (Losses(inbox) /\ watch'.recoveryRecent)
  PROVE  MonitorInv'
<1>1. watch.connection /\ watch.shell /\ ~watch.connecting
  BY CheckedWatch DEF Checked
<1>2. WatchInv(watch')
  BY DEF Checked, WatchInv
<1>3. Linked' /\ Act' /\ Locked' /\ Faults'
  <2>1. ~(attempt.pending /\ attempt.owner = "watch")
    BY <1>1 DEF MonitorInv, Linked
  <2>2. QED
    BY <2>1 DEF Checked, Linked, Act, Locked, Faults, Runs
<1>4. LossQueued' <=> Losses(inbox')
  BY DEF LossQueued, Losses
<1>5. Suspects'
  BY <1>4 DEF Checked, Suspects
<1>6. QED
  BY <1>2, <1>3, <1>5 DEF MonitorInv

\* What a check finds when it runs, and keeps if its step does not concern it.
LEMMA Held ==
  ASSUME MonitorInv, Runs(check.stage)
  PROVE  /\ history.barred =>
              watch.failed /\ (rearm.due => rearm.newerFault \/ rearm.replaced)
         /\ history.suspect = "lost" =>
              watch.interrupted \/ (Losses(inbox) /\ watch.recoveryRecent)
         /\ check.stage \in Acting <=> lock = "monitor"
         /\ check.stage \in Acting => ~check.overtaken
         /\ check.stage = "enable" => ~history.barred
<1>1. LossQueued <=> Losses(inbox)
  BY DEF LossQueued, Losses
<1>2. QED
  BY <1>1 DEF MonitorInv, Faults, Suspects, Locked, Runs

\* A check that is over, without the lock or releasing it, and keeps what it knows.
LEMMA GivesUp ==
  ASSUME MonitorInv, Runs(check.stage), Checked(watch'), SameHolds(watch', watch),
         check' = NoCheck, lock' \in {"free", "other"},
         UNCHANGED <<session, policy, inbox, attempt, refresh, rearm, stopped, moves, history>>
  PROVE  MonitorInv'
<1>1. check' \in Checks /\ check'.stage = "idle"
  BY NoCheckTyped
<1>2. TypeOK'
  BY <1>1 DEF MonitorInv, TypeOK, Checked
<1>3. QED
  BY <1>1, <1>2, Held, CheckGoesOn DEF SameHolds, Runs, Acting

\* A check that fails while the session answers; what it did may have been signalled.
LEMMA MishapInv ==
  ASSUME MonitorInv, Runs(check.stage), Move, watch' = Retry(watch), check' = NoCheck,
         lock' = "free", session' \in Sessions, inbox' \in Seq(Signals),
         Losses(inbox') <=> Losses(inbox),
         UNCHANGED <<policy, attempt, refresh, rearm, stopped, history>>
  PROVE  MonitorInv'
<1>1. check' \in Checks /\ check'.stage = "idle"
  BY NoCheckTyped
<1>2. Checked(watch') /\ SameHolds(watch', watch)
  BY CheckedWatch, CheckedTimers
<1>3. moves' \in 0..MaxMoves
  BY MonitorAssumption DEF Move, MonitorInv, TypeOK
<1>4. TypeOK'
  BY <1>1, <1>2, <1>3 DEF MonitorInv, TypeOK, Checked, Signals
<1>5. QED
  BY <1>1, <1>2, <1>4, Held, CheckGoesOn DEF SameHolds, Runs, Acting

\* A stage before the lock that observes something more.
LEMMA Observes ==
  ASSUME MonitorInv, check.stage \in {"info", "switch"}, watch' = watch,
         check' \in Checks, check'.stage \in {"switch", "acquire"},
         UNCHANGED <<session, policy, lock, inbox, attempt, refresh, rearm, stopped, moves, history>>
  PROVE  MonitorInv'
<1>1. TypeOK'
  BY DEF MonitorInv, TypeOK
<1>2. Runs(check.stage) /\ lock # "monitor"
  BY DEF Runs, MonitorInv, Locked, Acting
<1>3. QED
  BY <1>1, <1>2, Held, CheckedWatch, CheckGoesOn DEF Runs, Acting

LEMMA ObserveInv == MonitorInv /\ (ObserveInfo \/ ObserveSwitch) => MonitorInv'
<1> SUFFICES ASSUME MonitorInv, ObserveInfo \/ ObserveSwitch PROVE MonitorInv'
  OBVIOUS
<1>0. /\ check.stage \in {"info", "switch"} /\ Runs(check.stage) /\ lock # "monitor"
      /\ UNCHANGED <<session, policy, lock, inbox, attempt, refresh, rearm, stopped, moves, history>>
  BY DEF ObserveInfo, ObserveSwitch, Runs, MonitorInv, Locked, Acting
<1>1. session.shell.ext \in ExtensionStates /\ session.shell.global \in BOOLEAN
  BY WatchTyped, SessionTyped DEF Shells
<1>2. \/ watch' = watch /\ check' \in Checks /\ check'.stage \in {"switch", "acquire"}
      \/ watch' = Retry(watch) /\ check' = NoCheck
  <2>1. CASE ObserveInfo
    BY <1>1, <2>1, WatchTyped DEF ObserveInfo, GiveUp, Checks, CheckStages
  <2>2. CASE ObserveSwitch
    BY <1>1, <2>2, WatchTyped DEF ObserveSwitch, GiveUp, Checks, CheckStages
  <2>3. QED
    BY <2>1, <2>2
<1>3. CASE watch' = watch /\ check' \in Checks /\ check'.stage \in {"switch", "acquire"}
  BY <1>0, <1>3, Observes
<1>4. CASE watch' = Retry(watch) /\ check' = NoCheck
  <2>1. lock' \in {"free", "other"}
    BY <1>0 DEF MonitorInv, TypeOK
  <2>2. QED
    BY <1>0, <1>4, <2>1, CheckedWatch, CheckedTimers, GivesUp
<1>5. QED
  BY <1>2, <1>3, <1>4

LEMMA AcquireInv == MonitorInv /\ Acquire => MonitorInv'
<1> SUFFICES ASSUME MonitorInv, Acquire PROVE MonitorInv'
  OBVIOUS
<1>0. /\ check.stage = "acquire" /\ Runs(check.stage) /\ lock \in {"free", "other"}
      /\ UNCHANGED <<session, policy, inbox, attempt, refresh, rearm, stopped, moves>>
  BY DEF Acquire, Runs, MonitorInv, Locked, Acting, TypeOK
<1>1. CASE lock # "free" \/ ~Fresh
  <2>1. watch' = Busy(watch) /\ check' = NoCheck /\ UNCHANGED <<lock, history>>
    BY <1>1 DEF Acquire, GiveUp
  <2>2. QED
    BY <1>0, <2>1, CheckedWatch, CheckedTimers, GivesUp
<1>2. CASE ~(lock # "free" \/ ~Fresh) /\ (~policy.eligible \/ ~policy.on)
  <2> DEFINE w == [watch EXCEPT !.failed = FALSE, !.reported = FALSE, !.report = FALSE,
                                !.recoveryRecent = FALSE, !.interrupted = FALSE, !.level = 0]
  <2>1. /\ watch' = w /\ check' = NoCheck /\ lock' = lock
        /\ history' = [barred |-> FALSE, suspect |-> "no"]
    BY <1>2 DEF Acquire, GiveUp
  <2>2. Checked(w) /\ w.source = Off
    <3>1. 0 \in 0..MaxLevel /\ Checked(watch) /\ watch \in Watches /\ watch.source = Off
      BY <1>0, Numbers, CheckedWatch, WatchTyped
    <3>2. /\ w \in Watches /\ w.next = watch.next /\ w.source = watch.source
          /\ w.present = watch.present /\ w.connection = watch.connection
          /\ w.shell = watch.shell /\ w.connecting = watch.connecting
      BY <3>1 DEF Watches
    <3> HIDE DEF w
    <3>3. QED
      BY <3>1, <3>2 DEF Checked, Timed
  <2> HIDE DEF w
  <2>3. check' \in Checks /\ check'.stage = "idle"
    BY <2>1, NoCheckTyped
  <2>4. TypeOK'
    BY <1>0, <2>1, <2>2, <2>3 DEF MonitorInv, TypeOK, Checked
  <2>5. QED
    BY <1>0, <2>1, <2>2, <2>3, <2>4, CheckGoesOn DEF Runs, Acting
<1>3. CASE ~(lock # "free" \/ ~Fresh) /\ ~(~policy.eligible \/ ~policy.on)
  <2>1. /\ lock' = "monitor" /\ check' = [check EXCEPT !.stage = "reconcile"]
        /\ UNCHANGED <<watch, history>> /\ ~check.overtaken
    BY <1>3 DEF Acquire, Becomes, Fresh
  <2>2. /\ check' \in Checks /\ check'.stage = "reconcile" /\ ~check'.overtaken
    BY <2>1, WatchTyped, StageTyped DEF CheckStages
  <2>3. TypeOK'
    BY <1>0, <2>1, <2>2 DEF MonitorInv, TypeOK
  <2>4. QED
    BY <1>0, <2>1, <2>2, <2>3, Held, CheckedWatch, CheckGoesOn DEF Runs, Acting
<1>4. QED
  BY <1>1, <1>2, <1>3

\* A transaction of the monitor ends, or goes on to its report.
LEMMA DoneGoes ==
  ASSUME MonitorInv, check.stage \in Acting, NEW w, Checked(w), w.source = Off, Done(w)
  PROVE  /\ Checked(watch') /\ SameHolds(watch', w) /\ watch'.source = Off
         /\ check' \in Checks /\ check'.stage \in {"idle", "report"} /\ lock' \in {"free", "monitor"}
         /\ check'.stage = "report" <=> lock' = "monitor"
         /\ check'.stage = "report" => ~check'.overtaken
<1>1. check \in Checks /\ ~check.overtaken /\ lock = "monitor"
  BY WatchTyped DEF MonitorInv, Locked
<1>2. CASE w.report
  <2>1. watch' = w /\ check' = [check EXCEPT !.stage = "report"] /\ lock' = lock
    BY <1>2 DEF Done, Becomes
  <2>2. QED
    BY <1>1, <2>1, StageTyped DEF CheckStages, SameHolds
<1>3. CASE ~w.report
  <2>1. watch' = [w EXCEPT !.level = 0] /\ check' = NoCheck /\ lock' = "free"
    BY <1>3 DEF Done, Ends, GiveUp
  <2>2. QED
    BY <2>1, CheckedLevel, NoCheckTyped
<1>4. QED
  BY <1>2, <1>3

\* A fault changes what is known of faults, and nothing else the invariant is about.
LEMMA FaultKept ==
  ASSUME NEW w, Checked(w), w.source = Off
  PROVE  /\ Checked(Fault(w)) /\ Fault(w).source = Off /\ Fault(w).failed
         /\ Fault(w).recoveryRecent = w.recoveryRecent /\ Fault(w).interrupted = w.interrupted
<1> DEFINE r == w.reported /\ (w.failed \/ w.faultRecent)
           n == ~r
           f == w.faultRecent \/ ~w.failed
           v == [w EXCEPT !.failed = TRUE, !.reported = r, !.report = n, !.faultRecent = f]
<1>1. w \in Watches
  BY DEF Checked
<1>2. r \in BOOLEAN /\ n \in BOOLEAN /\ f \in BOOLEAN
  BY <1>1 DEF Watches
<1>3. Fault(w) = v
  BY DEF Fault
<1> HIDE DEF r, n, f
<1>4. /\ v \in Watches /\ v.next = w.next /\ v.source = w.source /\ v.present = w.present
      /\ v.connection = w.connection /\ v.shell = w.shell /\ v.connecting = w.connecting
      /\ v.failed /\ v.recoveryRecent = w.recoveryRecent /\ v.interrupted = w.interrupted
  BY <1>1, <1>2 DEF Watches
<1> HIDE DEF v
<1>5. QED
  BY <1>3, <1>4 DEF Checked, Timed

\* What reconciliation makes of its observation, for the watch and its history.
LEMMA ReconciledKept ==
  ASSUME MonitorInv, check.stage = "reconcile", NEW w, w = Reconciled(watch), NEW h,
         h = IF check.ext = "error" THEN Barred ELSE Observed
  PROVE  /\ Checked(w) /\ w.source = Off
         /\ h \in [barred : BOOLEAN, suspect : {"no", "lost", "lifted"}]
         /\ h.barred => w.failed /\ (history.barred \/ check.ext = "error")
         /\ h.suspect = "lost" => w.interrupted \/ (Losses(inbox) /\ w.recoveryRecent)
<1>0. /\ Runs(check.stage) /\ Checked(watch) /\ watch.source = Off /\ watch \in Watches
      /\ history \in [barred : BOOLEAN, suspect : {"no", "lost", "lifted"}]
      /\ check \in Checks
  BY CheckedWatch, WatchTyped DEF Runs
<1>1. /\ history.barred => watch.failed
      /\ history.suspect = "lost" =>
           watch.interrupted \/ (Losses(inbox) /\ watch.recoveryRecent)
  BY <1>0, Held
<1>2. CASE check.ext = "error"
  <2>1. w = Fault(watch) /\ h = [history EXCEPT !.barred = TRUE]
    BY <1>2 DEF Reconciled, Barred, Healthy
  <2>2. /\ Checked(w) /\ w.source = Off /\ w.failed
        /\ w.recoveryRecent = watch.recoveryRecent /\ w.interrupted = watch.interrupted
    BY <1>0, <2>1, FaultKept
  <2>3. /\ h \in [barred : BOOLEAN, suspect : {"no", "lost", "lifted"}]
        /\ h.suspect = history.suspect
    BY <1>0, <2>1
  <2>4. QED
    BY <1>1, <1>2, <2>2, <2>3
<1>3. ASSUME check.ext # "error" PROVE h = Observed
  BY <1>3
<1> DEFINE b == history.barred /\ ~Healthy
           s == IF Healthy \/ (~watch.failed /\ check.global) THEN "no" ELSE history.suspect
<1>4. ASSUME check.ext # "error"
      PROVE  /\ h \in [barred : BOOLEAN, suspect : {"no", "lost", "lifted"}]
             /\ h.barred = b /\ h.suspect = s
  <2>1. b \in BOOLEAN /\ s \in {"no", "lost", "lifted"}
    BY <1>0
  <2>2. h = [history EXCEPT !.barred = b, !.suspect = s]
    BY <1>0, <1>3, <1>4 DEF Observed
  <2> HIDE DEF b, s
  <2>3. QED
    BY <1>0, <2>1, <2>2
<1>5. CASE check.ext # "error" /\ Healthy
  <2> DEFINE v == [watch EXCEPT !.failed = FALSE, !.interrupted = FALSE]
  <2>1. w = v
    BY <1>5 DEF Reconciled
  <2>2. /\ v \in Watches /\ v.next = watch.next /\ v.source = watch.source
        /\ v.present = watch.present /\ v.connection = watch.connection
        /\ v.shell = watch.shell /\ v.connecting = watch.connecting
    BY <1>0 DEF Watches
  <2> HIDE DEF v
  <2>3. Checked(v)
    BY <1>0, <2>2 DEF Checked, Timed
  <2>4. ~b /\ s = "no"
    BY <1>5
  <2>5. QED
    BY <1>0, <1>4, <1>5, <2>1, <2>2, <2>3, <2>4
<1>6. CASE check.ext # "error" /\ ~Healthy
  <2> DEFINE i == watch.interrupted /\ (watch.failed \/ ~check.global)
             v == [watch EXCEPT !.interrupted = i]
  <2>1. i \in BOOLEAN
    BY <1>0 DEF Watches
  <2>2. w = v
    BY <1>6 DEF Reconciled
  <2>3. /\ b => watch.failed /\ history.barred
        /\ s = "lost" => i \/ (Losses(inbox) /\ watch.recoveryRecent)
    BY <1>0, <1>1, <1>6 DEF Checks
  <2> HIDE DEF i, b, s
  <2>4. /\ v \in Watches /\ v.next = watch.next /\ v.source = watch.source
        /\ v.present = watch.present /\ v.connection = watch.connection
        /\ v.shell = watch.shell /\ v.connecting = watch.connecting
        /\ v.failed = watch.failed /\ v.recoveryRecent = watch.recoveryRecent
        /\ v.interrupted = i
    BY <1>0, <2>1 DEF Watches
  <2> HIDE DEF v
  <2>5. Checked(v)
    BY <1>0, <2>4 DEF Checked, Timed
  <2>6. QED
    BY <1>0, <1>4, <1>6, <2>2, <2>3, <2>4, <2>5
<1>7. QED
  BY <1>2, <1>5, <1>6

LEMMA ReconcileInv == MonitorInv /\ Reconcile => MonitorInv'
<1> SUFFICES ASSUME MonitorInv, Reconcile PROVE MonitorInv'
  OBVIOUS
<1>0. /\ check.stage = "reconcile" /\ Runs(check.stage) /\ check.stage \in Acting
      /\ UNCHANGED <<session, policy, inbox, attempt, refresh, stopped, moves>>
      /\ Checked(watch) /\ watch.source = Off /\ check \in Checks /\ rearm \in Rearms
      /\ lock = "monitor" /\ ~check.overtaken
  BY CheckedWatch, WatchTyped DEF Reconcile, Runs, Acting, MonitorInv, Locked
<1>1. CASE stopped
  <2>1. /\ watch' = [watch EXCEPT !.level = 0] /\ check' = NoCheck /\ lock' = "free"
        /\ UNCHANGED <<rearm, history>>
    BY <1>1 DEF Reconcile, Ends, GiveUp
  <2>2. QED
    BY <1>0, <2>1, CheckedLevel, GivesUp
<1>2. CASE ~stopped
  <2> DEFINE w == Reconciled(watch)
             h == IF check.ext = "error" THEN Barred ELSE Observed
             e == [w EXCEPT !.recoveryRecent = TRUE]
  <2>1. history' = h /\ rearm' = IF check.ext = "error" THEN Noted ELSE rearm
    BY <1>2 DEF Reconcile
  <2>2. \/ Done(w)
        \/ watch' = Retry(w) /\ check' = NoCheck /\ lock' = "free"
        \/ /\ ~w.failed /\ ~w.interrupted
           /\ watch' = e /\ check' = [check EXCEPT !.stage = "enable"] /\ lock' = lock
    BY <1>2 DEF Reconcile, Becomes, Ends, GiveUp
  <2>3. /\ Checked(w) /\ w.source = Off
        /\ h \in [barred : BOOLEAN, suspect : {"no", "lost", "lifted"}]
        /\ h.barred => w.failed /\ (history.barred \/ check.ext = "error")
        /\ h.suspect = "lost" => w.interrupted \/ (Losses(inbox) /\ w.recoveryRecent)
    BY <1>0, ReconciledKept
  <2> HIDE DEF w, h
  <2>4. /\ rearm' \in Rearms /\ rearm'.due = rearm.due /\ rearm'.replaced = rearm.replaced
        /\ rearm.newerFault => rearm'.newerFault
        /\ check.ext = "error" => rearm'.newerFault
    BY <1>0, <2>1 DEF Noted, Rearms
  <2>5. history'.barred /\ rearm.due => rearm'.newerFault \/ rearm.replaced
    BY <1>0, <2>1, <2>3, <2>4, Held
  <2>6. CASE Done(w)
    <3>1. /\ Checked(watch') /\ SameHolds(watch', w) /\ watch'.source = Off
          /\ check' \in Checks /\ check'.stage \in {"idle", "report"}
          /\ lock' \in {"free", "monitor"}
          /\ check'.stage = "report" <=> lock' = "monitor"
          /\ check'.stage = "report" => ~check'.overtaken
      BY <1>0, <2>3, <2>6, DoneGoes
    <3>2. TypeOK'
      BY <1>0, <2>1, <2>3, <2>4, <3>1 DEF MonitorInv, TypeOK, Checked
    <3>3. QED
      BY <1>0, <2>1, <2>3, <2>4, <2>5, <3>1, <3>2, CheckGoesOn DEF SameHolds, Acting
  <2>7. CASE watch' = Retry(w) /\ check' = NoCheck /\ lock' = "free"
    <3>1. /\ Checked(watch') /\ SameHolds(watch', w)
          /\ check' \in Checks /\ check'.stage = "idle"
      BY <2>3, <2>7, CheckedTimers, NoCheckTyped
    <3>2. TypeOK'
      BY <1>0, <2>1, <2>3, <2>4, <2>7, <3>1 DEF MonitorInv, TypeOK, Checked
    <3>3. QED
      BY <1>0, <2>1, <2>3, <2>4, <2>5, <2>7, <3>1, <3>2, CheckGoesOn DEF SameHolds, Acting, Runs
  <2>8. CASE /\ ~w.failed /\ ~w.interrupted
             /\ watch' = e /\ check' = [check EXCEPT !.stage = "enable"] /\ lock' = lock
    <3>1. /\ Checked(e) /\ e.source = Off /\ ~e.failed /\ ~e.interrupted /\ e.recoveryRecent
      <4>1. /\ e \in Watches /\ e.next = w.next /\ e.source = w.source /\ e.present = w.present
            /\ e.connection = w.connection /\ e.shell = w.shell /\ e.connecting = w.connecting
            /\ e.failed = w.failed /\ e.interrupted = w.interrupted /\ e.recoveryRecent
        BY <2>3 DEF Checked, Watches
      <4> HIDE DEF e
      <4>2. QED
        BY <2>3, <2>8, <4>1 DEF Checked, Timed
    <3> HIDE DEF e
    <3>2. /\ check' \in Checks /\ check'.stage = "enable" /\ ~check'.overtaken
      BY <1>0, <2>8, StageTyped DEF CheckStages
    <3>3. TypeOK'
      BY <1>0, <2>1, <2>3, <2>4, <2>8, <3>1, <3>2 DEF MonitorInv, TypeOK, Checked
    <3>4. ~history'.barred /\ (history'.suspect = "lost" => Losses(inbox))
      BY <2>1, <2>3, <2>8
    <3>5. QED
      BY <1>0, <2>4, <2>8, <3>1, <3>2, <3>3, <3>4, CheckGoesOn DEF Acting
  <2>9. QED
    BY <2>2, <2>6, <2>7, <2>8
<1>3. QED
  BY <1>1, <1>2

LEMMA EnableInv == MonitorInv /\ Enable => MonitorInv'
<1> SUFFICES ASSUME MonitorInv, Enable PROVE MonitorInv'
  OBVIOUS
<1>0. /\ check.stage = "enable" /\ Runs(check.stage) /\ check.stage \in Acting
      /\ UNCHANGED <<policy, attempt, refresh, stopped, moves>>
      /\ Checked(watch) /\ watch.source = Off /\ rearm \in Rearms /\ session \in Sessions
      /\ history \in [barred : BOOLEAN, suspect : {"no", "lost", "lifted"}]
  BY CheckedWatch, WatchTyped DEF Enable, Runs, Acting
<1>1. /\ history.barred => watch.failed /\ (rearm.due => rearm.newerFault \/ rearm.replaced)
      /\ history.suspect = "lost" => watch.interrupted \/ (Losses(inbox) /\ watch.recoveryRecent)
  BY <1>0, Held
<1>2. CASE session' = Recovered /\ inbox' = SignalChange /\ Done(watch) /\ UNCHANGED <<rearm, history>>
  <2>1. /\ Checked(watch') /\ SameHolds(watch', watch) /\ watch'.source = Off
        /\ check' \in Checks /\ check'.stage \in {"idle", "report"}
        /\ lock' \in {"free", "monitor"}
        /\ check'.stage = "report" <=> lock' = "monitor"
        /\ check'.stage = "report" => ~check'.overtaken
    BY <1>0, <1>2, DoneGoes
  <2>2. session' \in Sessions /\ inbox' \in Seq(Signals) /\ (Losses(inbox') <=> Losses(inbox))
    BY <1>0, <1>2, SessionTyped, ChangeSignalled DEF Recovered
  <2>3. TypeOK'
    BY <1>0, <1>2, <2>1, <2>2 DEF MonitorInv, TypeOK, Checked, Signals
  <2>4. QED
    BY <1>0, <1>1, <1>2, <2>1, <2>2, <2>3, CheckGoesOn DEF SameHolds, Acting
<1>3. CASE /\ Done(Fault(watch)) /\ rearm' = Noted /\ history' = Barred
           /\ UNCHANGED <<session, inbox>>
  <2>1. /\ Checked(Fault(watch)) /\ Fault(watch).source = Off /\ Fault(watch).failed
        /\ Fault(watch).recoveryRecent = watch.recoveryRecent
        /\ Fault(watch).interrupted = watch.interrupted
    BY <1>0, FaultKept
  <2>2. /\ Checked(watch') /\ SameHolds(watch', Fault(watch)) /\ watch'.source = Off
        /\ check' \in Checks /\ check'.stage \in {"idle", "report"}
        /\ lock' \in {"free", "monitor"}
        /\ check'.stage = "report" <=> lock' = "monitor"
        /\ check'.stage = "report" => ~check'.overtaken
    BY <1>0, <1>3, <2>1, DoneGoes
  <2>3. /\ rearm' \in Rearms /\ rearm'.due = rearm.due /\ rearm'.replaced = rearm.replaced
        /\ rearm'.newerFault
        /\ history' \in [barred : BOOLEAN, suspect : {"no", "lost", "lifted"}]
        /\ history'.suspect = history.suspect
    BY <1>0, <1>3 DEF Noted, Barred, Rearms
  <2>4. TypeOK'
    BY <1>0, <1>3, <2>2, <2>3 DEF MonitorInv, TypeOK, Checked
  <2>5. QED
    BY <1>0, <1>1, <1>3, <2>1, <2>2, <2>3, <2>4, CheckGoesOn DEF SameHolds, Acting
<1>4. CASE Ends(Retry(watch)) /\ UNCHANGED <<session, inbox, rearm, history>>
  <2>1. watch' = Retry(watch) /\ check' = NoCheck /\ lock' = "free"
    BY <1>4 DEF Ends, GiveUp
  <2>2. QED
    BY <1>0, <1>4, <2>1, CheckedTimers, GivesUp
<1>5. QED
  BY <1>2, <1>3, <1>4 DEF Enable

LEMMA FailedStepInv ==
  MonitorInv /\ (AcquireFails \/ EnableUnverified \/ ReportFails) => MonitorInv'
<1> SUFFICES ASSUME MonitorInv, AcquireFails \/ EnableUnverified \/ ReportFails PROVE MonitorInv'
  OBVIOUS
<1>1. /\ Runs(check.stage) /\ Move /\ watch' = Retry(watch) /\ check' = NoCheck /\ lock' = "free"
      /\ UNCHANGED <<policy, attempt, refresh, rearm, stopped, history>>
  BY DEF AcquireFails, EnableUnverified, ReportFails, Runs, Ends, GiveUp
<1>2. session' \in Sessions
  BY WatchTyped, SessionTyped DEF AcquireFails, EnableUnverified, ReportFails
<1>3. inbox' \in Seq(Signals) /\ (Losses(inbox') <=> Losses(inbox))
  BY WatchTyped, ChangeSignalled DEF AcquireFails, EnableUnverified, ReportFails
<1>4. QED
  BY <1>1, <1>2, <1>3, MishapInv

LEMMA ReportInv == MonitorInv /\ Report => MonitorInv'
<1> SUFFICES ASSUME MonitorInv, Report PROVE MonitorInv'
  OBVIOUS
<1> DEFINE w == [watch EXCEPT !.reported = TRUE, !.report = FALSE, !.level = 0]
<1>0. /\ check.stage = "report" /\ Runs(check.stage) /\ Checked(watch) /\ watch.source = Off
      /\ UNCHANGED <<session, policy, inbox, attempt, refresh, rearm, stopped, moves, history>>
  BY CheckedWatch DEF Report, Runs
<1>1. watch' \in {w, Retry(watch)} /\ check' = NoCheck /\ lock' = "free"
  BY DEF Report, Ends, GiveUp
<1>2. Checked(w) /\ SameHolds(w, watch)
  <2>1. 0 \in 0..MaxLevel /\ watch \in Watches
    BY <1>0, Numbers DEF Checked
  <2>2. /\ w \in Watches /\ w.next = watch.next /\ w.source = watch.source
        /\ w.present = watch.present /\ w.connection = watch.connection
        /\ w.shell = watch.shell /\ w.connecting = watch.connecting
        /\ w.failed = watch.failed /\ w.recoveryRecent = watch.recoveryRecent
        /\ w.interrupted = watch.interrupted
    BY <2>1 DEF Watches
  <2> HIDE DEF w
  <2>3. QED
    BY <1>0, <2>2 DEF Checked, Timed, SameHolds
<1> HIDE DEF w
<1>3. Checked(watch') /\ SameHolds(watch', watch)
  BY <1>0, <1>1, <1>2, CheckedTimers
<1>4. QED
  BY <1>0, <1>1, <1>3, GivesUp

-----------------------------------------------------------------------------
(* The monitor. *)

LEMMA MonitorBegins == Init => MonitorInv
<1> SUFFICES ASSUME Init PROVE MonitorInv
  OBVIOUS
<1>1. /\ watch = NoWatch /\ WatchInv(watch) /\ inbox = <<>> /\ attempt = NoAttempt
      /\ ~attempt.pending /\ check = NoCheck /\ check.stage = "idle" /\ lock = "free"
      /\ ~watch.recoveryRecent /\ rearm = NoRearm /\ ~rearm.due
      /\ history = [barred |-> FALSE, suspect |-> "no"]
  BY NoWatchInv, NoAttemptTyped, NoCheckTyped DEF Init, NoWatch, NoRearm
<1>2. session \in Sessions
  BY DEF Init, Sessions, Shells, ExtensionStates
<1>3. /\ watch \in Watches /\ attempt \in Attempts /\ check \in Checks /\ rearm \in Rearms
      /\ inbox \in Seq({"changed", "lost", "gained", "replaced", "closed"})
      /\ history \in [barred : BOOLEAN, suspect : {"no", "lost", "lifted"}]
  BY <1>1, NoAttemptTyped, NoCheckTyped DEF WatchInv, NoRearm, Rearms
<1>4. policy \in [eligible : BOOLEAN, on : BOOLEAN] /\ moves \in 0..MaxMoves
  BY MonitorAssumption DEF Init
<1>5. TypeOK
  BY <1>2, <1>3, <1>4 DEF Init, TypeOK
<1>6. Linked /\ Act /\ Locked /\ Faults /\ Suspects
  BY <1>1 DEF Linked, Act, Locked, Faults, Suspects, Acting
<1>7. QED
  BY <1>1, <1>5, <1>6 DEF MonitorInv

LEMMA MonitorNext == MonitorInv /\ [Next]_vars => MonitorInv'
<1> SUFFICES ASSUME MonitorInv, [Next]_vars PROVE MonitorInv'
  OBVIOUS
<1>1. CASE MonitorRuns
  <2>1. CASE MonitorStep
    BY <2>1, RefreshInv, RearmInv, DispatchInv, ConnectInv, BeginCheckInv, ShutDownInv
       DEF MonitorStep
  <2>2. CASE CheckStep
    BY <2>2, ObserveInv, AcquireInv, ReconcileInv, EnableInv, ReportInv, FailedStepInv DEF CheckStep
  <2>3. QED
    BY <1>1, <2>1, <2>2, TickInv DEF MonitorRuns
<1>2. CASE UNCHANGED vars
  <2>1. TypeOK' /\ WatchInv(watch')
    BY <1>2 DEF vars, MonitorInv, TypeOK
  <2>2. Linked' /\ Act' /\ Locked' /\ Faults' /\ Suspects'
    BY <1>2 DEF vars, MonitorInv, Linked, Act, Locked, Faults, Suspects, LossQueued
  <2>3. QED
    BY <2>1, <2>2 DEF MonitorInv
<1>3. QED
  BY <1>1, <1>2, AttemptInv, BrokerInv, EnvironmentInv DEF Next

\* The invariant holds of every behaviour, whatever the delays, the backoff and
\* the child's moves.
THEOREM MonitorInvariant == Spec => []MonitorInv
<1>1. QED
  BY MonitorBegins, MonitorNext, PTL DEF Spec

\* Every variable keeps to its domain: no backoff step or busy retry arms a timer
\* beyond the cap (_schedule, _retry, _busy).
THEOREM MonitorTypes == Spec => []TypeOK
<1>1. MonitorInv => TypeOK
  BY DEF MonitorInv
<1>2. QED
  BY <1>1, MonitorInvariant, PTL

\* Under the lock the monitor acts on an observation that no transaction has
\* overlapped, whichever saves and recoveries ran beside the check.
THEOREM FreshSafety == Spec => []ActsOnFreshObservation
<1>1. MonitorInv => ActsOnFreshObservation
  BY DEF MonitorInv, Locked, Acting, ActsOnFreshObservation
<1>2. QED
  BY <1>1, MonitorInvariant, PTL

\* A confirmed fault ends recovery until the extension was seen healthy or a later
\* explicit recovery succeeded, although that recovery's callback runs later.
THEOREM FaultSafety == Spec => []FaultEndsRecovery
<1>1. MonitorInv => FaultEndsRecovery
  BY DEF MonitorInv, Faults, FaultEndsRecovery
<1>2. QED
  BY <1>1, MonitorInvariant, PTL

\* A Shell whose predecessor died soon after a recovery keeps its crash switch,
\* unless that loss is still queued behind the check.
THEOREM CrashSafety == Spec => []CrashSwitchKept
<1>1. MonitorInv => CrashSwitchKept
  BY DEF MonitorInv, Suspects, CrashSwitchKept
<1>2. QED
  BY <1>1, MonitorInvariant, PTL

\* Only _check with a connection starts to observe.
LEMMA ChecksBegin ==
  ASSUME MonitorInv, Next, check.stage = "idle", check'.stage = "info"
  PROVE  BeginCheck
<1>1. check' # check
  OBVIOUS
<1>2. ~CheckStep
  BY DEF CheckStep, ObserveInfo, ObserveSwitch, Acquire, Reconcile, Enable, Report,
         AcquireFails, EnableUnverified, ReportFails
<1>3. ~Tick /\ ~Refresh /\ ~Rearm /\ ~Dispatch /\ ~Connect
  BY <1>1 DEF Tick, Refresh, Rearm, Dispatch, Connect
<1>4. ~AttemptRuns
  BY <1>1 DEF AttemptRuns, AttemptPolls, HelloEnds, HelperRuns, DeadlinePasses
<1>5. ~Begin /\ ~ShutDown
  <2> DEFINE o == check.stage \in {"info", "switch", "acquire"}
  <2>1. [check EXCEPT !.overtaken = o].stage = check.stage
        /\ [check EXCEPT !.stage = "ended"].stage = "ended"
    BY WatchTyped DEF Checks
  <2>2. QED
    BY <2>1 DEF Begin, ShutDown, Becomes
<1>6. ~End /\ ~ParentSaves /\ ~ExplicitRecovery /\ ~Stop
  BY <1>1 DEF End, ParentSaves, ExplicitRecovery, Stop
<1>7. ~Environment
  BY <1>1 DEF Environment, ChildChanges, ShellStarts, ShellReplaced, ShellSettles, ShellDies,
              BusDies, AnswersChange, EligibilityChanges, MinutePasses
<1>8. QED
  BY <1>2, <1>3, <1>4, <1>5, <1>6, <1>7 DEF Next, MonitorRuns, MonitorStep

\* The time to the next check is kept by the timer of the one connection a watch
\* has, so neither signals nor busy retries bring it forward (_schedule).
THEOREM ProbeSpacing == Spec => ProbesSpaced
<1>1. ASSUME MonitorInv, Next, check.stage = "idle", check'.stage = "info"
      PROVE  watch.next = 0
  <2>1. watch.source = 0 /\ watch.connection
    BY <1>1, ChecksBegin DEF BeginCheck
  <2>2. Timed(watch) /\ watch.next >= 0 /\ watch.next \in Ticks
    BY <1>1, <2>1, WatchTyped DEF WatchInv, Watches
  <2>3. QED
    BY <2>1, <2>2, Numbers DEF Timed, Off
<1>2. MonitorInv /\ [Next]_vars
        => [check.stage = "idle" /\ check'.stage = "info" => watch.next = 0]_vars
  BY <1>1
<1>3. QED
  BY <1>2, MonitorInvariant, PTL DEF Spec, ProbesSpaced

\* What the attempt's callback runs on is settled; until then the attempt is pending.
LEMMA AttemptOver ==
  ASSUME NEW a, AttemptBecomes(a), ~attempt'.pending
  PROVE  ~a.pending
  BY DEF AttemptBecomes, Settled

\* An attempt that has begun never looks like a new one again.
LEMMA BegunStays ==
  ASSUME NEW a \in Attempts
  PROVE  /\ Settle(a).done = a.done
         /\ \A result \in {"connection", "error"} : Finish(a, result).done
         /\ \A success \in BOOLEAN : HelloReturns(a, success).done
         /\ \A sound \in BOOLEAN : Poll(a, sound) = a \/ Poll(a, sound) # NewAttempt
<1>1. \A b \in Attempts : Settle(b).done = b.done
  BY SettleGoes
<1>2. \A b \in Attempts, result \in {"connection", "error"} :
        Finish(b, result).done /\ Finish(b, result) \in Attempts
  BY FinishGoes DEF Goes
<1>3. \A success \in BOOLEAN : HelloReturns(a, success).done
  <2> SUFFICES ASSUME NEW success \in BOOLEAN PROVE HelloReturns(a, success).done
    OBVIOUS
  <2> DEFINE result == IF success /\ ~a.expired THEN "connection" ELSE "error"
             f == Finish(a, result)
             b == [f EXCEPT !.hello = "over"]
  <2>1. f.done /\ f \in Attempts
    BY <1>2
  <2>2. HelloReturns(a, success) = Settle(b)
    BY DEF HelloReturns
  <2> HIDE DEF f
  <2>3. b \in Attempts /\ b.done
    BY <2>1 DEF Attempts
  <2> HIDE DEF b
  <2>4. QED
    BY <1>1, <2>2, <2>3
<1>4. ASSUME NEW sound \in BOOLEAN, Poll(a, sound) # a PROVE Poll(a, sound) # NewAttempt
  <2> DEFINE r == [a EXCEPT !.descriptor = TRUE, !.packet = "none"]
             Begun(b) == b.done \/ b.descriptor \/ b.helper # "none" \/ b.hello # "none"
  <2>1. ~Begun(NewAttempt)
    BY DEF NewAttempt, NoAttempt
  <2>2. r \in Attempts /\ r.descriptor
    BY DEF Attempts
  <2>3. /\ [a EXCEPT !.helper = "running"].helper = "running"
        /\ [r EXCEPT !.descriptor = FALSE, !.hello = "pending"].hello = "pending"
    BY DEF Attempts
  <2>4. Begun(Handover(r, sound))
    <3>1. Finish(r, "error").done
      BY <1>2, <2>2
    <3> HIDE DEF r
    <3>2. QED
      BY <2>2, <2>3, <3>1 DEF Handover
  <2>5. Finish(a, "error").done /\ (a.done => Settle(a).done)
    BY <1>1, <1>2
  <2>6. Receive(a, sound) = a \/ Begun(Receive(a, sound))
    <3> HIDE DEF Begun
    <3>1. Begun(Finish(a, "error"))
      BY <2>5 DEF Begun
    <3>2. QED
      BY <2>4, <3>1 DEF Receive
  <2>7. Begun(Poll(a, sound))
    <3> HIDE DEF Begun
    <3>1. /\ Begun(Finish(a, "error")) /\ (a.done => Begun(Settle(a)))
          /\ Begun([a EXCEPT !.helper = "running"])
      BY <2>3, <2>5 DEF Begun
    <3>2. QED
      BY <1>4, <2>6, <3>1 DEF Poll
  <2>8. QED
    BY <2>1, <2>7
<1>5. QED
  BY <1>1, <1>2, <1>3, <1>4

\* Only _connect makes a new attempt, and only when the last one is over.
LEMMA BeginsAlone ==
  ASSUME MonitorInv, Next, attempt.pending, attempt' # attempt
  PROVE  attempt' # NewAttempt
<1>0. /\ attempt \in Attempts /\ ~NoAttempt.pending /\ NewAttempt.pending /\ ~NewAttempt.done
      /\ NewAttempt.helper = "none" /\ ~NewAttempt.expired /\ ~NewAttempt.cut
      /\ NewAttempt.owner = "watch"
  BY WatchTyped DEF NoAttempt, NewAttempt
<1>1. CASE AttemptPolls
  <2>1. PICK sound \in BusLooks : AttemptBecomes(Poll(attempt, sound)) /\ Poll(attempt, sound) # attempt
    BY <1>1 DEF AttemptPolls
  <2>2. sound \in BOOLEAN /\ attempt' \in {Poll(attempt, sound), NoAttempt}
    BY <2>1 DEF BusLooks, AttemptBecomes, Settled
  <2>3. QED
    BY <1>0, <2>1, <2>2, BegunStays
<1>2. CASE HelloEnds
  BY <1>0, <1>2, BegunStays DEF HelloEnds, AttemptBecomes, Settled
<1>3. CASE HelperRuns \/ DeadlinePasses
  <2>1. CASE HelperRuns
    <3>1. \A a \in HelperSteps(attempt) : a.helper # "none"
      BY <1>0 DEF HelperSteps, Attempts
    <3>2. QED
      BY <1>0, <2>1, <3>1 DEF HelperRuns
  <2>2. CASE DeadlinePasses
    BY <1>0, <2>2 DEF DeadlinePasses, Attempts
  <2>3. QED
    BY <1>3, <2>1, <2>2
<1>4. CASE attempt' = Abandoned(attempt)
  BY <1>0, <1>4, AbandonedGoes
<1>5. CASE BusDies
  BY <1>0, <1>5 DEF BusDies, CutOff, Attempts
<1>6. CASE MonitorRuns
  <2>1. ~CheckStep /\ ~Tick /\ ~Rearm /\ ~Dispatch /\ ~BeginCheck
    BY DEF CheckStep, ObserveInfo, ObserveSwitch, Acquire, Reconcile, Enable, Report,
           AcquireFails, EnableUnverified, ReportFails, Tick, Rearm, Dispatch, BeginCheck
  <2>2. Refresh \/ ShutDown => attempt' = Abandoned(attempt)
    BY DEF Refresh, ShutDown
  <2>3. ~Connect
    BY DEF Connect
  <2>4. QED
    BY <1>4, <1>6, <2>1, <2>2, <2>3 DEF MonitorRuns, MonitorStep
<1>7. CASE Environment
  BY <1>5, <1>7
     DEF Environment, ChildChanges, ShellStarts, ShellReplaced, ShellSettles, ShellDies,
         AnswersChange, EligibilityChanges, MinutePasses
<1>8. ~Begin /\ ~End /\ ~ParentSaves /\ ~ExplicitRecovery /\ ~Stop
  BY DEF Begin, End, ParentSaves, ExplicitRecovery, Stop
<1>9. QED
  BY <1>1, <1>2, <1>3, <1>6, <1>7, <1>8 DEF Next, AttemptRuns

\* However it ends, an attempt is over, and the next one begins, only when its
\* helper has been reaped and its Hello has returned (_settle, _connect).
THEOREM AttemptSettling == Spec => AttemptsSettle
<1> DEFINE Good == ~Unreaped(attempt) /\ (attempt.hello = "pending" => HelloEnds)
<1>1. ASSUME MonitorInv, [Next]_vars, attempt.pending, ~attempt'.pending
      PROVE  Good
  <2>0. attempt \in Attempts /\ attempt' # attempt
    BY <1>1, WatchTyped
  <2>1. CASE AttemptPolls
    <3>1. PICK sound \in BusLooks : AttemptBecomes(Poll(attempt, sound))
      BY <2>1 DEF AttemptPolls
    <3>2. sound \in BOOLEAN /\ ~Poll(attempt, sound).pending
      BY <1>1, <3>1, AttemptOver DEF BusLooks
    <3>3. QED
      BY <1>1, <2>0, <3>2, PollGoes DEF Goes
  <2>2. CASE HelloEnds
    <3>1. PICK success \in BOOLEAN : AttemptBecomes(HelloReturns(attempt, success))
      BY <2>2 DEF HelloEnds
    <3>2. ~HelloReturns(attempt, success).pending
      BY <1>1, <3>1, AttemptOver
    <3>3. QED
      BY <1>1, <2>0, <2>2, <3>2, HelloGoes DEF Goes
  <2>3. CASE HelperRuns \/ DeadlinePasses
    <3>1. attempt'.pending = attempt.pending
      BY <2>0, <2>3, HelperStepsTyped DEF HelperRuns, DeadlinePasses, Attempts
    <3>2. QED
      BY <1>1, <3>1
  <2>4. CASE attempt' = Abandoned(attempt)
    <3>1. attempt.owner = "watch"
      BY <1>1, <2>4 DEF Abandoned
    <3>2. QED
      BY <1>1, <2>0, <2>4, <3>1, AbandonedGoes
  <2>5. CASE BusDies
    BY <1>1, <2>0, <2>5, CutOffGoes DEF BusDies
  <2>6. CASE MonitorRuns
    <3>1. ~CheckStep /\ ~Tick /\ ~Rearm /\ ~Dispatch /\ ~BeginCheck
      BY <2>0 DEF CheckStep, ObserveInfo, ObserveSwitch, Acquire, Reconcile, Enable, Report,
                  AcquireFails, EnableUnverified, ReportFails, Tick, Rearm, Dispatch, BeginCheck
    <3>2. Refresh \/ ShutDown => attempt' = Abandoned(attempt)
      BY <2>0 DEF Refresh, ShutDown
    <3>3. ~Connect
      BY <1>1, <2>0, NoAttemptTyped DEF Connect
    <3>4. QED
      BY <2>4, <2>6, <3>1, <3>2, <3>3 DEF MonitorRuns, MonitorStep
  <2>7. CASE Environment
    BY <2>0, <2>5, <2>7
       DEF Environment, ChildChanges, ShellStarts, ShellReplaced, ShellSettles, ShellDies,
           AnswersChange, EligibilityChanges, MinutePasses
  <2>8. ~Begin /\ ~End /\ ~ParentSaves /\ ~ExplicitRecovery /\ ~Stop /\ ~UNCHANGED vars
    BY <2>0 DEF Begin, End, ParentSaves, ExplicitRecovery, Stop, vars
  <2>9. QED
    BY <1>1, <2>1, <2>2, <2>3, <2>6, <2>7, <2>8 DEF Next, AttemptRuns
<1>2. ASSUME MonitorInv, [Next]_vars, attempt.pending, attempt' = NewAttempt
      PROVE  Good
  <2>1. attempt = NewAttempt
    BY <1>2, BeginsAlone DEF vars
  <2>2. QED
    BY <2>1 DEF NewAttempt, NoAttempt, Unreaped
<1>3. MonitorInv /\ [Next]_vars
        => [attempt.pending /\ (~attempt'.pending \/ attempt' = NewAttempt) => Good]_vars
  BY <1>1, <1>2
<1>4. QED
  BY <1>3, MonitorInvariant, PTL DEF Spec, AttemptsSettle
=============================================================================
