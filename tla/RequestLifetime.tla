--------------------------- MODULE RequestLifetime ---------------------------
(***************************************************************************)
(* The lifetime of an approval request (authorization.py, core.py).        *)
(*                                                                         *)
(* The worker that holds the request lock asks Polkit to show the parent a *)
(* prompt, and runs a private GLib context until the prompt is answered or *)
(* the requester leaves: its bus connection closes, its session locks or   *)
(* is no longer the one the request came from.  Signals and replies queue  *)
(* in that context; the worker also reads the same state by blocking       *)
(* calls.  An approval becomes an effect only through admit(), which       *)
(* drains the queue, reads everything again and drains once more.          *)
(*                                                                         *)
(* PolicyTransactions takes all this as AuthorizationReturns, CallerLeaves *)
(* and AdmitEffect; the effect itself is one step here.                    *)
(***************************************************************************)
EXTENDS Naturals, Sequences

CONSTANTS
  Callers,     \* "kiosk": the request station; "child": the child's own session
  Serials,     \* BOUND: correlation ids in use at a time
  Displays,    \* the primary displays a user can have; "none" is no session
  MaxEvents    \* BOUND: lifecycle signals during one request

ASSUME CallersAssumption == Callers \subseteq {"kiosk", "child"}
ASSUME DisplaysAssumption == "none" \in Displays /\ "unread" \notin Displays

VARIABLES
  alive,     \* the requester's bus connection
  session,   \* "usable", or "away": locked, inactive, closing or removed
  display,   \* the primary display of the requester's user
  agent,     \* whether an authentication agent is registered
  grace,     \* whether the agent's startup grace has time left
  queue,     \* calls the broker has sent to Polkit, in order
  prompts,   \* the requests whose prompt is on the screen
  req,       \* the request that holds the lock, or NoRequest
  rested,    \* per caller: the minimum interval since its last grant is over
  cleanupFailed  \* history: a cancellation timed out and has left something behind

vars == <<alive, session, display, agent, grace, queue, prompts, req, rested, cleanupFailed>>

world == <<alive, session, display>>
authority == <<agent, prompts>>

-----------------------------------------------------------------------------
(* Types. *)

Answers == {"approved", "denied", "dismissed", "challenge", "error"}

\* What the private context can hold: signals, and replies to its two calls.
Messages == ({"departed", "look"} \X {"-"}) \cup ({"display"} \X Displays)
            \cup ({"auth"} \X Answers) \cup ({"cancel"} \X {"-"})

\* A worker that drains dispatches what is queued before it goes on.
Drains == {"drain", "admit", "latch"}

Stages == {"idle", "resolve", "readDisplay", "snapshot", "loop", "recheck", "preflight",
           "readAlive", "rereadDisplay", "readSession", "effects", "close"} \cup Drains

Requests ==
  [pc : Stages, caller : {"kiosk", "child"}, serial : Serials \cup {0},
   inbox : Seq(Messages), events : Nat, left : BOOLEAN,
   watchesSession : BOOLEAN, watchesDisplay : BOOLEAN, display : Displays \cup {"unread"},
   started : BOOLEAN, retry : BOOLEAN, quit : BOOLEAN,
   authCall : BOOLEAN, authDone : BOOLEAN, cancelCall : BOOLEAN, cancelDone : BOOLEAN,
   cancelled : BOOLEAN, outcome : {"approved", "denied", "cancelled"}, admitted : BOOLEAN]

NoRequest ==
  [pc |-> "idle", caller |-> "kiosk", serial |-> 0,
   inbox |-> <<>>, events |-> 0, left |-> FALSE,
   watchesSession |-> FALSE, watchesDisplay |-> FALSE, display |-> "unread",
   started |-> FALSE, retry |-> FALSE, quit |-> FALSE,
   authCall |-> FALSE, authDone |-> FALSE, cancelCall |-> FALSE, cancelDone |-> FALSE,
   cancelled |-> FALSE, outcome |-> "denied", admitted |-> FALSE]

Idle == req.pc = "idle"

-----------------------------------------------------------------------------
(* The handlers of the private context, as functions of the request. *)

Deliver(r, kind, value) == [r EXCEPT !.inbox = Append(@, <<kind, value>>)]

FinishIfReady(r) ==
  IF r.authDone /\ (~r.cancelled \/ r.cancelDone) THEN [r EXCEPT !.quit = TRUE] ELSE r

\* GIO completes the local wait of a cancelled call; Polkit needs a call of its own.
CancelRemotely(r) ==
  IF r.authCall
  THEN Deliver([r EXCEPT !.cancelCall = TRUE, !.authCall = FALSE], "auth", "error")
  ELSE [r EXCEPT !.cancelCall = TRUE]

CancelAlwaysRemotely(r) ==
  IF r.cancelled \/ r.admitted THEN r
  ELSE CancelRemotely([r EXCEPT !.cancelled = TRUE, !.outcome = "cancelled", !.retry = FALSE])
CancelOnlyLocally(r) ==
  IF r.cancelled \/ r.admitted THEN r
  ELSE LET c == [r EXCEPT !.cancelled = TRUE, !.outcome = "cancelled", !.cancelDone = TRUE]
       IN  IF ~r.started THEN [c EXCEPT !.retry = FALSE, !.quit = TRUE]
           ELSE IF r.authCall THEN Deliver([c EXCEPT !.authCall = FALSE], "auth", "error") ELSE c
Cancel(r) ==
  IF r.cancelled \/ r.admitted THEN r
  ELSE LET c == [r EXCEPT !.cancelled = TRUE, !.outcome = "cancelled"]
       IN  IF r.started THEN CancelRemotely(c) ELSE [c EXCEPT !.retry = FALSE, !.quit = TRUE]

AuthorizationFinished(r, answer) ==
  LET f == [r EXCEPT !.started = FALSE]
  IN  IF ~r.cancelled /\ r.caller = "kiosk" /\ answer = "challenge" /\ grace
      THEN [f EXCEPT !.retry = TRUE]
      ELSE FinishIfReady([f EXCEPT !.authDone = TRUE, !.outcome =
             IF r.cancelled THEN @
             ELSE CASE answer = "approved"  -> "approved"
                    [] answer = "dismissed" -> "cancelled"
                    [] OTHER                -> "denied"])

CancellationFinished(r) == FinishIfReady([r EXCEPT !.cancelDone = TRUE, !.cancelCall = FALSE])

StartCheck(r) == [r EXCEPT !.started = TRUE, !.authCall = TRUE]

\* A read that finds the requester away, or fails, cancels; both are monotonic.
Reads(r, gone) == IF gone THEN {Cancel(r)} ELSE {r, Cancel(r)}

DisplayMoved(r) == r.watchesDisplay /\ display # r.display
SessionAway(r)  == r.watchesSession /\ session = "away"

Handled(r, m) ==
  CASE m[1] = "departed" -> {Cancel(r)}
    [] m[1] = "look"     -> Reads(r, SessionAway(r) \/ DisplayMoved(r))
    [] m[1] = "display"  -> {IF m[2] # r.display THEN Cancel(r) ELSE r}
    [] m[1] = "auth"     -> {AuthorizationFinished(r, m[2])}
    [] m[1] = "cancel"   -> {CancellationFinished(r)}

-----------------------------------------------------------------------------
(* The worker that holds the request lock. *)

Sent(before, after) ==
  (IF after.authCall /\ ~before.authCall THEN <<<<"check", after.serial>>>> ELSE <<>>)
  \o (IF after.cancelCall /\ ~before.cancelCall THEN <<<<"cancel", after.serial>>>> ELSE <<>>)

\* The worker goes on to stage pc; the calls it has made are on their way.
Becomes(r, pc) ==
  /\ req' = [r EXCEPT !.pc = pc]
  /\ queue' = queue \o Sent(req, r)

Elsewhere == UNCHANGED <<world, authority, grace, rested, cleanupFailed>>

RequestAccess(caller, serial) ==
  /\ Idle
  /\ rested[caller]
  /\ \A i \in DOMAIN queue : queue[i][2] # serial
  /\ serial \notin prompts
  /\ req' = [NoRequest EXCEPT !.pc = "resolve", !.caller = caller, !.serial = serial]
  /\ alive' = TRUE
  /\ cleanupFailed' = (cleanupFailed /\ (prompts # {} \/ queue # <<>>))
  /\ UNCHANGED <<session, display, authority, grace, queue, rested>>

\* _session_for_caller: subscribe to what is found before reading its state.
ResolveSession ==
  /\ req.pc = "resolve"
  /\ \/ ~alive /\ Becomes(Cancel(req), "close")
     \/ Becomes(req, "close")                                \* another bus error
     \/ alive /\ Becomes([req EXCEPT !.watchesSession = TRUE], "snapshot")
     \/ alive /\ Becomes([req EXCEPT !.watchesDisplay = TRUE], "readDisplay")
     \/ alive /\ Becomes(req, "drain")                       \* no session, no user
  /\ Elsewhere

ReadDisplay ==
  /\ req.pc = "readDisplay"
  /\ \/ Becomes(req, "close")
     \/ LET r == [req EXCEPT !.display = display, !.watchesSession = display # "none"]
        IN  Becomes(r, IF display = "none" THEN "drain" ELSE "snapshot")
  /\ Elsewhere

InitialSnapshot ==
  /\ req.pc = "snapshot"
  /\ \E r \in Reads(req, SessionAway(req)) : Becomes(r, IF r.cancelled THEN "close" ELSE "drain")
  /\ Elsewhere

\* The prompt is asked for only once the signals queued so far are handled.
CheckAuthorization ==
  /\ req.pc = "drain" /\ req.inbox = <<>>
  /\ IF req.cancelled THEN Becomes(req, "close") /\ UNCHANGED grace
     ELSE Becomes(StartCheck(req), "loop") /\ grace' = TRUE
  /\ UNCHANGED <<world, authority, rested, cleanupFailed>>

Dispatch ==
  /\ req.pc \in Drains \cup {"loop"}
  /\ req.inbox # <<>>
  /\ \E r \in Handled([req EXCEPT !.inbox = Tail(@)], Head(req.inbox)) : Becomes(r, req.pc)
  /\ Elsewhere

RetryEndsSilently(r) ==
  LET f == [r EXCEPT !.retry = FALSE]
  IN  IF grace THEN StartCheck(f) ELSE [f EXCEPT !.authDone = TRUE]
RetryCheck(r) ==
  LET f == [r EXCEPT !.retry = FALSE]
  IN  IF grace THEN StartCheck(f) ELSE FinishIfReady([f EXCEPT !.authDone = TRUE])

RetryTimer ==
  /\ req.pc = "loop" /\ req.retry
  /\ Becomes(RetryCheck(req), "loop")
  /\ Elsewhere

LoopReturns ==
  /\ req.pc = "loop" /\ req.quit
  /\ Becomes(req, IF req.outcome = "approved" THEN "recheck" ELSE "close")
  /\ Elsewhere

\* The broker asks whether the caller is alive after each wait of its own, the
\* last time in admit_effect; the selection it rereads may make it give up.
Recheck(stage, next) ==
  /\ req.pc = stage
  /\ Becomes(req, "close") \/ (alive /\ Becomes(req, next))
  /\ Elsewhere

\* admit(): drain, read, read, read, drain, claim.
BeginAdmission ==
  /\ req.pc = "admit" /\ req.inbox = <<>>
  /\ Becomes(req, IF req.outcome # "approved" \/ req.cancelled THEN "close" ELSE "readAlive")
  /\ Elsewhere

AdmissionReads ==
  /\ \/ req.pc = "readAlive" /\ Becomes(IF alive THEN req ELSE Cancel(req), "rereadDisplay")
     \/ req.pc = "rereadDisplay" /\ Becomes(IF DisplayMoved(req) THEN Cancel(req) ELSE req,
                                           "readSession")
     \/ req.pc = "readSession" /\ Becomes(IF SessionAway(req) THEN Cancel(req) ELSE req, "latch")
     \/ /\ req.pc \in {"readAlive", "rereadDisplay", "readSession"}
        /\ Becomes(Cancel(req), "latch")                     \* a read that fails
  /\ Elsewhere

DrainedUnconditionally(r) == TRUE
Drained(r) == r.inbox = <<>>

Latch ==
  /\ req.pc = "latch" /\ Drained(req)
  /\ IF req.cancelled THEN Becomes(req, "close")
     ELSE Becomes([req EXCEPT !.admitted = TRUE], "effects")
  /\ Elsewhere

RateLimited(caller) == [rested EXCEPT ![caller] = FALSE]

\* The account transaction; only a grant that was applied uses up the interval.
Effects ==
  /\ req.pc = "effects"
  /\ Becomes(req, "close")
  /\ rested' = rested \/ rested' = RateLimited(req.caller)
  /\ UNCHANGED <<world, authority, grace, cleanupFailed>>

\* Unsubscribing drops whatever is still queued; then the lock is free.
Close ==
  /\ req.pc = "close"
  /\ req' = NoRequest
  /\ alive' = FALSE /\ grace' = FALSE        \* both belong to the request
  /\ UNCHANGED <<session, display, authority, queue, rested, cleanupFailed>>

-----------------------------------------------------------------------------
(* Polkit, its agent and the parent. *)

\* A reply reaches the worker only while its call is open, and completes it.
Replied(r, serial, kind, answer) ==
  IF r.serial # serial THEN r
  ELSE IF kind = "auth"
       THEN IF r.authCall THEN Deliver([r EXCEPT !.authCall = FALSE], "auth", answer) ELSE r
       ELSE IF r.cancelCall THEN Deliver([r EXCEPT !.cancelCall = FALSE], "cancel", "-") ELSE r

PolkitTakes ==
  /\ queue # <<>>
  /\ queue' = Tail(queue)
  /\ LET call == Head(queue)
     IN  IF call[1] = "check"
         THEN IF agent THEN prompts' = prompts \cup {call[2]} /\ UNCHANGED req
              ELSE req' = Replied(req, call[2], "auth", "challenge") /\ UNCHANGED prompts
         ELSE /\ prompts' = prompts \ {call[2]}
              /\ req' = Replied(Replied(req, call[2], "auth", "error"), call[2], "cancel", "-")
  /\ UNCHANGED <<world, agent, grace, rested, cleanupFailed>>

ParentAnswers(answer) ==
  \E serial \in prompts :
    /\ prompts' = prompts \ {serial}
    /\ req' = Replied(req, serial, "auth", answer)
    /\ UNCHANGED <<world, agent, grace, queue, rested, cleanupFailed>>

AgentRegisters ==
  /\ ~agent /\ agent' = TRUE
  /\ UNCHANGED <<world, prompts, grace, queue, req, rested, cleanupFailed>>

\* Without its agent a prompt is gone, and Polkit fails the check it was for.
AgentLeaves ==
  /\ agent /\ agent' = FALSE
  /\ prompts' = {}
  /\ req' = IF req.serial \in prompts THEN Replied(req, req.serial, "auth", "error") ELSE req
  /\ UNCHANGED <<world, grace, queue, rested, cleanupFailed>>

PolkitFails ==
  /\ queue' = <<>> /\ prompts' = {}
  /\ req' = Replied(Replied(req, req.serial, "auth", "error"), req.serial, "cancel", "-")
  /\ UNCHANGED <<world, agent, grace, rested, cleanupFailed>>

\* LIFECYCLE_TIMEOUT_MS: the remote cancellation is not waited for any longer.
CancelTimesOut ==
  /\ req.cancelCall
  /\ req' = Replied(req, req.serial, "cancel", "-")
  /\ cleanupFailed' = TRUE
  /\ UNCHANGED <<world, authority, grace, queue, rested>>

GraceEnds ==
  /\ grace /\ grace' = FALSE
  /\ UNCHANGED <<world, authority, queue, req, rested, cleanupFailed>>

IntervalElapses(caller) ==
  /\ ~rested[caller] /\ rested' = [rested EXCEPT ![caller] = TRUE]
  /\ UNCHANGED <<world, authority, grace, queue, req, cleanupFailed>>

-----------------------------------------------------------------------------
(* The requester's connection, session and display. *)

\* A watched change queues its signal; a departure is remembered as such.
Signal(watched, kind, value, departure) ==
  IF watched
  THEN /\ req.events < MaxEvents
       /\ req' = [Deliver(req, kind, value) EXCEPT
                    !.events = @ + 1, !.left = @ \/ (departure /\ ~req.admitted)]
  ELSE UNCHANGED req

Unrelated == UNCHANGED <<authority, grace, queue, rested, cleanupFailed>>

CallerDisconnects ==
  /\ ~Idle /\ alive /\ alive' = FALSE
  /\ Signal(TRUE, "departed", "-", TRUE)
  /\ UNCHANGED <<session, display>> /\ Unrelated

LoginServiceRestarts ==
  /\ ~Idle /\ Signal(TRUE, "departed", "-", TRUE)
  /\ UNCHANGED world /\ Unrelated

SessionLeaves ==
  /\ session = "usable" /\ session' = "away"
  /\ Signal(req.watchesSession, "departed", "-", TRUE)
  /\ UNCHANGED <<alive, display>> /\ Unrelated

SessionReturns ==
  /\ session = "away" /\ session' = "usable"
  /\ UNCHANGED <<alive, display, req>> /\ Unrelated

DisplayChanges(other) ==
  /\ display # other /\ display' = other
  /\ Signal(req.watchesDisplay, "display", other, req.display \notin {"unread", other})
  /\ UNCHANGED <<alive, session>> /\ Unrelated

\* A property announced as invalidated, without its value: the handler reads it.
Invalidated ==
  /\ req.watchesSession \/ req.display # "unread"
  /\ Signal(TRUE, "look", "-", FALSE)
  /\ UNCHANGED world /\ Unrelated

-----------------------------------------------------------------------------
Init ==
  /\ alive = FALSE
  /\ session \in {"usable", "away"}
  /\ display \in Displays
  /\ agent \in BOOLEAN
  /\ grace = FALSE
  /\ queue = <<>>
  /\ prompts = {}
  /\ req = NoRequest
  /\ rested = [c \in Callers |-> TRUE]
  /\ cleanupFailed = FALSE

Worker ==
  \/ ResolveSession \/ ReadDisplay \/ InitialSnapshot \/ CheckAuthorization
  \/ Dispatch \/ LoopReturns
  \/ Recheck("recheck", "preflight") \/ Recheck("preflight", "admit")
  \/ BeginAdmission \/ AdmissionReads \/ Latch \/ Effects \/ Close

Requester ==
  \/ CallerDisconnects \/ LoginServiceRestarts \/ SessionLeaves \/ SessionReturns
  \/ \E other \in Displays : DisplayChanges(other)
  \/ Invalidated

Authority ==
  \/ PolkitTakes
  \/ \E answer \in {"approved", "denied", "dismissed"} : ParentAnswers(answer)
  \/ AgentRegisters \/ AgentLeaves \/ PolkitFails

Next ==
  \/ \E caller \in Callers, serial \in Serials : RequestAccess(caller, serial)
  \/ Worker \/ RetryTimer \/ CancelTimesOut \/ GraceEnds
  \/ \E caller \in Callers : IntervalElapses(caller)
  \/ Requester \/ Authority

\* The worker thread runs, and timers expire. Nothing is asked of the parent, of
\* the agent or of the requester; of Polkit only that it answers without a prompt.
Fairness ==
  /\ WF_vars(Worker) /\ WF_vars(LoopReturns)
  /\ WF_vars(RetryTimer) /\ WF_vars(CancelTimesOut) /\ WF_vars(GraceEnds)
  /\ WF_vars(PolkitTakes)

Spec == Init /\ [][Next]_vars /\ Fairness

-----------------------------------------------------------------------------
(* Properties. *)

\* Every variable keeps to its domain: in particular the private context only
\* ever holds messages one of its handlers accepts.
TypeOK ==
  /\ alive \in BOOLEAN
  /\ session \in {"usable", "away"} /\ display \in Displays
  /\ agent \in BOOLEAN /\ grace \in BOOLEAN
  /\ queue \in Seq({"check", "cancel"} \X Serials)
  /\ prompts \subseteq Serials
  /\ req \in Requests
  /\ rested \in [Callers -> BOOLEAN]
  /\ cleanupFailed \in BOOLEAN

\* "A transition during a read wins even if the final snapshot is active again":
\* no effect is admitted for a requester who disconnected, locked, switched or
\* lost the login service at any moment since the request began to watch it.
AdmittedInSession == req.admitted => ~req.left

\* A prompt is on the screen, or on its way there, only while the request it was
\* for still waits for the answer or for the cancellation, and it is the only one:
\* no order of replies, retries and departures leaves the parent with a prompt
\* nobody attends to, unless the cancellation of it timed out.
PromptAttended ==
  ~cleanupFailed =>
    LET checks == {i \in DOMAIN queue : queue[i][1] = "check"}
        asked  == prompts \cup {queue[i][2] : i \in checks}
    IN  /\ asked \subseteq {req.serial}
        /\ asked # {} => req.authCall \/ req.cancelCall
        /\ \A i, j \in checks : i = j
        /\ checks # {} => prompts = {}

\* "Must not leave an unobservable authorization holding the transaction lock":
\* once the requester has left, the lock is released although the parent never
\* answers the prompt and Polkit never answers the cancellation.
DepartureReleasesLock == (req.left /\ ~req.admitted) ~> Idle

\* A request station whose agent never registers does not hold the lock for ever.
AgentlessRequestEnds == (<>[]~agent) => []<>Idle

=============================================================================
