------------------------ MODULE RequestLifetimeProofs ------------------------
(***************************************************************************)
(* Nothing is admitted for a requester who has left, for any number of     *)
(* callers, ids, displays and signals.                                     *)
(*                                                                         *)
(* The latch tests only that the queue is drained and that nothing has     *)
(* cancelled the request, so the invariant says why that suffices: until   *)
(* a departure has cancelled the request it is still in the queue, as a    *)
(* message whose handler will cancel it.                                   *)
(***************************************************************************)
EXTENDS RequestLifetime, TLAPS

\* A message whose handler cancels the request it finds.
Fatal(r, m) ==
  \/ m[1] = "departed"
  \/ m[1] = "display" /\ r.display # "unread" /\ m[2] # r.display

Noted(r) ==
  r.left /\ ~r.admitted =>
    r.cancelled \/ \E i \in DOMAIN r.inbox : Fatal(r, r.inbox[i])

\* The display is unknown until it has been read, and then it stays.
DisplayUnread(r) == r.pc \in {"idle", "resolve", "readDisplay"} => r.display = "unread"

Identified(r) == r.pc # "idle" => r.serial \in Serials

-----------------------------------------------------------------------------
(* What the handlers may do to a request. *)

Extends(long, short) ==
  /\ Len(short) <= Len(long)
  /\ \A i \in 1..Len(short) : long[i] = short[i]

\* s is r after handlers that do not end its departure: nothing queued is lost,
\* a cancellation stays, and what was seen of the requester stays.
Keeps(r, s) ==
  /\ s \in Requests
  /\ s.pc = r.pc /\ s.serial = r.serial /\ s.display = r.display
  /\ s.left = r.left /\ s.admitted = r.admitted
  /\ r.cancelled => s.cancelled
  /\ Extends(s.inbox, r.inbox)

\* Keeps is reflexive on requests, and transitive.
LEMMA KeepsItself ==
  ASSUME NEW r \in Requests
  PROVE  Keeps(r, r)
  BY DEF Keeps, Requests, Extends

LEMMA KeepsTransitive ==
  ASSUME NEW r \in Requests, NEW s, NEW t, Keeps(r, s), Keeps(s, t)
  PROVE  Keeps(r, t)
<1>1. r.inbox \in Seq(Messages) /\ s.inbox \in Seq(Messages) /\ t.inbox \in Seq(Messages)
  BY DEF Keeps, Requests
<1>2. Extends(t.inbox, r.inbox)
  BY <1>1 DEF Keeps, Extends
<1>3. QED
  BY <1>2 DEF Keeps

\* Noted survives what Keeps allows.
LEMMA KeepsNoted ==
  ASSUME NEW r \in Requests, NEW s, Keeps(r, s), Noted(r)
  PROVE  Noted(s)
<1>1. r.inbox \in Seq(Messages) /\ s.inbox \in Seq(Messages)
  BY DEF Keeps, Requests
<1>2. SUFFICES ASSUME s.left, ~s.admitted, ~s.cancelled
               PROVE  \E i \in DOMAIN s.inbox : Fatal(s, s.inbox[i])
  BY DEF Noted
<1>3. r.left /\ ~r.admitted /\ ~r.cancelled
  BY <1>2 DEF Keeps, Requests
<1>4. PICK i \in DOMAIN r.inbox : Fatal(r, r.inbox[i])
  BY <1>3 DEF Noted
<1>5. i \in DOMAIN s.inbox /\ s.inbox[i] = r.inbox[i]
  BY <1>1 DEF Keeps, Extends
<1>6. QED
  BY <1>4, <1>5 DEF Fatal, Keeps

\* A message put in the queue is the last one; nothing else changes.
LEMMA DeliverKeeps ==
  ASSUME NEW r \in Requests, NEW kind, NEW value, <<kind, value>> \in Messages
  PROVE  Keeps(r, Deliver(r, kind, value))
<1>1. r.inbox \in Seq(Messages)
  BY DEF Requests
<1>2. /\ Append(r.inbox, <<kind, value>>) \in Seq(Messages)
      /\ Extends(Append(r.inbox, <<kind, value>>), r.inbox)
  BY <1>1 DEF Extends
<1>3. QED
  BY <1>2 DEF Deliver, Keeps, Requests

LEMMA FinishKeeps ==
  ASSUME NEW r \in Requests
  PROVE  Keeps(r, FinishIfReady(r))
<1>1. r.inbox \in Seq(Messages) /\ Extends(r.inbox, r.inbox)
  BY DEF Requests, Extends
<1>2. Keeps(r, [r EXCEPT !.quit = TRUE])
  BY <1>1 DEF Keeps, Requests
<1>3. QED
  BY <1>2, KeepsItself DEF FinishIfReady

LEMMA ReplyMessages ==
  /\ \A answer \in Answers : <<"auth", answer>> \in Messages
  /\ <<"cancel", "-">> \in Messages /\ <<"departed", "-">> \in Messages
  /\ <<"look", "-">> \in Messages
  /\ \A d \in Displays : <<"display", d>> \in Messages
  BY DEF Messages, Answers

LEMMA CancelRemotelyKeeps ==
  ASSUME NEW r \in Requests
  PROVE  Keeps(r, CancelRemotely(r)) /\ CancelRemotely(r).cancelled = r.cancelled
<1>1. r.inbox \in Seq(Messages) /\ Extends(r.inbox, r.inbox)
  BY DEF Requests, Extends
<1>2. Keeps(r, [r EXCEPT !.cancelCall = TRUE])
  BY <1>1 DEF Keeps, Requests
<1> DEFINE s == [r EXCEPT !.cancelCall = TRUE, !.authCall = FALSE]
<1>3. Keeps(r, s) /\ s \in Requests /\ s.cancelled = r.cancelled
  BY <1>1 DEF Keeps, Requests
<1>4. <<"auth", "error">> \in Messages
  BY ReplyMessages DEF Answers
<1>5. Keeps(s, Deliver(s, "auth", "error"))
  BY <1>3, <1>4, DeliverKeeps
<1>6. Keeps(r, Deliver(s, "auth", "error"))
  BY <1>3, <1>5, KeepsTransitive
<1>7. Deliver(s, "auth", "error").cancelled = r.cancelled
  BY <1>3 DEF Deliver, Requests
<1>8. CASE r.authCall
  BY <1>6, <1>7, <1>8 DEF CancelRemotely
<1>9. CASE ~r.authCall
  BY <1>2, <1>9 DEF CancelRemotely, Requests
<1>10. QED
  BY <1>8, <1>9

\* A request that has not been admitted is cancelled by Cancel.
LEMMA CancelKeeps ==
  ASSUME NEW r \in Requests
  PROVE  Keeps(r, Cancel(r)) /\ (~r.admitted => Cancel(r).cancelled)
<1> DEFINE c == [r EXCEPT !.cancelled = TRUE, !.outcome = "cancelled"]
<1>1. r.inbox \in Seq(Messages) /\ Extends(r.inbox, r.inbox)
  BY DEF Requests, Extends
<1>2. Keeps(r, c) /\ c \in Requests /\ c.cancelled
  BY <1>1 DEF Keeps, Requests
<1>3. CASE r.cancelled \/ r.admitted
  BY <1>3, KeepsItself DEF Cancel
<1>4. CASE ~(r.cancelled \/ r.admitted) /\ r.started
  <2>1. Cancel(r) = CancelRemotely(c)
    BY <1>4, <1>2 DEF Cancel
  <2>2. Keeps(c, CancelRemotely(c)) /\ CancelRemotely(c).cancelled
    BY <1>2, CancelRemotelyKeeps
  <2>3. QED
    BY <1>2, <2>1, <2>2, KeepsTransitive
<1>5. CASE ~(r.cancelled \/ r.admitted) /\ ~r.started
  <2>1. Cancel(r) = [c EXCEPT !.retry = FALSE, !.quit = TRUE]
    BY <1>5 DEF Cancel
  <2>2. Keeps(r, Cancel(r)) /\ Cancel(r).cancelled
    BY <1>1, <2>1 DEF Keeps, Requests
  <2>3. QED
    BY <2>2
<1>6. QED
  BY <1>3, <1>4, <1>5

LEMMA CompletionsKeep ==
  ASSUME NEW r \in Requests, NEW answer \in Answers
  PROVE  Keeps(r, AuthorizationFinished(r, answer)) /\ Keeps(r, CancellationFinished(r))
<1>1. r.inbox \in Seq(Messages) /\ Extends(r.inbox, r.inbox)
  BY DEF Requests, Extends
<1> DEFINE f == [r EXCEPT !.started = FALSE]
           Answered(o) == [f EXCEPT !.authDone = TRUE, !.outcome = o]
           d == [r EXCEPT !.cancelDone = TRUE, !.cancelCall = FALSE]
<1>2. Keeps(r, [f EXCEPT !.retry = TRUE])
  BY <1>1 DEF Keeps, Requests
<1>3. ASSUME NEW o \in {"approved", "denied", "cancelled"}
      PROVE  Keeps(r, FinishIfReady(Answered(o)))
  <2>1. Keeps(r, Answered(o)) /\ Answered(o) \in Requests
    BY <1>1 DEF Keeps, Requests
  <2> HIDE DEF Answered
  <2>2. QED
    BY <2>1, FinishKeeps, KeepsTransitive
<1>4. Keeps(r, AuthorizationFinished(r, answer))
  <2> DEFINE o == IF r.cancelled THEN f.outcome
                  ELSE CASE answer = "approved"  -> "approved"
                         [] answer = "dismissed" -> "cancelled"
                         [] OTHER                -> "denied"
  <2>1. o \in {"approved", "denied", "cancelled"}
    BY DEF Requests
  <2>2. f.outcome = f.outcome /\ f.cancelled = r.cancelled
    BY DEF Requests
  <2>3. Answered(o) = [f EXCEPT !.authDone = TRUE, !.outcome =
             IF r.cancelled THEN @
             ELSE CASE answer = "approved"  -> "approved"
                    [] answer = "dismissed" -> "cancelled"
                    [] OTHER                -> "denied"]
    BY DEF Requests
  <2>4. \/ AuthorizationFinished(r, answer) = [f EXCEPT !.retry = TRUE]
        \/ AuthorizationFinished(r, answer) = FinishIfReady(Answered(o))
    BY <2>3 DEF AuthorizationFinished
  <2> HIDE DEF o, Answered
  <2>5. QED
    BY <1>2, <1>3, <2>1, <2>4
<1>5. Keeps(r, CancellationFinished(r))
  <2>1. Keeps(r, d) /\ d \in Requests
    BY <1>1 DEF Keeps, Requests
  <2>2. QED
    BY <2>1, FinishKeeps, KeepsTransitive DEF CancellationFinished
<1>6. QED
  BY <1>4, <1>5

LEMMA RetryKeeps ==
  ASSUME NEW r \in Requests
  PROVE  Keeps(r, StartCheck(r)) /\ Keeps(r, RetryCheck(r))
<1>1. \A q \in Requests : Keeps(q, StartCheck(q))
  <2>1. TAKE q \in Requests
  <2>2. q.inbox \in Seq(Messages) /\ Extends(q.inbox, q.inbox)
    BY DEF Requests, Extends
  <2>3. QED
    BY <2>2 DEF StartCheck, Keeps, Requests
<1> DEFINE f == [r EXCEPT !.retry = FALSE]
           d == [f EXCEPT !.authDone = TRUE]
<1>2. r.inbox \in Seq(Messages) /\ Extends(r.inbox, r.inbox)
  BY DEF Requests, Extends
<1>3. Keeps(r, f) /\ f \in Requests /\ Keeps(r, d) /\ d \in Requests
  BY <1>2 DEF Keeps, Requests
<1>4. Keeps(r, StartCheck(f)) /\ Keeps(r, FinishIfReady(d))
  BY <1>1, <1>3, FinishKeeps, KeepsTransitive
<1>5. QED
  BY <1>1, <1>4 DEF RetryCheck

\* A reply is queued or dropped.
LEMMA RepliedKeeps ==
  ASSUME NEW r \in Requests, NEW serial, NEW kind \in {"auth", "cancel"},
         NEW answer \in Answers \cup {"-"}, kind = "auth" => answer \in Answers
  PROVE  Keeps(r, Replied(r, serial, kind, answer))
<1>1. r.inbox \in Seq(Messages) /\ Extends(r.inbox, r.inbox)
  BY DEF Requests, Extends
<1> DEFINE a == [r EXCEPT !.authCall = FALSE]
           c == [r EXCEPT !.cancelCall = FALSE]
<1>2. Keeps(r, a) /\ a \in Requests /\ Keeps(r, c) /\ c \in Requests
  BY <1>1 DEF Keeps, Requests
<1>3. Keeps(r, Deliver(c, "cancel", "-"))
  BY <1>2, ReplyMessages, DeliverKeeps, KeepsTransitive
<1>4. kind = "auth" => Keeps(r, Deliver(a, "auth", answer))
  BY <1>2, ReplyMessages, DeliverKeeps, KeepsTransitive
<1>5. QED
  BY <1>3, <1>4, KeepsItself DEF Replied

\* Dispatching the head of the queue: a fatal message cancels, any other one is
\* dropped without ending the departure that a later message announces.
LEMMA HandledKeeps ==
  ASSUME NEW r \in Requests, NEW m \in Messages, NEW s \in Handled(r, m)
  PROVE  Keeps(r, s) /\ (Fatal(r, m) /\ ~r.admitted => s.cancelled)
<1>1. Keeps(r, Cancel(r)) /\ Keeps(r, r) /\ (~r.admitted => Cancel(r).cancelled)
  BY CancelKeeps, KeepsItself
<1>2. CASE m[1] = "departed"
  BY <1>1, <1>2 DEF Handled
<1>3. CASE m[1] = "look"
  <2>1. s \in {r, Cancel(r)}
    BY <1>3 DEF Handled, Reads
  <2>2. ~Fatal(r, m)
    BY <1>3 DEF Fatal
  <2>3. QED
    BY <1>1, <2>1, <2>2
<1>4. CASE m[1] = "display"
  <2>1. s = IF m[2] # r.display THEN Cancel(r) ELSE r
    BY <1>4 DEF Handled
  <2>2. QED
    BY <1>1, <1>4, <2>1 DEF Fatal
<1>5. CASE m[1] = "auth"
  <2>1. s = AuthorizationFinished(r, m[2]) /\ m[2] \in Answers /\ ~Fatal(r, m)
    BY <1>5 DEF Handled, Messages, Fatal
  <2>2. QED
    BY <2>1, CompletionsKeep
<1>6. CASE m[1] = "cancel"
  <2>1. s = CancellationFinished(r) /\ ~Fatal(r, m)
    BY <1>6 DEF Handled, Fatal
  <2>2. Keeps(r, CancellationFinished(r))
    BY CompletionsKeep DEF Answers
  <2>3. QED
    BY <2>1, <2>2
<1>7. QED
  BY <1>2, <1>3, <1>4, <1>5, <1>6 DEF Messages

LEMMA DispatchNotes ==
  ASSUME NEW r \in Requests, r.inbox # <<>>, Noted(r),
         NEW s \in Handled([r EXCEPT !.inbox = Tail(@)], Head(r.inbox))
  PROVE  /\ Noted(s) /\ s \in Requests
         /\ s.pc = r.pc /\ s.serial = r.serial /\ s.display = r.display
         /\ s.left = r.left /\ s.admitted = r.admitted
<1> DEFINE t == [r EXCEPT !.inbox = Tail(@)]
           m == Head(r.inbox)
<1>1. r.inbox \in Seq(Messages)
  BY DEF Requests
<1>2. t.inbox \in Seq(Messages) /\ m \in Messages /\ t.inbox = Tail(r.inbox)
  BY <1>1 DEF Requests
<1>3. /\ t \in Requests /\ t.pc = r.pc /\ t.serial = r.serial /\ t.display = r.display
      /\ t.left = r.left /\ t.admitted = r.admitted /\ t.cancelled = r.cancelled
  BY <1>2 DEF Requests
<1> HIDE DEF t, m
<1>4. Keeps(t, s) /\ (Fatal(t, m) /\ ~t.admitted => s.cancelled)
  BY <1>2, <1>3, HandledKeeps DEF t, m
<1>5. Noted(s)
  <2>1. CASE Fatal(t, m)
    BY <1>3, <1>4, <2>1 DEF Keeps, Noted
  <2>2. CASE ~Fatal(t, m)
    <3>1. SUFFICES Noted(t)
      BY <1>3, <1>4, KeepsNoted
    <3>2. SUFFICES ASSUME r.left, ~r.admitted, ~r.cancelled
                   PROVE  \E i \in DOMAIN t.inbox : Fatal(t, t.inbox[i])
      BY <1>3 DEF Noted
    <3>3. PICK i \in DOMAIN r.inbox : Fatal(r, r.inbox[i])
      BY <3>2 DEF Noted
    <3>4. i # 1
      BY <1>1, <1>3, <2>2, <3>3 DEF m, Fatal
    <3>5. i - 1 \in DOMAIN t.inbox /\ t.inbox[i - 1] = r.inbox[i]
      BY <1>1, <1>2, <3>3, <3>4
    <3>6. QED
      BY <1>3, <3>3, <3>5 DEF Fatal
  <2>3. QED
    BY <2>1, <2>2
<1>6. QED
  BY <1>3, <1>4, <1>5 DEF Keeps

-----------------------------------------------------------------------------
(* The steps. *)

\* What the invariant says of the request that holds the lock.
Sound(r) ==
  /\ r \in Requests
  /\ Identified(r) /\ DisplayUnread(r) /\ Noted(r)
  /\ r.admitted => ~r.left

LifetimeInv == TypeOK /\ Sound(req)

\* A handler that keeps the request keeps it sound.
LEMMA KeepsSound ==
  ASSUME NEW r, NEW s, Sound(r), Keeps(r, s)
  PROVE  Sound(s)
<1>1. Noted(s)
  BY KeepsNoted DEF Sound
<1>2. QED
  BY <1>1 DEF Sound, Keeps, Identified, DisplayUnread

\* The worker goes on to another stage.
LEMMA MovesSound ==
  ASSUME NEW r, Sound(r), NEW pc \in Stages,
         r.pc # "idle", pc \in {"idle", "resolve", "readDisplay"} => r.display = "unread"
  PROVE  Sound([r EXCEPT !.pc = pc])
<1> DEFINE s == [r EXCEPT !.pc = pc]
<1>1. /\ s \in Requests /\ s.pc = pc /\ s.serial = r.serial /\ s.display = r.display
      /\ s.left = r.left /\ s.admitted = r.admitted /\ s.cancelled = r.cancelled
      /\ s.inbox = r.inbox
  BY DEF Sound, Requests
<1>2. QED
  BY <1>1 DEF Sound, Identified, DisplayUnread, Noted, Fatal

\* Becomes: the request is sound at its new stage, and its calls name its own id.
LEMMA BecomesSound ==
  ASSUME LifetimeInv, ~Idle, NEW r, Sound(r), r.pc # "idle", NEW pc \in Stages,
         pc \in {"idle", "resolve", "readDisplay"} => r.display = "unread",
         Becomes(r, pc)
  PROVE  Sound(req') /\ queue' \in Seq({"check", "cancel"} \X Serials)
<1>1. Sound(req')
  BY MovesSound DEF Becomes
<1>2. r.serial \in Serials
  BY DEF Sound, Identified
<1>3. Sent(req, r) \in Seq({"check", "cancel"} \X Serials)
  BY <1>2 DEF Sent
<1>4. queue \in Seq({"check", "cancel"} \X Serials)
  BY DEF LifetimeInv, TypeOK
<1>5. QED
  BY <1>1, <1>3, <1>4 DEF Becomes

THEOREM InitLifetime == Init => LifetimeInv
<1> SUFFICES ASSUME Init PROVE LifetimeInv
  OBVIOUS
<1>1. Sound(req)
  BY DEF Init, Sound, Identified, DisplayUnread, Noted, NoRequest, Requests, Stages
<1>2. <<>> \in Seq({"check", "cancel"} \X Serials) /\ rested \in [Callers -> BOOLEAN]
  BY DEF Init
<1>3. TypeOK
  BY <1>1, <1>2 DEF Init, TypeOK, Sound
<1>4. QED
  BY <1>1, <1>3 DEF LifetimeInv

\* A worker step that keeps the request, in what it does not touch.
LEMMA KeepingStep ==
  ASSUME LifetimeInv, ~Idle, NEW r, Keeps(req, r), NEW pc \in Stages,
         pc \in {"idle", "resolve", "readDisplay"} => req.display = "unread",
         Becomes(r, pc)
  PROVE  Sound(req') /\ queue' \in Seq({"check", "cancel"} \X Serials)
<1>1. Sound(r)
  BY KeepsSound DEF LifetimeInv
<1>2. r.pc # "idle" /\ r.display = req.display
  BY DEF Keeps, Idle
<1>3. QED
  BY <1>1, <1>2, BecomesSound

\* The rest of the types, for a step that changes no more than the request,
\* the calls and the history.
LEMMA RestTyped ==
  ASSUME LifetimeInv, UNCHANGED <<world, authority>>,
         grace' \in BOOLEAN, rested' \in [Callers -> BOOLEAN], cleanupFailed' \in BOOLEAN,
         Sound(req'), queue' \in Seq({"check", "cancel"} \X Serials)
  PROVE  LifetimeInv'
  BY DEF LifetimeInv, TypeOK, Sound, world, authority

THEOREM WorkerLifetime == LifetimeInv /\ Worker => LifetimeInv'
<1> SUFFICES ASSUME LifetimeInv, Worker PROVE LifetimeInv'
  OBVIOUS
<1> USE DEF Idle
<1>0. /\ req \in Requests /\ Sound(req) /\ Keeps(req, req)
      /\ Keeps(req, Cancel(req)) /\ Keeps(req, StartCheck(req))
      /\ grace \in BOOLEAN /\ rested \in [Callers -> BOOLEAN] /\ cleanupFailed \in BOOLEAN
      /\ req.pc \in Stages
  BY KeepsItself, CancelKeeps, RetryKeeps DEF LifetimeInv, Sound, TypeOK, Requests
<1>1. CASE ResolveSession
  <2> DEFINE a == [req EXCEPT !.watchesSession = TRUE]
             d == [req EXCEPT !.watchesDisplay = TRUE]
  <2>1. req.pc = "resolve" /\ req.display = "unread"
    BY <1>0, <1>1 DEF ResolveSession, Sound, DisplayUnread
  <2>2. Keeps(req, a) /\ Keeps(req, d)
    <3>1. req.inbox \in Seq(Messages) /\ Extends(req.inbox, req.inbox)
      BY <1>0 DEF Requests, Extends
    <3>2. QED
      BY <1>0, <3>1 DEF Keeps, Requests
  <2>3. Sound(req') /\ queue' \in Seq({"check", "cancel"} \X Serials)
    BY <1>0, <1>1, <2>1, <2>2, KeepingStep DEF ResolveSession, Stages, Drains
  <2>4. QED
    BY <1>0, <1>1, <2>3, RestTyped DEF ResolveSession, Elsewhere
<1>2. CASE ReadDisplay
  <2> DEFINE r == [req EXCEPT !.display = display, !.watchesSession = display # "none"]
  <2>1. req.pc = "readDisplay" /\ req.display = "unread"
    BY <1>0, <1>2 DEF ReadDisplay, Sound, DisplayUnread
  <2>2. Becomes(req, "close") => Sound(req') /\ queue' \in Seq({"check", "cancel"} \X Serials)
    BY <1>0, <2>1, KeepingStep DEF Stages
  <2>3. r \in Requests
    BY <1>0 DEF Requests, LifetimeInv, TypeOK
  <2>4. /\ r.pc = req.pc /\ r.serial = req.serial /\ r.inbox = req.inbox
        /\ r.left = req.left /\ r.admitted = req.admitted /\ r.cancelled = req.cancelled
    BY <1>0 DEF Requests
  <2> HIDE DEF r
  <2>5. Noted(r)
    BY <1>0, <2>1, <2>4 DEF Sound, Noted, Fatal
  <2>6. \A pc \in {"drain", "snapshot"} : Sound([r EXCEPT !.pc = pc])
    <3>1. TAKE pc \in {"drain", "snapshot"}
    <3> DEFINE q == [r EXCEPT !.pc = pc]
    <3>2. /\ q \in Requests /\ q.pc = pc /\ q.serial = r.serial /\ q.display = r.display
          /\ q.inbox = r.inbox /\ q.left = r.left /\ q.admitted = r.admitted
          /\ q.cancelled = r.cancelled
      BY <2>3 DEF Requests, Stages, Drains
    <3>3. QED
      BY <1>0, <2>1, <2>4, <2>5, <3>2 DEF Sound, Identified, DisplayUnread, Noted, Fatal
  <2>7. r.serial \in Serials
    BY <1>0, <2>1, <2>4 DEF Sound, Identified
  <2>8. ASSUME NEW pc \in {"drain", "snapshot"}, Becomes(r, pc)
        PROVE  Sound(req') /\ queue' \in Seq({"check", "cancel"} \X Serials)
    <3>1. Sent(req, r) \in Seq({"check", "cancel"} \X Serials)
      BY <2>7 DEF Sent
    <3>2. queue \in Seq({"check", "cancel"} \X Serials)
      BY DEF LifetimeInv, TypeOK
    <3>3. req' = [r EXCEPT !.pc = pc] /\ queue' = queue \o Sent(req, r)
      BY <2>8 DEF Becomes
    <3>4. Sound(req')
      BY <2>6, <3>3
    <3>5. QED
      BY <3>1, <3>2, <3>3, <3>4
  <2>9. Sound(req') /\ queue' \in Seq({"check", "cancel"} \X Serials)
    BY <1>2, <2>2, <2>8 DEF ReadDisplay, r
  <2>10. QED
    BY <1>0, <1>2, <2>9, RestTyped DEF ReadDisplay, Elsewhere
<1>3. CASE InitialSnapshot
  <2>1. PICK r \in Reads(req, SessionAway(req)) :
          Becomes(r, IF r.cancelled THEN "close" ELSE "drain")
    BY <1>3 DEF InitialSnapshot
  <2>2. Keeps(req, r)
    BY <1>0 DEF Reads
  <2>3. Sound(req') /\ queue' \in Seq({"check", "cancel"} \X Serials)
    BY <1>3, <2>1, <2>2, KeepingStep DEF InitialSnapshot, Stages, Drains
  <2>4. QED
    BY <1>0, <1>3, <2>3, RestTyped DEF InitialSnapshot, Elsewhere
<1>4. CASE CheckAuthorization
  <2>1. Sound(req') /\ queue' \in Seq({"check", "cancel"} \X Serials)
    BY <1>0, <1>4, KeepingStep DEF CheckAuthorization, Stages
  <2>2. QED
    BY <1>0, <1>4, <2>1, RestTyped DEF CheckAuthorization
<1>5. CASE Dispatch
  <2>1. PICK r \in Handled([req EXCEPT !.inbox = Tail(@)], Head(req.inbox)) : Becomes(r, req.pc)
    BY <1>5 DEF Dispatch
  <2>2. Sound(r) /\ r.pc = req.pc /\ req.pc \in Drains \cup {"loop"} /\ r.display = req.display
    BY <1>0, <1>5, DispatchNotes DEF Dispatch, Sound, Identified, DisplayUnread
  <2>3. Sound(req') /\ queue' \in Seq({"check", "cancel"} \X Serials)
    BY <1>0, <2>1, <2>2, BecomesSound DEF Drains, Stages
  <2>4. QED
    BY <1>0, <1>5, <2>3, RestTyped DEF Dispatch, Elsewhere
<1>6. CASE LoopReturns
  <2>1. Sound(req') /\ queue' \in Seq({"check", "cancel"} \X Serials)
    BY <1>0, <1>6, KeepingStep DEF LoopReturns, Stages
  <2>2. QED
    BY <1>0, <1>6, <2>1, RestTyped DEF LoopReturns, Elsewhere
<1>7. CASE Recheck("recheck", "preflight") \/ Recheck("preflight", "admit")
  <2>1. Sound(req') /\ queue' \in Seq({"check", "cancel"} \X Serials)
    BY <1>0, <1>7, KeepingStep DEF Recheck, Stages, Drains
  <2>2. QED
    BY <1>0, <1>7, <2>1, RestTyped DEF Recheck, Elsewhere
<1>8. CASE BeginAdmission
  <2>1. Sound(req') /\ queue' \in Seq({"check", "cancel"} \X Serials)
    BY <1>0, <1>8, KeepingStep DEF BeginAdmission, Stages
  <2>2. QED
    BY <1>0, <1>8, <2>1, RestTyped DEF BeginAdmission, Elsewhere
<1>9. CASE AdmissionReads
  <2>1. Sound(req') /\ queue' \in Seq({"check", "cancel"} \X Serials)
    BY <1>0, <1>9, KeepingStep DEF AdmissionReads, Stages, Drains
  <2>2. QED
    BY <1>0, <1>9, <2>1, RestTyped DEF AdmissionReads, Elsewhere
<1>10. CASE Latch
  <2> DEFINE r == [req EXCEPT !.admitted = TRUE]
  <2>1. req.pc = "latch" /\ req.inbox = <<>>
    BY <1>10 DEF Latch, Drained
  <2>2. CASE req.cancelled
    <3>1. Sound(req') /\ queue' \in Seq({"check", "cancel"} \X Serials)
      BY <1>0, <1>10, <2>1, <2>2, KeepingStep DEF Latch, Stages
    <3>2. QED
      BY <1>0, <1>10, <3>1, RestTyped DEF Latch, Elsewhere
  <2>3. CASE ~req.cancelled
    <3>1. ~req.left \/ req.admitted
      BY <1>0, <2>1, <2>3 DEF Sound, Noted
    <3>2. ~req.left
      BY <1>0, <3>1 DEF Sound
    <3>3. /\ r \in Requests /\ r.pc = req.pc /\ r.serial = req.serial
          /\ r.display = req.display /\ r.left = req.left
      BY <1>0 DEF Requests
    <3>4. Sound(r)
      BY <1>0, <3>2, <3>3 DEF Sound, Identified, DisplayUnread, Noted
    <3>5. Becomes(r, "effects")
      BY <1>10, <2>3 DEF Latch
    <3> HIDE DEF r
    <3>6. Sound(req') /\ queue' \in Seq({"check", "cancel"} \X Serials)
      BY <2>1, <3>3, <3>4, <3>5, BecomesSound DEF Stages
    <3>7. QED
      BY <1>0, <1>10, <3>6, RestTyped DEF Latch, Elsewhere
  <2>4. QED
    BY <2>2, <2>3
<1>11. CASE Effects
  <2>1. Sound(req') /\ queue' \in Seq({"check", "cancel"} \X Serials)
    BY <1>0, <1>11, KeepingStep DEF Effects, Stages
  <2>2. rested' \in [Callers -> BOOLEAN]
    BY <1>0, <1>11 DEF Effects, RateLimited
  <2>3. QED
    BY <1>0, <1>11, <2>1, <2>2, RestTyped DEF Effects
<1>12. CASE Close
  <2>1. Sound(NoRequest)
    BY DEF Sound, Identified, DisplayUnread, Noted, NoRequest, Requests, Stages
  <2>2. QED
    BY <1>12, <2>1 DEF Close, LifetimeInv, TypeOK, Sound, authority
<1>13. QED
  BY <1>1, <1>2, <1>3, <1>4, <1>5, <1>6, <1>7, <1>8, <1>9, <1>10, <1>11, <1>12 DEF Worker

\* Of a signal: it is queued, and a departure it notes is one its handler will see.
LEMMA SignalSound ==
  ASSUME Sound(req), NEW watched \in BOOLEAN, NEW kind, NEW value, NEW departure \in BOOLEAN,
         <<kind, value>> \in Messages, departure => Fatal(req, <<kind, value>>),
         Signal(watched, kind, value, departure)
  PROVE  Sound(req')
<1> DEFINE d == Deliver(req, kind, value)
           s == [d EXCEPT !.events = @ + 1, !.left = @ \/ (departure /\ ~req.admitted)]
<1>1. CASE ~watched
  BY <1>1 DEF Signal
<1>2. CASE watched
  <2>1. req' = s /\ req \in Requests
    BY <1>2 DEF Signal, Sound
  <2>2. Keeps(req, d) /\ d \in Requests
    BY <2>1, DeliverKeeps DEF Keeps
  <2>3. Sound(d)
    BY <2>2, KeepsSound
  <2>4. /\ req.inbox \in Seq(Messages) /\ d.inbox = Append(req.inbox, <<kind, value>>)
        /\ d.display = req.display /\ d.admitted = req.admitted
    BY <2>1 DEF Requests, Deliver
  <2>5. departure => \E i \in DOMAIN d.inbox : Fatal(d, d.inbox[i])
    <3>1. SUFFICES ASSUME departure
                   PROVE  Fatal(d, d.inbox[Len(d.inbox)]) /\ Len(d.inbox) \in DOMAIN d.inbox
      OBVIOUS
    <3>2. Len(d.inbox) \in DOMAIN d.inbox /\ d.inbox[Len(d.inbox)] = <<kind, value>>
      BY <2>4
    <3>3. Fatal(d, <<kind, value>>)
      BY <2>4, <3>1 DEF Fatal
    <3>4. QED
      BY <3>2, <3>3
  <2> HIDE DEF d
  <2> DEFINE b == d.left \/ (departure /\ ~req.admitted)
             e == d.events + 1
             t == [d EXCEPT !.events = e, !.left = b]
  <2>a. b \in BOOLEAN /\ e \in Nat /\ s = t
    <3>1. b \in BOOLEAN
      OBVIOUS
    <3>2. e \in Nat
      BY <2>2 DEF Requests
    <3>3. s = t
      BY <2>2 DEF Requests
    <3>4. QED
      BY <3>1, <3>2, <3>3
  <2>b. b = (d.left \/ (departure /\ ~d.admitted))
    BY <2>4
  <2> HIDE DEF b, e
  <2>c. /\ t \in Requests /\ t.pc = d.pc /\ t.serial = d.serial /\ t.display = d.display
        /\ t.admitted = d.admitted /\ t.cancelled = d.cancelled /\ t.inbox = d.inbox
        /\ t.left = b
    BY <2>2, <2>a DEF Requests
  <2> HIDE DEF t
  <2>6. /\ s \in Requests /\ s.pc = d.pc /\ s.serial = d.serial /\ s.display = d.display
        /\ s.admitted = d.admitted /\ s.cancelled = d.cancelled /\ s.inbox = d.inbox
        /\ s.left = (d.left \/ (departure /\ ~d.admitted))
    BY <2>a, <2>b, <2>c
  <2>7. Noted(s)
    BY <2>3, <2>5, <2>6 DEF Sound, Noted, Fatal
  <2>8. Sound(s)
    BY <2>3, <2>6, <2>7 DEF Sound, Identified, DisplayUnread
  <2>9. QED
    BY <2>1, <2>8
<1>3. QED
  BY <1>1, <1>2

THEOREM RequesterLifetime == LifetimeInv /\ Requester => LifetimeInv'
<1> SUFFICES ASSUME LifetimeInv, Requester PROVE LifetimeInv'
  OBVIOUS
<1>0. TypeOK /\ Sound(req) /\ req \in Requests
  BY DEF LifetimeInv, Sound
<1>a. \A v : <<"departed", v>>[1] = "departed" /\ Fatal(req, <<"departed", v>>)
  BY DEF Fatal
<1>1. CASE CallerDisconnects
  <2>1. Sound(req')
    BY <1>0, <1>1, <1>a, ReplyMessages, SignalSound DEF CallerDisconnects
  <2>2. QED
    BY <1>0, <1>1, <2>1 DEF CallerDisconnects, Unrelated, authority, LifetimeInv, TypeOK, Sound
<1>2. CASE LoginServiceRestarts
  <2>1. Sound(req')
    BY <1>0, <1>2, <1>a, ReplyMessages, SignalSound DEF LoginServiceRestarts
  <2>2. QED
    BY <1>0, <1>2, <2>1
    DEF LoginServiceRestarts, Unrelated, authority, world, LifetimeInv, TypeOK, Sound
<1>3. CASE SessionLeaves
  <2>1. req.watchesSession \in BOOLEAN
    BY <1>0 DEF Requests
  <2>2. Sound(req')
    BY <1>0, <1>3, <1>a, <2>1, ReplyMessages, SignalSound DEF SessionLeaves
  <2>3. QED
    BY <1>0, <1>3, <2>2 DEF SessionLeaves, Unrelated, authority, LifetimeInv, TypeOK, Sound
<1>4. CASE SessionReturns
  BY <1>0, <1>4 DEF SessionReturns, Unrelated, authority, LifetimeInv, TypeOK, Sound
<1>5. ASSUME NEW other \in Displays, DisplayChanges(other)
      PROVE  LifetimeInv'
  <2> DEFINE departure == req.display \notin {"unread", other}
  <2>1. req.watchesDisplay \in BOOLEAN /\ departure \in BOOLEAN
    BY <1>0 DEF Requests
  <2>2. departure => Fatal(req, <<"display", other>>)
    BY DEF Fatal
  <2>3. Signal(req.watchesDisplay, "display", other, departure)
    BY <1>5 DEF DisplayChanges
  <2>4. <<"display", other>> \in Messages
    BY ReplyMessages
  <2> HIDE DEF departure
  <2>5. Sound(req')
    BY <1>0, <2>1, <2>2, <2>3, <2>4, SignalSound
  <2>6. QED
    BY <1>0, <1>5, <2>5 DEF DisplayChanges, Unrelated, authority, LifetimeInv, TypeOK, Sound
<1>6. CASE Invalidated
  <2>1. Sound(req')
    BY <1>0, <1>6, ReplyMessages, SignalSound DEF Invalidated
  <2>2. QED
    BY <1>0, <1>6, <2>1 DEF Invalidated, Unrelated, authority, world, LifetimeInv, TypeOK, Sound
<1>7. QED
  BY <1>1, <1>2, <1>3, <1>4, <1>5, <1>6 DEF Requester

THEOREM AuthorityLifetime == LifetimeInv /\ Authority => LifetimeInv'
<1> SUFFICES ASSUME LifetimeInv, Authority PROVE LifetimeInv'
  OBVIOUS
<1>0. TypeOK /\ Sound(req) /\ req \in Requests
  BY DEF LifetimeInv, Sound
<1> DEFINE Calls == {"check", "cancel"} \X Serials
           Fails(serial) == Replied(req, serial, "auth", "error")
<1>1. /\ \A serial : \A answer \in Answers : Sound(Replied(req, serial, "auth", answer))
      /\ \A serial : Sound(Replied(Fails(serial), serial, "cancel", "-"))
  <2>1. \A r \in Requests : \A serial : \A answer \in Answers :
          Keeps(r, Replied(r, serial, "auth", answer))
    BY RepliedKeeps
  <2>2. \A r \in Requests : \A serial : Keeps(r, Replied(r, serial, "cancel", "-"))
    BY RepliedKeeps
  <2>3. \A serial : Sound(Fails(serial))
    BY <1>0, <2>1, KeepsSound DEF Answers
  <2>4. \A serial : Keeps(Fails(serial), Replied(Fails(serial), serial, "cancel", "-"))
    BY <2>2, <2>3 DEF Sound
  <2>5. QED
    BY <1>0, <2>1, <2>3, <2>4, KeepsSound
<1>2. CASE PolkitTakes
  <2>1. queue \in Seq(Calls) /\ queue # <<>>
    BY <1>0, <1>2 DEF TypeOK, PolkitTakes
  <2>2. Tail(queue) \in Seq(Calls) /\ Head(queue) \in Calls /\ Head(queue)[2] \in Serials
    BY <2>1
  <2>3. Sound(req')
    BY <1>0, <1>1, <1>2 DEF PolkitTakes, Answers
  <2>4. prompts' \subseteq Serials
    BY <1>0, <1>2, <2>2 DEF PolkitTakes, TypeOK
  <2>5. QED
    BY <1>0, <1>2, <2>2, <2>3, <2>4 DEF PolkitTakes, world, LifetimeInv, TypeOK, Sound
<1>3. ASSUME NEW answer \in {"approved", "denied", "dismissed"}, ParentAnswers(answer)
      PROVE  LifetimeInv'
  <2>1. Sound(req')
    BY <1>1, <1>3 DEF ParentAnswers, Answers
  <2>2. QED
    BY <1>0, <1>3, <2>1 DEF ParentAnswers, world, LifetimeInv, TypeOK, Sound
<1>4. CASE AgentRegisters
  BY <1>0, <1>4 DEF AgentRegisters, world, LifetimeInv, TypeOK
<1>5. CASE AgentLeaves
  <2>1. Sound(req')
    BY <1>0, <1>1, <1>5 DEF AgentLeaves, Answers
  <2>2. QED
    BY <1>0, <1>5, <2>1 DEF AgentLeaves, world, LifetimeInv, TypeOK, Sound
<1>6. CASE PolkitFails
  <2>1. Sound(req') /\ queue' \in Seq(Calls)
    BY <1>1, <1>6 DEF PolkitFails
  <2>2. QED
    BY <1>0, <1>6, <2>1 DEF PolkitFails, world, LifetimeInv, TypeOK, Sound
<1>7. QED
  BY <1>2, <1>3, <1>4, <1>5, <1>6 DEF Authority

THEOREM NextLifetime == LifetimeInv /\ [Next]_vars => LifetimeInv'
<1> SUFFICES ASSUME LifetimeInv, [Next]_vars PROVE LifetimeInv'
  OBVIOUS
<1>0. TypeOK /\ Sound(req) /\ req \in Requests
  BY DEF LifetimeInv, Sound
<1>1. ASSUME NEW caller \in Callers, NEW serial \in Serials, RequestAccess(caller, serial)
      PROVE  LifetimeInv'
  <2>1. req' = [NoRequest EXCEPT !.pc = "resolve", !.caller = caller, !.serial = serial]
    BY <1>1 DEF RequestAccess
  <2>2. caller \in {"kiosk", "child"}
    BY CallersAssumption
  <2>a. /\ NoRequest \in Requests /\ NoRequest.display = "unread"
        /\ ~NoRequest.left /\ ~NoRequest.admitted
    BY DEF NoRequest, Requests, Stages
  <2>b. /\ req' \in Requests /\ req'.pc = "resolve" /\ req'.serial = serial
        /\ req'.display = "unread" /\ ~req'.left /\ ~req'.admitted
    BY <2>1, <2>2, <2>a DEF Requests, Stages
  <2>3. Sound(req')
    BY <2>b DEF Sound, Identified, DisplayUnread, Noted
  <2>4. cleanupFailed' \in BOOLEAN
    BY <1>0, <1>1 DEF RequestAccess, TypeOK
  <2>5. QED
    BY <1>0, <1>1, <2>3, <2>4 DEF RequestAccess, authority, LifetimeInv, TypeOK, Sound
<1>2. CASE Worker
  BY <1>2, WorkerLifetime
<1>3. CASE RetryTimer
  <2>1. Keeps(req, RetryCheck(req)) /\ req.pc = "loop"
    BY <1>0, <1>3, RetryKeeps DEF RetryTimer
  <2>2. Sound(req') /\ queue' \in Seq({"check", "cancel"} \X Serials)
    BY <1>3, <2>1, KeepingStep DEF RetryTimer, Idle, Stages
  <2>3. QED
    BY <1>0, <1>3, <2>2, RestTyped DEF RetryTimer, Elsewhere, TypeOK
<1>4. CASE CancelTimesOut
  <2>1. Keeps(req, Replied(req, req.serial, "cancel", "-"))
    BY <1>0, RepliedKeeps
  <2>2. Sound(req')
    BY <1>0, <1>4, <2>1, KeepsSound DEF CancelTimesOut
  <2>3. QED
    BY <1>0, <1>4, <2>2 DEF CancelTimesOut, world, authority, LifetimeInv, TypeOK, Sound
<1>5. CASE GraceEnds
  BY <1>0, <1>5 DEF GraceEnds, world, authority, LifetimeInv, TypeOK
<1>6. ASSUME NEW caller \in Callers, IntervalElapses(caller)
      PROVE  LifetimeInv'
  BY <1>0, <1>6 DEF IntervalElapses, world, authority, LifetimeInv, TypeOK
<1>7. CASE Requester
  BY <1>7, RequesterLifetime
<1>8. CASE Authority
  BY <1>8, AuthorityLifetime
<1>9. CASE UNCHANGED vars
  BY <1>9 DEF vars, LifetimeInv, TypeOK
<1>10. QED
  BY <1>1, <1>2, <1>3, <1>4, <1>5, <1>6, <1>7, <1>8, <1>9 DEF Next

\* The inductive invariant holds of every behaviour of the approval's lifetime.
THEOREM LifetimeInvariant == Spec => []LifetimeInv
<1>1. QED
  BY InitLifetime, NextLifetime, PTL DEF Spec

\* Every variable keeps to its domain, for any callers, ids, displays and signals.
THEOREM LifetimeTypes == Spec => []TypeOK
<1>1. LifetimeInv => TypeOK
  BY DEF LifetimeInv
<1>2. QED
  BY <1>1, LifetimeInvariant, PTL

\* No effect is ever admitted for a requester who disconnected, locked, switched or
\* lost the login service since the request began to watch it (admit()).
THEOREM AdmissionSafety == Spec => []AdmittedInSession
<1>1. LifetimeInv => AdmittedInSession
  BY DEF LifetimeInv, Sound, AdmittedInSession
<1>2. QED
  BY <1>1, LifetimeInvariant, PTL

=============================================================================
