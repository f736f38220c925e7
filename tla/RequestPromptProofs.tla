-------------------------- MODULE RequestPromptProofs --------------------------
(***************************************************************************)
(* No prompt is left that nobody attends to, for any number of callers,    *)
(* ids, displays and signals.                                              *)
(*                                                                         *)
(* PromptAttended relates the prompts and the calls on their way to the    *)
(* two calls the request has open.  It is kept because the flags of the    *)
(* request keep an order (Ordered: a check is not started twice, nor after *)
(* it was cancelled or answered) and because what is on its way is in one  *)
(* of four shapes (Balanced: a cancellation never overtakes its check).    *)
(***************************************************************************)
EXTENDS RequestLifetimeProofs, SequenceTheorems

Holds(q, kind) == \E i \in DOMAIN q : q[i][1] = kind
Once(q, kind) == \A i, j \in DOMAIN q : q[i][1] = kind /\ q[j][1] = kind => i = j

BeforeLoop == {"idle", "resolve", "readDisplay", "snapshot", "drain"}

\* What the flags of a request imply of each other and of the replies queued.
Ordered(r) ==
  /\ r.authCall => r.started /\ ~r.cancelled
  /\ r.cancelCall => r.cancelled /\ ~r.cancelDone
  /\ r.cancelDone => r.cancelled
  /\ r.started => ~r.authDone /\ ~r.retry
  /\ r.retry => ~r.authDone /\ ~r.cancelled
  /\ r.quit => ~r.started /\ ~r.cancelCall /\ ~r.retry /\ (r.cancelled \/ r.authDone)
  /\ Holds(r.inbox, "auth") => r.started /\ ~r.authCall
  /\ Once(r.inbox, "auth")
  /\ Holds(r.inbox, "cancel") => r.cancelled /\ ~r.cancelCall

\* Calls are open in the loop alone; nothing is settled before it.
Staged(r, pc) ==
  /\ pc # "loop" => ~r.started /\ ~r.cancelCall
  /\ pc \in BeforeLoop => ~r.authDone /\ ~r.retry

\* The calls q on their way and the prompts p, while the request r has the lock.
Balanced(r, q, p) ==
  LET check  == <<"check", r.serial>>
      cancel == <<"cancel", r.serial>>
  IN  \/ /\ q = <<>> /\ ~r.cancelCall
         /\ p \subseteq {r.serial} /\ (p # {} => r.authCall)
      \/ q = <<check>> /\ p = {} /\ r.authCall /\ ~r.cancelCall
      \/ q = <<cancel>> /\ p \subseteq {r.serial} /\ ~r.authCall /\ r.cancelCall
      \/ q = <<check, cancel>> /\ p = {} /\ ~r.authCall /\ r.cancelCall

PromptInv ==
  /\ Ordered(req) /\ Staged(req, req.pc)
  /\ ~cleanupFailed => Balanced(req, queue, prompts)

-----------------------------------------------------------------------------
(* The replies in the queue of the private context. *)

LEMMA AppendHolds ==
  ASSUME NEW q \in Seq(Messages), NEW m \in Messages, NEW kind
  PROVE  /\ m[1] # kind => (Holds(Append(q, m), kind) => Holds(q, kind))
         /\ m[1] # kind /\ Once(q, kind) => Once(Append(q, m), kind)
         /\ ~Holds(q, kind) => Once(Append(q, m), kind)
<1> DEFINE a == Append(q, m)
<1>1. /\ DOMAIN q = 1..Len(q) /\ DOMAIN a = 1..(Len(q) + 1) /\ Len(q) \in Nat
      /\ a[Len(q) + 1] = m /\ \A i \in 1..Len(q) : a[i] = q[i]
  OBVIOUS
<1> HIDE DEF a
<1>2. \A i \in DOMAIN a : i \in DOMAIN q \/ i = Len(q) + 1
  BY <1>1
<1>3. \A i \in DOMAIN q : a[i] = q[i]
  BY <1>1
<1>4. QED
  BY <1>1, <1>2, <1>3 DEF Holds, Once, a

LEMMA TailHolds ==
  ASSUME NEW q \in Seq(Messages), q # <<>>, NEW kind
  PROVE  /\ Holds(Tail(q), kind) => Holds(q, kind)
         /\ Once(q, kind) => Once(Tail(q), kind)
         /\ Once(q, kind) /\ Head(q)[1] = kind => ~Holds(Tail(q), kind)
<1> DEFINE t == Tail(q)
<1>1. /\ DOMAIN t = 1..(Len(q) - 1) /\ DOMAIN q = 1..Len(q) /\ Len(q) \in Nat /\ Len(q) > 0
      /\ Head(q) = q[1] /\ \A i \in 1..(Len(q) - 1) : t[i] = q[i + 1]
  OBVIOUS
<1> HIDE DEF t
<1>2. \A i \in DOMAIN t : i + 1 \in DOMAIN q /\ t[i] = q[i + 1] /\ i + 1 # 1 /\ i \in Nat
  BY <1>1
<1>3. 1 \in DOMAIN q
  BY <1>1
<1>4. Holds(t, kind) => Holds(q, kind)
  BY <1>2 DEF Holds
<1>5. ASSUME Once(q, kind) PROVE Once(t, kind)
  <2>1. SUFFICES ASSUME NEW i \in DOMAIN t, NEW j \in DOMAIN t, t[i][1] = kind, t[j][1] = kind
                 PROVE  i = j
    BY DEF Once
  <2>2. i + 1 = j + 1
    BY <1>2, <1>5, <2>1 DEF Once
  <2>3. QED
    BY <1>2, <2>2
<1>6. ASSUME Once(q, kind), Head(q)[1] = kind, Holds(t, kind) PROVE FALSE
  <2>1. PICK i \in DOMAIN t : t[i][1] = kind
    BY <1>6 DEF Holds
  <2>2. i + 1 = 1
    BY <1>1, <1>2, <1>3, <1>6, <2>1 DEF Once
  <2>3. QED
    BY <1>2, <2>2
<1>7. QED
  BY <1>4, <1>5, <1>6 DEF t

-----------------------------------------------------------------------------
(* What the handlers do to the flags and to the calls. *)

\* The calls s has open, against those of r: the same, or one more was sent.
Same(r, s) == s.authCall = r.authCall /\ s.cancelCall = r.cancelCall
Withdraws(r, s) == ~r.cancelCall /\ s.cancelCall /\ ~s.authCall
Asks(r, s) == ~r.authCall /\ ~r.cancelCall /\ s.authCall /\ ~s.cancelCall

Sends(r, s) == s.serial = r.serial /\ (Same(r, s) \/ Withdraws(r, s) \/ Asks(r, s))

\* What is sent keeps the calls on their way in one of the four shapes.
LEMMA SentBalanced ==
  ASSUME NEW r \in Requests, NEW s \in Requests, NEW q, NEW p,
         Balanced(r, q, p), Sends(r, s), r.authCall => ~r.cancelCall
  PROVE  LET sent == (IF s.authCall /\ ~r.authCall THEN <<<<"check", s.serial>>>> ELSE <<>>)
                     \o (IF s.cancelCall /\ ~r.cancelCall THEN <<<<"cancel", s.serial>>>> ELSE <<>>)
         IN  Balanced(s, q \o sent, p)
<1> DEFINE k == <<"check", s.serial>>
           x == <<"cancel", s.serial>>
           sent == (IF s.authCall /\ ~r.authCall THEN <<k>> ELSE <<>>)
                   \o (IF s.cancelCall /\ ~r.cancelCall THEN <<x>> ELSE <<>>)
<1>0. s.serial = r.serial
  BY DEF Sends
<1>1. /\ <<>> \o <<>> = <<>> /\ <<k>> \o <<>> = <<k>> /\ <<>> \o <<x>> = <<x>>
      /\ <<>> \o <<k>> = <<k>> /\ <<x>> \o <<>> = <<x>> /\ <<k, x>> \o <<>> = <<k, x>>
      /\ <<k>> \o <<x>> = <<k, x>>
  <2> HIDE DEF k, x
  <2>1. \A q1 \in Seq({k, x}) : q1 \o <<>> = q1 /\ <<>> \o q1 = q1
    BY ConcatEmptySeq
  <2>2. /\ <<>> \in Seq({k, x}) /\ <<k>> \in Seq({k, x}) /\ <<x>> \in Seq({k, x})
        /\ <<k, x>> \in Seq({k, x})
    OBVIOUS
  <2>3. Append(<<k>>, x) = <<k>> \o <<x>>
    BY <2>2, AppendIsConcat
  <2>4. Append(<<k>>, x) = <<k, x>>
    <3>1. Append(<<k>>, x) \in Seq({k, x}) /\ Len(Append(<<k>>, x)) = 2 /\ Len(<<k, x>>) = 2
      BY <2>2
    <3>2. \A i \in 1..2 : Append(<<k>>, x)[i] = <<k, x>>[i]
      BY <2>2
    <3>3. QED
      BY <2>2, <3>1, <3>2, SeqEqual
  <2>5. QED
    BY <2>1, <2>2, <2>3, <2>4
<1> HIDE DEF k, x
<1>2. /\ r.authCall \in BOOLEAN /\ r.cancelCall \in BOOLEAN
      /\ s.authCall \in BOOLEAN /\ s.cancelCall \in BOOLEAN
  BY DEF Requests
<1>3. \/ /\ q = <<>> /\ ~r.cancelCall /\ p \subseteq {s.serial} /\ (p # {} => r.authCall)
      \/ q = <<k>> /\ p = {} /\ r.authCall /\ ~r.cancelCall
      \/ q = <<x>> /\ p \subseteq {s.serial} /\ ~r.authCall /\ r.cancelCall
      \/ q = <<k, x>> /\ p = {} /\ ~r.authCall /\ r.cancelCall
  BY <1>0 DEF Balanced, k, x
<1>4. \/ /\ q \o sent = <<>> /\ ~s.cancelCall /\ p \subseteq {s.serial} /\ (p # {} => s.authCall)
      \/ q \o sent = <<k>> /\ p = {} /\ s.authCall /\ ~s.cancelCall
      \/ q \o sent = <<x>> /\ p \subseteq {s.serial} /\ ~s.authCall /\ s.cancelCall
      \/ q \o sent = <<k, x>> /\ p = {} /\ ~s.authCall /\ s.cancelCall
  <2>1. CASE Same(r, s)
    <3>1. sent = <<>>
      BY <1>1, <2>1 DEF Same
    <3>2. QED
      BY <1>1, <1>3, <2>1, <3>1 DEF Same
  <2>2. CASE Withdraws(r, s)
    <3>1. sent = <<x>>
      BY <1>1, <2>2 DEF Withdraws
    <3>2. QED
      BY <1>1, <1>3, <2>2, <3>1 DEF Withdraws
  <2>3. CASE Asks(r, s)
    <3>1. sent = <<k>>
      BY <1>1, <2>3 DEF Asks
    <3>2. QED
      BY <1>1, <1>3, <2>3, <3>1 DEF Asks
  <2>4. QED
    BY <2>1, <2>2, <2>3 DEF Sends
<1>5. Balanced(s, q \o sent, p)
  BY <1>4 DEF Balanced, k, x
<1>6. QED
  BY <1>5 DEF k, x

\* Taking the first of one or two calls.
LEMMA Tails ==
  ASSUME NEW k, NEW x
  PROVE  /\ Head(<<k>>) = k /\ Tail(<<k>>) = <<>>
         /\ Head(<<k, x>>) = k /\ Tail(<<k, x>>) = <<x>>
<1>1. <<k>> \in Seq({k, x}) /\ <<x>> \in Seq({k, x}) /\ <<k, x>> \in Seq({k, x})
  OBVIOUS
<1>2. Tail(<<k>>) \in Seq({k, x}) /\ Len(Tail(<<k>>)) = 0
  BY <1>1
<1>3. Tail(<<k, x>>) \in Seq({k, x}) /\ Len(Tail(<<k, x>>)) = 1 /\ Tail(<<k, x>>)[1] = x
  BY <1>1
<1>4. Tail(<<k>>) = <<>>
  BY <1>2, EmptySeq
<1>5. Tail(<<k, x>>) = <<x>>
  BY <1>1, <1>3, SeqEqual
<1>6. QED
  BY <1>1, <1>4, <1>5

LEMMA FinishOrdered ==
  ASSUME NEW r \in Requests, Ordered(r)
  PROVE  Ordered(FinishIfReady(r)) /\ Same(r, FinishIfReady(r))
  BY DEF Ordered, FinishIfReady, Same, Requests

LEMMA CancelOrdered ==
  ASSUME NEW r \in Requests, Ordered(r)
  PROVE  /\ Ordered(Cancel(r)) /\ Sends(r, Cancel(r))
         /\ \A pc : Staged(r, pc) => Staged(Cancel(r), pc)
         /\ ~r.started => Same(r, Cancel(r))
<1>1. CASE r.cancelled \/ r.admitted
  BY <1>1 DEF Cancel, Sends, Same
<1>2. CASE ~(r.cancelled \/ r.admitted) /\ ~r.started
  <2> DEFINE s == [r EXCEPT !.cancelled = TRUE, !.outcome = "cancelled",
                            !.retry = FALSE, !.quit = TRUE]
  <2>1. Cancel(r) = s
    BY <1>2 DEF Cancel, Requests
  <2>2. Ordered(s) /\ Same(r, s) /\ s.serial = r.serial
    BY <1>2 DEF Ordered, Same, Requests
  <2>3. \A pc : Staged(r, pc) => Staged(s, pc)
    BY <1>2 DEF Staged, Requests
  <2>4. QED
    BY <2>1, <2>2, <2>3 DEF Sends
<1>3. CASE ~(r.cancelled \/ r.admitted) /\ r.started /\ ~r.authCall
  <2> DEFINE s == [r EXCEPT !.cancelled = TRUE, !.outcome = "cancelled", !.cancelCall = TRUE]
  <2>1. Cancel(r) = s
    BY <1>3 DEF Cancel, CancelRemotely, Requests
  <2>2. Ordered(s) /\ Withdraws(r, s) /\ s.serial = r.serial
    BY <1>3 DEF Ordered, Withdraws, Requests
  <2>3. \A pc : Staged(r, pc) => Staged(s, pc)
    BY <1>3 DEF Staged, Requests
  <2>4. QED
    BY <1>3, <2>1, <2>2, <2>3 DEF Sends
<1>4. CASE ~(r.cancelled \/ r.admitted) /\ r.started /\ r.authCall
  <2> DEFINE m == <<"auth", "error">>
             b == Append(r.inbox, m)
             s == [r EXCEPT !.cancelled = TRUE, !.outcome = "cancelled", !.cancelCall = TRUE,
                            !.authCall = FALSE, !.inbox = b]
  <2>1. Cancel(r) = s
    BY <1>4 DEF Cancel, CancelRemotely, Deliver, Requests
  <2>2. r.inbox \in Seq(Messages) /\ m \in Messages /\ m[1] = "auth" /\ m[1] # "cancel"
    BY ReplyMessages DEF Requests, Answers
  <2>3. ~Holds(r.inbox, "auth") /\ ~Holds(r.inbox, "cancel")
    BY <1>4 DEF Ordered
  <2>4. Once(b, "auth") /\ ~Holds(b, "cancel")
    BY <2>2, <2>3, AppendHolds
  <2> HIDE DEF b, m
  <2>5. Ordered(s) /\ Withdraws(r, s) /\ s.serial = r.serial
    BY <1>4, <2>4 DEF Ordered, Withdraws, Requests
  <2>6. \A pc : Staged(r, pc) => Staged(s, pc)
    BY <1>4 DEF Staged, Requests
  <2>7. QED
    BY <1>4, <2>1, <2>5, <2>6 DEF Sends
<1>5. QED
  BY <1>1, <1>2, <1>3, <1>4

\* The reply to the check ends it: no other is queued, and it was not answered before.
LEMMA AuthorizationOrdered ==
  ASSUME NEW r \in Requests, NEW answer, Ordered(r), r.started, ~r.authCall,
         ~Holds(r.inbox, "auth")
  PROVE  /\ Ordered(AuthorizationFinished(r, answer))
         /\ Same(r, AuthorizationFinished(r, answer))
         /\ AuthorizationFinished(r, answer).serial = r.serial
<1> DEFINE f == [r EXCEPT !.started = FALSE]
           Answered(o) == [f EXCEPT !.authDone = TRUE, !.outcome = o]
           o1 == IF r.cancelled THEN f.outcome
                 ELSE CASE answer = "approved"  -> "approved"
                        [] answer = "dismissed" -> "cancelled"
                        [] OTHER                -> "denied"
<1>1. CASE ~r.cancelled /\ r.caller = "kiosk" /\ answer = "challenge" /\ grace
  <2>1. AuthorizationFinished(r, answer) = [f EXCEPT !.retry = TRUE]
    BY <1>1 DEF AuthorizationFinished
  <2>2. QED
    BY <1>1, <2>1 DEF Ordered, Same, Requests
<1>2. CASE ~(~r.cancelled /\ r.caller = "kiosk" /\ answer = "challenge" /\ grace)
  <2>1. Answered(o1) = [f EXCEPT !.authDone = TRUE, !.outcome =
             IF r.cancelled THEN @
             ELSE CASE answer = "approved"  -> "approved"
                    [] answer = "dismissed" -> "cancelled"
                    [] OTHER                -> "denied"]
    BY DEF Requests
  <2>2. AuthorizationFinished(r, answer) = FinishIfReady(Answered(o1))
    BY <1>2, <2>1 DEF AuthorizationFinished
  <2>3. o1 \in {"approved", "denied", "cancelled"}
    BY DEF Requests
  <2> HIDE DEF o1
  <2>a. Answered(o1) \in Requests
    BY <2>3 DEF Requests
  <2>b. /\ ~Answered(o1).started /\ Answered(o1).authDone /\ Answered(o1).inbox = r.inbox
        /\ Answered(o1).authCall = r.authCall /\ Answered(o1).cancelCall = r.cancelCall
        /\ Answered(o1).cancelDone = r.cancelDone /\ Answered(o1).cancelled = r.cancelled
        /\ Answered(o1).retry = r.retry /\ Answered(o1).quit = r.quit
        /\ Answered(o1).serial = r.serial
    BY DEF Requests
  <2>4. /\ Answered(o1) \in Requests /\ Ordered(Answered(o1)) /\ Same(r, Answered(o1))
        /\ Answered(o1).serial = r.serial
    <3> HIDE DEF Answered
    <3>1. QED
      BY <2>a, <2>b DEF Ordered, Same
  <2> HIDE DEF Answered
  <2>5. FinishIfReady(Answered(o1)).serial = r.serial
    BY <2>4, FinishKeeps DEF Keeps
  <2>6. QED
    BY <2>2, <2>4, <2>5, FinishOrdered DEF Same
<1>3. QED
  BY <1>1, <1>2

LEMMA CancellationOrdered ==
  ASSUME NEW r \in Requests, Ordered(r), r.cancelled, ~r.cancelCall
  PROVE  Ordered(CancellationFinished(r)) /\ Same(r, CancellationFinished(r))
<1> DEFINE d == [r EXCEPT !.cancelDone = TRUE, !.cancelCall = FALSE]
<1>1. d \in Requests /\ Ordered(d) /\ Same(r, d)
  BY DEF Ordered, Same, Requests
<1> HIDE DEF d
<1>2. Ordered(FinishIfReady(d)) /\ Same(d, FinishIfReady(d))
  BY <1>1, FinishOrdered
<1>3. QED
  BY <1>1, <1>2 DEF CancellationFinished, Same, d

\* A check is started only when none was, in a request nobody has cancelled.
LEMMA StartOrdered ==
  ASSUME NEW r \in Requests, Ordered(r), ~r.started, ~r.cancelled, ~r.authDone, ~r.retry
  PROVE  Ordered(StartCheck(r)) /\ Asks(r, StartCheck(r)) /\ StartCheck(r).serial = r.serial
  BY DEF Ordered, StartCheck, Asks, Requests

LEMMA RetryOrdered ==
  ASSUME NEW r \in Requests, Ordered(r), r.retry
  PROVE  Ordered(RetryCheck(r)) /\ Sends(r, RetryCheck(r))
<1> DEFINE f == [r EXCEPT !.retry = FALSE]
           d == [f EXCEPT !.authDone = TRUE]
<1>1. /\ f \in Requests /\ Ordered(f) /\ Same(r, f) /\ f.serial = r.serial
      /\ ~f.started /\ ~f.cancelled /\ ~f.authDone /\ ~f.retry
  BY DEF Ordered, Same, Requests
<1>2. d \in Requests /\ Ordered(d) /\ Same(r, d) /\ d.serial = r.serial
  BY <1>1 DEF Ordered, Same, Requests
<1> HIDE DEF f, d
<1>3. Ordered(StartCheck(f)) /\ Asks(f, StartCheck(f)) /\ StartCheck(f).serial = f.serial
  BY <1>1, StartOrdered
<1>4. Ordered(FinishIfReady(d)) /\ Same(d, FinishIfReady(d)) /\ FinishIfReady(d).serial = d.serial
  BY <1>2, FinishOrdered, FinishKeeps DEF Keeps
<1>5. Asks(r, StartCheck(f)) /\ Same(r, FinishIfReady(d))
  BY <1>1, <1>2, <1>3, <1>4 DEF Asks, Same
<1>6. QED
  BY <1>1, <1>2, <1>3, <1>4, <1>5 DEF RetryCheck, Sends, f, d

\* A notice in the queue is not a reply.
LEMMA NoticeOrdered ==
  ASSUME NEW r \in Requests, Ordered(r), NEW m \in Messages, m[1] \notin {"auth", "cancel"},
         NEW s \in Requests, s.inbox = Append(r.inbox, m), Same(r, s),
         s.started = r.started, s.retry = r.retry, s.quit = r.quit, s.authDone = r.authDone,
         s.cancelDone = r.cancelDone, s.cancelled = r.cancelled
  PROVE  Ordered(s)
<1>1. /\ Holds(s.inbox, "auth") => Holds(r.inbox, "auth")
      /\ Holds(s.inbox, "cancel") => Holds(r.inbox, "cancel")
      /\ Once(s.inbox, "auth")
  BY AppendHolds DEF Ordered, Requests
<1>2. QED
  BY <1>1 DEF Ordered, Same

\* A reply to the check closes its call; it is queued, and it is the only one.
LEMMA AuthReplied ==
  ASSUME NEW r \in Requests, Ordered(r), NEW serial, NEW answer \in Answers,
         NEW s, s = Replied(r, serial, "auth", answer)
  PROVE  /\ Ordered(s) /\ s \in Requests /\ s.serial = r.serial /\ s.pc = r.pc
         /\ \A pc : Staged(r, pc) => Staged(s, pc)
         /\ serial = r.serial => ~s.authCall
         /\ serial # r.serial => s.authCall = r.authCall
         /\ s.cancelCall = r.cancelCall
<1>0. r.inbox \in Seq(Messages)
  BY DEF Requests
<1>1. CASE r.serial # serial \/ ~r.authCall
  BY <1>1 DEF Replied, Requests
<1>2. CASE r.serial = serial /\ r.authCall
  <2> DEFINE m == <<"auth", answer>>
             b == Append(r.inbox, m)
             t == [r EXCEPT !.authCall = FALSE, !.inbox = b]
  <2>1. s = t
    BY <1>2 DEF Replied, Deliver, Requests
  <2>2. m \in Messages /\ m[1] = "auth"
    BY ReplyMessages
  <2>3. b \in Seq(Messages) /\ Once(b, "auth") /\ ~Holds(b, "cancel")
    BY <1>0, <1>2, <2>2, AppendHolds DEF Ordered
  <2> HIDE DEF b, m
  <2>4. Ordered(t) /\ t \in Requests /\ t.serial = r.serial /\ t.pc = r.pc
    BY <1>2, <2>3 DEF Ordered, Requests
  <2>5. ~t.authCall /\ t.cancelCall = r.cancelCall /\ \A pc : Staged(r, pc) => Staged(t, pc)
    BY <1>2 DEF Staged, Requests
  <2>6. QED
    BY <1>2, <2>1, <2>4, <2>5
<1>3. QED
  BY <1>1, <1>2

\* The reply to the cancellation closes its call.
LEMMA CancelReplied ==
  ASSUME NEW r \in Requests, Ordered(r), NEW serial,
         NEW s, s = Replied(r, serial, "cancel", "-")
  PROVE  /\ Ordered(s) /\ s \in Requests /\ s.serial = r.serial /\ s.pc = r.pc
         /\ \A pc : Staged(r, pc) => Staged(s, pc)
         /\ serial = r.serial => ~s.cancelCall
         /\ s.authCall = r.authCall
<1>0. r.inbox \in Seq(Messages)
  BY DEF Requests
<1>1. CASE r.serial # serial \/ ~r.cancelCall
  BY <1>1 DEF Replied, Requests
<1>2. CASE r.serial = serial /\ r.cancelCall
  <2> DEFINE m == <<"cancel", "-">>
             b == Append(r.inbox, m)
             t == [r EXCEPT !.cancelCall = FALSE, !.inbox = b]
  <2>1. s = t
    BY <1>2 DEF Replied, Deliver, Requests
  <2>2. m \in Messages /\ m[1] = "cancel" /\ m[1] # "auth"
    BY ReplyMessages
  <2>3. /\ b \in Seq(Messages) /\ Once(b, "auth")
        /\ Holds(b, "auth") => Holds(r.inbox, "auth")
    BY <1>0, <2>2, AppendHolds DEF Ordered
  <2> HIDE DEF b, m
  <2>4. Ordered(t) /\ t \in Requests /\ t.serial = r.serial /\ t.pc = r.pc
    BY <1>2, <2>3 DEF Ordered, Requests
  <2>5. t.authCall = r.authCall /\ ~t.cancelCall /\ \A pc : Staged(r, pc) => Staged(t, pc)
    BY <1>2 DEF Staged, Requests
  <2>6. QED
    BY <1>2, <2>1, <2>4, <2>5
<1>3. QED
  BY <1>1, <1>2

-----------------------------------------------------------------------------
(* The steps. *)

\* With no call open, nothing is on its way.
LEMMA QuietIsEmpty ==
  ASSUME PromptInv, req.pc # "loop", ~cleanupFailed
  PROVE  queue = <<>> /\ prompts = {}
  BY DEF PromptInv, Ordered, Staged, Balanced

\* The worker goes on to stage pc with the request r.
LEMMA BecomesPrompt ==
  ASSUME LifetimeInv, PromptInv, NEW r \in Requests, NEW pc,
         Ordered(r), Staged(r, pc), Sends(req, r), Becomes(r, pc),
         prompts' = prompts, cleanupFailed' = cleanupFailed
  PROVE  PromptInv'
<1> DEFINE s == [r EXCEPT !.pc = pc]
<1>1. req' = s /\ queue' = queue \o Sent(req, r)
  BY DEF Becomes
<1>2. req \in Requests /\ (req.authCall => ~req.cancelCall)
  BY DEF LifetimeInv, Sound, PromptInv, Ordered
<1>3. /\ s.pc = pc /\ s.serial = r.serial /\ s.authCall = r.authCall
      /\ s.cancelCall = r.cancelCall /\ s.started = r.started /\ s.authDone = r.authDone
      /\ s.retry = r.retry /\ s.quit = r.quit /\ s.cancelled = r.cancelled
      /\ s.cancelDone = r.cancelDone /\ s.inbox = r.inbox
  BY DEF Requests
<1> HIDE DEF s
<1>4. Ordered(s) /\ Staged(s, s.pc)
  BY <1>3 DEF Ordered, Staged
<1>5. ASSUME ~cleanupFailed PROVE Balanced(s, queue', prompts)
  <2>1. Balanced(r, queue', prompts)
    BY <1>1, <1>2, <1>5, SentBalanced DEF PromptInv, Sent
  <2>2. QED
    BY <1>3, <2>1 DEF Balanced
<1>6. QED
  BY <1>1, <1>4, <1>5 DEF PromptInv

THEOREM WorkerPrompt == LifetimeInv /\ PromptInv /\ Worker => PromptInv'
<1> SUFFICES ASSUME LifetimeInv, PromptInv, Worker PROVE PromptInv'
  OBVIOUS
<1>0. /\ req \in Requests /\ Ordered(req) /\ Staged(req, req.pc)
      /\ Sends(req, req) /\ Cancel(req) \in Requests /\ StartCheck(req) \in Requests
      /\ Ordered(Cancel(req)) /\ Sends(req, Cancel(req))
      /\ \A pc : Staged(req, pc) => Staged(Cancel(req), pc)
  BY CancelKeeps, RetryKeeps, CancelOrdered
  DEF LifetimeInv, Sound, PromptInv, Sends, Same, Keeps
<1> USE DEF Elsewhere, authority
<1>1. CASE ResolveSession
  <2> DEFINE Watching(a, d) == [req EXCEPT !.watchesSession = a, !.watchesDisplay = d]
  <2>1. req.pc = "resolve" /\ \A pc \in BeforeLoop \cup {"close"} : Staged(req, pc)
    BY <1>0, <1>1 DEF ResolveSession, Staged, BeforeLoop
  <2>2. \A a, d \in BOOLEAN : Watching(a, d) \in Requests
    BY <1>0 DEF Requests
  <2>3. \A a, d \in BOOLEAN :
          /\ Ordered(Watching(a, d)) /\ Sends(req, Watching(a, d))
          /\ \A pc \in BeforeLoop : Staged(Watching(a, d), pc)
    BY <1>0, <2>1 DEF Requests, Ordered, Staged, Sends, Same
  <2>4. /\ [req EXCEPT !.watchesSession = TRUE] = Watching(TRUE, req.watchesDisplay)
        /\ [req EXCEPT !.watchesDisplay = TRUE] = Watching(req.watchesSession, TRUE)
        /\ req.watchesSession \in BOOLEAN /\ req.watchesDisplay \in BOOLEAN
    BY <1>0 DEF Requests
  <2> HIDE DEF Watching
  <2>5. QED
    BY <1>0, <1>1, <2>1, <2>2, <2>3, <2>4, BecomesPrompt DEF ResolveSession, BeforeLoop
<1>2. CASE ReadDisplay
  <2> DEFINE r == [req EXCEPT !.display = display, !.watchesSession = display # "none"]
  <2>1. req.pc = "readDisplay" /\ \A pc \in BeforeLoop \cup {"close"} : Staged(req, pc)
    BY <1>0, <1>2 DEF ReadDisplay, Staged, BeforeLoop
  <2>2. r \in Requests
    <3> DEFINE w == display # "none"
    <3>1. display \in Displays /\ w \in BOOLEAN
      BY DEF LifetimeInv, TypeOK
    <3> HIDE DEF w
    <3>2. [req EXCEPT !.display = display, !.watchesSession = w] \in Requests
      BY <1>0, <3>1 DEF Requests
    <3>3. QED
      BY <3>2 DEF w
  <2>3. Ordered(r) /\ Sends(req, r) /\ \A pc \in BeforeLoop : Staged(r, pc)
    BY <1>0, <2>1 DEF Requests, Ordered, Staged, Sends, Same
  <2>4. \/ Becomes(req, "close")
        \/ Becomes(r, "drain") \/ Becomes(r, "snapshot")
    BY <1>2 DEF ReadDisplay
  <2> HIDE DEF r
  <2>5. QED
    BY <1>0, <1>2, <2>1, <2>2, <2>3, <2>4, BecomesPrompt DEF ReadDisplay, BeforeLoop
<1>3. CASE InitialSnapshot
  <2>1. req.pc = "snapshot" /\ \A pc \in {"close", "drain"} : Staged(req, pc)
    BY <1>0, <1>3 DEF InitialSnapshot, Staged, BeforeLoop
  <2>2. \E r \in {req, Cancel(req)}, pc \in {"close", "drain"} : Becomes(r, pc)
    BY <1>3 DEF InitialSnapshot, Reads
  <2>3. QED
    BY <1>0, <1>3, <2>1, <2>2, BecomesPrompt DEF InitialSnapshot
<1>4. CASE CheckAuthorization
  <2>1. req.pc = "drain" /\ ~req.started /\ ~req.authDone /\ ~req.retry
    BY <1>0, <1>4 DEF CheckAuthorization, Staged, BeforeLoop
  <2>2. CASE req.cancelled
    <3>1. Staged(req, "close") /\ Becomes(req, "close")
      BY <1>0, <1>4, <2>1, <2>2 DEF CheckAuthorization, Staged, BeforeLoop
    <3>2. QED
      BY <1>0, <1>4, <3>1, BecomesPrompt DEF CheckAuthorization
  <2>3. CASE ~req.cancelled
    <3>1. Ordered(StartCheck(req)) /\ Sends(req, StartCheck(req))
      BY <1>0, <2>1, <2>3, StartOrdered DEF Sends
    <3>2. Staged(StartCheck(req), "loop") /\ Becomes(StartCheck(req), "loop")
      BY <1>4, <2>3 DEF CheckAuthorization, Staged, BeforeLoop
    <3>3. QED
      BY <1>0, <1>4, <3>1, <3>2, BecomesPrompt DEF CheckAuthorization
  <2>4. QED
    BY <2>2, <2>3
<1>5. CASE Dispatch
  <2> DEFINE b == Tail(req.inbox)
             t == [req EXCEPT !.inbox = b]
             m == Head(req.inbox)
  <2>1. PICK r \in Handled(t, m) : Becomes(r, req.pc)
    BY <1>5 DEF Dispatch
  <2>2. req.inbox \in Seq(Messages) /\ req.inbox # <<>>
    BY <1>0, <1>5 DEF Requests, Dispatch
  <2>3. m \in Messages /\ b \in Seq(Messages) /\ (Holds(req.inbox, m[1]))
    <3>1. 1 \in DOMAIN req.inbox /\ req.inbox[1] = m
      BY <2>2
    <3>2. QED
      BY <2>2, <3>1 DEF Holds
  <2>4. /\ Holds(b, "auth") => Holds(req.inbox, "auth")
        /\ Holds(b, "cancel") => Holds(req.inbox, "cancel")
        /\ Once(b, "auth") /\ (m[1] = "auth" => ~Holds(b, "auth"))
    BY <1>0, <2>2, TailHolds DEF Ordered
  <2> HIDE DEF b, m
  <2>5. t \in Requests /\ t.inbox = b /\ t.serial = req.serial
    BY <1>0, <2>3 DEF Requests
  <2>6. /\ Ordered(t) /\ Staged(t, req.pc) /\ Same(req, t)
        /\ m[1] = "auth" => t.started /\ ~t.authCall
        /\ m[1] = "cancel" => t.cancelled /\ ~t.cancelCall
    BY <1>0, <2>3, <2>4 DEF Requests, Ordered, Staged, Same
  <2> HIDE DEF t
  <2>7. Keeps(t, r) /\ r \in Requests
    BY <2>1, <2>3, <2>5, HandledKeeps DEF Keeps
  <2>8. CASE m[1] \in {"departed", "look", "display"}
    <3>1. r = t \/ r = Cancel(t)
      BY <2>1, <2>8 DEF Handled, Reads
    <3>2. Ordered(r) /\ Staged(r, req.pc) /\ Sends(t, r)
      BY <2>5, <2>6, <3>1, CancelOrdered DEF Sends, Same
    <3>3. Sends(req, r)
      BY <2>5, <2>6, <3>2 DEF Sends, Same, Withdraws, Asks
    <3>4. QED
      BY <1>5, <2>1, <2>7, <3>2, <3>3, BecomesPrompt DEF Dispatch
  <2>9. CASE m[1] = "auth"
    <3>1. r = AuthorizationFinished(t, m[2])
      BY <2>1, <2>9 DEF Handled
    <3>2. Ordered(r) /\ Same(t, r) /\ r.serial = t.serial
      BY <2>4, <2>5, <2>6, <2>9, <3>1, AuthorizationOrdered
    <3>3. req.pc = "loop"
      BY <1>0, <2>5, <2>6, <2>9 DEF Staged
    <3>4. Staged(r, req.pc) /\ Sends(req, r)
      BY <2>5, <2>6, <3>2, <3>3 DEF Staged, BeforeLoop, Sends, Same
    <3>5. QED
      BY <1>5, <2>1, <2>7, <3>2, <3>4, BecomesPrompt DEF Dispatch
  <2>10. CASE m[1] = "cancel"
    <3>1. r = CancellationFinished(t)
      BY <2>1, <2>10 DEF Handled
    <3>2. Ordered(r) /\ Same(t, r) /\ r.serial = t.serial
      BY <2>5, <2>6, <2>7, <2>10, <3>1, CancellationOrdered DEF Keeps
    <3>3. r.started = t.started /\ r.authDone = t.authDone /\ r.retry = t.retry
      BY <2>5, <3>1 DEF CancellationFinished, FinishIfReady, Requests
    <3>4. Staged(r, req.pc) /\ Sends(req, r)
      BY <2>5, <2>6, <3>2, <3>3 DEF Staged, Sends, Same
    <3>5. QED
      BY <1>5, <2>1, <2>7, <3>2, <3>4, BecomesPrompt DEF Dispatch
  <2>11. QED
    BY <2>3, <2>8, <2>9, <2>10 DEF Messages
<1>6. CASE LoopReturns
  <2>1. \E pc \in {"recheck", "close"} : Becomes(req, pc)
    BY <1>6 DEF LoopReturns
  <2>2. \A pc \in {"recheck", "close"} : Staged(req, pc)
    BY <1>0, <1>6 DEF LoopReturns, Ordered, Staged, BeforeLoop
  <2>3. QED
    BY <1>0, <1>6, <2>1, <2>2, BecomesPrompt DEF LoopReturns
<1>7. CASE Recheck("recheck", "preflight") \/ Recheck("preflight", "admit")
  <2>1. \E pc \in {"preflight", "admit", "close"} : Becomes(req, pc)
    BY <1>7 DEF Recheck
  <2>2. \A pc \in {"preflight", "admit", "close"} : Staged(req, pc)
    BY <1>0, <1>7 DEF Recheck, Staged, BeforeLoop
  <2>3. QED
    BY <1>0, <1>7, <2>1, <2>2, BecomesPrompt DEF Recheck
<1>8. CASE BeginAdmission
  <2>1. \E pc \in {"close", "readAlive"} : Becomes(req, pc)
    BY <1>8 DEF BeginAdmission
  <2>2. \A pc \in {"close", "readAlive"} : Staged(req, pc)
    BY <1>0, <1>8 DEF BeginAdmission, Staged, BeforeLoop
  <2>3. QED
    BY <1>0, <1>8, <2>1, <2>2, BecomesPrompt DEF BeginAdmission
<1>9. CASE AdmissionReads
  <2>1. \E r \in {req, Cancel(req)}, pc \in {"rereadDisplay", "readSession", "latch"} :
          Becomes(r, pc)
    BY <1>9 DEF AdmissionReads
  <2>2. \A pc \in {"rereadDisplay", "readSession", "latch"} : Staged(req, pc)
    BY <1>0, <1>9 DEF AdmissionReads, Staged, BeforeLoop
  <2>3. QED
    BY <1>0, <1>9, <2>1, <2>2, BecomesPrompt DEF AdmissionReads
<1>10. CASE Latch
  <2> DEFINE r == [req EXCEPT !.admitted = TRUE]
  <2>1. r \in Requests /\ Ordered(r) /\ Sends(req, r)
    BY <1>0 DEF Requests, Ordered, Sends, Same
  <2>2. Staged(req, "close") /\ Staged(r, "effects")
    BY <1>0, <1>10 DEF Latch, Requests, Staged, BeforeLoop
  <2>3. Becomes(req, "close") \/ Becomes(r, "effects")
    BY <1>10 DEF Latch
  <2> HIDE DEF r
  <2>4. QED
    BY <1>0, <1>10, <2>1, <2>2, <2>3, BecomesPrompt DEF Latch
<1>11. CASE Effects
  <2>1. Staged(req, "close")
    BY <1>0, <1>11 DEF Effects, Staged, BeforeLoop
  <2>2. QED
    BY <1>0, <1>11, <2>1, BecomesPrompt DEF Effects
<1>12. CASE Close
  <2>1. Ordered(NoRequest) /\ Staged(NoRequest, NoRequest.pc)
    BY DEF NoRequest, Ordered, Staged, Holds, Once
  <2>2. ~cleanupFailed => Balanced(NoRequest, <<>>, {})
    BY DEF NoRequest, Balanced
  <2>3. QED
    BY <1>12, <2>1, <2>2, QuietIsEmpty DEF Close, PromptInv
<1>13. QED
  BY <1>1, <1>2, <1>3, <1>4, <1>5, <1>6, <1>7, <1>8, <1>9, <1>10, <1>11, <1>12 DEF Worker

THEOREM InitPrompt == Init => PromptInv
<1> SUFFICES ASSUME Init PROVE PromptInv
  OBVIOUS
<1>1. Ordered(NoRequest) /\ Staged(NoRequest, NoRequest.pc) /\ Balanced(NoRequest, <<>>, {})
  BY DEF NoRequest, Ordered, Staged, Balanced, Holds, Once
<1>2. QED
  BY <1>1 DEF Init, PromptInv

\* A signal puts a notice in the queue of the request and opens no call.
LEMMA SignalPrompt ==
  ASSUME LifetimeInv, PromptInv, NEW watched \in BOOLEAN, NEW kind, NEW value,
         NEW departure \in BOOLEAN, <<kind, value>> \in Messages,
         kind \notin {"auth", "cancel"}, Signal(watched, kind, value, departure),
         queue' = queue, prompts' = prompts, cleanupFailed' = cleanupFailed
  PROVE  PromptInv'
<1>0. req \in Requests
  BY DEF LifetimeInv, Sound
<1>1. CASE ~watched
  BY <1>1 DEF Signal, PromptInv
<1>2. CASE watched
  <2> DEFINE b == Append(req.inbox, <<kind, value>>)
             e == req.events + 1
             l == req.left \/ (departure /\ ~req.admitted)
             s == [req EXCEPT !.inbox = b, !.events = e, !.left = l]
  <2>1. b \in Seq(Messages) /\ e \in Nat /\ l \in BOOLEAN
    BY <1>0 DEF Requests
  <2>2. req' = s
    BY <1>0, <1>2 DEF Signal, Deliver, Requests
  <2>3. <<kind, value>>[1] = kind
    OBVIOUS
  <2>4. b = Append(req.inbox, <<kind, value>>)
    OBVIOUS
  <2> HIDE DEF b, e, l
  <2>5. s \in Requests /\ s.inbox = b /\ Same(req, s)
    BY <1>0, <2>1 DEF Requests, Same
  <2>6. /\ s.started = req.started /\ s.retry = req.retry /\ s.quit = req.quit
        /\ s.authDone = req.authDone /\ s.cancelDone = req.cancelDone
        /\ s.cancelled = req.cancelled /\ s.pc = req.pc /\ s.serial = req.serial
    BY <1>0 DEF Requests
  <2> HIDE DEF s
  <2>7. Ordered(s)
    BY <1>0, <2>3, <2>4, <2>5, <2>6, NoticeOrdered DEF PromptInv
  <2>8. Staged(s, s.pc) /\ (~cleanupFailed => Balanced(s, queue, prompts))
    BY <2>5, <2>6 DEF PromptInv, Staged, Same, Balanced
  <2>9. QED
    BY <2>2, <2>7, <2>8 DEF PromptInv
<1>3. QED
  BY <1>1, <1>2

THEOREM RequesterPrompt == LifetimeInv /\ PromptInv /\ Requester => PromptInv'
<1> SUFFICES ASSUME LifetimeInv, PromptInv, Requester PROVE PromptInv'
  OBVIOUS
<1> USE DEF Unrelated, authority
<1>0. req.watchesSession \in BOOLEAN /\ req.watchesDisplay \in BOOLEAN
  BY DEF LifetimeInv, Sound, Requests
<1>1. CASE CallerDisconnects
  BY <1>1, ReplyMessages, SignalPrompt DEF CallerDisconnects
<1>2. CASE LoginServiceRestarts
  BY <1>2, ReplyMessages, SignalPrompt DEF LoginServiceRestarts
<1>3. CASE SessionLeaves
  BY <1>0, <1>3, ReplyMessages, SignalPrompt DEF SessionLeaves
<1>4. CASE SessionReturns
  BY <1>4 DEF SessionReturns, PromptInv
<1>5. ASSUME NEW other \in Displays, DisplayChanges(other)
      PROVE  PromptInv'
  <2> DEFINE departure == req.display \notin {"unread", other}
  <2>1. departure \in BOOLEAN /\ Signal(req.watchesDisplay, "display", other, departure)
    BY <1>5 DEF DisplayChanges
  <2> HIDE DEF departure
  <2>2. QED
    BY <1>0, <1>5, <2>1, ReplyMessages, SignalPrompt DEF DisplayChanges
<1>6. CASE Invalidated
  BY <1>6, ReplyMessages, SignalPrompt DEF Invalidated
<1>7. QED
  BY <1>1, <1>2, <1>3, <1>4, <1>5, <1>6 DEF Requester

\* Polkit takes its calls in order: a cancellation ends the prompt of its check.
THEOREM AuthorityPrompt == LifetimeInv /\ PromptInv /\ Authority => PromptInv'
<1> SUFFICES ASSUME LifetimeInv, PromptInv, Authority PROVE PromptInv'
  OBVIOUS
<1> DEFINE Auth(r, serial, answer) == Replied(r, serial, "auth", answer)
           Both(r, serial) == Replied(Auth(r, serial, "error"), serial, "cancel", "-")
<1>0. req \in Requests /\ Ordered(req) /\ Staged(req, req.pc)
  BY DEF LifetimeInv, Sound, PromptInv
<1>1. ASSUME NEW serial, NEW answer \in Answers, NEW s, s = Auth(req, serial, answer)
      PROVE  /\ Ordered(s) /\ Staged(s, s.pc) /\ s \in Requests
             /\ s.serial = req.serial /\ s.cancelCall = req.cancelCall
             /\ serial = req.serial => ~s.authCall
  BY <1>0, <1>1, AuthReplied
<1>2. ASSUME NEW serial, NEW s, s = Both(req, serial)
      PROVE  /\ Ordered(s) /\ Staged(s, s.pc) /\ s.serial = req.serial
             /\ serial = req.serial => ~s.authCall /\ ~s.cancelCall
  <2> DEFINE t == Auth(req, serial, "error")
  <2>1. /\ Ordered(t) /\ Staged(t, t.pc) /\ t \in Requests /\ t.serial = req.serial
        /\ serial = req.serial => ~t.authCall
    BY <1>1 DEF Answers
  <2>2. s = Replied(t, serial, "cancel", "-")
    BY <1>2
  <2> HIDE DEF t
  <2>3. QED
    BY <2>1, <2>2, CancelReplied
<1> HIDE DEF Auth, Both
<1>3. CASE PolkitTakes
  <2> DEFINE k == <<"check", req.serial>>
             x == <<"cancel", req.serial>>
  <2>1. Ordered(req') /\ Staged(req', req'.pc)
    BY <1>0, <1>1, <1>2, <1>3 DEF PolkitTakes, Auth, Both, Answers
  <2>a. ASSUME ~cleanupFailed, queue # <<>>
        PROVE  \/ /\ Head(queue) = k /\ Tail(queue) = <<>>
                  /\ prompts = {} /\ req.authCall /\ ~req.cancelCall
               \/ /\ Head(queue) = k /\ Tail(queue) = <<x>>
                  /\ prompts = {} /\ ~req.authCall /\ req.cancelCall
               \/ Head(queue) = x /\ Tail(queue) = <<>> /\ prompts \subseteq {req.serial}
    <3>1. /\ Head(<<k>>) = k /\ Tail(<<k>>) = <<>> /\ Head(<<x>>) = x /\ Tail(<<x>>) = <<>>
          /\ Head(<<k, x>>) = k /\ Tail(<<k, x>>) = <<x>>
      BY Tails
    <3>2. \/ queue = <<k>> /\ prompts = {} /\ req.authCall /\ ~req.cancelCall
          \/ queue = <<x>> /\ prompts \subseteq {req.serial}
          \/ queue = <<k, x>> /\ prompts = {} /\ ~req.authCall /\ req.cancelCall
      BY <2>a DEF PromptInv, Balanced
    <3> HIDE DEF k, x
    <3>3. QED
      BY <3>1, <3>2
  <2>b. k # x
    OBVIOUS
  <2>2. ASSUME ~cleanupFailed PROVE Balanced(req', queue', prompts')
    <3>1. queue # <<>> /\ queue' = Tail(queue)
      BY <1>3 DEF PolkitTakes
    <3>2. CASE Head(queue) = k
      <4>1. \/ agent /\ prompts' = prompts \cup {req.serial} /\ req' = req
            \/ ~agent /\ req' = Auth(req, req.serial, "challenge") /\ prompts' = prompts
        BY <1>3, <3>2 DEF PolkitTakes, Auth
      <4>2. \/ queue' = <<>> /\ prompts = {} /\ req.authCall /\ ~req.cancelCall
            \/ queue' = <<x>> /\ prompts = {} /\ ~req.authCall /\ req.cancelCall
        BY <2>2, <2>a, <2>b, <3>1, <3>2
      <4>3. CASE agent
        BY <4>1, <4>2, <4>3 DEF Balanced
      <4>4. CASE ~agent
        <5>1. /\ req'.serial = req.serial /\ ~req'.authCall
              /\ req'.cancelCall = req.cancelCall /\ prompts' = prompts
          BY <1>1, <4>1, <4>4 DEF Answers
        <5>2. QED
          BY <4>2, <5>1 DEF Balanced
      <4>5. QED
        BY <4>3, <4>4
    <3>3. CASE Head(queue) = x
      <4>1. prompts' = prompts \ {req.serial} /\ req' = Both(req, req.serial)
        BY <1>3, <3>3 DEF PolkitTakes, Both, Auth
      <4>2. queue' = <<>> /\ prompts \subseteq {req.serial}
        BY <2>2, <2>a, <2>b, <3>1, <3>3
      <4>3. prompts' = {} /\ ~req'.cancelCall
        BY <1>2, <4>1, <4>2
      <4>4. QED
        BY <4>2, <4>3 DEF Balanced
    <3>4. QED
      BY <2>2, <2>a, <3>1, <3>2, <3>3
  <2>3. cleanupFailed' = cleanupFailed
    BY <1>3 DEF PolkitTakes
  <2>4. QED
    BY <2>1, <2>2, <2>3 DEF PromptInv
<1>4. ASSUME NEW answer \in {"approved", "denied", "dismissed"}, ParentAnswers(answer)
      PROVE  PromptInv'
  <2>1. PICK serial \in prompts :
          /\ prompts' = prompts \ {serial} /\ req' = Auth(req, serial, answer)
          /\ queue' = queue /\ cleanupFailed' = cleanupFailed
    BY <1>4 DEF ParentAnswers, Auth
  <2>2. /\ Ordered(req') /\ Staged(req', req'.pc)
        /\ req'.serial = req.serial /\ req'.cancelCall = req.cancelCall
        /\ serial = req.serial => ~req'.authCall
    BY <1>1, <2>1 DEF Answers
  <2>3. ASSUME ~cleanupFailed PROVE Balanced(req', queue', prompts')
    <3>1. serial = req.serial /\ prompts' = {} /\ ~req'.authCall
      BY <2>1, <2>2, <2>3 DEF PromptInv, Balanced
    <3>2. QED
      BY <2>1, <2>2, <2>3, <3>1 DEF PromptInv, Balanced
  <2>4. QED
    BY <2>1, <2>2, <2>3 DEF PromptInv
<1>5. CASE AgentRegisters
  BY <1>5 DEF AgentRegisters, PromptInv
<1>6. CASE AgentLeaves
  <2>1. /\ prompts' = {} /\ queue' = queue /\ cleanupFailed' = cleanupFailed
        /\ req' = IF req.serial \in prompts THEN Auth(req, req.serial, "error") ELSE req
    BY <1>6 DEF AgentLeaves, Auth
  <2>2. Ordered(req') /\ Staged(req', req'.pc)
    BY <1>0, <1>1, <2>1 DEF Answers
  <2>3. ASSUME ~cleanupFailed PROVE Balanced(req', queue', prompts')
    <3>1. CASE req.serial \in prompts
      <4>1. /\ req'.serial = req.serial /\ req'.cancelCall = req.cancelCall /\ ~req'.authCall
        BY <1>1, <2>1, <3>1 DEF Answers
      <4>2. QED
        BY <2>1, <2>3, <3>1, <4>1 DEF PromptInv, Balanced
    <3>2. CASE req.serial \notin prompts
      BY <2>1, <2>3, <3>2 DEF PromptInv, Balanced
    <3>3. QED
      BY <3>1, <3>2
  <2>4. QED
    BY <2>1, <2>2, <2>3 DEF PromptInv
<1>7. CASE PolkitFails
  <2>1. /\ queue' = <<>> /\ prompts' = {} /\ req' = Both(req, req.serial)
        /\ cleanupFailed' = cleanupFailed
    BY <1>7 DEF PolkitFails, Both, Auth
  <2>2. /\ Ordered(req') /\ Staged(req', req'.pc) /\ ~req'.authCall /\ ~req'.cancelCall
    BY <1>2, <2>1
  <2>3. QED
    BY <2>1, <2>2 DEF PromptInv, Balanced
<1>8. QED
  BY <1>3, <1>4, <1>5, <1>6, <1>7 DEF Authority

THEOREM NextPrompt == LifetimeInv /\ PromptInv /\ [Next]_vars => PromptInv'
<1> SUFFICES ASSUME LifetimeInv, PromptInv, [Next]_vars PROVE PromptInv'
  OBVIOUS
<1>0. req \in Requests /\ Ordered(req) /\ Staged(req, req.pc)
  BY DEF LifetimeInv, Sound, PromptInv
<1>1. ASSUME NEW caller \in Callers, NEW serial \in Serials, RequestAccess(caller, serial)
      PROVE  PromptInv'
  <2>1. /\ req' = [NoRequest EXCEPT !.pc = "resolve", !.caller = caller, !.serial = serial]
        /\ req.pc # "loop" /\ queue' = queue /\ prompts' = prompts
        /\ cleanupFailed' = (cleanupFailed /\ (prompts # {} \/ queue # <<>>))
    BY <1>1 DEF RequestAccess, Idle, authority
  <2>2. /\ ~req'.started /\ ~req'.cancelCall /\ ~req'.authCall /\ ~req'.authDone
        /\ ~req'.retry /\ ~req'.quit /\ ~req'.cancelled /\ ~req'.cancelDone
        /\ req'.inbox = <<>> /\ req'.pc = "resolve"
    BY <2>1 DEF NoRequest
  <2>3. Ordered(req') /\ Staged(req', req'.pc)
    BY <2>2 DEF Ordered, Staged, Holds, Once
  <2>4. ~cleanupFailed' => queue = <<>> /\ prompts = {}
    BY <2>1, QuietIsEmpty
  <2>5. QED
    BY <2>1, <2>2, <2>3, <2>4 DEF PromptInv, Balanced
<1>2. CASE Worker
  BY <1>2, WorkerPrompt
<1>3. CASE RetryTimer
  <2>1. /\ req.pc = "loop" /\ req.retry /\ Becomes(RetryCheck(req), "loop")
        /\ prompts' = prompts /\ cleanupFailed' = cleanupFailed
    BY <1>3 DEF RetryTimer, Elsewhere, authority
  <2>2. /\ Ordered(RetryCheck(req)) /\ Sends(req, RetryCheck(req))
        /\ RetryCheck(req) \in Requests /\ Staged(RetryCheck(req), "loop")
    BY <1>0, <2>1, RetryOrdered, RetryKeeps DEF Keeps, Staged, BeforeLoop
  <2>3. QED
    BY <2>1, <2>2, BecomesPrompt
<1>4. CASE CancelTimesOut
  <2>1. req' = Replied(req, req.serial, "cancel", "-") /\ cleanupFailed' = TRUE
    BY <1>4 DEF CancelTimesOut
  <2>2. Ordered(req') /\ Staged(req', req'.pc)
    BY <1>0, <2>1, CancelReplied
  <2>3. QED
    BY <2>1, <2>2 DEF PromptInv
<1>5. CASE GraceEnds
  BY <1>5 DEF GraceEnds, authority, PromptInv
<1>6. ASSUME NEW caller \in Callers, IntervalElapses(caller)
      PROVE  PromptInv'
  BY <1>6 DEF IntervalElapses, authority, PromptInv
<1>7. CASE Requester
  BY <1>7, RequesterPrompt
<1>8. CASE Authority
  BY <1>8, AuthorityPrompt
<1>9. CASE UNCHANGED vars
  BY <1>9 DEF vars, PromptInv
<1>10. QED
  BY <1>1, <1>2, <1>3, <1>4, <1>5, <1>6, <1>7, <1>8, <1>9 DEF Next

\* The four shapes are all PromptAttended allows.
LEMMA BalancedAttended == PromptInv => PromptAttended
<1> SUFFICES ASSUME PromptInv, ~cleanupFailed PROVE PromptAttended
  BY DEF PromptAttended
<1> DEFINE k == <<"check", req.serial>>
           x == <<"cancel", req.serial>>
           checks == {i \in DOMAIN queue : queue[i][1] = "check"}
           asked  == prompts \cup {queue[i][2] : i \in checks}
<1>1. Balanced(req, queue, prompts)
  BY DEF PromptInv
<1>2. /\ \A i \in checks : i = 1
      /\ \A i \in checks : queue[i][2] = req.serial
      /\ checks # {} => prompts = {} /\ (req.authCall \/ req.cancelCall)
      /\ prompts \subseteq {req.serial}
      /\ prompts # {} => req.authCall \/ req.cancelCall
  <2>1. CASE queue = <<>>
    BY <1>1, <2>1 DEF Balanced
  <2>2. CASE queue = <<k>>
    BY <1>1, <2>2 DEF Balanced
  <2>3. CASE queue = <<x>>
    BY <1>1, <2>3 DEF Balanced
  <2>4. CASE queue = <<k, x>>
    <3>1. \A i \in DOMAIN queue : i = 1 \/ (i = 2 /\ queue[i][1] = "cancel")
      BY <2>4
    <3>2. checks = {1}
      BY <2>4, <3>1
    <3>3. QED
      BY <1>1, <2>4, <3>2 DEF Balanced
  <2>5. QED
    BY <1>1, <2>1, <2>2, <2>3, <2>4 DEF Balanced
<1> HIDE DEF checks
<1>3. asked \subseteq {req.serial} /\ (asked # {} => req.authCall \/ req.cancelCall)
  BY <1>2
<1>4. QED
  BY <1>2, <1>3 DEF PromptAttended, checks

\* The order of the flags and of the calls on their way is kept by every behaviour.
THEOREM PromptInvariant == Spec => []PromptInv
<1>1. QED
  BY InitPrompt, NextPrompt, LifetimeInvariant, PTL DEF Spec

\* No order of replies, retries, departures, crashes of Polkit and changes of agent
\* leaves the parent with a prompt nobody waits for, or with two, unless the
\* cancellation of it timed out; for any number of correlation ids in use.
THEOREM PromptSafety == Spec => []PromptAttended
<1>1. QED
  BY BalancedAttended, PromptInvariant, PTL

================================================================================
