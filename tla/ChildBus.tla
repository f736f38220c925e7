------------------------------ MODULE ChildBus ------------------------------
(***************************************************************************)
(* One attempt to connect to a child's session bus (child_bus.py), as      *)
(* functions of the attempt.  A helper process authenticates as the child  *)
(* and sends its socket; the broker reaps the helper, then says Hello on   *)
(* that socket.  Polls, the Hello, the deadline and a cancellation arrive  *)
(* in any order on the monitor's thread; the attempt is over, and its      *)
(* callback runs, once the helper is reaped and no Hello is under way.     *)
(***************************************************************************)

\* owner: the watch that waits for it, or "orphan" once that has given it up.
\* helper: "sent" has sent its socket, "success" and "failure" await reaping.
Attempts ==
  [owner : {"none", "watch", "orphan"},
   helper : {"none", "running", "sent", "success", "failure", "reaped"},
   packet : {"none", "socket", "error"}, descriptor : BOOLEAN,
   hello : {"none", "pending", "over"}, cut : BOOLEAN,
   expired : BOOLEAN, killed : BOOLEAN, done : BOOLEAN, pending : BOOLEAN,
   result : {"none", "connection", "error"}]

NoAttempt ==
  [owner |-> "none", helper |-> "none", packet |-> "none", descriptor |-> FALSE,
   hello |-> "none", cut |-> FALSE, expired |-> FALSE, killed |-> FALSE,
   done |-> FALSE, pending |-> FALSE, result |-> "none"]

NewAttempt == [NoAttempt EXCEPT !.owner = "watch", !.pending = TRUE]

Unreaped(a) == a.helper \in {"running", "sent"}

\* Never waits: a later poll, or the end of the Hello, settles what is left.
SettleUnreaped(a) ==
  IF a.hello = "pending" THEN a ELSE [a EXCEPT !.helper = "reaped", !.pending = FALSE]
Settle(a) ==
  IF Unreaped(a) THEN [a EXCEPT !.killed = TRUE]
  ELSE IF a.hello = "pending" THEN [a EXCEPT !.helper = "reaped"]
  ELSE [a EXCEPT !.helper = "reaped", !.pending = FALSE]

\* A Hello ignores its cancellable: shutting the socket down is what ends it.
FinishUncut(a, result) ==
  IF a.done THEN a
  ELSE Settle([a EXCEPT !.done = TRUE, !.result = result, !.descriptor = FALSE,
                        !.packet = "none"])
Finish(a, result) ==
  IF a.done THEN a
  ELSE Settle([a EXCEPT !.done = TRUE, !.result = result, !.descriptor = FALSE,
                        !.packet = "none", !.cut = @ \/ (result = "error" /\ a.hello = "pending")])

\* The socket is used only once the helper that shares it is gone.
Handover(a, sound) ==
  CASE Unreaped(a)                            -> a
    [] a.helper = "success" /\ sound          -> [a EXCEPT !.descriptor = FALSE, !.hello = "pending"]
    [] OTHER                                  -> Finish(a, "error")

Receive(a, sound) ==
  IF a.descriptor \/ a.packet = "socket"
  THEN Handover([a EXCEPT !.descriptor = TRUE, !.packet = "none"], sound)
  ELSE IF a.packet = "none" /\ Unreaped(a) THEN a ELSE Finish(a, "error")

\* sound: the socket and its peer are the child's, and the helper could start.
Poll(a, sound) ==
  IF a.done THEN Settle(a)
  ELSE IF a.expired \/ (a.helper = "none" /\ ~sound) THEN Finish(a, "error")
  ELSE IF a.helper = "none" THEN [a EXCEPT !.helper = "running"]
  ELSE IF a.hello # "none" THEN a ELSE Receive(a, sound)

\* A connection that comes too late, or to an attempt given up, is closed.
HelloReturns(a, success) ==
  Settle([Finish(a, IF success /\ ~a.expired THEN "connection" ELSE "error")
            EXCEPT !.hello = "over"])

Cancel(a) == Finish(a, "error")

\* The bus at the other end is gone.
CutOff(a) ==
  IF a.packet = "socket" \/ a.descriptor \/ a.hello = "pending" THEN [a EXCEPT !.cut = TRUE] ELSE a

\* What the helper does next: it sends its socket or an error, and exits.
HelperSteps(a) ==
  CASE a.helper = "running" ->
         {[a EXCEPT !.helper = "failure"],
          [a EXCEPT !.helper = "failure", !.packet = IF a.done THEN "none" ELSE "error"],
          [a EXCEPT !.helper = "sent", !.packet = IF a.done THEN "none" ELSE "socket"]}
    [] a.helper = "sent" ->
         {[a EXCEPT !.helper = "success"], [a EXCEPT !.helper = "failure"]}
    [] OTHER -> {}

=============================================================================
