--------------------------- MODULE StreamPromise ----------------------------
(***************************************************************************)
(* What a stream promises, without reserves, limits and amounts to deduct. *)
(* Every unit of time releases a part of the total.  What is released      *)
(* while the stream runs is earned by the receiver for good; what is       *)
(* released while it is suspended is lost to the receiver.  A claim pays   *)
(* everything earned so far, and the promise ends when nothing more can be *)
(* released or when the sender cancels it, after paying what is earned.    *)
(***************************************************************************)
EXTENDS Integers

CONSTANTS Streams, Senders

VARIABLES
  now,
  promise,   \* the promise of each stream that exists
  funds      \* what each sender has set aside to pay with

vars == <<now, promise, funds>>

(* Released at time t: nothing before the start, the total from the end.   *)
Released(p, t) ==
  IF t <= p.start THEN 0
  ELSE IF t >= p.end THEN p.total
  ELSE ((t - p.start) * p.total) \div (p.end - p.start)

Init ==
  /\ now = 0
  /\ promise = [s \in {} |-> 0]
  /\ funds = [sd \in Senders |-> 0]

(* A new promise may start in the past: what is released by now is earned. *)
Fresh(p) ==
  /\ p.start < p.end /\ now < p.end
  /\ p.running
  /\ p.earned = Released(p, now) /\ p.missed = 0 /\ p.paid = 0

Open(s) ==
  /\ s \in DOMAIN promise' /\ s \notin DOMAIN promise
  /\ DOMAIN promise' = DOMAIN promise \cup {s}
  /\ \A x \in DOMAIN promise : promise'[x] = promise[x]
  /\ Fresh(promise'[s])
  /\ UNCHANGED <<now, funds>>

(* The terms may be changed until the promise starts, unless suspended.    *)
Revise(s) ==
  /\ s \in DOMAIN promise \cap DOMAIN promise'
  /\ now <= promise[s].start /\ promise[s].running
  /\ promise' = [promise EXCEPT ![s] = promise'[s]]
  /\ promise'[s].sender = promise[s].sender
  /\ promise'[s].cancellable = promise[s].cancellable
  /\ Fresh(promise'[s])
  /\ UNCHANGED <<now, funds>>

Pass ==
  LET step(p) == Released(p, now + 1) - Released(p, now)
  IN  /\ now' = now + 1
      /\ promise' = [s \in DOMAIN promise |->
           IF promise[s].running
             THEN [promise[s] EXCEPT !.earned = @ + step(promise[s])]
             ELSE [promise[s] EXCEPT !.missed = @ + step(promise[s])]]
      /\ UNCHANGED funds

(* Only a promise that has started and not ended is suspended or resumed.  *)
Toggle(s) ==
  /\ s \in DOMAIN promise
  /\ promise[s].start <= now /\ now < promise[s].end
  /\ promise' = [promise EXCEPT ![s].running = ~ @]
  /\ UNCHANGED <<now, funds>>

Pay(s) ==
  LET due == promise[s].earned - promise[s].paid
  IN  /\ due <= funds[promise[s].sender]
      /\ funds' = [funds EXCEPT ![promise[s].sender] = @ - due]

End(s) == promise' = [x \in DOMAIN promise \ {s} |-> promise[x]]

Claim(s) ==
  /\ s \in DOMAIN promise
  /\ now > promise[s].start
  /\ Pay(s)
  /\ \/ /\ Released(promise[s], now) < promise[s].total \/ ~ promise[s].running
        /\ promise' = [promise EXCEPT ![s].paid = promise[s].earned]
     \/ /\ Released(promise[s], now) = promise[s].total
        /\ End(s)
  /\ UNCHANGED now

Cancel(s) ==
  /\ s \in DOMAIN promise
  /\ promise[s].cancellable
  /\ now < promise[s].end
  /\ Pay(s)
  /\ End(s)
  /\ UNCHANGED now

(* The sender moves money in or out.                                       *)
MoveFunds(sd) ==
  /\ funds'[sd] \in Nat
  /\ funds' = [funds EXCEPT ![sd] = funds'[sd]]
  /\ UNCHANGED <<now, promise>>

Next ==
  \/ Pass
  \/ \E s \in Streams : Open(s) \/ Revise(s) \/ Toggle(s) \/ Claim(s) \/ Cancel(s)
  \/ \E sd \in Senders : MoveFunds(sd)

Spec == Init /\ [][Next]_vars
=============================================================================
