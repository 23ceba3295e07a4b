---------------------------- MODULE WebhookInbox ----------------------------
(***************************************************************************)
(* One Stripe event on its way through POST /api/payments/stripe/webhook:  *)
(* the payment_events row that claims it, the deliveries that run for it,  *)
(* and Stripe, which delivers it again until one is answered 200.          *)
(* handleStripeEvent is one step here: it commits its work or fails.       *)
(* A definition marked "Mutant of X" is a slip X could have had.           *)
(***************************************************************************)
EXTENDS Naturals

CONSTANTS Deliveries, \* bound: how often Stripe tries
          MaxHandled  \* bound: how far the handler's commits are counted

ASSUME MaxHandledAssumption == MaxHandled \in Nat \ {0}

VARIABLES
  row,      \* payment_events.status of the event, or "none"
  at,       \* what each delivery does next, or how it ended
  handled,  \* history: how often the handler committed its work
  faults    \* history: what went wrong
vars == <<row, at, handled, faults>>

Faults == {"overlap",    \* Stripe tried again while a try was unanswered
           "crash",      \* the process died while it worked on the event
           "unrecorded"} \* the write that records a failure failed too

Working == {"handle", "complete", "fail"}
Ended == {"ok", "refused", "lost"}
Steps == {"unsent", "claim", "read", "rearm"} \cup Working \cup Ended

TypeOK == /\ row \in {"none", "processing", "failed", "processed"}
          /\ at \in [Deliveries -> Steps]
          /\ handled \in 0..MaxHandled
          /\ faults \subseteq Faults

Init == /\ row = "none"
        /\ at = [d \in Deliveries |-> "unsent"]
        /\ handled = 0
        /\ faults = {}

Goto(d, from, to) == at[d] = from /\ at' = [at EXCEPT ![d] = to]
Acknowledged == \E d \in Deliveries : at[d] = "ok"

-----------------------------------------------------------------------------
Send(d) ==
  /\ ~Acknowledged
  /\ faults' = IF \A x \in Deliveries : at[x] \in Ended \cup {"unsent"}
               THEN faults ELSE faults \cup {"overlap"}
  /\ Goto(d, "unsent", "claim")
  /\ UNCHANGED <<row, handled>>

\* INSERT ... ON CONFLICT (event_id) DO NOTHING.
Claim(d) ==
  /\ IF row = "none" THEN Goto(d, "claim", "handle") /\ row' = "processing"
     ELSE Goto(d, "claim", "read") /\ UNCHANGED row
  /\ UNCHANGED <<handled, faults>>

\* Only a failed event is taken again; any other is answered 200 as a duplicate.
\* (No code deletes a row, so the branch for a vanished one is never taken.)
\* Mutant of Retakable: no event is.
NeverRetakable == FALSE
Retakable == row = "failed"
ReadPrior(d) == /\ Goto(d, "read", IF Retakable THEN "rearm" ELSE "ok")
                /\ UNCHANGED <<row, handled, faults>>

\* UPDATE ... WHERE status = 'failed': of several retries one wins.
\* Mutant of Rearmable: the status is not looked at again.
RearmBlindly == TRUE
Rearmable == row = "failed"
Rearm(d) ==
  /\ IF Rearmable THEN Goto(d, "rearm", "handle") /\ row' = "processing"
     ELSE Goto(d, "rearm", "ok") /\ UNCHANGED row
  /\ UNCHANGED <<handled, faults>>

Handle(d) ==
  /\ \/ /\ Goto(d, "handle", "complete")
        /\ handled' = IF handled < MaxHandled THEN handled + 1 ELSE handled
     \/ Goto(d, "handle", "fail") /\ UNCHANGED handled
  /\ UNCHANGED <<row, faults>>

Complete(d) ==
  /\ \/ Goto(d, "complete", "ok") /\ row' = "processed"
     \/ Goto(d, "complete", "fail") /\ UNCHANGED row
  /\ UNCHANGED <<handled, faults>>

\* Recording the failure is best effort; the answer is 500 either way.
Fail(d) ==
  /\ Goto(d, "fail", "refused")
  /\ \/ row' = "failed" /\ UNCHANGED faults
     \/ faults' = faults \cup {"unrecorded"} /\ UNCHANGED row
  /\ UNCHANGED handled

\* An error before the dispatch is answered 500; a crash is not answered at all.
Refuse(d) == /\ at[d] \in {"claim", "read", "rearm"}
             /\ at' = [at EXCEPT ![d] = "refused"]
             /\ UNCHANGED <<row, handled, faults>>
Crash(d) == /\ faults' = faults \cup {"crash"}
            /\ at[d] \in Working
            /\ at' = [at EXCEPT ![d] = "lost"]
            /\ UNCHANGED <<row, handled>>

Next == \E d \in Deliveries :
  \/ Send(d) \/ Claim(d) \/ ReadPrior(d) \/ Rearm(d)
  \/ Handle(d) \/ Complete(d) \/ Fail(d) \/ Refuse(d) \/ Crash(d)

Spec == Init /\ [][Next]_vars

-----------------------------------------------------------------------------
\* However many deliveries of an event run, and whatever fails or dies, at most one
\* of them works on it, and only while its row says so (stripe.ts:2678-2682).
OneDeliveryWorks ==
  \A d \in Deliveries : at[d] \in Working =>
     /\ row = "processing"
     /\ \A x \in Deliveries \ {d} : at[x] \notin Working

\* An event completed once is never worked on again, and its row never reopens.
CompletedIsFinal == [][row = "processed" => row' = "processed" /\ handled' = handled]_vars

\* "A sync that did not happen must never be acknowledged as if it did"
\* (stripe.ts:1755-1756): once nothing works on it, an event answered 200 was handled.
AcknowledgedWasHandled ==
  Acknowledged /\ (\A d \in Deliveries : at[d] \notin Working) => handled > 0

\* It takes an overlap, a death or a failure without a record to break that: however
\* often the handler itself fails and the event is taken again, it is handled in the end.
OnlyFaultsLoseEvents == faults = {} => AcknowledgedWasHandled
=============================================================================
