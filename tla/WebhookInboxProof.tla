------------------------- MODULE WebhookInboxProof -------------------------
(* For any number of deliveries and any faults, one delivery at a time     *)
(* works on an event, and a completed event stays completed.               *)
EXTENDS WebhookInbox, TLAPS

\* OneDeliveryWorks is inductive once the state is typed: a delivery starts to work
\* only by the write that turns the row to processing, from a status that excludes
\* every other worker.
IInv == TypeOK /\ OneDeliveryWorks

\* Every step of a delivery keeps the typing of the three variables.
LEMMA TypeStep == ASSUME TypeOK, Next PROVE TypeOK'
<1> USE MaxHandledAssumption DEF TypeOK, Steps, Working, Ended, Faults
<1> PICK d \in Deliveries :
       \/ Send(d) \/ Claim(d) \/ ReadPrior(d) \/ Rearm(d)
       \/ Handle(d) \/ Complete(d) \/ Fail(d) \/ Refuse(d) \/ Crash(d)
  BY DEF Next
<1>1. CASE Send(d) BY <1>1 DEF Send, Goto
<1>2. CASE Claim(d) BY <1>2 DEF Claim, Goto
<1>3. CASE ReadPrior(d) BY <1>3 DEF ReadPrior, Goto
<1>4. CASE Rearm(d) BY <1>4 DEF Rearm, Goto
<1>5. CASE Handle(d) BY <1>5 DEF Handle, Goto
<1>6. CASE Complete(d) BY <1>6 DEF Complete, Goto
<1>7. CASE Fail(d) BY <1>7 DEF Fail, Goto
<1>8. CASE Refuse(d) BY <1>8 DEF Refuse
<1>9. CASE Crash(d) BY <1>9 DEF Crash
<1>10. QED BY <1>1, <1>2, <1>3, <1>4, <1>5, <1>6, <1>7, <1>8, <1>9

\* Every step of a delivery keeps one worker at most: a claim and a re-arm find no
\* worker because the row excludes one, the other steps only go on or stop working.
LEMMA WorkerStep == ASSUME IInv, Next PROVE OneDeliveryWorks'
<1> USE DEF IInv, TypeOK, OneDeliveryWorks, Working
<1> PICK d \in Deliveries :
       \/ Send(d) \/ Claim(d) \/ ReadPrior(d) \/ Rearm(d)
       \/ Handle(d) \/ Complete(d) \/ Fail(d) \/ Refuse(d) \/ Crash(d)
  BY DEF Next
<1>1. CASE Send(d) BY <1>1 DEF Send, Goto
<1>2. CASE Claim(d) BY <1>2 DEF Claim, Goto
<1>3. CASE ReadPrior(d) BY <1>3 DEF ReadPrior, Goto
<1>4. CASE Rearm(d) BY <1>4 DEF Rearm, Goto, Rearmable
<1>5. CASE Handle(d) BY <1>5 DEF Handle, Goto
<1>6. CASE Complete(d) BY <1>6 DEF Complete, Goto
<1>7. CASE Fail(d) BY <1>7 DEF Fail, Goto
<1>8. CASE Refuse(d) BY <1>8 DEF Refuse
<1>9. CASE Crash(d) BY <1>9 DEF Crash
<1>10. QED BY <1>1, <1>2, <1>3, <1>4, <1>5, <1>6, <1>7, <1>8, <1>9

\* As long as nothing went wrong one delivery at a time is under way, a row that says
\* processing has a worker, and whatever counts as done was handled.
Busy(d) == at[d] \notin Ended \cup {"unsent"}
Undisturbed ==
  faults = {} =>
    /\ \A d, x \in Deliveries : Busy(d) /\ Busy(x) => d = x
    /\ row = "processing" => \E d \in Deliveries : at[d] \in Working
    /\ row = "processed" => handled > 0
    /\ \A d \in Deliveries : /\ at[d] = "read" => row # "none"
                             /\ at[d] = "rearm" => row = "failed"
                             /\ at[d] \in {"complete", "ok"} => handled > 0

\* Every step of an undisturbed delivery keeps that; a fault ends the claim.
LEMMA UndisturbedStep == ASSUME TypeOK, Undisturbed, Next PROVE Undisturbed'
<1> SUFFICES ASSUME faults' = {} PROVE Undisturbed' BY DEF Undisturbed
<1> USE MaxHandledAssumption DEF TypeOK, Undisturbed, Busy, Steps, Working, Ended
<1> PICK d \in Deliveries :
       \/ Send(d) \/ Claim(d) \/ ReadPrior(d) \/ Rearm(d)
       \/ Handle(d) \/ Complete(d) \/ Fail(d) \/ Refuse(d) \/ Crash(d)
  BY DEF Next
<1>1. CASE Send(d) BY <1>1 DEF Send, Goto
<1>2. CASE Claim(d) BY <1>2 DEF Claim, Goto
<1>3. CASE ReadPrior(d) BY <1>3 DEF ReadPrior, Retakable, Goto
<1>4. CASE Rearm(d) BY <1>4 DEF Rearm, Rearmable, Goto
<1>5. CASE Handle(d) BY <1>5 DEF Handle, Goto
<1>6. CASE Complete(d) BY <1>6 DEF Complete, Goto
<1>7. CASE Fail(d) BY <1>7 DEF Fail, Goto
<1>8. CASE Refuse(d) BY <1>8 DEF Refuse
<1>9. CASE Crash(d) BY <1>9 DEF Crash
<1>10. QED BY <1>1, <1>2, <1>3, <1>4, <1>5, <1>6, <1>7, <1>8, <1>9

\* The invariants of the theorems below hold in every reachable state.
LEMMA InvHolds == Spec => [](IInv /\ Undisturbed)
<1>1. Init => IInv /\ Undisturbed
  BY MaxHandledAssumption
     DEF Init, IInv, TypeOK, OneDeliveryWorks, Undisturbed, Busy, Steps, Working, Ended, Faults
<1>2. IInv /\ Undisturbed /\ [Next]_vars => (IInv /\ Undisturbed)'
  <2> SUFFICES ASSUME IInv, Undisturbed, [Next]_vars PROVE (IInv /\ Undisturbed)' OBVIOUS
  <2>1. CASE Next BY <2>1, TypeStep, WorkerStep, UndisturbedStep DEF IInv
  <2>2. CASE UNCHANGED vars
    BY <2>2 DEF IInv, TypeOK, OneDeliveryWorks, Undisturbed, Busy, Working, vars
  <2>3. QED BY <2>1, <2>2
<1>3. QED BY <1>1, <1>2, PTL DEF Spec

\* At most one delivery works on an event (the claim of stripe.ts:2683-2721).
THEOREM OneWorker == Spec => []OneDeliveryWorks
BY InvHolds, PTL DEF IInv

\* A completed event is never reopened nor handled again.
THEOREM CompletedStays == Spec => CompletedIsFinal
<1>1. IInv /\ [Next]_vars =>
        [row = "processed" => row' = "processed" /\ handled' = handled]_vars
  <2> SUFFICES ASSUME IInv, Next, row = "processed"
               PROVE row' = "processed" /\ handled' = handled
    OBVIOUS
  <2>1. \A x \in Deliveries : at[x] \notin Working
    BY DEF IInv, OneDeliveryWorks
  <2> PICK d \in Deliveries :
         \/ Send(d) \/ Claim(d) \/ ReadPrior(d) \/ Rearm(d)
         \/ Handle(d) \/ Complete(d) \/ Fail(d) \/ Refuse(d) \/ Crash(d)
    BY DEF Next
  <2>2. QED
    BY <2>1 DEF Send, Claim, ReadPrior, Rearm, Rearmable, Handle, Complete, Fail,
                Refuse, Crash, Goto, Working
<1>2. QED BY <1>1, InvHolds, PTL DEF Spec, CompletedIsFinal
\* Without an overlap, a death or a failure left unrecorded, what is answered 200 was
\* handled, however often the handler itself fails (stripe.ts:2702-2744).
THEOREM NothingLostWithoutFault == Spec => []OnlyFaultsLoseEvents
<1>1. Undisturbed => OnlyFaultsLoseEvents
  BY DEF Undisturbed, OnlyFaultsLoseEvents, AcknowledgedWasHandled, Acknowledged
<1>2. QED BY <1>1, InvHolds, PTL
=============================================================================
