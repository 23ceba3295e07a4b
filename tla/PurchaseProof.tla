---------------------------- MODULE PurchaseProof ----------------------------
(***************************************************************************)
(* The inductive invariant of Purchase, and the theorems that follow from  *)
(* it for any number of orders, sessions and requests.                     *)
(***************************************************************************)
EXTENDS Purchase, TLAPS

-----------------------------------------------------------------------------
(* Facts about the projection, for every value the columns may hold: the   *)
(* two encodings agree, and what each kind of write projects to.           *)

\* The SQL text and the TypeScript function are one function, whatever the columns
\* hold: the UPDATE statements and the in-process writers cannot disagree.
THEOREM SqlMirror ==
  ASSUME NEW p, NEW a
  PROVE  ProjectOrderStatus(p, a) = ProjectOrderStatusSql(p, a)
<1> DEFINE f == NormalizeFulfillmentAxis(a.fstat)
           o == NormalizeOrderState(a.ostate)
           m == NormalizePaymentState(p)
<1>1. ProjectOrderStatus(p, a) = ProjectNormalized(m, o, f)
  BY DEF ProjectOrderStatus
<1>2. CASE a.fstat \in Started
  <2>1. f = a.fstat
    BY <1>2 DEF Started, NormalizeFulfillmentAxis, FulfillmentAxis
  <2>2. (o = "completed") <=> (a.ostate = "completed")
    BY DEF NormalizeOrderState, OrderStates
  <2> QED
    BY <1>1, <1>2, <2>1, <2>2
    DEF ProjectNormalized, ProjectOrderStatusSql, Started, StartedStatus
<1>3. CASE a.fstat \notin Started
  <2>1. f \notin Started /\ (f = "cancelled" <=> a.fstat = "cancelled")
    BY <1>3 DEF Started, NormalizeFulfillmentAxis, FulfillmentAxis
  <2>2. /\ o = "cancelled" <=> a.ostate = "cancelled"
        /\ o = "completed" <=> a.ostate = "completed"
        /\ o = "confirmed" <=> a.ostate = "confirmed"
        /\ o = "processing" <=> a.ostate = "processing"
    BY DEF NormalizeOrderState, OrderStates
  <2>3. /\ m \in PaymentStates
        /\ m # "unpaid" => m = p
        /\ m = "unpaid" => p \notin PaymentStates \ {"unpaid"}
    BY DEF NormalizePaymentState, PaymentStates
  <2> QED
    BY <1>1, <1>3, <2>1, <2>2, <2>3
    DEF ProjectNormalized, ProjectOrderStatusSql, Started, PaymentStates
<1> QED BY <1>2, <1>3

-----------------------------------------------------------------------------
\* A staff move's axes project to that move's status, unless the payment ended the
\* purchase: from packing on, not even then.
LEMMA MoveProjects ==
  ASSUME NEW p
  PROVE  /\ \A s \in {"packing", "shipped", "delivered", "completed"} :
              ProjectOrderStatus(p, AxesFor(s)) = s
         /\ p \in {"paid", "partially_refunded", "refunded"}
              => ProjectOrderStatus(p, AxesFor("confirmed")) \in {"confirmed", "refunded"}
         /\ p # "expired" => ProjectOrderStatus(p, AxesFor("cancelled")) = "cancelled"
         /\ p \in {"requires_action", "cancelled", "unpaid"}
              => ProjectOrderStatus(p, AxesFor("pending")) \in {"pending", "pending_payment"}
<1>1. ASSUME NEW s \in {"packing", "shipped", "delivered", "completed"}
      PROVE  ProjectOrderStatusSql(p, AxesFor(s)) = s
  BY DEF AxesFor, ProjectOrderStatusSql
<1>2. p \in {"paid", "partially_refunded", "refunded"}
        => ProjectOrderStatusSql(p, AxesFor("confirmed")) \in {"confirmed", "refunded"}
  BY DEF AxesFor, ProjectOrderStatusSql
<1>3. p # "expired" => ProjectOrderStatusSql(p, AxesFor("cancelled")) = "cancelled"
  BY DEF AxesFor, ProjectOrderStatusSql
<1>4. p \in {"requires_action", "cancelled", "unpaid"}
        => ProjectOrderStatusSql(p, AxesFor("pending")) \in {"pending", "pending_payment"}
  BY DEF AxesFor, ProjectOrderStatusSql
<1> QED BY <1>1, <1>2, <1>3, <1>4, SqlMirror

\* What the three ways a purchase ends without money write.
LEMMA EndProjects ==
  /\ ProjectOrderStatus("cancelled", AxesFor("cancelled")) = "cancelled"
  /\ ProjectOrderStatus("expired", AxesFor("cancelled")) = "expired"
  /\ ProjectOrderStatus("failed", AxesFor("pending")) = "payment_failed"
<1>1. ProjectOrderStatusSql("cancelled", AxesFor("cancelled")) = "cancelled"
  BY DEF AxesFor, ProjectOrderStatusSql
<1>2. ProjectOrderStatusSql("expired", AxesFor("cancelled")) = "expired"
  BY DEF AxesFor, ProjectOrderStatusSql
<1>3. ProjectOrderStatusSql("failed", AxesFor("pending")) = "payment_failed"
  BY DEF AxesFor, ProjectOrderStatusSql
<1> QED BY <1>1, <1>2, <1>3, SqlMirror

\* What a change of the payment axis alone writes: a refund never makes an order
\* look unpaid, nor one that ended look alive.
LEMMA PaymentProjects ==
  /\ ProjectOrderStatusSql("pending", AxesFor("pending")) = "pending_payment"
  /\ ProjectOrderStatusSql("paid", AxesFor("pending")) = "paid"
  /\ \A a \in {AxesFor("pending"), AxesFor("cancelled")} :
       ProjectOrderStatusSql("refunded", a) \in {"refunded", "cancelled"}
  /\ \A a : ProjectOrderStatusSql("refunded", a) \notin {"pending", "pending_payment"}
<1>1. ProjectOrderStatusSql("pending", AxesFor("pending")) = "pending_payment"
  BY DEF AxesFor, ProjectOrderStatusSql
<1>2. ProjectOrderStatusSql("paid", AxesFor("pending")) = "paid"
  BY DEF AxesFor, ProjectOrderStatusSql
<1>3. ProjectOrderStatusSql("refunded", AxesFor("pending")) = "refunded"
  BY DEF AxesFor, ProjectOrderStatusSql
<1>4. ProjectOrderStatusSql("refunded", AxesFor("cancelled")) = "cancelled"
  BY DEF AxesFor, ProjectOrderStatusSql
<1>5. ASSUME NEW a
      PROVE  ProjectOrderStatusSql("refunded", a) \notin {"pending", "pending_payment"}
  BY DEF ProjectOrderStatusSql
<1> QED BY <1>1, <1>2, <1>3, <1>4, <1>5

\* Both encodings write a legacy status; the axes of a machine status are axes.
LEMMA ProjectionTypes ==
  /\ \A p, a : /\ ProjectOrderStatusSql(p, a) \in LegacyStatuses
                /\ ProjectOrderStatus(p, a) \in LegacyStatuses
  /\ \A s \in FulfillmentStatuses : AxesFor(s) \in Axes
<1>1. ASSUME NEW p, NEW a
      PROVE  ProjectOrderStatusSql(p, a) \in LegacyStatuses
  BY DEF ProjectOrderStatusSql, LegacyStatuses
<1>2. ASSUME NEW p, NEW a
      PROVE  ProjectOrderStatus(p, a) \in LegacyStatuses
  BY <1>1, SqlMirror
<1>3. ASSUME NEW s \in FulfillmentStatuses
      PROVE  AxesFor(s) \in Axes
  BY DEF FulfillmentStatuses, AxesFor, Axes, OrderStates, FulfillmentAxis
<1> QED BY <1>1, <1>2, <1>3

-----------------------------------------------------------------------------
(* The inductive invariant.                                                *)

\* What a request carries: a session, and at "insert" one of its own that has no
\* row yet; without that an insert could overwrite a row that recorded money.
CarriesSession(r) ==
  /\ req[r].pc \in {"active", "retire", "insert", "mark"} => req[r].session \in Sessions
  /\ req[r].pc = "insert" => /\ row[req[r].session] = "none"
                             /\ sess[req[r].session] # "none"
                             /\ \A q \in Requests \ {r} :
                                  req[q].pc = "insert" => req[q].session # req[r].session

RowsHaveSessions ==
  /\ \A s \in Sessions : row[s] # "none" => sess[s] # "none"
  /\ \A s \in Sessions : intent[s] # NoSession => row[s] # "none"
  /\ \A r \in Requests : CarriesSession(r)

\* The three fates of an order.  Only one that waits can be sold or returned, and
\* its axes are still those of checkout: nothing moved it.
Waits(o) == /\ orders[o].status \in Abandonable
            /\ orders[o].axes = AxesFor("pending")
            /\ ~orders[o].released
            /\ commits[o] = 0 /\ releases[o] = 0
            /\ ~Settled

Sold(o) == /\ orders[o].status \notin Abandonable
           /\ ~orders[o].released
           /\ commits[o] = 1 /\ releases[o] = 0
           /\ Settled

Returned(o) == /\ orders[o].status \in DeadStatuses
               /\ orders[o].axes \in {AxesFor("pending"), AxesFor("cancelled")}
               /\ orders[o].released
               /\ commits[o] = 0 /\ releases[o] = 1

EachOrderHasOneFate == \A o \in Orders : Waits(o) \/ Sold(o) \/ Returned(o)

MoneyAccounted == /\ Settled => incidents # {} \/ \E o \in Orders : Committed(o)
                  /\ refund # "none" => Settled

IInv == TypeOK /\ RowsHaveSessions /\ EachOrderHasOneFate /\ MoneyAccounted

-----------------------------------------------------------------------------
(* The invariant implies the properties.                                   *)

\* The invariant implies the five safety properties.
LEMMA InvImplies ==
  IInv => /\ CommitXorRelease
          /\ HeldWhileWaiting
          /\ FulfilledIsSold
          /\ ReleasedIsDead
          /\ RecordedMoneyIsAccountedFor
<1> SUFFICES ASSUME IInv
             PROVE  /\ CommitXorRelease /\ HeldWhileWaiting /\ FulfilledIsSold
                    /\ ReleasedIsDead /\ RecordedMoneyIsAccountedFor
  OBVIOUS
<1> USE DEF IInv, EachOrderHasOneFate, Waits, Sold, Returned
<1>1. CommitXorRelease
  BY DEF CommitXorRelease
<1>2. HeldWhileWaiting
  BY DEF HeldWhileWaiting, HoldOf, Abandonable, DeadStatuses
<1>3. FulfilledIsSold
  BY DEF FulfilledIsSold, Committed, InFulfilment, Abandonable, DeadStatuses
<1>4. ReleasedIsDead
  BY DEF ReleasedIsDead
<1>5. RecordedMoneyIsAccountedFor
  BY DEF RecordedMoneyIsAccountedFor, MoneyAccounted, Abandonable, DeadStatuses
<1> QED BY <1>1, <1>2, <1>3, <1>4, <1>5

\* A purchase as checkout commits it satisfies the invariant.
LEMMA InitHolds == Init => IInv
<1> SUFFICES ASSUME Init PROVE IInv
  OBVIOUS
<1>1. TypeOK
  BY ProjectionTypes DEF Init, TypeOK, LegacyStatuses, FulfillmentStatuses, RowStatuses,
     SessionStates, RequestStates, SweepIdle
<1>2. RowsHaveSessions
  BY DEF Init, RowsHaveSessions, CarriesSession
<1>3. ~Settled
  BY DEF Init, Settled
<1>4. EachOrderHasOneFate
  BY <1>3 DEF Init, EachOrderHasOneFate, Waits, Abandonable
<1>5. MoneyAccounted
  BY <1>3 DEF Init, MoneyAccounted
<1> QED BY <1>1, <1>2, <1>4, <1>5 DEF IInv

-----------------------------------------------------------------------------
(* Types.                                                                  *)

OrderRecords == [status : LegacyStatuses, axes : Axes, released : BOOLEAN]

\* The three rewrites of an order row give an order row.
LEMMA RecordTypes ==
  ASSUME NEW rec \in OrderRecords
  PROVE  /\ \A p : Pay(rec, p) \in OrderRecords
         /\ \A p : \A s \in FulfillmentStatuses : Move(rec, p, AxesFor(s)) \in OrderRecords
         /\ Release(rec) \in OrderRecords
<1>1. ASSUME NEW p PROVE Pay(rec, p) \in OrderRecords
  BY ProjectionTypes DEF Pay, OrderRecords
<1>2. ASSUME NEW p, NEW s \in FulfillmentStatuses
      PROVE  Move(rec, p, AxesFor(s)) \in OrderRecords
  BY ProjectionTypes DEF Move, OrderRecords
<1>3. Release(rec) \in OrderRecords
  BY DEF Release, ReleaseClaim, OrderRecords
<1> QED BY <1>1, <1>2, <1>3

\* A release touches nothing but the flag.
LEMMA ReleaseWrites ==
  ASSUME NEW rec \in OrderRecords
  PROVE  /\ Release(rec).status = rec.status
         /\ Release(rec).axes = rec.axes
         /\ Release(rec).released <=> rec.released \/ ReleaseClaim(rec)
BY DEF Release, ReleaseClaim, OrderRecords

\* Stripe emits well-formed events.
LEMMA EmitTypes ==
  ASSUME TypeOK, NEW s \in Sessions, NEW kinds \in SUBSET EventKinds, Emit(kinds, s)
  PROVE  events' \in SUBSET Events
BY DEF TypeOK, Emit, Events

\* terminateCheckoutGroup as its callers use it.
LEMMA TerminateTypes ==
  ASSUME TypeOK, NEW p, NEW s \in FulfillmentStatuses, NEW from,
         Terminate(p, AxesFor(s), from)
  PROVE  /\ orders' \in [Orders -> OrderRecords]
         /\ row' \in [Sessions -> RowStatuses]
         /\ releases' \in [Orders -> Nat]
<1>1. \A o \in Orders : Release(Move(orders[o], p, AxesFor(s))) \in OrderRecords
  BY RecordTypes DEF TypeOK, OrderRecords
<1>2. \A o \in Orders : /\ ReleaseCount(Move(orders[o], p, AxesFor(s))) \in Nat
                        /\ releases[o] + ReleaseCount(Move(orders[o], p, AxesFor(s))) \in Nat
  BY DEF ReleaseCount, TypeOK
<1>3. \A r \in Sessions : RetiredRow(r) \in RowStatuses
  BY DEF RetiredRow, RowStatuses, TypeOK
<1>4. CASE Settled
  BY <1>4 DEF Terminate, TypeOK, OrderRecords
<1>5. CASE ~Settled
  <2>1. orders' \in [Orders -> OrderRecords]
    BY <1>1, <1>5 DEF Terminate, TypeOK, OrderRecords
  <2>2. row' \in [Sessions -> RowStatuses]
    BY <1>3, <1>5 DEF Terminate
  <2>3. releases' \in [Orders -> Nat]
    BY <1>2, <1>5 DEF Terminate, TypeOK
  <2> QED BY <2>1, <2>2, <2>3
<1> QED BY <1>4, <1>5

\* A step of a pay request keeps the types.
LEMMA RequestTypes ==
  ASSUME TypeOK, RowsHaveSessions, NEW r \in Requests, PayRequest(r)
  PROVE  TypeOK'
<1>1. /\ req[r].session \in Sessions \cup {NoSession}
      /\ req[r].pc \in {"active", "retire", "insert", "mark"} => req[r].session \in Sessions
  BY DEF TypeOK, RowsHaveSessions, CarriesSession
<1>2. CASE ReadOrders(r) \/ ReadActive(r) \/ FindDead(r) \/ GiveUp(r)
  BY <1>1, <1>2 DEF TypeOK, ReadOrders, ReadActive, FindDead, GiveUp, Goto, At, ActiveRows,
     RequestStates, dbVars, envVars, history
<1>3. CASE Reuse(r) \/ CreateSession(r)
  <2>1. req' \in [Requests -> [pc : RequestStates, session : Sessions \cup {NoSession}]]
    BY <1>1, <1>3 DEF TypeOK, Reuse, CreateSession, Goto, At, RequestStates
  <2>2. sess' \in [Sessions -> SessionStates]
    BY <1>3 DEF TypeOK, Reuse, CreateSession, SessionStates
  <2> QED BY <1>3, <2>1, <2>2 DEF TypeOK, Reuse, CreateSession, dbVars, history
<1>4. CASE SwitchRail(r) \/ LoseInsert(r)
  <2>1. events' \in SUBSET Events
    BY <1>1, <1>4, EmitTypes DEF SwitchRail, LoseInsert, At, EventKinds, TypeOK, envVars
  <2>2. sess' \in [Sessions -> SessionStates]
    BY <1>4 DEF TypeOK, SwitchRail, LoseInsert, SessionStates, envVars
  <2> QED BY <1>1, <1>4, <2>1, <2>2 DEF TypeOK, SwitchRail, LoseInsert, Goto, At,
             RequestStates, dbVars, history
<1>5. CASE Retire(r) \/ InsertRow(r)
  <2>1. row' \in [Sessions -> RowStatuses]
    BY <1>1, <1>5 DEF TypeOK, Retire, InsertRow, RetiredRow, RowStatuses, At
  <2>2. intent' \in [Sessions -> Sessions \cup {NoSession}]
    BY <1>1, <1>5 DEF TypeOK, Retire, InsertRow, At
  <2> QED BY <1>1, <1>5, <2>1, <2>2 DEF TypeOK, Retire, InsertRow, Goto, At,
             RequestStates, envVars, history
<1>6. CASE MarkOrders(r)
  <2>1. orders' \in [Orders -> OrderRecords]
    BY <1>6, RecordTypes DEF TypeOK, MarkOrders, OrderRecords
  <2> QED BY <1>1, <1>6, <2>1 DEF TypeOK, MarkOrders, Goto, At, RequestStates, SessionStates,
             OrderRecords, history
<1> QED BY <1>2, <1>3, <1>4, <1>5, <1>6 DEF PayRequest

\* A delivered event keeps the types.
LEMMA DeliverTypes ==
  ASSUME TypeOK, NEW e \in events, Deliver(e)
  PROVE  TypeOK'
<1>1. e \in Events /\ events' \in SUBSET Events /\ e.session \in Sessions
  BY DEF TypeOK, Deliver, Events
<1>2. CASE ~Resolves(e)
  BY <1>1, <1>2 DEF Deliver, TypeOK, runVars, history
<1>3. CASE Resolves(e) /\ e.kind \in {"session_paid", "intent_paid"}
  <2>1. Settle(e)
    BY <1>3 DEF Deliver
  <2>2. /\ row' \in [Sessions -> RowStatuses]
        /\ intent' \in [Sessions -> Sessions \cup {NoSession}]
    BY <1>1, <2>1 DEF Settle, SettledRows, TypeOK, RowStatuses
  <2>3. orders' \in [Orders -> OrderRecords]
    <3>1. \A o \in Orders : Pay(orders[o], "paid") \in OrderRecords
      BY RecordTypes DEF TypeOK, OrderRecords
    <3> QED BY <2>1, <3>1 DEF Settle, TypeOK, OrderRecords
  <2>4. incidents' \in SUBSET Sessions
    BY <2>1 DEF Settle, SettledRows, TypeOK
  <2>5. commits' \in [Orders -> Nat]
    BY <2>1 DEF Settle, TypeOK
  <2> QED BY <1>1, <2>1, <2>2, <2>3, <2>4, <2>5
          DEF Deliver, Settle, TypeOK, OrderRecords, runVars
<1>4. CASE Resolves(e) /\ e.kind \notin {"session_paid", "intent_paid"}
  <2>1. FailPurchase(e)
    BY <1>4 DEF Deliver
  <2>2. /\ orders' \in [Orders -> OrderRecords]
        /\ row' \in [Sessions -> RowStatuses]
        /\ releases' \in [Orders -> Nat]
    <3>1. \/ Terminate("failed", AxesFor("pending"), Abandonable)
          \/ Terminate("cancelled", AxesFor("cancelled"), Abandonable)
      BY <2>1 DEF FailPurchase
    <3>2. "pending" \in FulfillmentStatuses /\ "cancelled" \in FulfillmentStatuses
      BY DEF FulfillmentStatuses
    <3> QED BY <3>1, <3>2, TerminateTypes
  <2> QED BY <1>1, <1>4, <2>1, <2>2 DEF Deliver, FailPurchase, TypeOK, OrderRecords, runVars
<1> QED BY <1>2, <1>3, <1>4

\* A write of the status routes keeps the types.
LEMMA WriteMoveTypes ==
  ASSUME TypeOK, NEW o \in Orders, NEW s \in FulfillmentStatuses, WriteMove(o, s)
  PROVE  TypeOK'
<1>1. \A p : LET rec == Move(orders[o], p, AxesFor(s))
             IN  rec \in OrderRecords /\ Release(rec) \in OrderRecords
  BY RecordTypes DEF TypeOK, OrderRecords
<1>2. orders' \in [Orders -> OrderRecords]
  BY <1>1 DEF WriteMove, TypeOK, OrderRecords
<1>3. releases' \in [Orders -> Nat]
  BY DEF WriteMove, ReleaseCount, TypeOK
<1> QED BY <1>2, <1>3 DEF WriteMove, TypeOK, OrderRecords, envVars, runVars

\* Every step keeps the types.
LEMMA TypeStep ==
  ASSUME TypeOK, RowsHaveSessions, [Next]_vars
  PROVE  TypeOK'
<1>1. ASSUME NEW r \in Requests, PayRequest(r) PROVE TypeOK'
  BY <1>1, RequestTypes
<1>2. ASSUME NEW s \in Sessions, Stripe(s) PROVE TypeOK'
  <2>1. ASSUME NEW from, NEW to \in SessionStates, NEW kinds \in SUBSET EventKinds,
               SessionMoves(s, from, to, kinds)
        PROVE  TypeOK'
    <3>1. events' \in SUBSET Events
      BY <2>1, EmitTypes DEF SessionMoves
    <3> QED BY <2>1, <3>1 DEF SessionMoves, TypeOK, dbVars, runVars, history
  <2>2. \E from, to, kinds : /\ SessionMoves(s, from, to, kinds)
                             /\ to \in SessionStates
                             /\ kinds \in SUBSET EventKinds
    <3>1. /\ {"paid", "complete", "failed", "open", "expired"} \subseteq SessionStates
          /\ EventKinds = {"session_paid", "session_failed", "session_expired",
                           "intent_paid", "intent_failed", "intent_canceled"}
      BY DEF SessionStates, EventKinds
    <3>2. CASE CustomerPays(s)    BY <3>1, <3>2 DEF CustomerPays
    <3>3. CASE CompletesUnpaid(s) BY <3>1, <3>3 DEF CompletesUnpaid
    <3>4. CASE AsyncPaid(s)       BY <3>1, <3>4 DEF AsyncPaid
    <3>5. CASE AsyncFailed(s)     BY <3>1, <3>5 DEF AsyncFailed
    <3>6. CASE CardDeclined(s)    BY <3>1, <3>6 DEF CardDeclined
    <3>7. CASE TimesOut(s)        BY <3>1, <3>7 DEF TimesOut
    <3> QED BY <1>2, <3>2, <3>3, <3>4, <3>5, <3>6, <3>7 DEF Stripe
  <2> QED BY <2>1, <2>2
<1>3. ASSUME NEW s \in Sessions, CloseSession(s) PROVE TypeOK'
  <2>1. events' \in SUBSET Events
    BY <1>3, EmitTypes DEF CloseSession, EventKinds, TypeOK, envVars
  <2>2. sess' \in [Sessions -> SessionStates]
    BY <1>3 DEF CloseSession, SessionStates, TypeOK, envVars
  <2> QED BY <1>3, <2>1, <2>2 DEF CloseSession, TypeOK, dbVars, history
<1>4. ASSUME NEW e \in events, Deliver(e) PROVE TypeOK'
  BY <1>4, DeliverTypes
<1>5. CASE CustomerCancel
  <2>1. Terminate("cancelled", AxesFor("cancelled"), CustomerCancelable)
    BY <1>5 DEF CustomerCancel
  <2>2. "cancelled" \in FulfillmentStatuses
    BY DEF FulfillmentStatuses
  <2>3. /\ orders' \in [Orders -> OrderRecords]
        /\ row' \in [Sessions -> RowStatuses]
        /\ releases' \in [Orders -> Nat]
    BY <2>1, <2>2, TerminateTypes
  <2>4. closing' \in SUBSET Sessions
    BY <1>5 DEF CustomerCancel, ActiveRows, TypeOK
  <2> QED BY <1>5, <2>3, <2>4 DEF CustomerCancel, TypeOK, OrderRecords, envVars
<1>6. CASE SweepExpires
  <2>1. Terminate("expired", AxesFor("cancelled"), Abandonable)
    BY <1>6 DEF SweepExpires
  <2>2. "cancelled" \in FulfillmentStatuses
    BY DEF FulfillmentStatuses
  <2>3. /\ orders' \in [Orders -> OrderRecords]
        /\ row' \in [Sessions -> RowStatuses]
        /\ releases' \in [Orders -> Nat]
    BY <2>1, <2>2, TerminateTypes
  <2>4. closing' \in SUBSET Sessions
    BY <1>6 DEF SweepExpires, ActiveRows, TypeOK
  <2>5. sweep' \in [on : BOOLEAN, saw : SUBSET Sessions]
    BY <1>6 DEF SweepExpires, SweepIdle
  <2> QED BY <1>6, <2>3, <2>4, <2>5 DEF SweepExpires, TypeOK, OrderRecords, envVars
<1>7. CASE DeadlinePasses \/ SweepReads
  <2>1. sweep' \in [on : BOOLEAN, saw : SUBSET Sessions]
    <3>1. CASE DeadlinePasses
      BY <3>1 DEF DeadlinePasses, TypeOK, runVars
    <3>2. CASE SweepReads
      <4>1. ActiveRows \in SUBSET Sessions
        BY DEF ActiveRows
      <4> QED BY <3>2, <4>1 DEF SweepReads
    <3> QED BY <1>7, <3>1, <3>2
  <2>2. UNCHANGED <<orders, row, intent, refund, incidents, sess, events, req, closing,
                    commits, releases>> /\ due' \in BOOLEAN
    BY <1>7 DEF DeadlinePasses, SweepReads, TypeOK, dbVars, envVars, runVars, history
  <2> QED BY <2>1, <2>2 DEF TypeOK
<1>8. ASSUME NEW o \in Orders, NEW to \in StaffTargets, StaffMove(o, to) PROVE TypeOK'
  BY <1>8, WriteMoveTypes, StaffTargetsAssumption DEF StaffMove
<1>9. ASSUME NEW o \in Orders, CenterReselects(o) PROVE TypeOK'
  BY <1>9, WriteMoveTypes DEF CenterReselects
<1>10. ASSUME NEW kind \in RefundKinds, SyncRefund(kind) PROVE TypeOK'
  <2>1. orders' \in [Orders -> OrderRecords]
    BY <1>10, RecordTypes DEF SyncRefund, TypeOK, OrderRecords
  <2> QED BY <1>10, <2>1, RefundKindsAssumption
          DEF SyncRefund, TypeOK, OrderRecords, envVars, runVars, history
<1>11. CASE UNCHANGED vars
  BY <1>11 DEF vars, dbVars, envVars, runVars, history, TypeOK
<1> QED BY <1>1, <1>2, <1>3, <1>4, <1>5, <1>6, <1>7, <1>8, <1>9, <1>10, <1>11 DEF Next, Staff

-----------------------------------------------------------------------------
(* Rows and sessions.                                                      *)

\* What any step may do to the rows and sessions: a row appears once, as active, a
\* row that recorded money keeps it, and a session is never forgotten.
RowsKept ==
  \A s \in Sessions : /\ row[s] = "paid" => row'[s] = "paid"
                      /\ row[s] # "none" => row'[s] # "none"
                      /\ sess[s] # "none" => sess'[s] # "none"

\* A termination retires rows and creates none.
LEMMA TerminateRows ==
  ASSUME TypeOK, NEW p, NEW a, NEW from, Terminate(p, a, from)
  PROVE  /\ \A s \in Sessions : /\ row[s] = "paid" <=> row'[s] = "paid"
                                /\ row[s] = "none" <=> row'[s] = "none"
         /\ Settled' <=> Settled
<1>1. \A s \in Sessions : row'[s] = row[s] \/ row'[s] = RetiredRow(s)
  BY DEF Terminate, TypeOK
<1>2. \A s \in Sessions : /\ row[s] = "paid" <=> row'[s] = "paid"
                          /\ row[s] = "none" <=> row'[s] = "none"
  BY <1>1 DEF RetiredRow
<1> QED BY <1>2 DEF Settled

\* A pay request creates one row per session, retires at most one and settles none.
LEMMA RequestRows ==
  ASSUME TypeOK, RowsHaveSessions, NEW r \in Requests, PayRequest(r)
  PROVE  RowsKept /\ RowsHaveSessions' /\ (Settled' <=> Settled)
<1>1. /\ req[r].pc \in {"active", "retire", "insert", "mark"} => req[r].session \in Sessions
      /\ req[r].pc = "insert" => row[req[r].session] = "none"
  BY DEF RowsHaveSessions, CarriesSession
<1>2. CASE ReadOrders(r) \/ ReadActive(r) \/ FindDead(r) \/ GiveUp(r)
  <2>1. UNCHANGED <<row, intent, sess>>
    BY <1>2 DEF ReadOrders, ReadActive, FindDead, GiveUp, dbVars, envVars
  <2>2. \A q \in Requests : req'[q] = req[q] \/ q = r
    BY <1>2 DEF ReadOrders, ReadActive, FindDead, GiveUp, Goto, TypeOK
  <2>3. /\ req'[r].pc \in {"idle", "checked", "active", "create", "retire"}
        /\ req'[r].pc \in {"active", "retire"} => req'[r].session \in Sessions
    BY <1>1, <1>2 DEF ReadOrders, ReadActive, FindDead, GiveUp, Goto, At, ActiveRows, TypeOK
  <2> QED BY <2>1, <2>2, <2>3 DEF RowsKept, RowsHaveSessions, CarriesSession, Settled
<1>3. CASE Reuse(r) \/ SwitchRail(r) \/ LoseInsert(r) \/ MarkOrders(r)
  <2>1. UNCHANGED <<row, intent>>
    BY <1>3 DEF Reuse, SwitchRail, LoseInsert, MarkOrders, dbVars
  <2>2. \A s \in Sessions : sess[s] # "none" <=> sess'[s] # "none"
    BY <1>1, <1>3 DEF Reuse, SwitchRail, LoseInsert, MarkOrders, TypeOK, envVars
  <2>3. \A q \in Requests : req'[q] = req[q] \/ q = r
    BY <1>3 DEF Reuse, SwitchRail, LoseInsert, MarkOrders, Goto, TypeOK
  <2>4. /\ req'[r].pc \in {"idle", "retire"}
        /\ req'[r].pc = "retire" => req'[r].session \in Sessions
    BY <1>1, <1>3 DEF Reuse, SwitchRail, LoseInsert, MarkOrders, Goto, At, TypeOK
  <2> QED BY <2>1, <2>2, <2>3, <2>4 DEF RowsKept, RowsHaveSessions, CarriesSession, Settled
<1>4. CASE Retire(r)
  <2>1. /\ \A s \in Sessions : /\ row[s] = "paid" <=> row'[s] = "paid"
                               /\ row[s] = "none" <=> row'[s] = "none"
        /\ UNCHANGED <<intent, sess>>
    BY <1>1, <1>4 DEF Retire, RetiredRow, TypeOK, envVars
  <2>2. /\ \A q \in Requests : req'[q] = req[q] \/ q = r
        /\ req'[r].pc = "idle"
    BY <1>4 DEF Retire, Goto, TypeOK
  <2> QED BY <2>1, <2>2 DEF RowsKept, RowsHaveSessions, CarriesSession, Settled
<1>5. CASE CreateSession(r)
  <2>1. PICK s \in Sessions : /\ sess[s] = "none"
                             /\ sess' = [sess EXCEPT ![s] = "unseen"]
                             /\ Goto(r, "insert", s)
    BY <1>5 DEF CreateSession
  <2>2. UNCHANGED <<row, intent>>
    BY <1>5 DEF CreateSession, dbVars
  <2>3. row[s] = "none"
    BY <2>1 DEF RowsHaveSessions
  <2>4. \A q \in Requests \ {r} : req[q].pc = "insert" => req[q].session # s
    BY <2>1 DEF RowsHaveSessions, CarriesSession
  <2>5. /\ \A q \in Requests \ {r} : req'[q] = req[q]
        /\ req'[r].pc = "insert" /\ req'[r].session = s
    BY <2>1 DEF Goto, TypeOK
  <2>6. sess'[s] = "unseen" /\ \A q \in Sessions \ {s} : sess'[q] = sess[q]
    BY <2>1 DEF TypeOK
  <2>7. RowsHaveSessions'
    BY <2>2, <2>3, <2>4, <2>5, <2>6 DEF RowsHaveSessions, CarriesSession
  <2> QED BY <2>2, <2>6, <2>7 DEF RowsKept, Settled
<1>6. CASE InsertRow(r)
  <2> DEFINE s == req[r].session
  <2>1. s \in Sessions /\ row[s] = "none" /\ sess[s] # "none"
    BY <1>6 DEF InsertRow, At, RowsHaveSessions, CarriesSession
  <2>2. /\ row'[s] = "requires_action"
        /\ \A q \in Sessions \ {s} : row'[q] = row[q] /\ intent'[q] = intent[q]
        /\ sess' = sess
    BY <1>6, <2>1 DEF InsertRow, TypeOK, envVars
  <2>3. /\ \A q \in Requests \ {r} : req'[q] = req[q]
        /\ req'[r].pc = "mark" /\ req'[r].session = s
    BY <1>6 DEF InsertRow, Goto, TypeOK
  <2>4. \A q \in Requests \ {r} : req[q].pc = "insert" => req[q].session # s
    BY <1>6 DEF InsertRow, At, RowsHaveSessions, CarriesSession
  <2>5. RowsHaveSessions'
    BY <2>1, <2>2, <2>3, <2>4 DEF RowsHaveSessions, CarriesSession
  <2> QED BY <2>1, <2>2, <2>5 DEF RowsKept, Settled
<1> QED BY <1>2, <1>3, <1>4, <1>5, <1>6 DEF PayRequest

-----------------------------------------------------------------------------
(* Fates.                                                                  *)

\* What any step may do to the fates: sold and returned are final, and of the
\* orders that wait it sells all, returns all, returns one, or touches none.
FateStep ==
  /\ \A o \in Orders : (Sold(o) => Sold(o)') /\ (Returned(o) => Returned(o)')
  /\ \/ \A o \in Orders : Waits(o) => Waits(o)'
     \/ \A o \in Orders : Waits(o) => Sold(o)'
     \/ \A o \in Orders : Waits(o) => Returned(o)'
     \/ \E x \in Orders : /\ Waits(x) => Returned(x)'
                          /\ \A o \in Orders \ {x} : Waits(o) => Waits(o)'

\* A fate step leaves every order with one fate.
LEMMA FateStepKeepsFates ==
  ASSUME EachOrderHasOneFate, FateStep
  PROVE  EachOrderHasOneFate'
BY DEF EachOrderHasOneFate, FateStep

\* A step that touches no order, no stock and no recorded payment is a fate step.
LEMMA FrameFates ==
  ASSUME UNCHANGED <<orders, commits, releases>>, Settled' <=> Settled
  PROVE  FateStep
BY DEF FateStep, Waits, Sold, Returned

\* A termination returns every order that waits, or touches nothing.
LEMMA TerminateFates ==
  ASSUME TypeOK, NEW p, NEW a, NEW from,
         \/ p = "cancelled" /\ a = AxesFor("cancelled")
         \/ p = "expired" /\ a = AxesFor("cancelled")
         \/ p = "failed" /\ a = AxesFor("pending"),
         Abandonable \subseteq from,
         Terminate(p, a, from),
         commits' = commits
  PROVE  FateStep
<1>1. Settled' <=> Settled
  BY TerminateRows
<1>2. CASE Settled
  BY <1>1, <1>2, FrameFates DEF Terminate
<1>3. CASE ~Settled
  <2>1. ASSUME NEW o \in Orders, Waits(o) PROVE Returned(o)'
    <3> DEFINE moved == Move(orders[o], p, a)
    <3>1. o \in Claims(from)
      BY <2>1 DEF Waits, Claims
    <3>2. /\ moved.status \in {"cancelled", "expired", "payment_failed"}
          /\ moved.axes = a /\ ~moved.released
      BY <2>1, EndProjects DEF Move, Waits, TypeOK
    <3>0. moved \in OrderRecords
      <4>1. a \in {AxesFor(s) : s \in FulfillmentStatuses}
        BY DEF FulfillmentStatuses
      <4>2. orders[o] \in OrderRecords
        BY DEF TypeOK, OrderRecords
      <4> QED BY <4>1, <4>2, RecordTypes
    <3>3. ReleaseClaim(moved)
      BY <1>3, <3>2 DEF ReleaseClaim, ReleasableStatuses
    <3>4. /\ orders'[o] = Release(moved)
          /\ releases'[o] = releases[o] + 1
      BY <1>3, <3>1, <3>3 DEF Terminate, ReleaseCount
    <3> HIDE DEF moved
    <3>5. /\ orders'[o].status = moved.status
          /\ orders'[o].axes = a
          /\ orders'[o].released
      BY <3>0, <3>2, <3>3, <3>4, ReleaseWrites
    <3> QED BY <2>1, <3>2, <3>4, <3>5 DEF Returned, Waits, DeadStatuses
  <2>2. ASSUME NEW o \in Orders, Returned(o) PROVE Returned(o)'
    <3>1. o \notin Claims(from)
      BY <2>2 DEF Returned, Claims
    <3>2. orders'[o] = orders[o] /\ releases'[o] = releases[o]
      BY <1>3, <3>1 DEF Terminate
    <3> QED BY <2>2, <3>2 DEF Returned
  <2>3. \A o \in Orders : ~Sold(o)
    BY <1>3 DEF Sold
  <2> QED BY <2>1, <2>2, <2>3 DEF FateStep
<1> QED BY <1>2, <1>3

\* A pay request decides no order; marking one keeps it waiting.
LEMMA RequestFates ==
  ASSUME TypeOK, RowsHaveSessions, EachOrderHasOneFate, NEW r \in Requests, PayRequest(r)
  PROVE  FateStep
<1>1. Settled' <=> Settled
  BY RequestRows
<1>2. UNCHANGED <<commits, releases>>
  BY DEF PayRequest, ReadOrders, ReadActive, Reuse, SwitchRail, FindDead, Retire, CreateSession,
     InsertRow, LoseInsert, MarkOrders, GiveUp, history
<1>3. CASE MarkOrders(r)
  <2>1. ASSUME NEW o \in Orders, orders[o].status # "pending"
        PROVE  orders'[o] = orders[o]
    BY <1>3, <2>1 DEF MarkOrders
  <2>2. ASSUME NEW o \in Orders, orders[o].status = "pending", Waits(o)
        PROVE  /\ orders'[o].status = "pending_payment"
               /\ orders'[o].axes = orders[o].axes
               /\ orders'[o].released = orders[o].released
    <3>1. orders'[o] = Pay(orders[o], "pending")
      BY <1>3, <2>2 DEF MarkOrders
    <3> QED BY <2>2, <3>1, PaymentProjects DEF Pay, Waits, TypeOK
  <2>3. ASSUME NEW o \in Orders
        PROVE  /\ Waits(o) => Waits(o)'
               /\ Sold(o) => Sold(o)'
               /\ Returned(o) => Returned(o)'
    <3>1. CASE Waits(o) /\ orders[o].status = "pending"
      BY <1>1, <1>2, <2>2, <3>1 DEF Waits, Sold, Returned, Abandonable
    <3>2. CASE orders[o].status # "pending"
      BY <1>1, <1>2, <2>1, <3>2 DEF Waits, Sold, Returned
    <3>3. CASE ~Waits(o) /\ orders[o].status = "pending"
      BY <3>3 DEF Sold, Returned, Abandonable, DeadStatuses
    <3> QED BY <3>1, <3>2, <3>3
  <2> QED BY <2>3 DEF FateStep
<1>4. CASE ~MarkOrders(r)
  <2>1. UNCHANGED orders
    BY <1>4 DEF PayRequest, ReadOrders, ReadActive, Reuse, SwitchRail, FindDead, Retire,
       CreateSession, InsertRow, LoseInsert, GiveUp, dbVars
  <2> QED BY <1>1, <1>2, <2>1, FrameFates
<1> QED BY <1>3, <1>4

\* A settlement sells every order that waits; when none does it reports the money.
LEMMA SettleStep ==
  ASSUME IInv, NEW e \in Events, Resolves(e), Settle(e)
  PROVE  FateStep /\ Settled' /\ (incidents' # {} \/ \E o \in Orders : Committed(o)')
<1> USE DEF IInv
<1>1. PICK r \in SettledRows(e) : TRUE
  <2>1. e.session \in Sessions
    BY DEF Events
  <2>2. CASE OfIntent(e)
    <3>1. PICK r \in Sessions : intent[r] = e.session
      BY <2>2 DEF Resolves
    <3>2. row[r] # "none"
      BY <2>1, <3>1, NoSessionAssumption DEF RowsHaveSessions
    <3> QED BY <2>2, <3>2 DEF SettledRows
  <2>3. CASE ~OfIntent(e)
    BY <2>1, <2>3 DEF Resolves, SettledRows
  <2> QED BY <2>2, <2>3
<1>2. Settled'
  BY <1>1 DEF Settle, SettledRows, Settled
<1>3. ASSUME NEW o \in Orders, Payable(o)
      PROVE  orders'[o] = Pay(orders[o], "paid") /\ commits'[o] = commits[o] + 1
  BY <1>3 DEF Settle
<1>4. ASSUME NEW o \in Orders, ~Payable(o)
      PROVE  orders'[o] = orders[o] /\ commits'[o] = commits[o]
  BY <1>4 DEF Settle, TypeOK
<1>5. UNCHANGED releases
  BY DEF Settle
<1>6. ASSUME NEW o \in Orders, Waits(o) PROVE Sold(o)'
  <2>1. Payable(o)
    BY <1>6 DEF Payable, Waits
  <2>2. orders'[o].status = "paid" /\ ~orders'[o].released
    BY <1>3, <1>6, <2>1, PaymentProjects DEF Pay, Waits, TypeOK
  <2> QED BY <1>2, <1>3, <1>5, <1>6, <2>1, <2>2 DEF Sold, Waits, Abandonable
<1>7. ASSUME NEW o \in Orders
      PROVE  /\ Sold(o) => Sold(o)'
             /\ Returned(o) => Returned(o)'
  <2>1. Sold(o) \/ Returned(o) => ~Payable(o)
    BY DEF Sold, Returned, Payable
  <2> QED BY <1>2, <1>4, <1>5, <2>1 DEF Sold, Returned
<1>8. FateStep
  BY <1>6, <1>7 DEF FateStep
<1>9. CASE \E o \in Orders : Payable(o)
  <2>1. PICK o \in Orders : Payable(o)
    BY <1>9
  <2>2. commits'[o] > 0
    BY <1>3, <2>1 DEF TypeOK
  <2> QED BY <1>2, <1>8, <2>2 DEF Committed
<1>10. CASE ~\E o \in Orders : Payable(o)
  BY <1>2, <1>8, <1>10 DEF Settle
<1> QED BY <1>9, <1>10

\* A settlement creates no row and rewrites none that recorded money.
LEMMA SettleRows ==
  ASSUME TypeOK, RowsHaveSessions, NEW e \in Events, Settle(e), UNCHANGED <<sess, req>>
  PROVE  RowsKept /\ RowsHaveSessions'
<1>1. \A s \in Sessions : /\ row[s] = "none" <=> row'[s] = "none"
                          /\ row[s] = "paid" => row'[s] = "paid"
                          /\ intent'[s] = intent[s] \/ row[s] # "none"
  BY DEF Settle, SettledRows, TypeOK
<1> QED BY <1>1 DEF RowsKept, RowsHaveSessions, CarriesSession

\* What one deliver of a failure or an expiry does.
LEMMA FailStep ==
  ASSUME TypeOK, RowsHaveSessions, NEW e, FailPurchase(e), UNCHANGED <<sess, req>>
  PROVE  FateStep /\ RowsKept /\ RowsHaveSessions' /\ (Settled' <=> Settled)
<1>1. \/ Terminate("failed", AxesFor("pending"), Abandonable)
      \/ Terminate("cancelled", AxesFor("cancelled"), Abandonable)
  BY DEF FailPurchase
<1>2. UNCHANGED <<intent, commits>>
  BY DEF FailPurchase
<1>3. FateStep
  BY <1>1, <1>2, TerminateFates
<1>4. /\ \A s \in Sessions : /\ row[s] = "paid" <=> row'[s] = "paid"
                             /\ row[s] = "none" <=> row'[s] = "none"
      /\ Settled' <=> Settled
  BY <1>1, TerminateRows
<1> QED BY <1>2, <1>3, <1>4 DEF RowsKept, RowsHaveSessions, CarriesSession

\* What a write of the status routes does to its order.
LEMMA WriteMoveWrites ==
  ASSUME TypeOK, NEW o \in Orders, NEW s \in FulfillmentStatuses, WriteMove(o, s)
  PROVE  LET status == ProjectOrderStatus(LatestPaymentStatus, AxesFor(s))
             freed == /\ s = "cancelled" /\ status \in ReleasableStatuses
                      /\ ~orders[o].released /\ ~Settled
         IN  /\ orders'[o].status = status
             /\ orders'[o].axes = AxesFor(s)
             /\ orders'[o].released <=> orders[o].released \/ freed
             /\ releases'[o] = releases[o] + (IF freed THEN 1 ELSE 0)
             /\ \A x \in Orders \ {o} : orders'[x] = orders[x] /\ releases'[x] = releases[x]
             /\ UNCHANGED <<row, intent, refund, incidents, sess, req, commits>>
             /\ Settled' <=> Settled
<1> DEFINE moved == Move(orders[o], LatestPaymentStatus, AxesFor(s))
<1>1. orders[o] \in OrderRecords /\ moved \in OrderRecords
  BY RecordTypes DEF TypeOK, OrderRecords
<1>2. /\ moved.status = ProjectOrderStatus(LatestPaymentStatus, AxesFor(s))
      /\ moved.axes = AxesFor(s)
      /\ moved.released = orders[o].released
  BY <1>1 DEF Move, OrderRecords
<1>3. /\ orders'[o] = IF s = "cancelled" THEN Release(moved) ELSE moved
      /\ releases'[o] = releases[o] + (IF s = "cancelled" THEN ReleaseCount(moved) ELSE 0)
      /\ \A x \in Orders \ {o} : orders'[x] = orders[x] /\ releases'[x] = releases[x]
      /\ UNCHANGED <<row, intent, refund, incidents, sess, req, commits>>
  BY DEF WriteMove, TypeOK, envVars, runVars
<1>4. Settled' <=> Settled
  BY <1>3 DEF Settled
<1> HIDE DEF moved
<1>5. CASE s = "cancelled"
  BY <1>1, <1>2, <1>3, <1>4, <1>5, ReleaseWrites DEF ReleaseClaim, ReleaseCount
<1>6. CASE s # "cancelled"
  BY <1>1, <1>2, <1>3, <1>4, <1>6 DEF TypeOK
<1> QED BY <1>5, <1>6

\* The payment status a move is projected with, by what the ledger holds.
LEMMA LedgerReads ==
  ASSUME IInv
  PROVE  /\ Settled => LatestPaymentStatus \in {"paid", "partially_refunded", "refunded"}
         /\ ~Settled => LatestPaymentStatus \in {"requires_action", "cancelled", "unpaid"}
BY DEF IInv, MoneyAccounted, LatestPaymentStatus, TypeOK

\* A staff move returns its order only if it waits, and advances only a sold one.
LEMMA StaffFates ==
  ASSUME IInv, NEW o \in Orders, NEW to \in FulfillmentStatuses, StaffMove(o, to)
  PROVE  FateStep
<1> USE DEF IInv
<1>1. /\ CanTransition(NormalizeOrderStatus(orders[o].status), to)
      /\ Gate(o, to)
      /\ WriteMove(o, to)
  BY DEF StaffMove
<1>2. UNCHANGED commits /\ (Settled' <=> Settled)
  BY <1>1, WriteMoveWrites
<1>3. ASSUME NEW x \in Orders \ {o}
      PROVE  /\ Waits(x) => Waits(x)'
             /\ Sold(x) => Sold(x)'
             /\ Returned(x) => Returned(x)'
  <2>1. orders'[x] = orders[x] /\ releases'[x] = releases[x]
    BY <1>1, <1>3, WriteMoveWrites
  <2> QED BY <1>2, <2>1 DEF Waits, Sold, Returned
<1>4. ~Returned(o)
  BY <1>1 DEF CanTransition, NormalizeOrderStatus, Returned, DeadStatuses
<1>5. CASE to = "cancelled"
  <2>1. Waits(o)
    BY <1>1, <1>4, <1>5 DEF Gate, CancellationAllowed, EachOrderHasOneFate, Sold
  <2>2. ProjectOrderStatus(LatestPaymentStatus, AxesFor("cancelled")) = "cancelled"
    BY <2>1, LedgerReads, MoveProjects DEF Waits
  <2>3. /\ orders'[o].status = "cancelled" /\ orders'[o].axes = AxesFor("cancelled")
        /\ orders'[o].released /\ releases'[o] = releases[o] + 1
    BY <1>1, <1>5, <2>1, <2>2, WriteMoveWrites DEF Waits, ReleasableStatuses
  <2>4. Returned(o)'
    BY <1>2, <2>1, <2>3 DEF Waits, Returned, DeadStatuses
  <2> QED BY <1>3, <1>4, <2>1, <2>4 DEF FateStep, Waits, Sold
<1>6. CASE to # "cancelled"
  <2>1. to \in {"confirmed", "packing", "shipped", "delivered", "completed"}
    BY <1>1, <1>6 DEF CanTransition
  <2>2. Sold(o)
    <3>1. CASE to = "confirmed"
      BY <1>1, <1>4, <3>1 DEF Gate, ConfirmationAllowed, EachOrderHasOneFate, Waits
    <3>2. CASE to # "confirmed"
      <4>1. orders[o].status \notin Abandonable
        BY <1>1, <2>1, <3>2 DEF CanTransition, NormalizeOrderStatus, Abandonable
      <4> QED BY <1>4, <4>1 DEF EachOrderHasOneFate, Waits
    <3> QED BY <3>1, <3>2
  <2>3. ProjectOrderStatus(LatestPaymentStatus, AxesFor(to)) \notin Abandonable
    BY <2>1, <2>2, LedgerReads, MoveProjects DEF Sold, Abandonable
  <2>4. /\ orders'[o].status \notin Abandonable /\ ~orders'[o].released
        /\ releases'[o] = releases[o]
    BY <1>1, <1>6, <2>2, <2>3, WriteMoveWrites DEF Sold, TypeOK
  <2>5. Sold(o)'
    BY <1>2, <2>2, <2>4 DEF Sold
  <2> QED BY <1>3, <1>4, <2>2, <2>5 DEF FateStep, Waits, Sold
<1> QED BY <1>5, <1>6

\* Re-selecting the stored status changes no fate.
LEMMA ReselectFates ==
  ASSUME IInv, NEW o \in Orders, CenterReselects(o)
  PROVE  FateStep
<1> USE DEF IInv
<1> DEFINE to == orders[o].status
<1>1. to \in FulfillmentStatuses /\ WriteMove(o, to)
  BY DEF CenterReselects
<1>2. UNCHANGED commits /\ (Settled' <=> Settled)
  BY <1>1, WriteMoveWrites
<1>3. ASSUME NEW x \in Orders \ {o}
      PROVE  /\ Waits(x) => Waits(x)'
             /\ Sold(x) => Sold(x)'
             /\ Returned(x) => Returned(x)'
  <2>1. orders'[x] = orders[x] /\ releases'[x] = releases[x]
    BY <1>1, <1>3, WriteMoveWrites
  <2> QED BY <1>2, <2>1 DEF Waits, Sold, Returned
<1>4. ASSUME Waits(o) PROVE Waits(o)'
  <2>1. to = "pending"
    BY <1>1, <1>4 DEF Waits, Abandonable, FulfillmentStatuses
  <2>2. ProjectOrderStatus(LatestPaymentStatus, AxesFor("pending")) \in Abandonable
    BY <1>4, LedgerReads, MoveProjects DEF Waits, Abandonable
  <2>3. /\ orders'[o].status \in Abandonable /\ orders'[o].axes = AxesFor("pending")
        /\ ~orders'[o].released /\ releases'[o] = releases[o]
    BY <1>1, <1>4, <2>1, <2>2, WriteMoveWrites DEF Waits, TypeOK
  <2> QED BY <1>2, <1>4, <2>3 DEF Waits
<1>5. ASSUME Sold(o) PROVE Sold(o)'
  <2>1. to \in {"confirmed", "packing", "shipped", "delivered", "completed", "cancelled"}
    BY <1>1, <1>5 DEF Sold, Abandonable, FulfillmentStatuses
  <2>2. ProjectOrderStatus(LatestPaymentStatus, AxesFor(to)) \notin Abandonable
    BY <1>5, <2>1, LedgerReads, MoveProjects DEF Sold, Abandonable
  <2>3. /\ orders'[o].status \notin Abandonable /\ ~orders'[o].released
        /\ releases'[o] = releases[o]
    BY <1>1, <1>5, <2>2, WriteMoveWrites DEF Sold, TypeOK
  <2> QED BY <1>2, <1>5, <2>3 DEF Sold
<1>6. ASSUME Returned(o) PROVE Returned(o)'
  <2>1. to = "cancelled"
    BY <1>1, <1>6 DEF Returned, DeadStatuses, FulfillmentStatuses
  <2>2. ProjectOrderStatus(LatestPaymentStatus, AxesFor("cancelled")) = "cancelled"
    BY LedgerReads, MoveProjects
  <2>3. /\ orders'[o].status = "cancelled" /\ orders'[o].axes = AxesFor("cancelled")
        /\ orders'[o].released /\ releases'[o] = releases[o]
    BY <1>1, <1>6, <2>1, <2>2, WriteMoveWrites DEF Returned, TypeOK
  <2> QED BY <1>2, <1>6, <2>3 DEF Returned, DeadStatuses
<1> QED BY <1>3, <1>4, <1>5, <1>6 DEF FateStep

\* A refund changes no fate, and never revives an order that ended.
LEMMA RefundFates ==
  ASSUME IInv, NEW kind \in RefundKinds, SyncRefund(kind)
  PROVE  FateStep /\ Settled
<1> USE DEF IInv
<1>1. Settled /\ Settled'
  BY DEF SyncRefund, Settled
<1>2. UNCHANGED <<commits, releases>>
  BY DEF SyncRefund, history
<1>3. ASSUME NEW o \in Orders
      PROVE  \/ orders'[o] = orders[o]
             \/ orders'[o] = Pay(orders[o], "refunded")
  BY DEF SyncRefund
<1>4. ASSUME NEW o \in Orders
      PROVE  /\ orders'[o].axes = orders[o].axes
             /\ orders'[o].released = orders[o].released
             /\ \/ orders'[o].status = orders[o].status
                \/ orders'[o].status = ProjectOrderStatusSql("refunded", orders[o].axes)
  BY <1>3 DEF Pay, TypeOK
<1>5. ASSUME NEW o \in Orders
      PROVE  /\ Sold(o) => Sold(o)'
             /\ Returned(o) => Returned(o)'
  BY <1>1, <1>2, <1>4, PaymentProjects DEF Sold, Returned, Abandonable, DeadStatuses
<1>6. \A o \in Orders : ~Waits(o)
  BY <1>1 DEF Waits
<1> QED BY <1>1, <1>5, <1>6 DEF FateStep

-----------------------------------------------------------------------------
(* Every step.                                                             *)

\* Money stays accounted for by any step but a settlement.
LEMMA MoneyFrame ==
  ASSUME IInv, FateStep, Settled' <=> Settled, UNCHANGED incidents,
         refund' = refund \/ Settled
  PROVE  MoneyAccounted'
<1>1. ASSUME NEW o \in Orders, Committed(o) PROVE Committed(o)'
  <2>1. Sold(o)
    BY <1>1 DEF IInv, EachOrderHasOneFate, Waits, Returned, Committed
  <2>2. Sold(o)'
    BY <2>1 DEF FateStep
  <2> QED BY <2>2 DEF Sold, Committed
<1> QED BY <1>1 DEF IInv, MoneyAccounted

\* Every step is a fate step, keeps the rows and accounts for the money.
LEMMA NextStep ==
  ASSUME IInv, [Next]_vars
  PROVE  FateStep /\ RowsKept /\ RowsHaveSessions' /\ MoneyAccounted'
<1> USE DEF IInv
<1>1. ASSUME NEW r \in Requests, PayRequest(r)
      PROVE  FateStep /\ RowsKept /\ RowsHaveSessions' /\ MoneyAccounted'
  <2>1. FateStep /\ RowsKept /\ RowsHaveSessions' /\ (Settled' <=> Settled)
    BY <1>1, RequestFates, RequestRows
  <2>2. UNCHANGED <<incidents, refund>>
    BY <1>1 DEF PayRequest, ReadOrders, ReadActive, Reuse, SwitchRail, FindDead, Retire,
       CreateSession, InsertRow, LoseInsert, MarkOrders, GiveUp, dbVars
  <2> QED BY <2>1, <2>2, MoneyFrame
<1>2. ASSUME UNCHANGED <<dbVars, req, history>>,
             \A s \in Sessions : sess[s] # "none" => sess'[s] # "none"
      PROVE  FateStep /\ RowsKept /\ RowsHaveSessions' /\ MoneyAccounted'
  <2>1. /\ UNCHANGED <<orders, row, intent, refund, incidents, req, commits, releases>>
        /\ Settled' <=> Settled
    BY <1>2 DEF dbVars, history, Settled
  <2>2. FateStep
    BY <2>1, FrameFates
  <2>3. RowsKept /\ RowsHaveSessions'
    BY <1>2, <2>1 DEF RowsKept, RowsHaveSessions, CarriesSession
  <2> QED BY <2>1, <2>2, <2>3, MoneyFrame
<1>3. ASSUME NEW s \in Sessions, Stripe(s) \/ CloseSession(s)
      PROVE  FateStep /\ RowsKept /\ RowsHaveSessions' /\ MoneyAccounted'
  <2>1. CASE Stripe(s)
    <3>1. ASSUME NEW from, NEW to, NEW kinds, to # "none", SessionMoves(s, from, to, kinds)
          PROVE  FateStep /\ RowsKept /\ RowsHaveSessions' /\ MoneyAccounted'
      BY <1>2, <3>1 DEF SessionMoves, TypeOK, runVars
    <3> QED BY <2>1, <3>1 DEF Stripe, CustomerPays, CompletesUnpaid, AsyncPaid, AsyncFailed,
               CardDeclined, TimesOut
  <2>2. CASE CloseSession(s)
    BY <1>2, <2>2 DEF CloseSession, TypeOK, envVars
  <2> QED BY <1>3, <2>1, <2>2
<1>4. ASSUME NEW e \in events, Deliver(e)
      PROVE  FateStep /\ RowsKept /\ RowsHaveSessions' /\ MoneyAccounted'
  <2>1. e \in Events /\ UNCHANGED <<sess, req, refund>>
    BY <1>4 DEF Deliver, TypeOK, runVars
  <2>2. CASE ~Resolves(e)
    <3>1. UNCHANGED <<orders, row, intent, incidents, commits, releases>>
      BY <1>4, <2>2 DEF Deliver, history
    <3>2. Settled' <=> Settled
      BY <3>1 DEF Settled
    <3>3. FateStep
      BY <3>1, <3>2, FrameFates
    <3>4. RowsKept /\ RowsHaveSessions'
      BY <2>1, <3>1 DEF RowsKept, RowsHaveSessions, CarriesSession
    <3> QED BY <2>1, <3>1, <3>2, <3>3, <3>4, MoneyFrame
  <2>3. CASE Resolves(e) /\ Settle(e)
    <3>1. FateStep /\ Settled' /\ (incidents' # {} \/ \E o \in Orders : Committed(o)')
      BY <2>1, <2>3, SettleStep
    <3>2. RowsKept /\ RowsHaveSessions'
      BY <2>1, <2>3, SettleRows
    <3> QED BY <3>1, <3>2 DEF MoneyAccounted
  <2>4. CASE Resolves(e) /\ FailPurchase(e)
    <3>1. FateStep /\ RowsKept /\ RowsHaveSessions' /\ (Settled' <=> Settled)
      BY <2>1, <2>4, FailStep
    <3>2. UNCHANGED incidents
      BY <2>4 DEF FailPurchase
    <3> QED BY <2>1, <3>1, <3>2, MoneyFrame
  <2> QED BY <1>4, <2>2, <2>3, <2>4 DEF Deliver
<1>5. CASE CustomerCancel \/ SweepExpires
  <2>1. PICK p, from : /\ Terminate(p, AxesFor("cancelled"), from)
                       /\ p \in {"cancelled", "expired"}
                       /\ Abandonable \subseteq from
    BY <1>5 DEF CustomerCancel, SweepExpires, CustomerCancelable, Abandonable
  <2>2. UNCHANGED <<intent, refund, incidents, sess, req, commits>>
    BY <1>5 DEF CustomerCancel, SweepExpires, envVars
  <2>3. FateStep
    BY <2>1, <2>2, TerminateFates
  <2>4. /\ \A s \in Sessions : /\ row[s] = "paid" <=> row'[s] = "paid"
                               /\ row[s] = "none" <=> row'[s] = "none"
        /\ Settled' <=> Settled
    BY <2>1, TerminateRows
  <2>5. RowsKept /\ RowsHaveSessions'
    BY <2>2, <2>4 DEF RowsKept, RowsHaveSessions, CarriesSession
  <2> QED BY <2>2, <2>3, <2>4, <2>5, MoneyFrame
<1>6. CASE DeadlinePasses \/ SweepReads
  <2>1. /\ UNCHANGED <<orders, row, intent, refund, incidents, sess, req, commits, releases>>
        /\ Settled' <=> Settled
    BY <1>6 DEF DeadlinePasses, SweepReads, dbVars, envVars, runVars, history, Settled
  <2>2. FateStep
    BY <2>1, FrameFates
  <2>3. RowsKept /\ RowsHaveSessions'
    BY <2>1 DEF RowsKept, RowsHaveSessions, CarriesSession
  <2> QED BY <2>1, <2>2, <2>3, MoneyFrame
<1>7. ASSUME NEW o \in Orders, NEW to \in FulfillmentStatuses,
             StaffMove(o, to) \/ (CenterReselects(o) /\ to = orders[o].status)
      PROVE  FateStep /\ RowsKept /\ RowsHaveSessions' /\ MoneyAccounted'
  <2>1. FateStep
    BY <1>7, StaffFates, ReselectFates
  <2>2. /\ UNCHANGED <<row, intent, refund, incidents, sess, req>>
        /\ Settled' <=> Settled
    BY <1>7, WriteMoveWrites DEF StaffMove, CenterReselects
  <2>3. RowsKept /\ RowsHaveSessions'
    BY <2>2 DEF RowsKept, RowsHaveSessions, CarriesSession
  <2> QED BY <2>1, <2>2, <2>3, MoneyFrame
<1>8. ASSUME NEW kind \in RefundKinds, SyncRefund(kind)
      PROVE  FateStep /\ RowsKept /\ RowsHaveSessions' /\ MoneyAccounted'
  <2>1. FateStep /\ Settled
    BY <1>8, RefundFates
  <2>2. /\ UNCHANGED <<row, intent, incidents, sess, req>>
        /\ Settled' <=> Settled
    BY <1>8 DEF SyncRefund, envVars, runVars, Settled
  <2>3. RowsKept /\ RowsHaveSessions'
    BY <2>2 DEF RowsKept, RowsHaveSessions, CarriesSession
  <2> QED BY <2>1, <2>2, <2>3, MoneyFrame
<1>9. CASE UNCHANGED vars
  BY <1>2, <1>9 DEF vars, envVars, runVars
<1>10. ASSUME Staff
       PROVE  FateStep /\ RowsKept /\ RowsHaveSessions' /\ MoneyAccounted'
  <2>1. \A o \in Orders : CenterReselects(o) => orders[o].status \in FulfillmentStatuses
    BY DEF CenterReselects
  <2> QED BY <1>7, <1>8, <1>10, <2>1, StaffTargetsAssumption DEF Staff
<1> QED BY <1>1, <1>3, <1>4, <1>5, <1>6, <1>9, <1>10 DEF Next

-----------------------------------------------------------------------------
(* Theorems.                                                               *)

\* The invariant is inductive, for every number of orders, sessions and requests.
THEOREM Invariance == Spec => []IInv
<1>1. Init => IInv
  BY InitHolds
<1>2. IInv /\ [Next]_vars => IInv'
  <2> SUFFICES ASSUME IInv, [Next]_vars PROVE IInv'
    OBVIOUS
  <2>1. TypeOK'
    BY TypeStep DEF IInv
  <2>2. FateStep /\ RowsHaveSessions' /\ MoneyAccounted'
    BY NextStep
  <2>3. EachOrderHasOneFate'
    BY <2>2, FateStepKeepsFates DEF IInv
  <2> QED BY <2>1, <2>2, <2>3 DEF IInv
<1> QED BY <1>1, <1>2, PTL DEF Spec

\* Every variable keeps its type.
THEOREM TypeCorrect == Spec => []TypeOK
<1>1. IInv => TypeOK
  BY DEF IInv
<1> QED BY <1>1, Invariance, PTL

\* No order's stock is consumed twice, released twice, or both, however webhooks,
\* cancels, the sweep and staff interleave; the stored flag tells which happened.
THEOREM StockLeavesOnce == Spec => []CommitXorRelease
BY InvImplies, Invariance, PTL

\* Stock is held by exactly the orders that can still be paid: none leaks when a
\* purchase ends, and none is gone under an order still waiting.
THEOREM StockHeldWhileWaiting == Spec => []HeldWhileWaiting
BY InvImplies, Invariance, PTL

\* An order on its way to a customer was paid for and had its stock consumed.
THEOREM FulfilmentIsPaidFor == Spec => []FulfilledIsSold
BY InvImplies, Invariance, PTL

\* An order whose stock was given back never comes alive again.
THEOREM ReleasedStaysDead == Spec => []ReleasedIsDead
BY InvImplies, Invariance, PTL

\* Recorded money sold something or was reported, and nothing waits beside it.
THEOREM MoneyIsAccountedFor == Spec => []RecordedMoneyIsAccountedFor
BY InvImplies, Invariance, PTL

\* No step rewrites a payments row that recorded captured money.
THEOREM PaidRowsStay == Spec => PaidRowIsFinal
<1>1. IInv /\ [Next]_vars => [\A s \in Sessions : row[s] = "paid" => row'[s] = "paid"]_vars
  BY NextStep DEF RowsKept
<1> QED BY <1>1, Invariance, PTL DEF Spec, PaidRowIsFinal

\* The purchase, with every race it has, implements the abstract reservation.
THEOREM Refinement == Spec => ImplementsReservation
<1> DEFINE held == [o \in Orders |-> HoldOf(o)]
<1>1. Init => Stock!Init
  BY DEF Init, Stock!Init, HoldOf
<1>2. IInv /\ IInv' /\ [Next]_vars => [Stock!Next]_held
  <2> SUFFICES ASSUME IInv, IInv', [Next]_vars PROVE [Stock!Next]_held
    OBVIOUS
  <2>1. FateStep
    BY NextStep
  <2>2. \A o \in Orders : /\ Waits(o) => HoldOf(o) = "held"
                          /\ Sold(o) => HoldOf(o) = "sold"
                          /\ Returned(o) => HoldOf(o) = "returned"
                          /\ Waits(o)' => HoldOf(o)' = "held"
                          /\ Sold(o)' => HoldOf(o)' = "sold"
                          /\ Returned(o)' => HoldOf(o)' = "returned"
    BY DEF Waits, Sold, Returned, HoldOf
  <2>3. \A o \in Orders : Waits(o) \/ Sold(o) \/ Returned(o)
    BY DEF IInv, EachOrderHasOneFate
  <2>4. Stock!Held = {o \in Orders : Waits(o)}
    BY <2>2, <2>3 DEF Stock!Held
  <2>5. \A o \in Orders : ~Waits(o) => HoldOf(o)' = HoldOf(o)
    BY <2>1, <2>2, <2>3 DEF FateStep
  <2>6. CASE \A o \in Orders : Waits(o) => Waits(o)'
    <3>1. \A o \in Orders : HoldOf(o)' = HoldOf(o)
      BY <2>2, <2>5, <2>6
    <3> QED BY <3>1
  <2>7. CASE /\ \E o \in Orders : Waits(o)
             /\ \A o \in Orders : Waits(o) => Sold(o)'
    <3>1. Stock!SellAll
      BY <2>2, <2>4, <2>5, <2>7 DEF Stock!SellAll, Stock!Decide
    <3> QED BY <3>1 DEF Stock!Next
  <2>8. CASE /\ \E o \in Orders : Waits(o)
             /\ \A o \in Orders : Waits(o) => Returned(o)'
    <3>1. Stock!ReturnAll
      BY <2>2, <2>4, <2>5, <2>8 DEF Stock!ReturnAll, Stock!Decide
    <3> QED BY <3>1 DEF Stock!Next
  <2>9. ASSUME NEW x \in Orders, Waits(x), Returned(x)',
               \A o \in Orders \ {x} : Waits(o) => Waits(o)'
        PROVE  [Stock!Next]_held
    <3>1. Stock!ReturnOne
      BY <2>2, <2>4, <2>5, <2>9 DEF Stock!ReturnOne, Stock!Decide
    <3> QED BY <3>1 DEF Stock!Next
  <2> QED BY <2>1, <2>6, <2>7, <2>8, <2>9 DEF FateStep
<1> QED BY <1>1, <1>2, Invariance, PTL DEF Spec, ImplementsReservation, Stock!Spec

-----------------------------------------------------------------------------
(* Fulfilment only advances.                                               *)

\* What the axes of a machine status project to: from packing on that status,
\* before it nothing that looks like fulfilment, whatever the payment says.
LEMMA FulfilmentProjects ==
  ASSUME NEW p, NEW s \in FulfillmentStatuses
  PROVE  /\ s \in InFulfilment => ProjectOrderStatus(p, AxesFor(s)) = s
         /\ s \notin InFulfilment => ProjectOrderStatus(p, AxesFor(s)) \notin InFulfilment
<1>1. CASE s \in InFulfilment
  BY <1>1, MoveProjects DEF InFulfilment
<1>2. CASE s \notin InFulfilment
  <2>1. s \in {"pending", "confirmed", "cancelled"}
    BY <1>2 DEF FulfillmentStatuses, InFulfilment
  <2>2. ProjectOrderStatusSql(p, AxesFor(s)) \notin InFulfilment
    BY <2>1 DEF AxesFor, ProjectOrderStatusSql, InFulfilment
  <2> QED BY <1>2, <2>2, SqlMirror
<1> QED BY <1>1, <1>2

\* An order's status and axes tell one story: its axes are those of a machine
\* status, and from packing on the column shows exactly that one.
Coherent(o) == \E s \in FulfillmentStatuses :
                  /\ orders[o].axes = AxesFor(s)
                  /\ s \in InFulfilment => orders[o].status = s
                  /\ s \notin InFulfilment => orders[o].status \notin InFulfilment

\* A step that is not a staff move: fulfilment is neither entered nor touched.
QuietStep(o) == \/ orders'[o].status = orders[o].status
                \/ /\ orders[o].status \notin InFulfilment
                   /\ orders'[o].status \notin InFulfilment

\* A change of the payment axis alone.
LEMMA PayIsQuiet ==
  ASSUME TypeOK, NEW o \in Orders, Coherent(o), NEW p, orders'[o] = Pay(orders[o], p)
  PROVE  QuietStep(o) /\ Coherent(o)'
<1>1. PICK s \in FulfillmentStatuses :
         /\ orders[o].axes = AxesFor(s)
         /\ s \in InFulfilment => orders[o].status = s
         /\ s \notin InFulfilment => orders[o].status \notin InFulfilment
  BY DEF Coherent
<1>2. /\ orders'[o].status = ProjectOrderStatus(p, AxesFor(s))
      /\ orders'[o].axes = AxesFor(s)
  BY <1>1, SqlMirror DEF Pay, TypeOK
<1> QED BY <1>1, <1>2, FulfilmentProjects DEF QuietStep, Coherent

\* An order left as it was.
LEMMA SameIsQuiet ==
  ASSUME NEW o \in Orders, Coherent(o), orders'[o] = orders[o]
  PROVE  QuietStep(o) /\ Coherent(o)'
BY DEF QuietStep, Coherent

\* A termination claims no order that fulfilment took up.
LEMMA TerminateIsQuiet ==
  ASSUME TypeOK, NEW p, NEW s \in {"pending", "cancelled"}, NEW from,
         Terminate(p, AxesFor(s), from), from \cap InFulfilment = {},
         NEW o \in Orders, Coherent(o)
  PROVE  QuietStep(o) /\ Coherent(o)'
<1>1. CASE orders'[o] = orders[o]
  BY <1>1, SameIsQuiet
<1>2. CASE orders'[o] # orders[o]
  <2> DEFINE moved == Move(orders[o], p, AxesFor(s))
  <2>1. orders[o].status \in from /\ orders'[o] = Release(moved)
    BY <1>2 DEF Terminate, Claims, TypeOK
  <2>2. s \in FulfillmentStatuses /\ s \notin InFulfilment
    BY DEF FulfillmentStatuses, InFulfilment
  <2>3. moved \in OrderRecords
    BY <2>2, RecordTypes DEF TypeOK, OrderRecords
  <2>4. moved.status = ProjectOrderStatus(p, AxesFor(s)) /\ moved.axes = AxesFor(s)
    BY DEF Move, TypeOK
  <2> HIDE DEF moved
  <2>5. orders'[o].status = moved.status /\ orders'[o].axes = moved.axes
    BY <2>1, <2>3, ReleaseWrites
  <2> QED BY <2>1, <2>2, <2>4, <2>5, FulfilmentProjects DEF QuietStep, Coherent
<1> QED BY <1>1, <1>2

\* A write of a machine status shows it, or nothing that looks like fulfilment.
LEMMA WriteIsCoherent ==
  ASSUME TypeOK, NEW o \in Orders, NEW to \in FulfillmentStatuses, WriteMove(o, to)
  PROVE  /\ Coherent(o)'
         /\ to \in InFulfilment => orders'[o].status = to
         /\ to \notin InFulfilment => orders'[o].status \notin InFulfilment
         /\ \A x \in Orders \ {o} : orders'[x] = orders[x]
<1>1. /\ orders'[o].status = ProjectOrderStatus(LatestPaymentStatus, AxesFor(to))
      /\ orders'[o].axes = AxesFor(to)
      /\ \A x \in Orders \ {o} : orders'[x] = orders[x]
  BY WriteMoveWrites
<1> QED BY <1>1, FulfilmentProjects DEF Coherent
-----------------------------------------------------------------------------
(* Every step.                                                             *)

\* What every step does: it keeps an order's story coherent, and touches its
\* fulfilment only along an edge of the machine.
Advances(o) == \/ orders'[o].status = orders[o].status
               \/ CanTransition(orders[o].status, orders'[o].status)
StepKeepsStory == \A o \in Orders : /\ Coherent(o)'
                                    /\ orders[o].status \in InFulfilment => Advances(o)

\* All that happens to a purchase but the staff's moves.
LEMMA RestIsQuiet ==
  ASSUME TypeOK, NEW o \in Orders, Coherent(o),
         \/ \E r \in Requests : PayRequest(r)
         \/ \E s \in Sessions : Stripe(s) \/ CloseSession(s)
         \/ \E e \in events : Deliver(e)
         \/ CustomerCancel \/ DeadlinePasses \/ SweepReads \/ SweepExpires
         \/ \E x \in Orders : CenterReselects(x)
         \/ \E kind \in RefundKinds : SyncRefund(kind)
         \/ UNCHANGED vars
  PROVE  QuietStep(o) /\ Coherent(o)'
<1>1. ASSUME NEW r \in Requests, PayRequest(r) PROVE QuietStep(o) /\ Coherent(o)'
  <2>1. orders'[o] = orders[o] \/ orders'[o] = Pay(orders[o], "pending")
    BY <1>1 DEF PayRequest, ReadOrders, ReadActive, Reuse, SwitchRail, FindDead, Retire,
       CreateSession, InsertRow, LoseInsert, MarkOrders, GiveUp, dbVars
  <2> QED BY <2>1, SameIsQuiet, PayIsQuiet
<1>2. ASSUME NEW s \in Sessions, Stripe(s) \/ CloseSession(s) PROVE QuietStep(o) /\ Coherent(o)'
  <2>1. UNCHANGED orders
    BY <1>2 DEF Stripe, CustomerPays, CompletesUnpaid, AsyncPaid, AsyncFailed, CardDeclined,
       TimesOut, SessionMoves, CloseSession, dbVars
  <2> QED BY <2>1, SameIsQuiet
<1>3. ASSUME NEW e \in events, Deliver(e) PROVE QuietStep(o) /\ Coherent(o)'
  <2>1. CASE UNCHANGED orders
    BY <2>1, SameIsQuiet
  <2>2. CASE Settle(e)
    <3>1. orders'[o] = orders[o] \/ orders'[o] = Pay(orders[o], "paid")
      BY <2>2 DEF Settle
    <3> QED BY <3>1, SameIsQuiet, PayIsQuiet
  <2>3. CASE FailPurchase(e)
    <3>1. Abandonable \cap InFulfilment = {}
      BY DEF Abandonable, InFulfilment
    <3>2. \E p : \E s \in {"pending", "cancelled"} : Terminate(p, AxesFor(s), Abandonable)
      BY <2>3 DEF FailPurchase
    <3> QED BY <3>1, <3>2, TerminateIsQuiet
  <2> QED BY <1>3, <2>1, <2>2, <2>3 DEF Deliver
<1>4. CASE CustomerCancel \/ SweepExpires
  <2>1. \E p, from : Terminate(p, AxesFor("cancelled"), from) /\ from \cap InFulfilment = {}
    BY <1>4 DEF CustomerCancel, SweepExpires, CustomerCancelable, Abandonable, InFulfilment
  <2> QED BY <2>1, TerminateIsQuiet
<1>5. CASE DeadlinePasses \/ SweepReads \/ UNCHANGED vars
  <2>1. UNCHANGED orders
    BY <1>5 DEF DeadlinePasses, SweepReads, vars, dbVars
  <2> QED BY <2>1, SameIsQuiet
<1>6. ASSUME NEW x \in Orders, CenterReselects(x) PROVE QuietStep(o) /\ Coherent(o)'
  <2>1. orders[x].status \in FulfillmentStatuses /\ WriteMove(x, orders[x].status)
    BY <1>6 DEF CenterReselects
  <2> QED BY <2>1, WriteIsCoherent, SameIsQuiet DEF QuietStep
<1>7. ASSUME NEW kind \in RefundKinds, SyncRefund(kind) PROVE QuietStep(o) /\ Coherent(o)'
  <2>1. orders'[o] = orders[o] \/ orders'[o] = Pay(orders[o], "refunded")
    BY <1>7 DEF SyncRefund
  <2> QED BY <2>1, SameIsQuiet, PayIsQuiet
<1> QED BY <1>1, <1>2, <1>3, <1>4, <1>5, <1>6, <1>7

\* What a staff move does.
LEMMA StaffMoveAdvances ==
  ASSUME TypeOK, \A o \in Orders : Coherent(o),
         NEW x \in Orders, NEW to \in FulfillmentStatuses, StaffMove(x, to)
  PROVE  StepKeepsStory
<1>1. /\ CanTransition(NormalizeOrderStatus(orders[x].status), to)
      /\ WriteMove(x, to)
  BY DEF StaffMove
<1>2. ASSUME orders[x].status \in InFulfilment PROVE Advances(x)
  <2>1. NormalizeOrderStatus(orders[x].status) = orders[x].status
    BY <1>2 DEF NormalizeOrderStatus, InFulfilment
  <2>2. to \in InFulfilment
    BY <1>1, <1>2, <2>1 DEF CanTransition, InFulfilment
  <2> QED BY <1>1, <2>1, <2>2, WriteIsCoherent DEF Advances
<1>3. ASSUME NEW o \in Orders \ {x} PROVE Coherent(o)' /\ Advances(o)
  <2>1. orders'[o] = orders[o]
    BY <1>1, WriteIsCoherent
  <2> QED BY <2>1, SameIsQuiet DEF Advances
<1> QED BY <1>1, <1>2, <1>3, WriteIsCoherent DEF StepKeepsStory

\* Every order stays coherent, and fulfilment moves only along its machine.
LEMMA StoryStep ==
  ASSUME TypeOK, \A o \in Orders : Coherent(o), [Next]_vars
  PROVE  StepKeepsStory
<1>1. CASE \E x \in Orders, to \in StaffTargets : StaffMove(x, to)
  BY <1>1, StaffMoveAdvances, StaffTargetsAssumption
<1>2. CASE ~\E x \in Orders, to \in StaffTargets : StaffMove(x, to)
  <2>1. \A o \in Orders : QuietStep(o) /\ Coherent(o)'
    BY <1>2, RestIsQuiet DEF Next, Staff
  <2> QED BY <2>1 DEF StepKeepsStory, QuietStep, Advances
<1> QED BY <1>1, <1>2

\* At the checkout every order is pending on both sides.
LEMMA StoryInit == Init => \A o \in Orders : Coherent(o)
BY DEF Init, Coherent, FulfillmentStatuses, InFulfilment

\* An order's status and axes always tell one story.
LEMMA Story == Spec => [](\A o \in Orders : Coherent(o))
<1>1. TypeOK /\ (\A o \in Orders : Coherent(o)) /\ [Next]_vars => (\A o \in Orders : Coherent(o))'
  BY StoryStep DEF StepKeepsStory
<1> QED BY <1>1, StoryInit, TypeCorrect, PTL DEF Spec

\* From packing on an order moves one edge of the machine at a time: no refund,
\* late event, sweep or cancel takes it back, and no staff move skips a step.
THEOREM AdvancesOnly == Spec => FulfilmentOnlyAdvances
<1>1. TypeOK /\ (\A o \in Orders : Coherent(o)) /\ [Next]_vars
        => [\A o \in Orders : orders[o].status \in InFulfilment
              => \/ orders'[o].status = orders[o].status
                 \/ CanTransition(orders[o].status, orders'[o].status)]_vars
  BY StoryStep DEF StepKeepsStory, Advances
<1> QED BY <1>1, Story, TypeCorrect, PTL DEF Spec, FulfilmentOnlyAdvances

-----------------------------------------------------------------------------
(* One payable page.                                                       *)

\* While an order waits, a page that is or may yet be shown is the active attempt's:
\* the open ones, and those a request is about to hand out.  A session whose row is
\* about to be retired has no page any more.
Awaited == \E o \in Orders : Waits(o)
Showable(s) == sess[s] \in {"unseen", "open"}
HandsOut(r) == req[r].pc \in {"active", "mark"}
PageInv ==
  /\ \A r \in Requests : /\ HandsOut(r) => sess[req[r].session] # "none"
                         /\ req[r].pc = "retire" => sess[req[r].session] \in Unpayable \cup {"paid"}
  /\ Awaited => /\ \A s \in Sessions : sess[s] = "open" => row[s] = "requires_action"
                /\ \A r \in Requests : HandsOut(r) /\ Showable(req[r].session)
                                         => row[req[r].session] = "requires_action"

\* With one fate each, the orders that can be paid are the ones that wait.
LEMMA AwaitedIsExpirable == IInv => (Awaited <=> \E o \in Orders : Expirable(o))
BY DEF IInv, EachOrderHasOneFate, Awaited, Waits, Sold, Returned, Expirable, Abandonable,
   DeadStatuses

\* Nothing comes to wait again, and what waits saw no money.
LEMMA AwaitedBefore ==
  ASSUME IInv, FateStep, Awaited'
  PROVE  Awaited /\ ~Settled'
<1>1. PICK o \in Orders : Waits(o)'
  BY DEF Awaited
<1>2. ~Sold(o)' /\ ~Returned(o)' /\ ~Settled'
  BY <1>1 DEF Waits, Sold, Returned, Abandonable, DeadStatuses
<1>3. Waits(o)
  BY <1>2 DEF IInv, EachOrderHasOneFate, FateStep
<1> QED BY <1>2, <1>3 DEF Awaited

\* A termination leaves no order waiting, or no row touched.
LEMMA TerminateLeavesNone ==
  ASSUME IInv, NEW p, NEW a, NEW from,
         \/ p = "cancelled" /\ a = AxesFor("cancelled")
         \/ p = "expired" /\ a = AxesFor("cancelled")
         \/ p = "failed" /\ a = AxesFor("pending"),
         Abandonable \subseteq from,
         Terminate(p, a, from),
         commits' = commits
  PROVE  row' = row \/ ~Awaited'
<1>1. CASE Settled
  BY <1>1 DEF Terminate
<1>2. CASE ~Settled
  <2>1. ASSUME NEW o \in Orders PROVE ~Waits(o)'
    <3>1. FateStep
      BY TerminateFates DEF IInv
    <3>2. CASE Waits(o)
      <4> DEFINE moved == Move(orders[o], p, a)
      <4>1. orders'[o] = Release(moved)
        BY <1>2, <3>2 DEF Terminate, Claims, Waits
      <4>2. moved.status \in {"cancelled", "expired", "payment_failed"}
        BY EndProjects DEF Move, IInv, TypeOK
      <4>3. a \in {AxesFor(s) : s \in FulfillmentStatuses} /\ orders[o] \in OrderRecords
        BY DEF FulfillmentStatuses, IInv, TypeOK, OrderRecords
      <4>4. moved \in OrderRecords
        BY <4>3, RecordTypes
      <4> HIDE DEF moved
      <4>5. orders'[o].status = moved.status
        BY <4>1, <4>4, ReleaseWrites
      <4> QED BY <4>2, <4>5 DEF Waits, Abandonable
    <3>3. CASE ~Waits(o)
      <4>1. Sold(o)' \/ Returned(o)'
        BY <3>1, <3>3 DEF IInv, EachOrderHasOneFate, FateStep
      <4> QED BY <4>1 DEF Waits, Sold, Returned, Abandonable, DeadStatuses
    <3> QED BY <3>2, <3>3
  <2> QED BY <2>1 DEF Awaited
<1> QED BY <1>1, <1>2

\* The same step seen from the pages: no request moves, a session moves as Stripe
\* moves it, and the rows stay while an order waits.
LEMMA PagesFrame ==
  ASSUME IInv, PageInv, FateStep, UNCHANGED req, row' = row \/ ~Awaited',
         \A s \in Sessions :
           /\ sess[s] # "none" => sess'[s] # "none"
           /\ sess[s] \in Unpayable \cup {"paid"} => sess'[s] \in Unpayable \cup {"paid"}
           /\ sess'[s] = "open" => sess[s] = "open"
           /\ sess'[s] = "unseen" => sess[s] = "unseen"
  PROVE  PageInv'
<1>1. \A r \in Requests : HandsOut(r) \/ req[r].pc = "retire" => req[r].session \in Sessions
  BY DEF IInv, RowsHaveSessions, CarriesSession, HandsOut
<1>2. Awaited' => Awaited /\ row' = row
  BY AwaitedBefore
<1> QED BY <1>1, <1>2 DEF PageInv, HandsOut, Showable

\* A pay request hands out the active attempt's page or none, and retires a row
\* only when its page is gone.
LEMMA PagesRequest ==
  ASSUME IInv, PageInv, FateStep, NEW r \in Requests, PayRequest(r)
  PROVE  PageInv'
<1> DEFINE x == req[r].session
<1>1. /\ \A q \in Requests : HandsOut(q) \/ req[q].pc = "retire" => req[q].session \in Sessions
      /\ req[r].pc = "insert" => x \in Sessions /\ row[x] = "none" /\ sess[x] # "none"
      /\ \A s \in Sessions : row[s] # "none" => sess[s] # "none"
      /\ req \in [Requests -> [pc : RequestStates, session : Sessions \cup {NoSession}]]
      /\ sess \in [Sessions -> SessionStates] /\ row \in [Sessions -> RowStatuses]
  BY DEF IInv, TypeOK, RowsHaveSessions, CarriesSession, HandsOut
<1>2. Awaited' => Awaited
  BY AwaitedBefore
<1>3. ASSUME NEW pc, NEW s, Goto(r, pc, s)
      PROVE  /\ \A q \in Requests \ {r} : req'[q] = req[q]
             /\ req'[r].pc = pc /\ req'[r].session = s
  BY <1>1, <1>3 DEF Goto
<1> HIDE DEF x
<1>4. CASE ReadOrders(r) \/ GiveUp(r)
  <2>1. UNCHANGED <<row, sess>> /\ \E pc \in {"checked", "idle"} : Goto(r, pc, NoSession)
    BY <1>4 DEF ReadOrders, GiveUp, dbVars, envVars
  <2> QED BY <1>2, <1>3, <2>1 DEF PageInv, HandsOut, Showable
<1>5. CASE ReadActive(r)
  <2>1. /\ UNCHANGED <<row, sess>>
        /\ \/ Goto(r, "create", NoSession)
           \/ \E s \in ActiveRows : Goto(r, "active", s)
    BY <1>5 DEF ReadActive, dbVars, envVars
  <2>2. CASE Goto(r, "create", NoSession)
    BY <1>2, <1>3, <2>1, <2>2 DEF PageInv, HandsOut, Showable
  <2>3. ASSUME NEW s \in ActiveRows, Goto(r, "active", s) PROVE PageInv'
    <3>1. s \in Sessions /\ row[s] = "requires_action" /\ sess[s] # "none"
      BY <1>1 DEF ActiveRows
    <3> QED BY <1>2, <1>3, <2>1, <2>3, <3>1 DEF PageInv, HandsOut, Showable
  <2> QED BY <2>1, <2>2, <2>3
<1>6. CASE Reuse(r)
  <2>1. /\ x \in Sessions /\ sess[x] \in {"unseen", "open"} /\ row' = row
        /\ Awaited => row[x] = "requires_action"
    BY <1>1, <1>6 DEF Reuse, At, dbVars, PageInv, HandsOut, Showable, x
  <2>2. sess'[x] = "open" /\ \A s \in Sessions \ {x} : sess'[s] = sess[s]
    BY <1>1, <1>6, <2>1 DEF Reuse, x
  <2>3. Goto(r, "idle", NoSession)
    BY <1>6 DEF Reuse
  <2> QED BY <1>1, <1>2, <1>3, <2>1, <2>2, <2>3 DEF PageInv, HandsOut, Showable, Unpayable
<1>7. CASE SwitchRail(r)
  <2>1. x \in Sessions /\ row' = row /\ Goto(r, "retire", x)
    BY <1>1, <1>7 DEF SwitchRail, At, dbVars, HandsOut, x
  <2>2. sess'[x] = "expired" /\ \A s \in Sessions \ {x} : sess'[s] = sess[s]
    BY <1>1, <1>7, <2>1 DEF SwitchRail, x
  <2> QED BY <1>1, <1>2, <1>3, <2>1, <2>2 DEF PageInv, HandsOut, Showable, Unpayable
<1>8. CASE FindDead(r)
  <2>1. /\ sess[x] \in Unpayable /\ UNCHANGED <<row, sess>> /\ Goto(r, "retire", x)
    BY <1>8 DEF FindDead, dbVars, envVars, x
  <2> QED BY <1>2, <1>3, <2>1 DEF PageInv, HandsOut, Showable
<1>9. CASE Retire(r)
  <2>1. /\ x \in Sessions /\ sess[x] \in Unpayable \cup {"paid"}
        /\ sess' = sess /\ Goto(r, "idle", NoSession)
    BY <1>1, <1>9 DEF Retire, At, envVars, PageInv, x
  <2>2. \A s \in Sessions \ {x} : row'[s] = row[s]
    BY <1>1, <1>9 DEF Retire, x
  <2>3. ~Showable(x)
    BY <2>1 DEF Showable, Unpayable
  <2> QED BY <1>1, <1>2, <1>3, <2>1, <2>2, <2>3 DEF PageInv, HandsOut, Showable
<1>10. CASE CreateSession(r)
  <2>1. PICK s \in Sessions : /\ sess[s] = "none"
                             /\ sess' = [sess EXCEPT ![s] = "unseen"]
                             /\ Goto(r, "insert", s)
    BY <1>10 DEF CreateSession
  <2>2. row' = row
    BY <1>10 DEF CreateSession, dbVars
  <2>3. sess'[s] = "unseen" /\ \A q \in Sessions \ {s} : sess'[q] = sess[q]
    BY <1>1, <2>1
  <2>4. \A q \in Requests : HandsOut(q) \/ req[q].pc = "retire" => req[q].session # s
    BY <2>1 DEF PageInv, Unpayable
  <2> QED BY <1>1, <1>2, <1>3, <2>1, <2>2, <2>3, <2>4 DEF PageInv, HandsOut, Showable
<1>11. CASE InsertRow(r)
  <2>1. /\ x \in Sessions /\ sess[x] # "none" /\ sess' = sess /\ Goto(r, "mark", x)
    BY <1>1, <1>11 DEF InsertRow, At, envVars, x
  <2>2. row'[x] = "requires_action" /\ \A s \in Sessions \ {x} : row'[s] = row[s]
    BY <1>1, <1>11, <2>1 DEF InsertRow, x
  <2> QED BY <1>1, <1>2, <1>3, <2>1, <2>2 DEF PageInv, HandsOut, Showable
<1>12. CASE LoseInsert(r)
  <2>1. x \in Sessions /\ row' = row /\ Goto(r, "idle", NoSession)
    BY <1>1, <1>12 DEF LoseInsert, At, dbVars, x
  <2>2. /\ sess'[x] = sess[x] \/ (sess[x] = "unseen" /\ sess'[x] = "expired")
        /\ \A s \in Sessions \ {x} : sess'[s] = sess[s]
    BY <1>1, <1>12, <2>1 DEF LoseInsert, envVars, x
  <2> QED BY <1>1, <1>2, <1>3, <2>1, <2>2 DEF PageInv, HandsOut, Showable, Unpayable
<1>13. CASE MarkOrders(r)
  <2>1. x \in Sessions /\ row' = row /\ Goto(r, "idle", NoSession)
    BY <1>1, <1>13 DEF MarkOrders, At, HandsOut, x
  <2>2. /\ sess'[x] = IF sess[x] = "unseen" THEN "open" ELSE sess[x]
        /\ \A s \in Sessions \ {x} : sess'[s] = sess[s]
    BY <1>1, <1>13, <2>1 DEF MarkOrders, x
  <2>3. Awaited /\ Showable(x) => row[x] = "requires_action"
    BY <1>13 DEF MarkOrders, At, PageInv, HandsOut, x
  <2> QED BY <1>1, <1>2, <1>3, <2>1, <2>2, <2>3 DEF PageInv, HandsOut, Showable, Unpayable
<1> QED BY <1>4, <1>5, <1>6, <1>7, <1>8, <1>9, <1>10, <1>11, <1>12, <1>13 DEF PayRequest

\* Every step.
LEMMA PageStep ==
  ASSUME IInv, PageInv, [Next]_vars
  PROVE  PageInv'
<1>1. FateStep
  BY NextStep
<1>2. sess \in [Sessions -> SessionStates]
  BY DEF IInv, TypeOK
<1>3. ASSUME NEW r \in Requests, PayRequest(r) PROVE PageInv'
  BY <1>1, <1>3, PagesRequest
<1>4. ASSUME NEW s \in Sessions, Stripe(s) \/ CloseSession(s) PROVE PageInv'
  <2>1. UNCHANGED <<row, req>>
    BY <1>4 DEF Stripe, CustomerPays, CompletesUnpaid, AsyncPaid, AsyncFailed, CardDeclined,
       TimesOut, SessionMoves, CloseSession, dbVars, runVars
  <2>2. \/ sess' = sess
        \/ \E to \in {"paid", "complete", "failed", "expired"} :
             sess[s] \in {"unseen", "open", "complete"} /\ sess' = [sess EXCEPT ![s] = to]
    BY <1>2, <1>4 DEF Stripe, CustomerPays, CompletesUnpaid, AsyncPaid, AsyncFailed, CardDeclined,
       TimesOut, SessionMoves, CloseSession, envVars
  <2> QED BY <1>1, <1>2, <2>1, <2>2, PagesFrame DEF Unpayable
<1>5. CASE UNCHANGED <<sess, req>> /\ (row' = row \/ ~Awaited')
  BY <1>1, <1>5, PagesFrame
<1>6. ASSUME NEW e \in events, Deliver(e) PROVE PageInv'
  <2>1. UNCHANGED <<sess, req>> /\ e \in Events
    BY <1>6 DEF Deliver, runVars, IInv, TypeOK
  <2>2. CASE Resolves(e) /\ Settle(e)
    BY <1>1, <1>5, <2>1, <2>2, SettleStep, AwaitedBefore
  <2>3. CASE FailPurchase(e)
    <3>1. commits' = commits /\ \/ Terminate("failed", AxesFor("pending"), Abandonable)
                                \/ Terminate("cancelled", AxesFor("cancelled"), Abandonable)
      BY <2>3 DEF FailPurchase
    <3> QED BY <1>5, <2>1, <3>1, TerminateLeavesNone
  <2> QED BY <1>5, <1>6, <2>1, <2>2, <2>3 DEF Deliver
<1>7. CASE CustomerCancel \/ SweepExpires
  <2>1. /\ UNCHANGED <<sess, req, commits>>
        /\ \/ Terminate("cancelled", AxesFor("cancelled"), CustomerCancelable)
           \/ Terminate("expired", AxesFor("cancelled"), Abandonable)
    BY <1>7 DEF CustomerCancel, SweepExpires, envVars
  <2>2. Abandonable \subseteq CustomerCancelable
    BY DEF Abandonable, CustomerCancelable
  <2> QED BY <1>5, <2>1, <2>2, TerminateLeavesNone
<1>8. CASE DeadlinePasses \/ SweepReads \/ Staff \/ UNCHANGED vars
  <2>1. UNCHANGED <<row, sess, req>>
    BY <1>8 DEF DeadlinePasses, SweepReads, Staff, StaffMove, CenterReselects, WriteMove,
       SyncRefund, vars, dbVars, envVars, runVars
  <2> QED BY <1>5, <2>1
<1> QED BY <1>3, <1>4, <1>6, <1>7, <1>8 DEF Next

\* While an order of the purchase can be paid, a payable page is the one active
\* attempt's, for any number of pay requests that switch rails, reuse, lose and
\* retire (stripe.ts:893-897).
THEOREM OnePayablePage == Spec => []PayablePageIsTheActiveAttempt
<1>1. Init => PageInv
  BY DEF Init, PageInv, HandsOut, Showable
<1>2. IInv /\ PageInv /\ [Next]_vars => PageInv'
  BY PageStep
<1>3. IInv /\ PageInv => PayablePageIsTheActiveAttempt
  BY AwaitedIsExpirable DEF PageInv, PayablePageIsTheActiveAttempt
<1> QED BY <1>1, <1>2, <1>3, Invariance, PTL DEF Spec
=============================================================================
