-------------------------- MODULE RefundLedgerProof --------------------------
(***************************************************************************)
(* The ledger never claims money back that did not go back, for any number *)
(* of refunds, operators and any charge.  What the ledger says rests on    *)
(* two facts: whatever reports a refund as succeeded - a row, the answer   *)
(* to the request that made it, an event of any age - tells the truth for  *)
(* good, because success is final at Stripe; and the refunds on their way  *)
(* or done never exceed the charge, so a full sum is a full refund.        *)
(***************************************************************************)
EXTENDS RefundLedger, FiniteSetTheorems, TLAPS

\* The refunds that take money from the charge, or took it.
OnTheWay == AtStripe("pending") \cup AtStripe("succeeded")
amounts  == [r \in Refunds |-> Amount(r)]

\* Nothing says of a refund that it succeeded unless it did.
ReportsAreTrue ==
  /\ \A r \in Refunds : rows[r] = "succeeded" => stripe[r].status = "succeeded"
  /\ \A r \in Refunds : answered[r] = "succeeded" => stripe[r].status = "succeeded"
  /\ \A e \in events : e.status = "succeeded" => stripe[e.refund].status = "succeeded"

\* A request that records or applies an answer has one.
RequestsHoldRefunds == \A o \in Operators : req[o].pc \in {"record", "sync"} => req[o].refund \in Refunds

\* Stripe never gives back more than was charged.
WithinCharge == IsFiniteSet(UnitsOf(amounts, OnTheWay)) /\ AmountOf(OnTheWay) <= Charge

IInv == /\ TypeOK /\ ReportsAreTrue /\ RequestsHoldRefunds /\ WithinCharge
        /\ NeverOverclaims /\ RowsAreRecorded

-----------------------------------------------------------------------------
(* Sums of amounts.                                                        *)

\* A refund x joins the sum with n[x] units.
LEMMA TotalAdds ==
  ASSUME NEW n, NEW S, NEW x, x \notin S, n[x] \in Nat, IsFiniteSet(UnitsOf(n, S))
  PROVE  /\ IsFiniteSet(UnitsOf(n, S \cup {x}))
         /\ TotalOf(n, S \cup {x}) = TotalOf(n, S) + n[x]
<1> DEFINE own == {x} \X (1..n[x])
<1>1. UnitsOf(n, S \cup {x}) = UnitsOf(n, S) \cup own
  BY DEF UnitsOf
<1>2. UnitsOf(n, S) \cap own = {}
  BY DEF UnitsOf
<1>3. IsFiniteSet(own) /\ Cardinality(own) = n[x]
  <2>1. IsFiniteSet({x}) /\ Cardinality({x}) = 1
    BY FS_Singleton
  <2>2. IsFiniteSet(1..n[x]) /\ Cardinality(1..n[x]) = n[x]
    BY FS_Interval
  <2>3. /\ IsFiniteSet(own)
        /\ Cardinality(own) = Cardinality({x}) * Cardinality(1..n[x])
    BY <2>1, <2>2, FS_Product
  <2> HIDE DEF own
  <2> QED BY <2>1, <2>2, <2>3
<1>4. /\ IsFiniteSet(UnitsOf(n, S) \cup own)
      /\ Cardinality(UnitsOf(n, S) \cup own)
           = Cardinality(UnitsOf(n, S)) + Cardinality(own) - Cardinality(UnitsOf(n, S) \cap own)
  BY <1>3, FS_Union
<1>5. Cardinality(UnitsOf(n, S) \cap own) = 0
  BY <1>2, FS_EmptySet
<1>6. Cardinality(UnitsOf(n, S)) \in Nat
  BY FS_CardinalityType
<1>7. Cardinality(UnitsOf(n, S \cup {x})) = Cardinality(UnitsOf(n, S)) + n[x]
  <2>1. Cardinality(UnitsOf(n, S \cup {x}))
          = Cardinality(UnitsOf(n, S)) + Cardinality(own) - Cardinality(UnitsOf(n, S) \cap own)
    BY <1>1, <1>4, Zenon
  <2> HIDE DEF own
  <2> QED BY <2>1, <1>3, <1>5, <1>6
<1> QED BY <1>1, <1>4, <1>7 DEF TotalOf

\* The sum over no refund is 0.
LEMMA TotalOfNone ==
  ASSUME NEW n
  PROVE  IsFiniteSet(UnitsOf(n, {})) /\ TotalOf(n, {}) = 0
<1>1. UnitsOf(n, {}) = {}
  BY DEF UnitsOf
<1> QED BY <1>1, FS_EmptySet DEF TotalOf

\* A sum over fewer refunds of the same amounts is finite and no larger.
LEMMA TotalGrows ==
  ASSUME NEW n, NEW m, NEW S, NEW T, S \subseteq T, \A x \in S : n[x] = m[x],
         IsFiniteSet(UnitsOf(m, T))
  PROVE  /\ IsFiniteSet(UnitsOf(n, S))
         /\ TotalOf(n, S) \in Nat /\ TotalOf(m, T) \in Nat
         /\ TotalOf(n, S) <= TotalOf(m, T)
<1>1. UnitsOf(n, S) \subseteq UnitsOf(m, T)
  BY DEF UnitsOf
<1>2. /\ IsFiniteSet(UnitsOf(n, S))
      /\ Cardinality(UnitsOf(n, S)) <= Cardinality(UnitsOf(m, T))
  BY <1>1, FS_Subset
<1>3. Cardinality(UnitsOf(n, S)) \in Nat /\ Cardinality(UnitsOf(m, T)) \in Nat
  BY <1>2, FS_CardinalityType
<1> QED BY <1>2, <1>3 DEF TotalOf

\* What succeeded at Stripe is a part of what was charged, and so is any part of it.
LEMMA PartOfCharge ==
  ASSUME IInv, NEW S, S \subseteq AtStripe("succeeded")
  PROVE  /\ AmountOf(S) \in Nat /\ AmountOf(AtStripe("succeeded")) \in Nat
         /\ AmountOf(S) <= AmountOf(AtStripe("succeeded"))
         /\ AmountOf(AtStripe("succeeded")) <= Charge
<1>1. IsFiniteSet(UnitsOf(amounts, OnTheWay)) /\ TotalOf(amounts, OnTheWay) <= Charge
  BY DEF IInv, WithinCharge, AmountOf, amounts
<1>2. AtStripe("succeeded") \subseteq OnTheWay
  BY DEF OnTheWay
<1>3. /\ IsFiniteSet(UnitsOf(amounts, AtStripe("succeeded")))
      /\ TotalOf(amounts, AtStripe("succeeded")) \in Nat /\ TotalOf(amounts, OnTheWay) \in Nat
      /\ TotalOf(amounts, AtStripe("succeeded")) <= TotalOf(amounts, OnTheWay)
  BY <1>1, <1>2, TotalGrows
<1>4. /\ TotalOf(amounts, S) \in Nat
      /\ TotalOf(amounts, S) <= TotalOf(amounts, AtStripe("succeeded"))
  BY <1>3, TotalGrows
<1>5. TotalOf(amounts, AtStripe("succeeded")) <= Charge
  BY <1>1, <1>3, AmountsAssumption
<1> QED BY <1>3, <1>4, <1>5 DEF AmountOf, amounts

\* What the rows show is a part of what succeeded at Stripe.
LEMMA ConfirmedSucceeded == IInv => Confirmed \subseteq AtStripe("succeeded")
BY DEF IInv, ReportsAreTrue, Confirmed, AtStripe

\* A step that turns no row into a success and rewrites no succeeded refund keeps the
\* rows within the recorded amount.
LEMMA RowsStayRecorded ==
  ASSUME IInv, recorded' = recorded,
         \A x \in Refunds : rows'[x] = "succeeded" => rows[x] = "succeeded",
         \A x \in AtStripe("succeeded") : stripe'[x].amount = stripe[x].amount
  PROVE  RowsAreRecorded'
<1>1. Confirmed' \subseteq Confirmed /\ Confirmed \subseteq AtStripe("succeeded")
  BY ConfirmedSucceeded DEF Confirmed
<1>2. IsFiniteSet(UnitsOf(amounts, OnTheWay)) /\ AtStripe("succeeded") \subseteq OnTheWay
  BY DEF IInv, WithinCharge, OnTheWay
<1>3. IsFiniteSet(UnitsOf(amounts, Confirmed)) /\ TotalOf(amounts, Confirmed) \in Nat
  <2>1. Confirmed \subseteq OnTheWay
    BY <1>1, <1>2
  <2> QED BY <1>2, <2>1, TotalGrows
<1>4. \A x \in Confirmed' : amounts'[x] = amounts[x]
  BY <1>1 DEF amounts, Amount, AtStripe
<1>5. /\ TotalOf(amounts', Confirmed') \in Nat
      /\ TotalOf(amounts', Confirmed') <= TotalOf(amounts, Confirmed)
  BY <1>1, <1>3, <1>4, TotalGrows
<1>6. TotalOf(amounts, Confirmed) <= recorded
  BY DEF IInv, RowsAreRecorded, AmountOf, amounts
<1>7. TotalOf(amounts', Confirmed') <= recorded'
  BY <1>3, <1>5, <1>6 DEF IInv, TypeOK
<1> QED BY <1>7 DEF RowsAreRecorded, AmountOf, amounts

-----------------------------------------------------------------------------
(* One report applied, whoever brings it.                                  *)

\* A true report keeps the ledger true.
LEMMA SyncKeeps ==
  ASSUME IInv, NEW r \in Refunds, NEW status \in StripeStatuses, Sync(r, status),
         status = "succeeded" => stripe[r].status = "succeeded",
         UNCHANGED stripe
  PROVE  /\ rows' \in [Refunds -> RowStatuses] /\ recorded' \in Nat /\ told' \in BOOLEAN
         /\ \A x \in Refunds : rows'[x] = "succeeded" => stripe[x].status = "succeeded"
         /\ NeverOverclaims' /\ RowsAreRecorded'
<1> USE DEF IInv
<1>1. rows \in [Refunds -> RowStatuses] /\ recorded \in Nat /\ told \in BOOLEAN
  BY DEF TypeOK
<1>2. /\ AmountOf(AtStripe("succeeded"))' = AmountOf(AtStripe("succeeded"))
      /\ \A x \in Refunds : rows[x] = "succeeded" => stripe[x].status = "succeeded"
  BY DEF AmountOf, AtStripe, Amount, ReportsAreTrue
<1>3. CASE status = "succeeded"
  <2> DEFINE counted == {x \in Refunds : Upserted(r)[x] = "succeeded"}
  <2>1. /\ rows' = [rows EXCEPT ![r] = "succeeded"]
        /\ recorded' = AmountOf(counted)
        /\ told' = (told \/ recorded' >= Charge)
    BY <1>3 DEF Sync, Upserted, Recomputed
  <2>2. /\ rows' \in [Refunds -> RowStatuses]
        /\ \A x \in Refunds : rows'[x] = "succeeded" => stripe[x].status = "succeeded"
    BY <2>1, <1>1, <1>2, <1>3 DEF RowStatuses
  <2>3. counted \subseteq AtStripe("succeeded")
    BY <1>1, <1>2, <1>3 DEF Upserted, AtStripe
  <2>4. /\ AmountOf(counted) \in Nat /\ AmountOf(AtStripe("succeeded")) \in Nat
        /\ AmountOf(counted) <= AmountOf(AtStripe("succeeded"))
        /\ AmountOf(AtStripe("succeeded")) <= Charge
    BY <2>3, PartOfCharge
  <2>5. recorded' >= Charge => AmountOf(AtStripe("succeeded")) = Charge
    BY <2>1, <2>4, AmountsAssumption
  <2>6. told' \in BOOLEAN
    BY <2>1
  <2>7. told' => AmountOf(AtStripe("succeeded")) = Charge
    BY <2>1, <2>5 DEF NeverOverclaims
  <2>8. RowsAreRecorded'
    <3>1. counted = Confirmed'
      BY <2>1 DEF Upserted, Confirmed
    <3>2. AmountOf(Confirmed)' = AmountOf(counted)
      <4>1. amounts' = amounts
        BY DEF amounts, Amount
      <4> HIDE DEF counted
      <4> QED BY <3>1, <4>1 DEF AmountOf, amounts
    <3> HIDE DEF counted
    <3> QED BY <3>2, <2>1, <2>4 DEF RowsAreRecorded
  <2> QED BY <2>1, <2>2, <2>4, <2>6, <2>7, <2>8, <1>2 DEF NeverOverclaims
<1>4. CASE status # "succeeded"
  <2>1. /\ rows' = [rows EXCEPT ![r] = IF @ = "none" THEN @ ELSE Stored(status)]
        /\ UNCHANGED <<recorded, told>>
    BY <1>4 DEF Sync
  <2>2. Stored(status) \in {"pending", "failed"}
    BY DEF Stored
  <2>3. /\ rows' \in [Refunds -> RowStatuses]
        /\ \A x \in Refunds : rows'[x] = "succeeded" => stripe[x].status = "succeeded"
    BY <2>1, <2>2, <1>1, <1>2 DEF RowStatuses
  <2>4. \A x \in Refunds : rows'[x] = "succeeded" => rows[x] = "succeeded"
    BY <2>1, <2>2, <1>1
  <2> QED BY <2>1, <2>3, <2>4, <1>1, <1>2, RowsStayRecorded DEF NeverOverclaims
<1> QED BY <1>3, <1>4

-----------------------------------------------------------------------------
(* What Stripe does.                                                       *)

\* However a refund moves at Stripe, success is final and no amount is rewritten: the
\* ledger's claims stay covered.
LEMMA ClaimsStayCovered ==
  ASSUME IInv, WithinCharge', UNCHANGED <<recorded, told>>,
         \A r \in Refunds : stripe[r].status = "succeeded" =>
           stripe'[r].status = "succeeded" /\ stripe'[r].amount = stripe[r].amount
  PROVE  NeverOverclaims'
<1> USE DEF IInv
<1> DEFINE done == AtStripe("succeeded")
<1>1. done \subseteq done' /\ done' \subseteq OnTheWay'
  BY DEF AtStripe, OnTheWay
<1>2. \A x \in done : amounts[x] = amounts'[x]
  BY DEF amounts, Amount, AtStripe
<1>3. /\ IsFiniteSet(UnitsOf(amounts', OnTheWay'))
      /\ TotalOf(amounts', OnTheWay') <= Charge
  BY DEF WithinCharge, AmountOf, amounts
<1>4. /\ IsFiniteSet(UnitsOf(amounts', done'))
      /\ TotalOf(amounts', done') \in Nat /\ TotalOf(amounts', OnTheWay') \in Nat
      /\ TotalOf(amounts', done') <= TotalOf(amounts', OnTheWay')
  <2> HIDE DEF done
  <2> QED BY <1>1, <1>3, TotalGrows
<1>5. TotalOf(amounts, done) \in Nat /\ TotalOf(amounts, done) <= TotalOf(amounts', done')
  <2> HIDE DEF done
  <2> QED BY <1>1, <1>2, <1>4, TotalGrows
<1>6. /\ AmountOf(done) = TotalOf(amounts, done)
      /\ AmountOf(done)' = TotalOf(amounts', done')
  BY DEF AmountOf, amounts
<1>7. /\ recorded \in Nat /\ recorded <= TotalOf(amounts, done)
      /\ told => TotalOf(amounts, done) = Charge
  BY <1>6 DEF TypeOK, NeverOverclaims
<1>8. recorded <= TotalOf(amounts', done')
  BY <1>4, <1>5, <1>7
<1>9. told => TotalOf(amounts', done') = Charge
  BY <1>3, <1>4, <1>5, <1>7, AmountsAssumption
<1> QED BY <1>6, <1>8, <1>9 DEF NeverOverclaims

-----------------------------------------------------------------------------
(* The operator's request.                                                 *)

Requests == [pc : {"idle", "checked", "create", "record", "sync"},
             amount : 0..Charge, position : 0..Charge, refund : Refunds \cup {NoRefund}]
Idles(o) == req' = [req EXCEPT ![o] = Idle]

\* An idle request is one, and nothing to refund is a part of the charge.
LEMMA IdleTyped == Idle \in Requests
BY AmountsAssumption DEF Idle, Requests

\* What a step that only moves a request keeps.
LEMMA RequestMoves ==
  ASSUME IInv, UNCHANGED <<rows, recorded, told, stripe, answered, events>>,
         req' \in [Operators -> Requests], RequestsHoldRefunds'
  PROVE  IInv'
<1> USE DEF IInv
<1>1. TypeOK'
  BY DEF TypeOK, Requests
<1>2. ReportsAreTrue'
  BY DEF ReportsAreTrue
<1>3. WithinCharge' /\ NeverOverclaims'
  BY DEF WithinCharge, NeverOverclaims, amounts, OnTheWay, AmountOf, AtStripe, Amount
<1>4. RowsAreRecorded'
  BY RowsStayRecorded
<1> QED BY <1>1, <1>2, <1>3, <1>4

\* The position a request starts from is a part of the charge.
LEMMA AskKeeps ==
  ASSUME IInv, NEW o \in Operators, NEW a \in Amounts, Ask(o, a)
  PROVE  IInv'
<1> USE DEF IInv
<1>1. recorded \in 0..Charge
  <2>1. /\ AmountOf(AtStripe("succeeded")) \in Nat
        /\ AmountOf(AtStripe("succeeded")) <= Charge
    BY PartOfCharge
  <2> QED BY <2>1, AmountsAssumption DEF TypeOK, NeverOverclaims
<1>2. a \in 0..Charge
  BY AmountsAssumption
<1> DEFINE v == [Idle EXCEPT !.pc = "checked", !.amount = a, !.position = recorded]
<1>3. v \in Requests /\ v.pc = "checked"
  BY <1>1, <1>2, IdleTyped DEF Requests
<1>4. req' = [req EXCEPT ![o] = v] /\ req \in [Operators -> Requests]
  BY DEF Ask, TypeOK, Requests
<1> HIDE DEF v
<1>5. req' \in [Operators -> Requests]
  BY <1>3, <1>4
<1>6. RequestsHoldRefunds'
  BY <1>3, <1>4 DEF RequestsHoldRefunds
<1> QED BY <1>5, <1>6, RequestMoves DEF Ask

\* A request that ends, or passes the duplicate check, holds no refund.
LEMMA CheckKeeps ==
  ASSUME IInv, NEW o \in Operators, CheckDuplicate(o) \/ GiveUp(o)
  PROVE  IInv'
<1> USE DEF IInv
<1>1. req \in [Operators -> Requests]
  BY DEF TypeOK, Requests
<1> DEFINE v == [req[o] EXCEPT !.pc = "create"]
<1>2. v \in Requests /\ v.pc = "create"
  BY <1>1 DEF Requests
<1>3. Idle \in Requests /\ Idle.pc = "idle"
  BY IdleTyped DEF Idle
<1>4. req' = [req EXCEPT ![o] = v] \/ Idles(o)
  BY <1>1 DEF CheckDuplicate, GiveUp, Idles
<1> HIDE DEF v
<1>5. req' \in [Operators -> Requests]
  BY <1>1, <1>2, <1>3, <1>4 DEF Idles
<1>6. RequestsHoldRefunds'
  BY <1>1, <1>2, <1>3, <1>4 DEF RequestsHoldRefunds, Idles
<1> QED BY <1>5, <1>6, RequestMoves DEF CheckDuplicate, GiveUp

\* What a request is once Stripe answered it with r.
LEMMA AnsweredTyped ==
  ASSUME IInv, NEW o \in Operators, NEW r \in Refunds,
         req' = [req EXCEPT ![o].pc = "record", ![o].refund = r]
  PROVE  req' \in [Operators -> Requests] /\ RequestsHoldRefunds'
<1> USE DEF IInv
<1>1. req \in [Operators -> Requests]
  BY DEF TypeOK, Requests
<1> DEFINE v == [req[o] EXCEPT !.pc = "record", !.refund = r]
<1>2. v \in Requests /\ v.refund = r
  BY <1>1 DEF Requests
<1>3. req' = [req EXCEPT ![o] = v]
  BY <1>1 DEF Requests
<1> HIDE DEF v
<1> QED BY <1>1, <1>2, <1>3 DEF RequestsHoldRefunds

\* Stripe makes a new refund only within the charge, and answers a known key as before.
LEMMA CreateKeeps ==
  ASSUME IInv, NEW o \in Operators, Create(o)
  PROVE  IInv'
<1> USE DEF IInv
<1>1. CASE \E r \in Refunds : /\ SameKey(o, r)
                              /\ req' = [req EXCEPT ![o].pc = "record", ![o].refund = r]
                              /\ UNCHANGED <<stripe, answered, events>>
  BY <1>1, AnsweredTyped, RequestMoves DEF Create
<1>2. ASSUME NEW r \in Refunds, NEW s \in {"pending", "succeeded"},
             req[o].amount + AmountOf(OnTheWay) <= Charge,
             stripe[r].status = "none",
             stripe' = [stripe EXCEPT ![r] = [status |-> s, amount |-> req[o].amount,
                                              position |-> req[o].position]],
             answered' = [answered EXCEPT ![r] = s],
             events' = events \cup {[refund |-> r, status |-> s]},
             req' = [req EXCEPT ![o].pc = "record", ![o].refund = r]
      PROVE  IInv'
  <2>1. UNCHANGED <<rows, recorded, told>>
    BY DEF Create
  <2>2. req[o].amount \in 0..Charge /\ req[o].position \in 0..Charge
    BY DEF TypeOK
  <2>3. req' \in [Operators -> Requests] /\ RequestsHoldRefunds'
    BY <1>2, AnsweredTyped
  <2>4. /\ stripe'[r].status = s /\ stripe'[r].amount = req[o].amount
        /\ \A x \in Refunds \ {r} : stripe'[x] = stripe[x]
    BY <1>2 DEF TypeOK
  <2>5. TypeOK'
    <3>1. stripe' \in [Refunds -> [status : StripeStatuses, amount : 0..Charge, position : 0..Charge]]
      BY <1>2, <2>2 DEF TypeOK, StripeStatuses, RowStatuses
    <3>2. answered' \in [Refunds -> {"none", "pending", "succeeded"}]
      BY <1>2 DEF TypeOK
    <3>3. events' \subseteq Events
      BY <1>2 DEF TypeOK, Events, StripeStatuses, RowStatuses
    <3> QED BY <2>1, <2>3, <3>1, <3>2, <3>3 DEF TypeOK, Requests
  <2>6. ReportsAreTrue'
    <3>1. \A x \in Refunds : rows'[x] = "succeeded" => stripe'[x].status = "succeeded"
      BY <2>1, <2>4, <1>2 DEF ReportsAreTrue
    <3>2. \A x \in Refunds : answered'[x] = "succeeded" => stripe'[x].status = "succeeded"
      BY <2>4, <1>2 DEF ReportsAreTrue, TypeOK
    <3>3. \A e \in events' : e.status = "succeeded" => stripe'[e.refund].status = "succeeded"
      BY <2>4, <1>2 DEF ReportsAreTrue, TypeOK, Events
    <3> QED BY <3>1, <3>2, <3>3 DEF ReportsAreTrue
  <2>7. WithinCharge'
    <3>1. r \notin OnTheWay /\ OnTheWay' = OnTheWay \cup {r}
      BY <2>4, <1>2 DEF OnTheWay, AtStripe
    <3>2. /\ \A x \in OnTheWay : amounts'[x] = amounts[x]
          /\ amounts'[r] = req[o].amount
      BY <2>4, <3>1 DEF amounts, Amount, OnTheWay, AtStripe
    <3>3. IsFiniteSet(UnitsOf(amounts, OnTheWay)) /\ AmountOf(OnTheWay) = TotalOf(amounts, OnTheWay)
      BY DEF WithinCharge, AmountOf, amounts
    <3>4. /\ IsFiniteSet(UnitsOf(amounts', OnTheWay))
          /\ TotalOf(amounts', OnTheWay) \in Nat /\ TotalOf(amounts, OnTheWay) \in Nat
          /\ TotalOf(amounts', OnTheWay) <= TotalOf(amounts, OnTheWay)
      BY <3>2, <3>3, TotalGrows
    <3>5. /\ IsFiniteSet(UnitsOf(amounts', OnTheWay \cup {r}))
          /\ TotalOf(amounts', OnTheWay \cup {r}) = TotalOf(amounts', OnTheWay) + req[o].amount
      <4>1. amounts'[r] \in Nat
        BY <3>2, <2>2, AmountsAssumption
      <4>2. /\ IsFiniteSet(UnitsOf(amounts', OnTheWay \cup {r}))
            /\ TotalOf(amounts', OnTheWay \cup {r}) = TotalOf(amounts', OnTheWay) + amounts'[r]
        BY <3>1, <3>4, <4>1, TotalAdds
      <4> QED BY <4>2, <3>2
    <3>6. TotalOf(amounts', OnTheWay \cup {r}) <= Charge
      BY <3>3, <3>4, <3>5, <2>2, <1>2, AmountsAssumption
    <3> QED BY <3>1, <3>5, <3>6 DEF WithinCharge, AmountOf, amounts
  <2>8. NeverOverclaims'
    BY <2>1, <2>4, <2>7, <1>2, ClaimsStayCovered
  <2>9. RowsAreRecorded'
    BY <2>1, <2>4, <1>2, RowsStayRecorded DEF AtStripe
  <2> QED BY <2>3, <2>5, <2>6, <2>7, <2>8, <2>9
<1> QED BY <1>1, <1>2 DEF Create, OnTheWay

\* The pending row is written; what it replaces is no success.
LEMMA RecordKeeps ==
  ASSUME IInv, NEW o \in Operators, Record(o)
  PROVE  IInv'
<1> USE DEF IInv
<1> DEFINE r == req[o].refund
           v == [req[o] EXCEPT !.pc = "sync"]
<1>1. /\ req[o].pc = "record"
      /\ rows' = [rows EXCEPT ![r] = IF @ = "none" THEN "pending" ELSE @]
      /\ req' = [req EXCEPT ![o].pc = "sync"]
      /\ UNCHANGED <<recorded, told, stripe, answered, events>>
  BY DEF Record
<1>2. r \in Refunds /\ req \in [Operators -> Requests]
  BY <1>1 DEF RequestsHoldRefunds, TypeOK, Requests
<1>3. v \in Requests /\ v.refund \in Refunds /\ req' = [req EXCEPT ![o] = v]
  BY <1>1, <1>2 DEF Requests
<1>4. rows' \in [Refunds -> RowStatuses] /\ \A x \in Refunds : rows'[x] = "succeeded" => rows[x] = "succeeded"
  BY <1>1, <1>2 DEF TypeOK, RowStatuses
<1> HIDE DEF v
<1>5. req' \in [Operators -> Requests] /\ RequestsHoldRefunds'
  BY <1>2, <1>3 DEF RequestsHoldRefunds
<1>6. TypeOK'
  BY <1>1, <1>4, <1>5 DEF TypeOK, Requests
<1>7. ReportsAreTrue'
  BY <1>1, <1>4 DEF ReportsAreTrue
<1>8. WithinCharge' /\ NeverOverclaims'
  BY <1>1 DEF WithinCharge, NeverOverclaims, amounts, OnTheWay, AmountOf, AtStripe, Amount
<1>9. RowsAreRecorded'
  BY <1>1, <1>4, RowsStayRecorded
<1> QED BY <1>5, <1>6, <1>7, <1>8, <1>9

\* The answer to the request is applied as Stripe gave it, however late.
LEMMA SyncAnswerKeeps ==
  ASSUME IInv, NEW o \in Operators, SyncAnswer(o)
  PROVE  IInv'
<1> USE DEF IInv
<1> DEFINE r == req[o].refund
<1>1. /\ req[o].pc = "sync" /\ Sync(r, answered[r])
      /\ req' = [req EXCEPT ![o] = Idle]
      /\ UNCHANGED <<stripe, answered, events>>
  BY DEF SyncAnswer
<1>2. r \in Refunds /\ req \in [Operators -> Requests]
  BY <1>1 DEF RequestsHoldRefunds, TypeOK, Requests
<1>3. answered[r] \in StripeStatuses /\ (answered[r] = "succeeded" => stripe[r].status = "succeeded")
  BY <1>2 DEF TypeOK, StripeStatuses, RowStatuses, ReportsAreTrue
<1>4. /\ rows' \in [Refunds -> RowStatuses] /\ recorded' \in Nat /\ told' \in BOOLEAN
      /\ \A x \in Refunds : rows'[x] = "succeeded" => stripe[x].status = "succeeded"
      /\ NeverOverclaims' /\ RowsAreRecorded'
  BY <1>1, <1>2, <1>3, SyncKeeps
<1>5. req' \in [Operators -> Requests] /\ RequestsHoldRefunds'
  BY <1>1, <1>2, IdleTyped DEF RequestsHoldRefunds, Idle
<1>6. TypeOK'
  BY <1>1, <1>4, <1>5 DEF TypeOK, Requests
<1>7. ReportsAreTrue'
  BY <1>1, <1>4 DEF ReportsAreTrue
<1>8. WithinCharge'
  BY <1>1 DEF WithinCharge, amounts, OnTheWay, AmountOf, AtStripe, Amount
<1> QED BY <1>4, <1>5, <1>6, <1>7, <1>8

-----------------------------------------------------------------------------
(* Stripe and its webhooks.                                                *)

\* A pending refund that ends takes nothing more from the charge.
LEMMA FinishKeeps ==
  ASSUME IInv, NEW r \in Refunds, NEW s \in {"succeeded", "failed", "canceled"}, Finish(r, s)
  PROVE  IInv'
<1> USE DEF IInv
<1>1. /\ stripe[r].status = "pending"
      /\ stripe' = [stripe EXCEPT ![r].status = s]
      /\ events' = events \cup {[refund |-> r, status |-> s]}
      /\ UNCHANGED <<rows, recorded, told, answered, req>>
  BY DEF Finish
<1>2. /\ stripe'[r].status = s /\ \A x \in Refunds : stripe'[x].amount = stripe[x].amount
      /\ \A x \in Refunds \ {r} : stripe'[x] = stripe[x]
  BY <1>1 DEF TypeOK
<1>3. TypeOK'
  <2>1. stripe' \in [Refunds -> [status : StripeStatuses, amount : 0..Charge, position : 0..Charge]]
    BY <1>1 DEF TypeOK, StripeStatuses, RowStatuses
  <2>2. events' \subseteq Events
    BY <1>1 DEF TypeOK, Events, StripeStatuses, RowStatuses
  <2> QED BY <1>1, <2>1, <2>2 DEF TypeOK
<1>4. ReportsAreTrue'
  <2>1. \A e \in events' : e.status = "succeeded" => stripe'[e.refund].status = "succeeded"
    BY <1>1, <1>2 DEF ReportsAreTrue, TypeOK, Events
  <2>2. \A x \in Refunds : rows'[x] = "succeeded" => stripe'[x].status = "succeeded"
    BY <1>1, <1>2 DEF ReportsAreTrue
  <2>3. \A x \in Refunds : answered'[x] = "succeeded" => stripe'[x].status = "succeeded"
    BY <1>1, <1>2 DEF ReportsAreTrue
  <2> QED BY <2>1, <2>2, <2>3 DEF ReportsAreTrue
<1>5. WithinCharge'
  <2>1. OnTheWay' \subseteq OnTheWay
    BY <1>1, <1>2 DEF OnTheWay, AtStripe
  <2>2. amounts' = amounts
    BY <1>2 DEF amounts, Amount
  <2>3. IsFiniteSet(UnitsOf(amounts, OnTheWay)) /\ TotalOf(amounts, OnTheWay) <= Charge
    BY DEF WithinCharge, AmountOf, amounts
  <2>4. /\ IsFiniteSet(UnitsOf(amounts, OnTheWay'))
        /\ TotalOf(amounts, OnTheWay') \in Nat /\ TotalOf(amounts, OnTheWay) \in Nat
        /\ TotalOf(amounts, OnTheWay') <= TotalOf(amounts, OnTheWay)
    BY <2>1, <2>3, TotalGrows
  <2>5. TotalOf(amounts, OnTheWay') <= Charge
    BY <2>3, <2>4, AmountsAssumption
  <2> QED BY <2>2, <2>4, <2>5 DEF WithinCharge, AmountOf, amounts
<1>6. NeverOverclaims'
  BY <1>1, <1>2, <1>5, ClaimsStayCovered
<1>7. RequestsHoldRefunds'
  BY <1>1 DEF RequestsHoldRefunds
<1>8. RowsAreRecorded'
  BY <1>1, <1>2, RowsStayRecorded
<1> QED BY <1>3, <1>4, <1>5, <1>6, <1>7, <1>8

\* A webhook is true of the refund whenever it is handled, and as often as it is.
LEMMA HandleKeeps ==
  ASSUME IInv, NEW e \in events, Deliver(e) \/ DeliverAgain(e)
  PROVE  IInv'
<1> USE DEF IInv
<1>1. /\ Sync(e.refund, e.status) /\ events' \subseteq events
      /\ UNCHANGED <<stripe, answered, req>>
  BY DEF Deliver, DeliverAgain, Handle
<1>2. e.refund \in Refunds /\ e.status \in StripeStatuses
  BY DEF TypeOK, Events
<1>3. e.status = "succeeded" => stripe[e.refund].status = "succeeded"
  BY DEF ReportsAreTrue
<1>4. /\ rows' \in [Refunds -> RowStatuses] /\ recorded' \in Nat /\ told' \in BOOLEAN
      /\ \A x \in Refunds : rows'[x] = "succeeded" => stripe[x].status = "succeeded"
      /\ NeverOverclaims' /\ RowsAreRecorded'
  BY <1>1, <1>2, <1>3, SyncKeeps
<1>5. TypeOK'
  BY <1>1, <1>4 DEF TypeOK
<1>6. ReportsAreTrue'
  BY <1>1, <1>4 DEF ReportsAreTrue
<1>7. WithinCharge' /\ RequestsHoldRefunds'
  BY <1>1 DEF WithinCharge, RequestsHoldRefunds, amounts, OnTheWay, AmountOf, AtStripe, Amount
<1> QED BY <1>4, <1>5, <1>6, <1>7

-----------------------------------------------------------------------------
\* Nothing was refunded and nothing says so.
LEMMA InitInv == Init => IInv
<1> SUFFICES ASSUME Init PROVE IInv
  OBVIOUS
<1>1. TypeOK
  <2>1. req \in [Operators -> Requests]
    BY IdleTyped DEF Init
  <2>2. stripe \in [Refunds -> [status : StripeStatuses, amount : 0..Charge, position : 0..Charge]]
    BY AmountsAssumption DEF Init, StripeStatuses, RowStatuses
  <2> QED BY <2>1, <2>2 DEF Init, TypeOK, Requests, RowStatuses
<1>2. ReportsAreTrue /\ RequestsHoldRefunds
  BY DEF Init, ReportsAreTrue, RequestsHoldRefunds, Idle
<1>3. AtStripe("succeeded") = {} /\ OnTheWay = {}
  BY DEF Init, AtStripe, OnTheWay
<1>4. WithinCharge /\ AmountOf(AtStripe("succeeded")) = 0
  <2>1. IsFiniteSet(UnitsOf(amounts, {})) /\ TotalOf(amounts, {}) = 0
    BY TotalOfNone
  <2>2. AmountOf({}) = 0
    BY <2>1 DEF AmountOf, amounts
  <2> QED BY <2>1, <2>2, <1>3, AmountsAssumption DEF WithinCharge
<1>5. NeverOverclaims
  BY <1>4 DEF Init, NeverOverclaims
<1>6. RowsAreRecorded
  <2>1. Confirmed = AtStripe("succeeded")
    BY <1>3 DEF Init, Confirmed
  <2> QED BY <2>1, <1>4 DEF Init, RowsAreRecorded
<1> QED BY <1>1, <1>2, <1>4, <1>5, <1>6 DEF IInv

\* Every action keeps the invariant.
LEMMA NextInv == IInv /\ [Next]_vars => IInv'
<1> SUFFICES ASSUME IInv, [Next]_vars PROVE IInv'
  OBVIOUS
<1>1. ASSUME NEW o \in Operators, Operator(o)
      PROVE  IInv'
  BY <1>1, AskKeeps, CheckKeeps, CreateKeeps, RecordKeeps, SyncAnswerKeeps DEF Operator
<1>2. ASSUME NEW r \in Refunds, NEW s \in {"succeeded", "failed", "canceled"}, Finish(r, s)
      PROVE  IInv'
  BY <1>2, FinishKeeps
<1>3. ASSUME NEW e \in events, Deliver(e) \/ DeliverAgain(e)
      PROVE  IInv'
  BY <1>3, HandleKeeps
<1>4. CASE UNCHANGED vars
  BY <1>4 DEF vars, IInv, TypeOK, ReportsAreTrue, RequestsHoldRefunds, WithinCharge,
     NeverOverclaims, RowsAreRecorded, Confirmed, amounts, OnTheWay, AmountOf, AtStripe, Amount
<1> QED BY <1>1, <1>2, <1>3, <1>4 DEF Next

\* The inductive invariant holds: in particular what succeeded or may still succeed at
\* Stripe is within the charge, and nothing reports a success that did not happen.
THEOREM RefundInvariance == Spec => []IInv
BY InitInv, NextInv, PTL DEF Spec

\* The amount recorded and the orders shown as refunded never run ahead of Stripe,
\* whatever is replayed, reordered, retried or lost (stripe.ts:1566-1573).
THEOREM NeverClaimsTooMuch == Spec => []NeverOverclaims
BY RefundInvariance, PTL DEF IInv

\* The refunds shown as succeeded stay within the recorded amount, in whatever order
\* their reports arrive (stripe.ts:1670-1681).
THEOREM TablesAgree == Spec => []RowsAreRecorded
BY RefundInvariance, PTL DEF IInv

\* Stripe's answers and the operators' requests keep their types.
THEOREM RefundsTyped == Spec => []TypeOK
BY RefundInvariance, PTL DEF IInv
=============================================================================
