-------------------------- MODULE SellerReviewProof --------------------------
(***************************************************************************)
(* The seller's account, badge and submissions, for any number of          *)
(* submissions and reviewers.                                              *)
(***************************************************************************)
EXTENDS SellerReview, TLAPS

\* A submission that is not under review leaves every review's row as it is.
LEMMA OthersKeepTheirRows ==
  ASSUME TypeOK, ReviewsHoldTheirRows, NEW v \in Reviewers, review[v] # Idle,
         NEW rows, Free(rows), NEW new
  PROVE  [r \in Records |-> IF r \in rows THEN new ELSE record[r]][review[v].rec]
           = record[review[v].rec]
<1>1. review[v].rec \in Records
  BY DEF TypeOK, Reviewing
<1>2. review[v].rec \notin rows
  BY DEF Free
<1> QED BY <1>1, <1>2

\* Before the first application everything is empty.
LEMMA InitIInv == Init => IInv
<1> SUFFICES ASSUME Init PROVE IInv
  OBVIOUS
<1>1. TypeOK
  BY DEF Init, TypeOK, BadgeStatuses
<1>2. ReviewsHoldTheirRows /\ ApprovalsStayApprovable
  BY DEF Init, ReviewsHoldTheirRows, ApprovalsStayApprovable, Idle
<1>3. BadgeHasProof /\ PendingBadgeHasASubmission
  BY DEF Init, BadgeHasProof, PendingBadgeHasASubmission
<1> QED BY <1>1, <1>2, <1>3 DEF IInv

\* A new or refreshed submission: it waits, no other row moved.
LEMMA UpsertKeeps ==
  ASSUME TypeOK, UpsertPending
  PROVE  /\ record' \in [Records -> RecordStatuses \cup {"none"}]
         /\ \E r \in Records : record'[r] = "pending"
         /\ \A r \in Records : record[r] # "none" => record'[r] = record[r]
<1>1. CASE Pending # {} /\ Free(Pending) /\ UNCHANGED record
  BY <1>1 DEF TypeOK, Pending
<1>2. CASE \E r \in Records : /\ record[r] = "none"
                              /\ record' = [record EXCEPT ![r] = "pending"]
  BY <1>2 DEF TypeOK, RecordStatuses
<1> QED BY <1>1, <1>2 DEF UpsertPending

\* The applicant's two routes keep the invariant.
LEMMA ApplicantKeeps ==
  ASSUME IInv, Apply \/ Submit
  PROVE  IInv'
<1> USE DEF IInv
<1>1. /\ UpsertPending /\ badge' = "pending" /\ review' = review
      /\ account' = "pending" \/ account' = account
  BY DEF Apply, Submit
<1>2. /\ record' \in [Records -> RecordStatuses \cup {"none"}]
      /\ \E r \in Records : record'[r] = "pending"
      /\ \A r \in Records : record[r] # "none" => record'[r] = record[r]
  BY <1>1, UpsertKeeps
<1>3. TypeOK'
  BY <1>1, <1>2 DEF TypeOK, AccountStatuses, BadgeStatuses
<1>4. ASSUME NEW v \in Reviewers, review[v] # Idle
      PROVE  review[v].rec \in Records /\ record'[review[v].rec] = record[review[v].rec]
  <2>1. review[v].rec \in Records
    BY <1>4 DEF TypeOK, Reviewing
  <2> QED BY <2>1, <1>2, <1>4 DEF ReviewsHoldTheirRows
<1>5. ReviewsHoldTheirRows'
  BY <1>1, <1>4 DEF ReviewsHoldTheirRows
<1>6. ApprovalsStayApprovable'
  <2> SUFFICES ASSUME NEW v \in Reviewers, review[v].action = "approve"
               PROVE  /\ record'[review[v].rec] \in {"pending", "verified"}
                      /\ account' = "rejected" => record'[review[v].rec] = "verified"
    BY <1>1 DEF ApprovalsStayApprovable
  <2>1. review[v] # Idle
    BY DEF Idle
  <2> QED BY <1>1, <1>4, <2>1 DEF ApprovalsStayApprovable
<1>7. BadgeHasProof' /\ PendingBadgeHasASubmission'
  BY <1>1, <1>2 DEF BadgeHasProof, PendingBadgeHasASubmission, Pending
<1> QED BY <1>3, <1>5, <1>6, <1>7

\* Every move of the machine ends in a status.
LEMMA MovesToAStatus ==
  ASSUME NEW to, to \in ValidTransitions(account)
  PROVE  to \in AccountStatuses
BY DEF ValidTransitions, AccountStatuses

\* A decision on the account keeps the types and the reviews: it reaches no
\* submission under review.
LEMMA ResolveKeeps ==
  ASSUME IInv, NEW to, Moves(to), NEW status \in {"verified", "rejected", "suspended"},
         Resolve(status)
  PROVE  /\ account' \in AccountStatuses
         /\ record' \in [Records -> RecordStatuses \cup {"none"}]
         /\ review' \in [Reviewers -> Reviewing \cup {Idle}]
         /\ ReviewsHoldTheirRows'
         /\ ApprovalsStayApprovable'
<1> USE DEF IInv
<1>1. account' \in AccountStatuses /\ review' = review
  BY MovesToAStatus DEF Moves
<1>2. record' = [r \in Records |-> IF r \in Pending THEN status ELSE record[r]] /\ Free(Pending)
  BY DEF Resolve
<1>3. record' \in [Records -> RecordStatuses \cup {"none"}]
  BY <1>2 DEF TypeOK, RecordStatuses
<1>4. ASSUME NEW v \in Reviewers, review[v] # Idle
      PROVE  /\ review[v].rec \in Records \ Pending
             /\ record'[review[v].rec] = record[review[v].rec]
  <2>1. review[v].rec \in Records
    BY <1>4 DEF TypeOK, Reviewing
  <2>2. review[v].rec \notin Pending
    BY <1>2 DEF Free
  <2> QED BY <2>1, <2>2, <1>2
<1>5. ReviewsHoldTheirRows'
  BY <1>1, <1>4 DEF ReviewsHoldTheirRows
<1>6. ApprovalsStayApprovable'
  <2> SUFFICES ASSUME NEW v \in Reviewers, review[v].action = "approve"
               PROVE  record'[review[v].rec] = "verified"
    BY <1>1 DEF ApprovalsStayApprovable
  <2>1. review[v] # Idle
    BY DEF Idle
  <2>2. record[review[v].rec] # "pending"
    BY <2>1, <1>4 DEF Pending
  <2> QED BY <2>1, <2>2, <1>4 DEF ApprovalsStayApprovable
<1> QED BY <1>1, <1>3, <1>5, <1>6 DEF TypeOK

\* The account routes of staff keep the invariant.
LEMMA StaffKeeps ==
  ASSUME IInv,
         \/ \E to \in AccountStatuses : Reopen(to) \/ TurnDown(to)
         \/ ApproveAccount \/ SuspendAccount \/ Revoke
  PROVE  IInv'
<1> USE DEF IInv
<1>1. ASSUME NEW to \in AccountStatuses, Reopen(to)
      PROVE  IInv'
  <2>1. /\ account' = to /\ to \in {"under_review", "pending"}
        /\ UNCHANGED <<badge, record, review>>
    BY <1>1 DEF Reopen, Moves
  <2>2. TypeOK'
    BY <2>1 DEF TypeOK
  <2>3. ReviewsHoldTheirRows' /\ ApprovalsStayApprovable'
    BY <2>1 DEF ReviewsHoldTheirRows, ApprovalsStayApprovable
  <2>4. BadgeHasProof' /\ PendingBadgeHasASubmission'
    BY <2>1 DEF BadgeHasProof, PendingBadgeHasASubmission, Pending
  <2> QED BY <2>2, <2>3, <2>4
<1>2. ASSUME NEW to \in AccountStatuses, TurnDown(to)
      PROVE  IInv'
  <2>1. Moves(to) /\ Resolve("rejected") /\ badge' = "unverified"
    BY <1>2 DEF TurnDown
  <2>2. BadgeHasProof' /\ PendingBadgeHasASubmission'
    BY <2>1 DEF BadgeHasProof, PendingBadgeHasASubmission
  <2> QED BY <2>1, <2>2, ResolveKeeps DEF TypeOK, BadgeStatuses
<1>3. ASSUME ApproveAccount
      PROVE  IInv'
  <2>1. /\ Moves("approved") /\ Resolve("verified")
        /\ badge' = IF Pending # {} THEN "verified" ELSE badge
    BY <1>3 DEF ApproveAccount
  <2>2. CASE Pending # {}
    <3>1. badge' = "verified"
      BY <2>1, <2>2
    <3>2. \E r \in Records : record'[r] = "verified"
      BY <2>1, <2>2 DEF Resolve, Pending
    <3> QED BY <2>1, <3>1, <3>2, ResolveKeeps
            DEF TypeOK, BadgeStatuses, BadgeHasProof, PendingBadgeHasASubmission
  <2>3. CASE Pending = {}
    <3>1. badge' = badge /\ badge # "pending"
      BY <2>1, <2>3 DEF PendingBadgeHasASubmission
    <3>2. \A r \in Records : record'[r] = record[r]
      BY <2>1, <2>3 DEF Resolve
    <3> QED BY <2>1, <3>1, <3>2, ResolveKeeps
            DEF TypeOK, BadgeHasProof, PendingBadgeHasASubmission
  <2> QED BY <2>2, <2>3
<1>4. ASSUME SuspendAccount
      PROVE  IInv'
  <2>1. Moves("suspended") /\ Resolve("suspended") /\ badge' = "suspended"
    BY <1>4 DEF SuspendAccount
  <2>2. BadgeHasProof' /\ PendingBadgeHasASubmission'
    BY <2>1 DEF BadgeHasProof, PendingBadgeHasASubmission
  <2> QED BY <2>1, <2>2, ResolveKeeps DEF TypeOK, BadgeStatuses
<1>5. ASSUME Revoke
      PROVE  IInv'
  <2>1. account' = "suspended" /\ UNCHANGED <<badge, record, review>>
    BY <1>5 DEF Revoke
  <2>2. TypeOK'
    BY <2>1 DEF TypeOK, AccountStatuses
  <2>3. ReviewsHoldTheirRows' /\ ApprovalsStayApprovable'
    BY <2>1 DEF ReviewsHoldTheirRows, ApprovalsStayApprovable
  <2>4. BadgeHasProof' /\ PendingBadgeHasASubmission'
    BY <2>1 DEF BadgeHasProof, PendingBadgeHasASubmission, Pending
  <2> QED BY <2>2, <2>3, <2>4
<1> QED BY <1>1, <1>2, <1>3, <1>4, <1>5

\* A review takes a lock that no other review holds, and approves only what is
\* neither turned down nor, as far as it read, owned by a turned-down account.
LEMMA ReadKeeps ==
  ASSUME IInv, NEW v \in Reviewers, NEW r \in Records, NEW a \in ReviewActions,
         ReadForReview(v, r, a)
  PROVE  IInv'
<1> USE DEF IInv
<1>1. /\ UNCHANGED <<account, badge, record>>
      /\ record[r] # "none" /\ Free({r}) /\ (a = "approve" => Approvable(r))
      /\ review' = [review EXCEPT ![v] = [rec |-> r, action |-> a]]
  BY DEF ReadForReview
<1>2. TypeOK'
  BY <1>1 DEF TypeOK, Reviewing
<1>3. /\ review'[v] = [rec |-> r, action |-> a]
      /\ \A w \in Reviewers \ {v} : review'[w] = review[w] /\ review[w].rec # r
  BY <1>1 DEF TypeOK, Free
<1>4. ReviewsHoldTheirRows'
  <2> SUFFICES ASSUME NEW w \in Reviewers, review'[w] # Idle
               PROVE  /\ record[review'[w].rec] # "none"
                      /\ \A u \in Reviewers \ {w} : review'[u].rec # review'[w].rec
    BY <1>1 DEF ReviewsHoldTheirRows
  <2>1. CASE w = v
    BY <2>1, <1>1, <1>3
  <2>2. CASE w # v
    <3>1. review'[w] = review[w] /\ review[w].rec # r
      BY <2>2, <1>3
    <3> QED BY <3>1, <1>3 DEF ReviewsHoldTheirRows
  <2> QED BY <2>1, <2>2
<1>5. ApprovalsStayApprovable'
  <2> SUFFICES ASSUME NEW w \in Reviewers, review'[w].action = "approve"
               PROVE  /\ record[review'[w].rec] \in {"pending", "verified"}
                      /\ account = "rejected" => record[review'[w].rec] = "verified"
    BY <1>1 DEF ApprovalsStayApprovable
  <2>1. CASE w = v
    <3>1. Approvable(r) /\ review'[w].rec = r
      BY <2>1, <1>1, <1>3
    <3>2. record[r] \in {"pending", "verified"}
      BY <3>1, <1>1 DEF Approvable, TypeOK, RecordStatuses
    <3> QED BY <3>1, <3>2 DEF Approvable
  <2>2. CASE w # v
    BY <2>2, <1>3 DEF ApprovalsStayApprovable
  <2> QED BY <2>1, <2>2
<1>6. BadgeHasProof' /\ PendingBadgeHasASubmission'
  BY <1>1 DEF BadgeHasProof, PendingBadgeHasASubmission, Pending
<1> QED BY <1>2, <1>4, <1>5, <1>6

\* A review's write: its own row, and a badge that follows it.
LEMMA WriteKeeps ==
  ASSUME IInv, NEW v \in Reviewers, WriteReview(v)
  PROVE  IInv'
<1> DEFINE r == review[v].rec
           a == review[v].action
<1> USE DEF IInv
<1>1. /\ review[v] # Idle
      /\ record' = [record EXCEPT ![r] = RecordAfter(a)]
      /\ badge' = BadgeAfter(a)
      /\ account' = AccountAfter(a)
      /\ review' = [review EXCEPT ![v] = Idle]
  BY DEF WriteReview
<1>2. r \in Records /\ a \in ReviewActions
  BY <1>1 DEF TypeOK, Reviewing
<1>3. /\ RecordAfter(a) \in RecordStatuses
      /\ BadgeAfter(a) \in BadgeStatuses \ {"pending"}
      /\ BadgeAfter(a) = "verified" => RecordAfter(a) = "verified"
  BY <1>2 DEF ReviewActions, RecordAfter, BadgeAfter, RecordStatuses, BadgeStatuses
<1>4. AccountAfter(a) \in AccountStatuses \cup {"none"} /\ (AccountAfter(a) = "rejected" => account = "rejected")
  BY DEF AccountAfter, AccountStatuses, TypeOK
<1>5. TypeOK'
  <2>1. record' \in [Records -> RecordStatuses \cup {"none"}]
    BY <1>1, <1>2, <1>3 DEF TypeOK
  <2>2. review' \in [Reviewers -> Reviewing \cup {Idle}]
    BY <1>1 DEF TypeOK
  <2> QED BY <1>1, <1>3, <1>4, <2>1, <2>2 DEF TypeOK
<1>6. review'[v] = Idle /\ \A w \in Reviewers \ {v} : review'[w] = review[w]
  BY <1>1 DEF TypeOK
<1>7. \A q \in Records \ {r} : record'[q] = record[q]
  BY <1>1 DEF TypeOK
<1>8. ASSUME NEW w \in Reviewers, review'[w] # Idle
      PROVE  /\ w # v /\ review'[w] = review[w]
             /\ record'[review[w].rec] = record[review[w].rec]
  <2>1. w # v /\ review'[w] = review[w]
    BY <1>6, <1>8
  <2>2. review[w].rec \in Records \ {r}
    BY <2>1, <1>1, <1>8 DEF TypeOK, Reviewing, ReviewsHoldTheirRows
  <2> QED BY <2>1, <2>2, <1>7
<1>9. ReviewsHoldTheirRows'
  <2> SUFFICES ASSUME NEW w \in Reviewers, review'[w] # Idle
               PROVE  /\ record'[review'[w].rec] # "none"
                      /\ \A u \in Reviewers \ {w} : review'[u].rec # review'[w].rec
    BY DEF ReviewsHoldTheirRows
  <2>1. review'[w] = review[w] /\ review[w] # Idle /\ w # v
    BY <1>8
  <2>2. record'[review'[w].rec] # "none"
    BY <2>1, <1>8 DEF ReviewsHoldTheirRows
  <2>3. review[w].rec # None
    BY <2>1, NoneIsNoRecord DEF TypeOK, Reviewing
  <2>4. ASSUME NEW u \in Reviewers \ {w} PROVE review'[u].rec # review'[w].rec
    <3>1. CASE u = v
      BY <3>1, <1>6, <2>1, <2>3 DEF Idle
    <3>2. CASE u # v
      BY <3>2, <1>6, <2>1 DEF ReviewsHoldTheirRows
    <3> QED BY <3>1, <3>2
  <2> QED BY <2>2, <2>4
<1>10. ApprovalsStayApprovable'
  <2> SUFFICES ASSUME NEW w \in Reviewers, review'[w].action = "approve"
               PROVE  /\ record'[review'[w].rec] \in {"pending", "verified"}
                      /\ account' = "rejected" => record'[review'[w].rec] = "verified"
    BY DEF ApprovalsStayApprovable
  <2>1. review'[w] # Idle
    BY DEF Idle
  <2>2. review'[w] = review[w] /\ record'[review[w].rec] = record[review[w].rec]
    BY <2>1, <1>8
  <2> QED BY <2>2, <1>1, <1>4 DEF ApprovalsStayApprovable
<1>11. BadgeHasProof' /\ PendingBadgeHasASubmission'
  <2>1. record'[r] = RecordAfter(a)
    BY <1>1, <1>2 DEF TypeOK
  <2> QED BY <2>1, <1>1, <1>2, <1>3 DEF BadgeHasProof, PendingBadgeHasASubmission, BadgeStatuses
<1> QED BY <1>5, <1>9, <1>10, <1>11

\* A review that ends without a trace.
LEMMA AbortKeeps ==
  ASSUME IInv, NEW v \in Reviewers, Abort(v)
  PROVE  IInv'
<1> USE DEF IInv
<1>1. /\ review' = [review EXCEPT ![v] = Idle]
      /\ UNCHANGED <<account, badge, record>>
  BY DEF Abort
<1>2. TypeOK'
  BY <1>1 DEF TypeOK
<1>3. review'[v] = Idle /\ \A w \in Reviewers \ {v} : review'[w] = review[w]
  BY <1>1 DEF TypeOK
<1>4. ReviewsHoldTheirRows'
  <2> SUFFICES ASSUME NEW w \in Reviewers, review'[w] # Idle
               PROVE  /\ record[review'[w].rec] # "none"
                      /\ \A u \in Reviewers \ {w} : review'[u].rec # review'[w].rec
    BY <1>1 DEF ReviewsHoldTheirRows
  <2>1. review'[w] = review[w] /\ review[w] # Idle /\ w # v
    BY <1>3
  <2>2. review[w].rec # None
    BY <2>1, NoneIsNoRecord DEF TypeOK, Reviewing
  <2>3. ASSUME NEW u \in Reviewers \ {w} PROVE review'[u].rec # review'[w].rec
    <3>1. CASE u = v
      BY <3>1, <1>3, <2>1, <2>2 DEF Idle
    <3>2. CASE u # v
      BY <3>2, <1>3, <2>1 DEF ReviewsHoldTheirRows
    <3> QED BY <3>1, <3>2
  <2> QED BY <2>1, <2>3 DEF ReviewsHoldTheirRows
<1>5. ApprovalsStayApprovable'
  <2> SUFFICES ASSUME NEW w \in Reviewers, review'[w].action = "approve"
               PROVE  review'[w] = review[w]
    BY <1>1 DEF ApprovalsStayApprovable
  <2> QED BY <1>3 DEF Idle
<1>6. BadgeHasProof' /\ PendingBadgeHasASubmission'
  BY <1>1 DEF BadgeHasProof, PendingBadgeHasASubmission, Pending
<1> QED BY <1>2, <1>4, <1>5, <1>6

\* Every step keeps the invariant.
LEMMA StepKeeps ==
  ASSUME IInv, [Next]_vars
  PROVE  IInv'
<1>1. CASE UNCHANGED vars
  BY <1>1 DEF vars, IInv, TypeOK, ReviewsHoldTheirRows, ApprovalsStayApprovable,
              BadgeHasProof, PendingBadgeHasASubmission, Pending
<1>2. CASE Next
  BY <1>2, ApplicantKeeps, StaffKeeps, ReadKeeps, WriteKeeps, AbortKeeps DEF Next
<1> QED BY <1>1, <1>2

\* The invariant holds in every reachable state, for any submissions and reviewers.
THEOREM Invariance == Spec => []IInv
BY InitIInv, StepKeeps, PTL DEF Spec

\* No seller wears the badge without a submission that is verified now.
THEOREM BadgeIsProved == Spec => []BadgeHasProof
<1>1. IInv => BadgeHasProof
  BY DEF IInv
<1> QED BY <1>1, Invariance, PTL

\* No seller is left waiting for a verification that nobody will make.
THEOREM QueueHasThePending == Spec => []PendingBadgeHasASubmission
<1>1. IInv => PendingBadgeHasASubmission
  BY DEF IInv
<1> QED BY <1>1, Invariance, PTL

\* A review cannot overtake a rejection, except over documents that were verified.
THEOREM RejectionsHold == Spec => RejectionHolds
<1> DEFINE Kept == \E r \in Records : record[r] = "verified" /\ ~Free({r})
<1>1. ASSUME IInv, Next, account = "rejected", account' = "approved"
      PROVE  Kept
  <2>1. \A to : Moves(to) => account' = "pending"
    BY <1>1 DEF Moves, ValidTransitions
  <2>2. PICK v \in Reviewers : WriteReview(v)
    <3>1. ~(Apply \/ Submit \/ Revoke)
      BY <1>1 DEF Apply, Submit, Revoke
    <3>2. ~(\E to \in AccountStatuses : Reopen(to) \/ TurnDown(to))
      BY <1>1, <2>1 DEF Reopen, TurnDown
    <3>3. ~(ApproveAccount \/ SuspendAccount)
      BY <1>1, <2>1 DEF ApproveAccount, SuspendAccount
    <3>4. \A v \in Reviewers : /\ ~Abort(v)
                               /\ \A r \in Records, a \in ReviewActions : ~ReadForReview(v, r, a)
      BY <1>1 DEF Abort, ReadForReview
    <3> QED BY <1>1, <3>1, <3>2, <3>3, <3>4 DEF Next
  <2>3. review[v] # Idle /\ review[v].action = "approve"
    BY <1>1, <2>2 DEF WriteReview, AccountAfter
  <2>4. review[v].rec \in Records /\ record[review[v].rec] = "verified"
    BY <1>1, <2>3 DEF IInv, TypeOK, Reviewing, ApprovalsStayApprovable
  <2>5. ~Free({review[v].rec})
    BY DEF Free
  <2> QED BY <2>4, <2>5
<1>2. IInv /\ [Next]_vars => [account = "rejected" /\ account' = "approved" => Kept]_vars
  BY <1>1 DEF vars
<1> QED BY <1>2, Invariance, PTL DEF Spec, RejectionHolds
=============================================================================
