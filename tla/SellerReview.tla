---------------------------- MODULE SellerReview ----------------------------
(***************************************************************************)
(* One seller's account while it applies, is reviewed and is moderated     *)
(* (routes/seller.ts and routes/verification.ts).                          *)
(*                                                                         *)
(* Three stored facts have to agree: the account (sellers.status), the     *)
(* badge (sellers.verification_status) and the submissions                 *)
(* (seller_verifications).  They are written by four routes that take the  *)
(* rows' locks in two orders: the account routes lock the seller first, a  *)
(* review of a submission locks the submission first and the seller last,  *)
(* and decides in between from a seller it read without a lock.            *)
(*                                                                         *)
(* An account route is one action, since it holds the seller's lock to its *)
(* commit.  If it meets a submission that a review holds, each waits for   *)
(* the other and the database rolls one of them back; the action therefore *)
(* needs that submission free, and Abort is the other outcome.  Every      *)
(* submission the routes write carries evidence, so the refusals of an     *)
(* empty one have no case here; permissions, reasons, settings, history    *)
(* and notifications decide nothing and are left out.                      *)
(***************************************************************************)
EXTENDS TLC

CONSTANTS Records,     \* the submissions the seller may ever make
          Reviewers,   \* review requests under way at the same time
          None         \* no submission

ASSUME NoneIsNoRecord == None \notin Records

VARIABLES account,   \* sellers.status; "none" before the first application
          badge,     \* sellers.verification_status
          record,    \* seller_verifications.status; "none" for a row not made yet
          review     \* reviews between their reads and their writes

vars == <<account, badge, record, review>>

AccountStatuses == {"pending", "under_review", "needs_correction", "approved",
                    "rejected", "suspended"}
BadgeStatuses == {"unverified", "pending", "verified", "rejected", "suspended"}
\* No route writes the column's default, "unverified".
RecordStatuses == {"pending", "verified", "rejected", "suspended"}
ReviewActions == {"approve", "reject", "suspend", "needs_correction"}

Idle == [rec |-> None, action |-> "none"]
Reviewing == [rec : Records, action : ReviewActions]

TypeOK == /\ account \in AccountStatuses \cup {"none"}
          /\ badge \in BadgeStatuses
          /\ record \in [Records -> RecordStatuses \cup {"none"}]
          /\ review \in [Reviewers -> Reviewing \cup {Idle}]

Init == /\ account = "none"
        /\ badge = "unverified"
        /\ record = [r \in Records |-> "none"]
        /\ review = [v \in Reviewers |-> Idle]

Pending == {r \in Records : record[r] = "pending"}

\* No review holds the lock of one of these rows.
Free(rows) == \A v \in Reviewers : review[v].rec \notin rows

-----------------------------------------------------------------------------
(* The applicant.                                                          *)

\* INSERT ... ON CONFLICT (seller_id) WHERE status = 'pending' DO UPDATE.
UpsertPending ==
  \/ /\ Pending # {}
     /\ Free(Pending)
     /\ UNCHANGED record
  \/ /\ Pending = {}
     /\ \E r \in Records : /\ record[r] = "none"
                           /\ record' = [record EXCEPT ![r] = "pending"]

\* POST /api/seller/apply, the first application or another one.
Apply ==
  /\ account \notin {"pending", "under_review", "approved"}
  /\ UpsertPending
  /\ account' = "pending"
  /\ badge' = "pending"
  /\ UNCHANGED review

\* POST /api/seller/verification: new documents, the account as it is.
Submit ==
  /\ account # "none"
  /\ UpsertPending
  /\ badge' = "pending"
  /\ UNCHANGED <<account, review>>

-----------------------------------------------------------------------------
(* Staff, on the account.                                                  *)

ValidTransitions(from) ==
  CASE from = "pending"          -> {"under_review", "rejected"}
    [] from = "under_review"     -> {"approved", "needs_correction", "rejected", "suspended"}
    [] from = "needs_correction" -> {"under_review", "rejected"}
    [] from = "approved"         -> {"suspended"}
    [] from = "rejected"         -> {"pending"}
    [] from = "suspended"        -> {"pending"}
    [] OTHER                     -> {}

Moves(to) ==
  /\ to \in ValidTransitions(account)
  /\ account' = to
  /\ UNCHANGED review

\* The decision is taken over to the submission that waits, if there is one.
Resolve(status) ==
  /\ Free(Pending)
  /\ record' = [r \in Records |-> IF r \in Pending THEN status ELSE record[r]]

\* PATCH /api/admin/sellers/:id/status, by what else it writes.
Reopen(to) ==
  /\ to \in {"under_review", "pending"}
  /\ Moves(to)
  /\ UNCHANGED <<badge, record>>

ApproveAccount ==
  /\ Moves("approved")
  /\ Resolve("verified")
  /\ badge' = IF Pending # {} THEN "verified" ELSE badge

\* Mutant of TurnDown: the badge is not taken along.
TurnDownKeepsBadge(to) ==
  /\ to \in {"needs_correction", "rejected"}
  /\ Moves(to)
  /\ Resolve("rejected")
  /\ UNCHANGED badge

TurnDown(to) ==
  /\ to \in {"needs_correction", "rejected"}
  /\ Moves(to)
  /\ Resolve("rejected")
  /\ badge' = "unverified"

SuspendAccount ==
  /\ Moves("suspended")
  /\ Resolve("suspended")
  /\ badge' = "suspended"

\* POST /api/admin/sellers/:id/revoke: whatever the account is; badge and
\* submissions are not looked at.
Revoke ==
  /\ account # "none"
  /\ account' = "suspended"
  /\ UNCHANGED <<badge, record, review>>

-----------------------------------------------------------------------------
(* Reviewers, on a submission.                                             *)

\* Mutant of Approvable: only the submission is asked.
ApprovableByRecord(r) == record[r] \notin {"rejected", "suspended"}

\* Neither the submission nor, as far as an unlocked read tells, the account
\* was turned down.
Approvable(r) ==
  /\ record[r] \notin {"rejected", "suspended"}
  /\ account \notin {"rejected", "suspended"}

\* PATCH /api/admin/verifications/seller/:verificationId up to its checks: the
\* submission is locked from here on, the seller is not.
ReadForReview(v, r, action) ==
  /\ review[v] = Idle
  /\ record[r] # "none"
  /\ Free({r})
  /\ action = "approve" => Approvable(r)
  /\ review' = [review EXCEPT ![v] = [rec |-> r, action |-> action]]
  /\ UNCHANGED <<account, badge, record>>

RecordAfter(action) ==
  CASE action = "approve"          -> "verified"
    [] action = "suspend"          -> "suspended"
    [] action = "needs_correction" -> "pending"
    [] action = "reject"           -> "rejected"

\* Mutant of BadgeAfter: only an approval is taken over.
BadgeAfterApproval(action) == IF action = "approve" THEN "verified" ELSE badge

BadgeAfter(action) ==
  IF action = "needs_correction" THEN "unverified" ELSE RecordAfter(action)

AccountAfter(action) ==
  CASE action = "approve" -> "approved"
    [] action = "needs_correction" /\ account \in {"pending", "under_review"}
         -> "needs_correction"
    [] OTHER -> account

\* The rest of that request, to its commit.  A second waiting submission is
\* refused by the unique index, which leaves the review nothing but to abort.
WriteReview(v) ==
  LET r == review[v].rec
      action == review[v].action
  IN /\ review[v] # Idle
     /\ action = "needs_correction" => Pending \subseteq {r}
     /\ record' = [record EXCEPT ![r] = RecordAfter(action)]
     /\ badge' = BadgeAfter(action)
     /\ account' = AccountAfter(action)
     /\ review' = [review EXCEPT ![v] = Idle]

\* An error or a deadlock ends a review; nothing it wrote stays.
Abort(v) ==
  /\ review[v] # Idle
  /\ review' = [review EXCEPT ![v] = Idle]
  /\ UNCHANGED <<account, badge, record>>

-----------------------------------------------------------------------------
Next ==
  \/ Apply \/ Submit
  \/ \E to \in AccountStatuses : Reopen(to) \/ TurnDown(to)
  \/ ApproveAccount \/ SuspendAccount \/ Revoke
  \/ \E v \in Reviewers : \/ \E r \in Records, a \in ReviewActions : ReadForReview(v, r, a)
                          \/ WriteReview(v) \/ Abort(v)

Spec == Init /\ [][Next]_vars

-----------------------------------------------------------------------------
(* What must hold.                                                         *)

\* The badge is never granted without proof: a verified seller has a submission
\* that is verified now, whichever of the two routes granted it and whatever was
\* submitted, decided or taken back since (seller.ts:1092-1094).
BadgeHasProof == badge = "verified" => \E r \in Records : record[r] = "verified"

\* A seller shown as waiting for verification has a submission in the queue: no
\* decision takes the submission away and leaves the seller waiting for nobody
\* (verification.ts:201, seller.ts:305).
PendingBadgeHasASubmission == badge = "pending" => Pending # {}

\* A rejected account is not approved by a review that started before the
\* rejection, unless the review's own submission had been verified before: the
\* lock on the submission makes the rejection and the review exclude each other
\* although neither locks what the other reads (verification.ts:758-759).
RejectionHolds ==
  [][account = "rejected" /\ account' = "approved"
       => \E r \in Records : record[r] = "verified" /\ ~Free({r})]_vars

\* The inductive invariant.  A review's submission is its own, and what an
\* approval was checked against still holds of it when it is written.
ReviewsHoldTheirRows ==
  \A v \in Reviewers : review[v] # Idle =>
    /\ record[review[v].rec] # "none"
    /\ \A w \in Reviewers \ {v} : review[w].rec # review[v].rec

ApprovalsStayApprovable ==
  \A v \in Reviewers : review[v].action = "approve" =>
    /\ record[review[v].rec] \in {"pending", "verified"}
    /\ account = "rejected" => record[review[v].rec] = "verified"

IInv == /\ TypeOK
        /\ ReviewsHoldTheirRows
        /\ ApprovalsStayApprovable
        /\ BadgeHasProof
        /\ PendingBadgeHasASubmission
=============================================================================
