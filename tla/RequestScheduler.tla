-------------------------- MODULE RequestScheduler --------------------------
(***************************************************************************)
(* The AI office's global request scheduler                                *)
(* (.ai/office/scheduler/request-scheduler.ts): one model-generation       *)
(* request at a time, the others in a queue, a 429 "too many streams"      *)
(* retried after a backoff.  JavaScript runs it on one thread: an action   *)
(* is what runs between two awaits.                                        *)
(*                                                                         *)
(* The queue array is kept sorted by (priority, enqueuedAt) by every       *)
(* enqueue; the one thing that breaks the order is the unshift of a        *)
(* retried request, until the next enqueue sorts it in.  So the array is   *)
(* the set `queue' and the request `front' that an unshift put at its      *)
(* head (at most one: only the active request can be unshifted, and with   *)
(* another one still in front it would not have become active).            *)
(***************************************************************************)
EXTENDS Naturals

CONSTANTS Requests,     \* the requests the agents may submit
          Priority,     \* options.priority of each: a lower number goes first
          MaxRetries,   \* options.maxRetries, the same for every request
          None          \* no request

ASSUME RequestsAssumption ==
    /\ None \notin Requests
    /\ Priority \in [Requests -> Nat]
    /\ MaxRetries \in Nat

VARIABLES queue,      \* this.queue, as a set
          front,      \* the retried request at its head, or None
          active,     \* this.activeRequest
          leaving,    \* the request between handleError and its finally block
          status,     \* request.status; "NEW" before enqueue is called
          arrivals,   \* the clock: how many requests have been enqueued
          ticket,     \* request.enqueuedAt, a time of that clock
          retries,    \* request.retryCount
          released,   \* request._slotReleased
          aborted,    \* request.abortSignal.aborted
          paused      \* this.isPaused

vars == <<queue, front, active, leaving, status, arrivals, ticket, retries,
          released, aborted, paused>>

Settled == {"COMPLETED", "FAILED", "CANCELLED"}
Statuses == {"NEW", "QUEUED", "RUNNING", "RETRY_WAIT"} \cup Settled

Init ==
    /\ queue = {} /\ front = None /\ active = None /\ leaving = None
    /\ status = [r \in Requests |-> "NEW"]
    /\ arrivals = 0
    /\ ticket = [r \in Requests |-> 0]
    /\ retries = [r \in Requests |-> 0]
    /\ released = [r \in Requests |-> FALSE]
    /\ aborted = [r \in Requests |-> FALSE]
    /\ paused = FALSE

-----------------------------------------------------------------------------
(* Mutant: the comparator's operands the wrong way round. *)
BeforeReversed(r, o) ==
    \/ Priority[r] < Priority[o]
    \/ Priority[r] = Priority[o] /\ ticket'[r] > ticket'[o]

(* The order of the sort: priority first, then arrival. *)
Before(r, o) ==
    \/ Priority[r] < Priority[o]
    \/ Priority[r] = Priority[o] /\ ticket'[r] < ticket'[o]

(* this.queue.shift(): the request a retry put in front, else the first. *)
AtHead(r, q, f) ==
    /\ r \in q
    /\ IF f # None THEN r = f ELSE \A o \in q \ {r} : Before(r, o)

(* Mutant: the active request is not looked at. *)
ProcessQueueBusy(q, f, a, st) ==
    IF paused' \/ q = {}
    THEN queue' = q /\ front' = f /\ active' = a /\ status' = st
    ELSE \E r \in q :
           /\ AtHead(r, q, f)
           /\ queue' = q \ {r}
           /\ front' = None
           /\ active' = r
           /\ status' = [st EXCEPT ![r] = "RUNNING"]

(* processQueue and the synchronous start of executeRequest, given the     *)
(* queue q with front f, the active request a and the statuses st that     *)
(* the caller leaves.                                                      *)
ProcessQueue(q, f, a, st) ==
    IF paused' \/ a # None \/ q = {}
    THEN queue' = q /\ front' = f /\ active' = a /\ status' = st
    ELSE \E r \in q :
           /\ AtHead(r, q, f)
           /\ queue' = q \ {r}
           /\ front' = None
           /\ active' = r
           /\ status' = [st EXCEPT ![r] = "RUNNING"]

(* releaseSlot(r): at most once per request, says the flag. *)
ReleaseSlot(r, st) ==
    IF released[r]
    THEN /\ status' = st
         /\ UNCHANGED <<queue, front, active, released>>
    ELSE /\ released' = [released EXCEPT ![r] = TRUE]
         /\ ProcessQueue(queue, front, None, st)

(* enqueue: push, sort, processQueue. *)
Enqueue(r) ==
    /\ status[r] = "NEW"
    /\ arrivals' = arrivals + 1
    /\ ticket' = [ticket EXCEPT ![r] = arrivals + 1]
    /\ UNCHANGED <<leaving, retries, released, aborted, paused>>
    /\ ProcessQueue(queue \cup {r}, None, active,
                    [status EXCEPT ![r] = "QUEUED"])

(* The executor of the active request answers: the promise is resolved and *)
(* the finally block runs before anything else can.                        *)
Succeed(r) ==
    /\ status[r] = "RUNNING"
    /\ UNCHANGED <<leaving, arrivals, ticket, retries, aborted, paused>>
    /\ ReleaseSlot(r, [status EXCEPT ![r] = "COMPLETED"])

(* It throws anything but a 429, or a 429 with no retry left: handleError   *)
(* rejects the promise, and awaiting handleError lets others run before    *)
(* the finally block.                                                      *)
Fail(r) ==
    /\ status[r] = "RUNNING"
    /\ status' = [status EXCEPT ![r] = "FAILED"]
    /\ leaving' = r
    /\ UNCHANGED <<queue, front, active, arrivals, ticket, retries, released,
                   aborted, paused>>

(* It throws a 429: the request keeps the slot and sleeps.                 *)
(* waitForActiveRequestCompletion returns at once, the request itself      *)
(* being the active one.                                                   *)
RetryLater(r) ==
    /\ status[r] = "RUNNING"
    /\ retries[r] < MaxRetries
    /\ retries' = [retries EXCEPT ![r] = @ + 1]
    /\ status' = [status EXCEPT ![r] = "RETRY_WAIT"]
    /\ UNCHANGED <<queue, front, active, leaving, arrivals, ticket, released,
                   aborted, paused>>

(* The backoff ends on a request that cancelActive aborted. *)
WakeAborted(r) ==
    /\ status[r] = "RETRY_WAIT" /\ aborted[r]
    /\ status' = [status EXCEPT ![r] = "CANCELLED"]
    /\ leaving' = r
    /\ UNCHANGED <<queue, front, active, arrivals, ticket, retries, released,
                   aborted, paused>>

(* The backoff ends: the release flag is cleared and the request goes back *)
(* to the head of the queue.                                               *)
WakeForRetry(r) ==
    /\ status[r] = "RETRY_WAIT" /\ ~aborted[r]
    /\ released' = [released EXCEPT ![r] = FALSE]
    /\ status' = [status EXCEPT ![r] = "QUEUED"]
    /\ queue' = queue \cup {r}
    /\ front' = r
    /\ leaving' = r
    /\ UNCHANGED <<active, arrivals, ticket, retries, aborted, paused>>

(* Mutant: no release after a failure. *)
FinallyUnlessFailed(r) ==
    /\ leaving = r
    /\ leaving' = None
    /\ UNCHANGED <<arrivals, ticket, retries, aborted, paused>>
    /\ IF status[r] = "FAILED"
       THEN UNCHANGED <<queue, front, active, status, released>>
       ELSE ReleaseSlot(r, status)

(* The finally block of executeRequest, after handleError. *)
Finally(r) ==
    /\ leaving = r
    /\ leaving' = None
    /\ UNCHANGED <<arrivals, ticket, retries, aborted, paused>>
    /\ ReleaseSlot(r, status)

(* Mutant: the request is cancelled where it stands. *)
CancelInPlace(r) ==
    /\ r \in queue
    /\ status' = [status EXCEPT ![r] = "CANCELLED"]
    /\ aborted' = [aborted EXCEPT ![r] = TRUE]
    /\ UNCHANGED <<queue, front, active, leaving, arrivals, ticket, retries,
                   released, paused>>

(* cancel(id) finds queued requests only. *)
Cancel(r) ==
    /\ r \in queue
    /\ queue' = queue \ {r}
    /\ front' = IF front = r THEN None ELSE front
    /\ status' = [status EXCEPT ![r] = "CANCELLED"]
    /\ aborted' = [aborted EXCEPT ![r] = TRUE]
    /\ UNCHANGED <<active, leaving, arrivals, ticket, retries, released, paused>>

(* cancelActive only raises the signal; the executor may answer, throw or  *)
(* ignore it.                                                              *)
CancelActive ==
    /\ active # None
    /\ aborted' = [aborted EXCEPT ![active] = TRUE]
    /\ UNCHANGED <<queue, front, active, leaving, status, arrivals, ticket,
                   retries, released, paused>>

Pause ==
    /\ paused' = TRUE
    /\ UNCHANGED <<queue, front, active, leaving, status, arrivals, ticket,
                   retries, released, aborted>>

(* Mutant: nothing is started. *)
ResumeOnly ==
    /\ paused' = FALSE
    /\ UNCHANGED <<queue, front, active, leaving, status, arrivals, ticket,
                   retries, released, aborted>>

Resume ==
    /\ paused' = FALSE
    /\ UNCHANGED <<leaving, arrivals, ticket, retries, released, aborted>>
    /\ ProcessQueue(queue, front, active, status)

-----------------------------------------------------------------------------
Answer(r) == Succeed(r) \/ Fail(r) \/ RetryLater(r)
Wake(r) == WakeAborted(r) \/ WakeForRetry(r)

Next ==
    \/ \E r \in Requests : Enqueue(r) \/ Answer(r) \/ Wake(r) \/ Finally(r)
                          \/ Cancel(r)
    \/ CancelActive \/ Pause \/ Resume

Spec == Init /\ [][Next]_vars

(* Every model call ends, timers fire, microtasks run, and whoever pauses  *)
(* the scheduler resumes it.                                               *)
Fairness ==
    /\ \A r \in Requests : WF_vars(Answer(r)) /\ WF_vars(Wake(r))
                           /\ WF_vars(Finally(r))
    /\ WF_vars(Resume)

FairSpec == Spec /\ Fairness

-----------------------------------------------------------------------------
TypeOK ==
    /\ queue \subseteq Requests
    /\ front \in queue \cup {None}
    /\ active \in Requests \cup {None}
    /\ leaving \in {active, None}
    /\ status \in [Requests -> Statuses]
    /\ arrivals \in Nat
    /\ ticket \in [Requests -> Nat]
    /\ retries \in [Requests -> 0 .. MaxRetries]
    /\ released \in [Requests -> BOOLEAN]
    /\ aborted \in [Requests -> BOOLEAN]
    /\ paused \in BOOLEAN

(* A request is in the queue exactly while it waits there; it runs or      *)
(* sleeps only while it has the slot; and a slot is held by a request that *)
(* is over only when that request was retried.                             *)
OnePlace ==
    \A r \in Requests :
      /\ (r \in queue) <=> (status[r] = "QUEUED")
      /\ (status[r] \in {"RUNNING", "RETRY_WAIT"}) =>
            (active = r /\ leaving = None)
      /\ (active = r /\ leaving = None) =>
            \/ status[r] \in {"RUNNING", "RETRY_WAIT"}
            \/ status[r] \in Settled /\ released[r]
      /\ (leaving = r) => \/ status[r] \in Settled
                          \/ /\ status[r] = "QUEUED" /\ ~released[r]
                             /\ retries[r] > 0
      /\ (status[r] = "RETRY_WAIT" \/ (active = r /\ released[r])) => retries[r] > 0
      /\ (status[r] \in {"NEW", "QUEUED"} /\ retries[r] = 0) => ~released[r]

(* Within a priority, whoever has the slot, and whoever a retry put in     *)
(* front, was submitted before everyone in the queue.                      *)
FirstComeFirst(r) ==
    \A o \in queue \ {r} : Priority[o] = Priority[r] => ticket[r] < ticket[o]

InOrder ==
    /\ \A r \in Requests : ticket[r] <= arrivals
    /\ \A r \in Requests :
         \/ front = r
         \/ status[r] \in {"RUNNING", "RETRY_WAIT"}
         => FirstComeFirst(r)

(* A free slot and an open scheduler leave nobody waiting: whatever frees  *)
(* the slot or reopens the scheduler starts the next request in the same   *)
(* turn.                                                                   *)
NobodyWaitsForAFreeSlot == queue # {} => (active # None \/ paused)

IInv == TypeOK /\ OnePlace /\ InOrder /\ NobodyWaitsForAFreeSlot

(* No two agents have a model call, or the backoff of one, under way at    *)
(* once: "only ONE active model-generation request at a time".             *)
OneStreamAtATime ==
    \A r, o \in Requests :
      status[r] \in {"RUNNING", "RETRY_WAIT"}
        /\ status[o] \in {"RUNNING", "RETRY_WAIT"} => r = o

(* Among requests of one priority, an earlier one still in the queue is    *)
(* never passed by a later one, even when retries jump the queue and an    *)
(* enqueue sorts them in again.                                            *)
FifoWithinAPriority ==
    [][\A r, o \in Requests :
         /\ status[r] = "QUEUED" /\ status'[r] = "RUNNING"
         /\ o \in queue /\ Priority[o] = Priority[r]
         /\ o # r
         => ticket[r] < ticket[o]]_vars

(* A promise is settled once: what is over is never queued, run, failed or *)
(* cancelled again.                                                        *)
SettlesOnce ==
    [][\A r \in Requests :
         status[r] \in Settled => status'[r] = status[r]]_vars

(* While no request has been retried, every queued request settles.        *)
UnretriedRequestsSettle ==
    ([](\A r \in Requests : retries[r] = 0)) =>
      \A r \in Requests : (status[r] = "QUEUED") ~> (status[r] \in Settled)

(* What the file promises of the queue: every queued request gets its      *)
(* turn.  The code breaks it (run office_slot): a retried request never    *)
(* gives its slot back.                                                    *)
EveryRequestSettles ==
    \A r \in Requests : (status[r] = "QUEUED") ~> (status[r] \in Settled)
=============================================================================
