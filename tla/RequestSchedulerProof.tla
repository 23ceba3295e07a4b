------------------------ MODULE RequestSchedulerProof ------------------------
(***************************************************************************)
(* The scheduler's safety for any requests, priorities and retry limit.    *)
(* IInv is inductive: what OneStreamAtATime needs is that a request runs   *)
(* only in the slot (OnePlace), what the queue's fairness needs is that    *)
(* the holder of the slot came before its equals (InOrder).                *)
(***************************************************************************)
EXTENDS RequestScheduler, TLAPS

(* A release by a request that has already released changes no more than   *)
(* the statuses it is given; any other empties the slot and starts the     *)
(* head of the queue, if there is one and the scheduler is open.           *)
Starts(r, q, f, st) ==
    /\ r \in q
    /\ AtHead(r, q, f)
    /\ queue' = q \ {r} /\ front' = None /\ active' = r
    /\ status' = [st EXCEPT ![r] = "RUNNING"]

Keeps(q, f, a, st) == queue' = q /\ front' = f /\ active' = a /\ status' = st

LEMMA ProcessQueueCases ==
    ASSUME NEW q, NEW f, NEW a, NEW st, ProcessQueue(q, f, a, st)
    PROVE  \/ Keeps(q, f, a, st) /\ (paused' \/ a # None \/ q = {})
           \/ a = None /\ ~paused' /\ \E r \in q : Starts(r, q, f, st)
  BY DEF ProcessQueue, Keeps, Starts

LEMMA InitInvariant == Init => IInv
  <1> SUFFICES ASSUME Init PROVE IInv
    OBVIOUS
  <1>1. MaxRetries \in Nat /\ None \notin Requests
    BY RequestsAssumption
  <1>2. TypeOK
    <2>1. retries \in [Requests -> 0 .. MaxRetries]
      BY <1>1 DEF Init
    <2>2. arrivals \in Nat /\ ticket \in [Requests -> Nat]
      BY DEF Init
    <2>3. released \in [Requests -> BOOLEAN] /\ aborted \in [Requests -> BOOLEAN]
      BY DEF Init
    <2>4. status \in [Requests -> Statuses]
      BY DEF Init, Statuses
    <2> QED
      BY <2>1, <2>2, <2>3, <2>4 DEF Init, TypeOK
  <1>3. OnePlace
    BY <1>1 DEF Init, OnePlace, Settled
  <1>4. InOrder
    BY <1>1 DEF Init, InOrder
  <1>5. NobodyWaitsForAFreeSlot
    BY DEF Init, NobodyWaitsForAFreeSlot
  <1> QED
    BY <1>2, <1>3, <1>4, <1>5 DEF IInv

(* What a start leaves, from a queue q whose members st says are queued    *)
(* and whose front, if any, came before its equals.                        *)
LEMMA StartKeeps ==
    ASSUME NEW q \in SUBSET Requests, NEW f \in q \cup {None},
           NEW st \in [Requests -> Statuses], NEW s \in q,
           Starts(s, q, f, st),
           ticket' \in [Requests -> Nat],
           \A r \in Requests : (r \in q) <=> (st[r] = "QUEUED"),
           f # None => \A o \in q \ {f} :
                         Priority[o] = Priority[f] => ticket'[f] < ticket'[o]
    PROVE  /\ queue' \subseteq Requests /\ front' = None /\ active' = s
           /\ status' \in [Requests -> Statuses]
           /\ status'[s] = "RUNNING"
           /\ \A r \in Requests \ {s} : status'[r] = st[r]
           /\ \A r \in Requests : (r \in queue') <=> (status'[r] = "QUEUED")
           /\ FirstComeFirst(s)'
  <1>1. /\ queue' = q \ {s} /\ front' = None /\ active' = s
        /\ status' = [st EXCEPT ![s] = "RUNNING"] /\ s \in Requests
    BY DEF Starts
  <1>2. /\ status' \in [Requests -> Statuses] /\ status'[s] = "RUNNING"
        /\ \A r \in Requests \ {s} : status'[r] = st[r]
    BY <1>1 DEF Statuses
  <1>3. \A r \in Requests : (r \in queue') <=> (status'[r] = "QUEUED")
    BY <1>1, <1>2
  <1>4. ASSUME NEW o \in q \ {s}, Priority[o] = Priority[s]
        PROVE  ticket'[s] < ticket'[o]
    <2>1. CASE f # None
      BY <1>4, <2>1 DEF Starts, AtHead
    <2>2. CASE f = None
      <3>1. Before(s, o)
        BY <2>2, <1>4 DEF Starts, AtHead
      <3>2. Priority[s] \in Nat /\ Priority[o] \in Nat
        BY <1>1, <1>4, RequestsAssumption
      <3> QED
        BY <3>1, <3>2, <1>4 DEF Before
    <2> QED
      BY <2>1, <2>2
  <1> QED
    BY <1>1, <1>2, <1>3, <1>4 DEF FirstComeFirst

(* IInv' as processQueue needs it: the queue, front, slot and statuses are *)
(* its arguments, everything else has its next value.                      *)
Typed(q, f, a, st) ==
    /\ q \subseteq Requests /\ f \in q \cup {None} /\ a \in Requests \cup {None}
    /\ leaving' \in {a, None} /\ st \in [Requests -> Statuses]
    /\ arrivals' \in Nat /\ ticket' \in [Requests -> Nat]
    /\ retries' \in [Requests -> 0 .. MaxRetries]
    /\ released' \in [Requests -> BOOLEAN]
    /\ aborted' \in [Requests -> BOOLEAN] /\ paused' \in BOOLEAN

Placed(q, a, st) ==
    \A r \in Requests :
      /\ (r \in q) <=> (st[r] = "QUEUED")
      /\ (st[r] \in {"RUNNING", "RETRY_WAIT"}) => (a = r /\ leaving' = None)
      /\ (a = r /\ leaving' = None) =>
            \/ st[r] \in {"RUNNING", "RETRY_WAIT"}
            \/ st[r] \in Settled /\ released'[r]
      /\ (leaving' = r) => \/ st[r] \in Settled
                           \/ /\ st[r] = "QUEUED" /\ ~released'[r]
                              /\ retries'[r] > 0
      /\ (st[r] = "RETRY_WAIT" \/ (a = r /\ released'[r])) => retries'[r] > 0
      /\ (st[r] \in {"NEW", "QUEUED"} /\ retries'[r] = 0) => ~released'[r]

Comes(r, q) ==
    \A o \in q \ {r} : Priority[o] = Priority[r] => ticket'[r] < ticket'[o]

Ordered(q, f, st) ==
    /\ \A r \in Requests : ticket'[r] <= arrivals'
    /\ \A r \in Requests :
         (f = r \/ st[r] \in {"RUNNING", "RETRY_WAIT"}) => Comes(r, q)

LEMMA ProcessQueueKeeps ==
    ASSUME NEW q, NEW f, NEW a, NEW st, ProcessQueue(q, f, a, st),
           Typed(q, f, a, st), Placed(q, a, st), Ordered(q, f, st)
    PROVE  IInv'
  <1>1. CASE Keeps(q, f, a, st) /\ (paused' \/ a # None \/ q = {})
    <2>1. queue' = q /\ front' = f /\ active' = a /\ status' = st
      BY <1>1 DEF Keeps
    <2>2. TypeOK'
      BY <2>1 DEF Typed, TypeOK
    <2>3. OnePlace'
      BY <2>1 DEF Placed, OnePlace
    <2>4. InOrder'
      BY <2>1 DEF Ordered, Comes, InOrder, FirstComeFirst
    <2>5. NobodyWaitsForAFreeSlot'
      BY <1>1, <2>1 DEF NobodyWaitsForAFreeSlot
    <2> QED
      BY <2>2, <2>3, <2>4, <2>5 DEF IInv
  <1>2. ASSUME a = None, NEW s \in q, Starts(s, q, f, st)
        PROVE  IInv'
    <2>1. f # None => \A o \in q \ {f} :
                        Priority[o] = Priority[f] => ticket'[f] < ticket'[o]
      BY DEF Ordered, Comes, Typed
    <2>2. /\ q \subseteq Requests /\ s \in Requests /\ f \in q \cup {None}
          /\ st \in [Requests -> Statuses] /\ ticket' \in [Requests -> Nat]
          /\ leaving' = None /\ None \notin Requests
      BY <1>2, RequestsAssumption DEF Typed
    <2>3. \A r \in Requests : (r \in q) <=> (st[r] = "QUEUED")
      BY DEF Placed
    <2>4. /\ queue' \subseteq Requests /\ front' = None /\ active' = s
          /\ status' \in [Requests -> Statuses]
          /\ status'[s] = "RUNNING"
          /\ \A r \in Requests \ {s} : status'[r] = st[r]
          /\ \A r \in Requests : (r \in queue') <=> (status'[r] = "QUEUED")
          /\ FirstComeFirst(s)'
      BY <1>2, <2>1, <2>2, <2>3, StartKeeps
    <2>5. TypeOK'
      BY <2>2, <2>4 DEF Typed, TypeOK
    <2>6. OnePlace'
      <3>1. \A r \in Requests \ {s} : st[r] \notin {"RUNNING", "RETRY_WAIT"}
        BY <1>2, <2>2 DEF Placed
      <3>2. released'[s] => retries'[s] > 0
        <4>1. retries'[s] \in Nat
          BY <2>2, RequestsAssumption DEF Typed
        <4> QED
          BY <4>1, <1>2, <2>2, <2>3 DEF Placed
      <3>3. ASSUME NEW r \in Requests
            PROVE  /\ (status'[r] \in {"RUNNING", "RETRY_WAIT"}) =>
                         (active' = r /\ leaving' = None)
                   /\ (active' = r /\ leaving' = None) =>
                         status'[r] \in {"RUNNING", "RETRY_WAIT"}
                   /\ leaving' # r
                   /\ (status'[r] = "RETRY_WAIT" \/ (active' = r /\ released'[r]))
                         => retries'[r] > 0
                   /\ (status'[r] \in {"NEW", "QUEUED"} /\ retries'[r] = 0)
                         => ~released'[r]
        <4>1. CASE r = s
          BY <4>1, <2>2, <2>4, <3>2
        <4>2. CASE r # s
          BY <4>2, <2>2, <2>4, <3>1 DEF Placed
        <4> QED
          BY <4>1, <4>2
      <3> QED
        BY <2>4, <3>3 DEF OnePlace
    <2>7. InOrder'
      <3>1. \A r \in Requests \ {s} : st[r] \notin {"RUNNING", "RETRY_WAIT"}
        BY <1>2, <2>2 DEF Placed
      <3> QED
        BY <2>2, <2>4, <3>1 DEF InOrder, Ordered
    <2>8. NobodyWaitsForAFreeSlot'
      BY <2>2, <2>4 DEF NobodyWaitsForAFreeSlot
    <2> QED
      BY <2>5, <2>6, <2>7, <2>8 DEF IInv
  <1> QED
    BY <1>1, <1>2, ProcessQueueCases

-----------------------------------------------------------------------------
(* The three callers of processQueue. *)
LEMMA EnqueueStep == ASSUME IInv, NEW r \in Requests, Enqueue(r) PROVE IInv'
  <1> DEFINE q == queue \cup {r}
             st == [status EXCEPT ![r] = "QUEUED"]
  <1>1. /\ arrivals \in Nat /\ ticket \in [Requests -> Nat]
        /\ status \in [Requests -> Statuses] /\ None \notin Requests
        /\ \A o \in Requests : ticket[o] <= arrivals
    BY RequestsAssumption DEF IInv, TypeOK, InOrder
  <1>2. /\ ticket' = [ticket EXCEPT ![r] = arrivals + 1]
        /\ arrivals' = arrivals + 1 /\ status[r] = "NEW"
        /\ UNCHANGED <<leaving, retries, released, aborted, paused>>
        /\ ProcessQueue(q, None, active, st)
    BY DEF Enqueue
  <1>3. /\ ticket' \in [Requests -> Nat] /\ arrivals' \in Nat
        /\ ticket'[r] = arrivals + 1
        /\ \A o \in Requests \ {r} : ticket'[o] = ticket[o]
    BY <1>1, <1>2
  <1>4. /\ st \in [Requests -> Statuses] /\ st[r] = "QUEUED"
        /\ \A o \in Requests \ {r} : st[o] = status[o]
    BY <1>1 DEF Statuses
  <1>5. Typed(q, None, active, st)
    BY <1>2, <1>3, <1>4 DEF IInv, TypeOK, Typed
  <1>6. Placed(q, active, st)
    <2>1. active # r /\ leaving # r
      BY <1>1, <1>2 DEF IInv, OnePlace, TypeOK, Settled
    <2>2. retries[r] = 0 => ~released[r]
      BY <1>2 DEF IInv, OnePlace
    <2> QED
      BY <1>2, <1>4, <2>1, <2>2 DEF IInv, OnePlace, Placed
  <1>7. Ordered(q, None, st)
    <2>1. \A o \in Requests : ticket'[o] <= arrivals'
      BY <1>1, <1>2, <1>3
    <2>2. ASSUME NEW o \in Requests, st[o] \in {"RUNNING", "RETRY_WAIT"}
          PROVE  Comes(o, q)
      <3>1. o # r /\ status[o] \in {"RUNNING", "RETRY_WAIT"}
        BY <1>4, <2>2
      <3>2. FirstComeFirst(o)
        BY <3>1 DEF IInv, InOrder
      <3>3. queue \subseteq Requests
        BY DEF IInv, TypeOK
      <3>4. ticket'[o] < ticket'[r]
        BY <1>1, <1>3, <3>1
      <3>5. \A p \in queue \ {o} : Priority[p] = Priority[o] =>
                                     ticket'[o] < ticket'[p]
        BY <1>1, <1>3, <3>1, <3>2, <3>3, <3>4 DEF FirstComeFirst
      <3> QED
        BY <3>4, <3>5 DEF Comes
    <2> QED
      BY <1>1, <2>1, <2>2 DEF Ordered
  <1> HIDE DEF q, st
  <1> QED
    BY <1>2, <1>5, <1>6, <1>7, ProcessQueueKeeps

(* A release on behalf of a request whose handler is over: it has settled, *)
(* or it is back in the queue with the flag cleared.                       *)
LEMMA ReleaseStep ==
    ASSUME IInv, NEW r \in Requests, NEW st \in [Requests -> Statuses],
           active = r, leaving' = None,
           \A o \in Requests \ {r} : st[o] = status[o],
           \/ st[r] \in Settled /\ status[r] # "QUEUED"
           \/ /\ st[r] = status[r] /\ status[r] = "QUEUED"
              /\ ~released[r] /\ retries[r] > 0
           \/ st[r] = status[r] /\ status[r] \in Settled,
           UNCHANGED <<arrivals, ticket, retries, aborted, paused>>,
           ReleaseSlot(r, st)
    PROVE  IInv'
  <1>1. /\ None \notin Requests /\ leaving \in {r, None}
        /\ released \in [Requests -> BOOLEAN] /\ queue \subseteq Requests
        /\ ticket \in [Requests -> Nat] /\ status \in [Requests -> Statuses]
    BY RequestsAssumption DEF IInv, TypeOK
  <1>2. \A o \in Requests : (o \in queue) <=> (st[o] = "QUEUED")
    BY DEF IInv, OnePlace, Settled
  <1>3. \A o \in Requests : st[o] \notin {"RUNNING", "RETRY_WAIT"}
    BY <1>1 DEF IInv, OnePlace, Settled
  <1>4. \A o \in Requests \ {r} :
          (st[o] \in {"NEW", "QUEUED"} /\ retries[o] = 0) => ~released[o]
    BY DEF IInv, OnePlace
  <1>5. CASE released[r]
    <2>1. /\ status' = st
          /\ UNCHANGED <<queue, front, active, released>>
      BY <1>5 DEF ReleaseSlot
    <2>2. st[r] \in Settled
      BY <1>5
    <2>3. TypeOK'
      BY <2>1 DEF IInv, TypeOK
    <2>4. OnePlace'
      <3>1. retries[r] > 0
        BY <1>5 DEF IInv, OnePlace
      <3> QED
        BY <1>1, <1>2, <1>3, <1>4, <1>5, <2>1, <2>2, <3>1
           DEF OnePlace, Settled
    <2>5. InOrder'
      BY <2>1, <1>3 DEF IInv, InOrder, FirstComeFirst
    <2>6. NobodyWaitsForAFreeSlot'
      BY <1>1, <2>1 DEF NobodyWaitsForAFreeSlot
    <2> QED
      BY <2>3, <2>4, <2>5, <2>6 DEF IInv
  <1>6. CASE ~released[r]
    <2>1. /\ released' = [released EXCEPT ![r] = TRUE]
          /\ ProcessQueue(queue, front, None, st)
      BY <1>6 DEF ReleaseSlot
    <2>2. Typed(queue, front, None, st)
      <3>1. released' \in [Requests -> BOOLEAN]
        BY <1>1, <2>1
      <3> QED
        BY <3>1 DEF IInv, TypeOK, Typed
    <2>3. Placed(queue, None, st)
      <3>1. (st[r] \in {"NEW", "QUEUED"}) => retries[r] > 0
        BY DEF Settled
      <3>2. retries[r] > 0 => retries[r] # 0
        BY RequestsAssumption DEF IInv, TypeOK
      <3> QED
        BY <1>1, <1>2, <1>3, <1>4, <2>1, <3>1, <3>2 DEF Placed
    <2>4. Ordered(queue, front, st)
      BY <1>3 DEF IInv, InOrder, Ordered, Comes, FirstComeFirst
    <2> QED
      BY <2>1, <2>2, <2>3, <2>4, ProcessQueueKeeps
  <1> QED
    BY <1>5, <1>6

LEMMA ResumeStep == ASSUME IInv, Resume PROVE IInv'
  <1>1. /\ paused' = FALSE /\ ProcessQueue(queue, front, active, status)
        /\ UNCHANGED <<leaving, arrivals, ticket, retries, released, aborted>>
    BY DEF Resume
  <1>2. Typed(queue, front, active, status)
    BY <1>1 DEF IInv, TypeOK, Typed
  <1>3. Placed(queue, active, status)
    BY <1>1 DEF IInv, OnePlace, Placed
  <1>4. Ordered(queue, front, status)
    BY <1>1 DEF IInv, InOrder, FirstComeFirst, Ordered, Comes
  <1> QED
    BY <1>1, <1>2, <1>3, <1>4, ProcessQueueKeeps

(* The actions that leave the slot alone. *)
LEMMA FailStep == ASSUME IInv, NEW r \in Requests, Fail(r) PROVE IInv'
  <1> USE DEF IInv, Fail
  <1>1. active = r /\ leaving = None /\ None \notin Requests
    BY RequestsAssumption DEF OnePlace
  <1>2. TypeOK'
    <2>1. status' \in [Requests -> Statuses]
      BY DEF TypeOK, Statuses, Settled
    <2> QED
      BY <1>1, <2>1 DEF TypeOK
  <1>3. OnePlace'
    BY <1>1 DEF OnePlace, TypeOK, Settled
  <1>4. InOrder'
    BY DEF InOrder, FirstComeFirst, TypeOK
  <1>5. NobodyWaitsForAFreeSlot'
    BY <1>1 DEF NobodyWaitsForAFreeSlot
  <1> QED
    BY <1>2, <1>3, <1>4, <1>5

LEMMA RetryLaterStep == ASSUME IInv, NEW r \in Requests, RetryLater(r) PROVE IInv'
  <1> USE DEF IInv, RetryLater
  <1>1. /\ active = r /\ leaving = None /\ None \notin Requests
        /\ retries[r] \in 0 .. MaxRetries /\ MaxRetries \in Nat
    BY RequestsAssumption DEF OnePlace, TypeOK
  <1>2. /\ retries'[r] > 0 /\ retries' \in [Requests -> 0 .. MaxRetries]
        /\ \A o \in Requests \ {r} : retries'[o] = retries[o]
    <2>1. retries[r] + 1 \in 0 .. MaxRetries /\ retries[r] + 1 > 0
      BY <1>1
    <2> QED
      BY <2>1 DEF TypeOK
  <1>3. TypeOK'
    <2>1. status' \in [Requests -> Statuses]
      BY DEF TypeOK, Statuses
    <2> QED
      BY <1>2, <2>1 DEF TypeOK
  <1>4. OnePlace'
    BY <1>1, <1>2 DEF OnePlace, TypeOK, Settled
  <1>5. InOrder'
    BY DEF InOrder, FirstComeFirst, TypeOK
  <1>6. NobodyWaitsForAFreeSlot'
    BY DEF NobodyWaitsForAFreeSlot
  <1> QED
    BY <1>3, <1>4, <1>5, <1>6

LEMMA WakeStep == ASSUME IInv, NEW r \in Requests, Wake(r) PROVE IInv'
  <1> USE DEF IInv
  <1>1. active = r /\ leaving = None /\ None \notin Requests
    BY RequestsAssumption DEF OnePlace, Wake, WakeAborted, WakeForRetry
  <1>2. CASE WakeAborted(r)
    <2> USE <1>2 DEF WakeAborted
    <2>1. TypeOK'
      <3>1. status' \in [Requests -> Statuses]
        BY DEF TypeOK, Statuses, Settled
      <3> QED
        BY <1>1, <3>1 DEF TypeOK
    <2>2. OnePlace'
      BY <1>1 DEF OnePlace, TypeOK, Settled
    <2>3. InOrder'
      BY DEF InOrder, FirstComeFirst, TypeOK
    <2> QED
      BY <1>1, <2>1, <2>2, <2>3 DEF NobodyWaitsForAFreeSlot
  <1>3. CASE WakeForRetry(r)
    <2> USE <1>3 DEF WakeForRetry
    <2>1. TypeOK'
      <3>1. status' \in [Requests -> Statuses]
        BY DEF TypeOK, Statuses
      <3>2. released' \in [Requests -> BOOLEAN]
        BY DEF TypeOK
      <3> QED
        BY <1>1, <3>1, <3>2 DEF TypeOK
    <2>2. OnePlace'
      <3>1. retries[r] > 0
        BY DEF OnePlace
      <3> QED
        BY <1>1, <3>1 DEF OnePlace, TypeOK, Settled
    <2>3. InOrder'
      <3>1. FirstComeFirst(r)'
        BY DEF InOrder, FirstComeFirst
      <3>2. \A o \in Requests \ {r} :
              front' # o /\ status'[o] \notin {"RUNNING", "RETRY_WAIT"}
        BY <1>1 DEF OnePlace, TypeOK
      <3> QED
        BY <3>1, <3>2 DEF InOrder
    <2> QED
      BY <1>1, <2>1, <2>2, <2>3 DEF NobodyWaitsForAFreeSlot
  <1> QED
    BY <1>2, <1>3 DEF Wake

LEMMA CancelStep == ASSUME IInv, NEW r \in Requests, Cancel(r) PROVE IInv'
  <1> USE DEF IInv, Cancel
  <1>1. status' \in [Requests -> Statuses] /\ aborted' \in [Requests -> BOOLEAN]
    BY DEF TypeOK, Statuses, Settled
  <1>2. TypeOK'
    BY <1>1 DEF TypeOK
  <1>3. OnePlace'
    BY RequestsAssumption DEF OnePlace, TypeOK, Settled
  <1>4. InOrder'
    BY RequestsAssumption DEF InOrder, FirstComeFirst, TypeOK
  <1>5. NobodyWaitsForAFreeSlot'
    BY DEF NobodyWaitsForAFreeSlot
  <1> QED
    BY <1>2, <1>3, <1>4, <1>5

-----------------------------------------------------------------------------
LEMMA SucceedStep == ASSUME IInv, NEW r \in Requests, Succeed(r) PROVE IInv'
  <1> DEFINE st == [status EXCEPT ![r] = "COMPLETED"]
  <1>1. /\ st \in [Requests -> Statuses] /\ st[r] \in Settled
        /\ \A o \in Requests \ {r} : st[o] = status[o]
    BY DEF IInv, TypeOK, Statuses, Settled
  <1>2. active = r /\ leaving = None /\ status[r] # "QUEUED"
    BY DEF IInv, OnePlace, Succeed
  <1>3. /\ ReleaseSlot(r, st) /\ leaving' = None
        /\ UNCHANGED <<arrivals, ticket, retries, aborted, paused>>
    BY <1>2 DEF Succeed
  <1> HIDE DEF st
  <1> QED
    BY <1>1, <1>2, <1>3, ReleaseStep

LEMMA FinallyStep == ASSUME IInv, NEW r \in Requests, Finally(r) PROVE IInv'
  <1>1. /\ active = r /\ leaving' = None /\ status \in [Requests -> Statuses]
        /\ \/ status[r] \in Settled
           \/ status[r] = "QUEUED" /\ ~released[r] /\ retries[r] > 0
    BY RequestsAssumption DEF IInv, TypeOK, OnePlace, Finally
  <1>2. /\ ReleaseSlot(r, status)
        /\ UNCHANGED <<arrivals, ticket, retries, aborted, paused>>
    BY DEF Finally
  <1> QED
    BY <1>1, <1>2, ReleaseStep

LEMMA NextInvariant == IInv /\ [Next]_vars => IInv'
  <1> SUFFICES ASSUME IInv, [Next]_vars PROVE IInv'
    OBVIOUS
  <1>1. ASSUME NEW r \in Requests,
               \/ Enqueue(r) \/ Answer(r) \/ Wake(r) \/ Finally(r) \/ Cancel(r)
        PROVE  IInv'
    BY <1>1, EnqueueStep, SucceedStep, FailStep, RetryLaterStep, WakeStep,
       FinallyStep, CancelStep DEF Answer
  <1>2. CASE CancelActive
    <2>1. aborted' \in [Requests -> BOOLEAN]
      BY <1>2 DEF CancelActive, IInv, TypeOK
    <2> QED
      BY <1>2, <2>1 DEF CancelActive, IInv, TypeOK, OnePlace, InOrder,
                        FirstComeFirst, NobodyWaitsForAFreeSlot
  <1>3. CASE Pause
    BY <1>3 DEF Pause, IInv, TypeOK, OnePlace, InOrder, FirstComeFirst,
                NobodyWaitsForAFreeSlot
  <1>4. CASE Resume
    BY <1>4, ResumeStep
  <1>5. CASE UNCHANGED vars
    BY <1>5 DEF vars, IInv, TypeOK, OnePlace, InOrder, FirstComeFirst,
                NobodyWaitsForAFreeSlot
  <1> QED
    BY <1>1, <1>2, <1>3, <1>4, <1>5 DEF Next

(* The inductive invariant of every run of the scheduler. *)
THEOREM SchedulerInvariance == Spec => []IInv
  BY InitInvariant, NextInvariant, PTL DEF Spec

(* At most one model call, or backoff of one, is under way, whatever the   *)
(* number of agents, retries, cancellations and pauses.                    *)
THEOREM OneAtATime == Spec => []OneStreamAtATime
  <1>1. IInv => OneStreamAtATime
    BY DEF IInv, OnePlace, OneStreamAtATime
  <1> QED
    BY <1>1, SchedulerInvariance, PTL

(* A free slot is never left idle in front of a queue. *)
THEOREM SlotIsUsed == Spec => []NobodyWaitsForAFreeSlot
  <1>1. IInv => NobodyWaitsForAFreeSlot
    BY DEF IInv
  <1> QED
    BY <1>1, SchedulerInvariance, PTL

-----------------------------------------------------------------------------
(* What processQueue does to the statuses it is given: nothing, or one     *)
(* queued request starts, and it came before its equals.                   *)
LEMMA StartIsEarliest ==
    ASSUME NEW q \in SUBSET Requests, NEW f, NEW a,
           NEW st \in [Requests -> Statuses], ProcessQueue(q, f, a, st),
           f # None => Comes(f, q),
           NEW r \in Requests, status'[r] # st[r]
    PROVE  /\ r \in q /\ status'[r] = "RUNNING"
           /\ Comes(r, q)
  <1>1. PICK s \in q : Starts(s, q, f, st)
    BY ProcessQueueCases DEF Keeps
  <1>2. s = r /\ status'[r] = "RUNNING"
    BY <1>1 DEF Starts
  <1>3. CASE f # None
    BY <1>1, <1>2, <1>3 DEF Starts, AtHead
  <1>4. CASE f = None
    <2>1. \A o \in q \ {r} : Before(r, o)
      BY <1>1, <1>2, <1>4 DEF Starts, AtHead
    <2>2. ASSUME NEW o \in q \ {r}, Priority[o] = Priority[r]
          PROVE  ticket'[r] < ticket'[o]
      <3>1. Priority[r] \in Nat /\ Before(r, o)
        BY <2>1, <2>2, RequestsAssumption
      <3> QED
        BY <2>2, <3>1 DEF Before
    <2> QED
      BY <1>1, <1>2, <2>2 DEF Comes
  <1> QED
    BY <1>2, <1>3, <1>4

(* A step that changes the status of a request that is not NEW, RUNNING or *)
(* in RETRY_WAIT cancels a queued one or starts the earliest.              *)
LEMMA StatusChange ==
    ASSUME IInv, [Next]_vars, NEW r \in Requests, status'[r] # status[r],
           status[r] \in {"QUEUED"} \cup Settled
    PROVE  /\ status[r] = "QUEUED"
           /\ \/ status'[r] = "CANCELLED"
              \/ /\ status'[r] = "RUNNING"
                 /\ \A o \in queue \ {r} : Priority[o] = Priority[r] =>
                                             ticket[r] < ticket[o]
  <1>1. /\ queue \subseteq Requests /\ None \notin Requests
        /\ status \in [Requests -> Statuses] /\ ticket \in [Requests -> Nat]
        /\ \A o \in Requests : (o \in queue) <=> (status[o] = "QUEUED")
        /\ front # None => front \in Requests /\ FirstComeFirst(front)
    BY RequestsAssumption DEF IInv, TypeOK, OnePlace, InOrder
  <1>2. ASSUME NEW x \in Requests, Enqueue(x)
        PROVE  /\ status[r] = "QUEUED" /\ status'[r] = "RUNNING"
               /\ \A o \in queue \ {r} : Priority[o] = Priority[r] =>
                                           ticket[r] < ticket[o]
    <2> DEFINE q == queue \cup {x}
               st == [status EXCEPT ![x] = "QUEUED"]
    <2>1. /\ ProcessQueue(q, None, active, st) /\ status[x] = "NEW"
          /\ q \in SUBSET Requests /\ st \in [Requests -> Statuses]
          /\ r # x /\ st[r] = status[r]
          /\ \A o \in Requests \ {x} : ticket'[o] = ticket[o]
      BY <1>1, <1>2 DEF Enqueue, Statuses, Settled
    <2>2. r \in q /\ status'[r] = "RUNNING" /\ Comes(r, q)
      <3> HIDE DEF q, st
      <3> QED
        BY <2>1, StartIsEarliest
    <2> QED
      BY <1>1, <2>1, <2>2 DEF Comes
  <1>3. ASSUME NEW x \in Requests, NEW st \in [Requests -> Statuses],
               ReleaseSlot(x, st), ticket' = ticket, st[r] = status[r]
        PROVE  /\ status[r] = "QUEUED" /\ status'[r] = "RUNNING"
               /\ \A o \in queue \ {r} : Priority[o] = Priority[r] =>
                                           ticket[r] < ticket[o]
    <2>1. ProcessQueue(queue, front, None, st)
      BY <1>3 DEF ReleaseSlot
    <2>2. front # None => Comes(front, queue)
      BY <1>1, <1>3 DEF FirstComeFirst, Comes
    <2>3. r \in queue /\ status'[r] = "RUNNING" /\ Comes(r, queue)
      BY <1>1, <1>3, <2>1, <2>2, StartIsEarliest
    <2> QED
      BY <1>1, <1>3, <2>3 DEF Comes
  <1>4. ASSUME NEW x \in Requests, Answer(x) \/ Wake(x) \/ Finally(x)
        PROVE  /\ status[r] = "QUEUED" /\ status'[r] = "RUNNING"
               /\ \A o \in queue \ {r} : Priority[o] = Priority[r] =>
                                           ticket[r] < ticket[o]
    <2>1. CASE Succeed(x)
      <3> DEFINE st == [status EXCEPT ![x] = "COMPLETED"]
      <3>1. /\ st \in [Requests -> Statuses] /\ st[r] = status[r]
            /\ ReleaseSlot(x, st) /\ ticket' = ticket
        BY <1>1, <2>1 DEF Succeed, Statuses, Settled
      <3> HIDE DEF st
      <3> QED
        BY <3>1, <1>3
    <2>2. CASE Finally(x)
      <3>1. ReleaseSlot(x, status) /\ ticket' = ticket
        BY <2>2 DEF Finally
      <3> QED
        BY <1>1, <3>1, <1>3
    <2>3. ~Fail(x) /\ ~RetryLater(x) /\ ~Wake(x)
      BY <1>1 DEF Fail, RetryLater, Wake, WakeAborted, WakeForRetry, Settled
    <2> QED
      BY <1>4, <2>1, <2>2, <2>3 DEF Answer
  <1>5. ASSUME NEW x \in Requests, Cancel(x)
        PROVE  status[r] = "QUEUED" /\ status'[r] = "CANCELLED"
    BY <1>1, <1>5 DEF Cancel
  <1>6. ASSUME Resume
        PROVE  /\ status[r] = "QUEUED" /\ status'[r] = "RUNNING"
               /\ \A o \in queue \ {r} : Priority[o] = Priority[r] =>
                                           ticket[r] < ticket[o]
    <2>1. ProcessQueue(queue, front, active, status) /\ ticket' = ticket
      BY <1>6 DEF Resume
    <2>2. front # None => Comes(front, queue)
      BY <1>1, <2>1 DEF FirstComeFirst, Comes
    <2>3. r \in queue /\ status'[r] = "RUNNING" /\ Comes(r, queue)
      BY <1>1, <2>1, <2>2, StartIsEarliest
    <2> QED
      BY <1>1, <2>1, <2>3 DEF Comes
  <1>7. ~CancelActive /\ ~Pause /\ ~UNCHANGED vars
    BY DEF CancelActive, Pause, vars
  <1> QED
    BY <1>2, <1>4, <1>5, <1>6, <1>7 DEF Next

(* Two requests of one priority run in the order in which they came, retries *)
(* included.                                                               *)
THEOREM EqualsGoInOrder == Spec => FifoWithinAPriority
  <1>1. IInv /\ [Next]_vars =>
          [\A r, o \in Requests :
             /\ status[r] = "QUEUED" /\ status'[r] = "RUNNING"
             /\ o \in queue /\ Priority[o] = Priority[r]
             /\ o # r
             => ticket[r] < ticket[o]]_vars
    BY StatusChange
  <1> QED
    BY <1>1, SchedulerInvariance, PTL DEF Spec, FifoWithinAPriority

(* A settled request stays settled. *)
THEOREM OneOutcome == Spec => SettlesOnce
  <1>1. IInv /\ [Next]_vars =>
          [\A r \in Requests :
             status[r] \in Settled => status'[r] = status[r]]_vars
    BY StatusChange DEF Settled
  <1> QED
    BY <1>1, SchedulerInvariance, PTL DEF Spec, SettlesOnce
=============================================================================
