------------------------ MODULE RunAttemptQueueProofs ------------------------
(***************************************************************************)
(* Proofs about RunAttemptQueue, for every set of workers and attempts and *)
(* every lease and delay.                                                  *)
(***************************************************************************)
EXTENDS RunAttemptQueue, TLAPS

(* A lease a worker trusts is in the row, and the row keeps it as long. *)
TrustIsBacked ==
  \A w \in Workers, a \in Attempts :
    Trusts(w, a) =>
      status[a] = "running" /\ owner[a] = w /\ left[a] # None /\ held[w][a] <= left[a]

(* What is being recovered has expired and nobody trusts it. *)
RecoveringIsExpired == \A a \in recovering : status[a] = "running" /\ left[a] = 0

(* A restart leaves no worker behind that could still answer. *)
InterruptedIsDropped ==
  \A w \in Workers, a \in Attempts : status[a] = "interrupted" => held[w][a] = None

QInv ==
  /\ TypeOK
  /\ RunningIsLeased
  /\ TrustIsBacked
  /\ RecoveringIsExpired
  /\ InterruptedIsDropped
-----------------------------------------------------------------------------
(* Every step keeps the invariant; complete(), fail() and release() are one case. *)
LEMMA QueueNext ==
  ASSUME QInv, [Next]_vars
  PROVE  QInv'
<1>. USE QueueAssumption DEF QueueAssumption, QInv, TypeOK, Leases, Free, Hold, rows
<1>1. CASE UNCHANGED vars
  <2>1. TypeOK'
    BY <1>1 DEF vars, Leases, Statuses
  <2>2. RunningIsLeased'
    BY <1>1 DEF vars, RunningIsLeased
  <2>3. TrustIsBacked'
    BY <1>1 DEF vars, TrustIsBacked, Trusts, RunningIsLeased, Leases
  <2>4. RecoveringIsExpired'
    BY <1>1 DEF vars, RecoveringIsExpired
  <2>5. InterruptedIsDropped'
    BY <1>1 DEF vars, InterruptedIsDropped
  <2>. QED  BY <2>1, <2>2, <2>3, <2>4, <2>5
<1>2. ASSUME NEW a \in Attempts, NEW delay \in 0 .. MaxDelay, Enqueue(a, delay)
      PROVE  QInv'
  <2>1. TypeOK'
    BY <1>2 DEF Enqueue, Leases, Statuses
  <2>2. RunningIsLeased'
    BY <1>2 DEF Enqueue, RunningIsLeased
  <2>3. TrustIsBacked'
    BY <1>2 DEF Enqueue, TrustIsBacked, Trusts, RunningIsLeased, Leases
  <2>4. RecoveringIsExpired'
    BY <1>2 DEF Enqueue, RecoveringIsExpired
  <2>5. InterruptedIsDropped'
    BY <1>2 DEF Enqueue, InterruptedIsDropped
  <2>. QED  BY <2>1, <2>2, <2>3, <2>4, <2>5
<1>3. ASSUME NEW w \in Workers, NEW a \in Attempts, ClaimNext(w, a)
      PROVE  QInv'
  <2>1. TypeOK'
    BY <1>3 DEF ClaimNext, Due, Leases, Statuses
  <2>2. RunningIsLeased'
    BY <1>3 DEF ClaimNext, Due, RunningIsLeased
  <2>3. TrustIsBacked'
    BY <1>3 DEF ClaimNext, Due, TrustIsBacked, Trusts, RunningIsLeased, Leases
  <2>4. RecoveringIsExpired'
    BY <1>3 DEF ClaimNext, Due, RecoveringIsExpired
  <2>5. InterruptedIsDropped'
    BY <1>3 DEF ClaimNext, Due, InterruptedIsDropped
  <2>. QED  BY <2>1, <2>2, <2>3, <2>4, <2>5
<1>4. ASSUME NEW w \in Workers, NEW a \in Attempts, RenewLease(w, a)
      PROVE  QInv'
  <2>1. TypeOK'
    BY <1>4 DEF RenewLease, OwnedBy, Leases, Statuses
  <2>2. RunningIsLeased'
    BY <1>4 DEF RenewLease, OwnedBy, RunningIsLeased
  <2>3. TrustIsBacked'
    BY <1>4 DEF RenewLease, OwnedBy, TrustIsBacked, Trusts, RunningIsLeased, Leases
  <2>4. RecoveringIsExpired'
    BY <1>4 DEF RenewLease, OwnedBy, RecoveringIsExpired
  <2>5. InterruptedIsDropped'
    BY <1>4 DEF RenewLease, OwnedBy, InterruptedIsDropped
  <2>. QED  BY <2>1, <2>2, <2>3, <2>4, <2>5
<1>5. ASSUME NEW w \in Workers, NEW a \in Attempts, NEW newStatus \in {"succeeded", "queued", "failed"},
             NEW delay \in 0 .. MaxDelay, EndLease(w, a, newStatus, delay)
      PROVE  QInv'
  <2>1. TypeOK'
    BY <1>5 DEF EndLease, OwnedBy, Leases, Statuses
  <2>2. RunningIsLeased'
    BY <1>5 DEF EndLease, OwnedBy, RunningIsLeased
  <2>3. TrustIsBacked'
    BY <1>5 DEF EndLease, OwnedBy, TrustIsBacked, Trusts, RunningIsLeased, Leases
  <2>4. RecoveringIsExpired'
    BY <1>5 DEF EndLease, OwnedBy, RecoveringIsExpired
  <2>5. InterruptedIsDropped'
    BY <1>5 DEF EndLease, OwnedBy, InterruptedIsDropped
  <2>. QED  BY <2>1, <2>2, <2>3, <2>4, <2>5
<1>6. CASE SelectExpired
  <2>1. TypeOK'
    BY <1>6 DEF SelectExpired, Expired, Leases, Statuses
  <2>2. RunningIsLeased'
    BY <1>6 DEF SelectExpired, Expired, RunningIsLeased
  <2>3. TrustIsBacked'
    BY <1>6 DEF SelectExpired, Expired, TrustIsBacked, Trusts, RunningIsLeased, Leases
  <2>4. RecoveringIsExpired'
    BY <1>6 DEF SelectExpired, Expired, RecoveringIsExpired
  <2>5. InterruptedIsDropped'
    BY <1>6 DEF SelectExpired, Expired, InterruptedIsDropped
  <2>. QED  BY <2>1, <2>2, <2>3, <2>4, <2>5
<1>7. ASSUME NEW a \in Attempts, ReleaseExpired(a)
      PROVE  QInv'
  <2>1. TypeOK'
    BY <1>7 DEF ReleaseExpired, Leases, Statuses
  <2>2. RunningIsLeased'
    BY <1>7 DEF ReleaseExpired, RunningIsLeased
  <2>3. TrustIsBacked'
    <3>1. left[a] = 0
      BY <1>7 DEF ReleaseExpired, RecoveringIsExpired
    <3>2. \A w \in Workers : ~Trusts(w, a)
      BY <3>1 DEF TrustIsBacked, Trusts
    <3>. QED  BY <1>7, <3>2 DEF ReleaseExpired, TrustIsBacked, Trusts
  <2>4. RecoveringIsExpired'
    BY <1>7 DEF ReleaseExpired, RecoveringIsExpired
  <2>5. InterruptedIsDropped'
    BY <1>7 DEF ReleaseExpired, InterruptedIsDropped
  <2>. QED  BY <2>1, <2>2, <2>3, <2>4, <2>5
<1>8. CASE Tick
  <2>0. /\ status' = status /\ owner' = owner /\ recovering' = recovering /\ recovering = {}
        /\ \A a \in Attempts : left'[a] = CountDown(left[a]) /\ wait'[a] = CountDown(wait[a])
        /\ \A w \in Workers, a \in Attempts : held'[w][a] = CountDown(held[w][a])
    BY <1>8 DEF Tick
  <2>1. TypeOK'
    <3>1. \A t \in 0 .. Lease \cup {None} : CountDown(t) \in 0 .. Lease \cup {None}
      BY DEF CountDown
    <3>2. \A t \in 0 .. MaxDelay : CountDown(t) \in 0 .. MaxDelay
      BY DEF CountDown
    <3>3. clock' \in Nat
      BY <1>8 DEF Tick
    <3>. QED  BY <1>8, <3>1, <3>2, <3>3 DEF Tick
  <2>2. RunningIsLeased'
    <3>1. \A t \in 0 .. Lease \cup {None} : CountDown(t) = None <=> t = None
      BY DEF CountDown
    <3>. QED  BY <2>0, <3>1 DEF RunningIsLeased
  <2>3. TrustIsBacked'
    <3>. SUFFICES ASSUME NEW w \in Workers, NEW a \in Attempts, held'[w][a] \notin {None, 0}
                  PROVE  /\ status[a] = "running" /\ owner[a] = w /\ left'[a] # None
                         /\ held'[w][a] <= left'[a]
      BY <2>0 DEF TrustIsBacked, Trusts
    <3>1. held[w][a] \in 1 .. Lease /\ held'[w][a] = held[w][a] - 1
      BY <2>0 DEF CountDown
    <3>2. status[a] = "running" /\ owner[a] = w /\ left[a] \in 0 .. Lease /\ held[w][a] <= left[a]
      BY <3>1 DEF TrustIsBacked, Trusts
    <3>3. left'[a] = left[a] - 1
      BY <2>0, <3>1, <3>2 DEF CountDown
    <3>. QED  BY <3>1, <3>2, <3>3
  <2>4. RecoveringIsExpired'
    BY <2>0 DEF RecoveringIsExpired
  <2>5. InterruptedIsDropped'
    BY <2>0 DEF InterruptedIsDropped, CountDown
  <2>. QED  BY <2>1, <2>2, <2>3, <2>4, <2>5
<1>9. CASE Restart
  <2>1. TypeOK'
    BY <1>9 DEF Restart, Leases, Statuses
  <2>2. RunningIsLeased'
    BY <1>9 DEF Restart, RunningIsLeased
  <2>3. TrustIsBacked'
    BY <1>9 DEF Restart, TrustIsBacked, Trusts, RunningIsLeased, Leases
  <2>4. RecoveringIsExpired'
    BY <1>9 DEF Restart, RecoveringIsExpired
  <2>5. InterruptedIsDropped'
    BY <1>9 DEF Restart, InterruptedIsDropped
  <2>. QED  BY <2>1, <2>2, <2>3, <2>4, <2>5
<1>10. ASSUME NEW w \in Workers, NEW a \in Attempts, Complete(w, a) \/ Release(w, a)
      PROVE  QInv'
  BY <1>10, <1>5 DEF Complete, Release
<1>11. ASSUME NEW w \in Workers, NEW a \in Attempts, NEW retryAfter \in 0 .. MaxDelay,
             Fail(w, a, retryAfter)
      PROVE  QInv'
  BY <1>11, <1>5 DEF Fail
<1>. QED  BY <1>1, <1>2, <1>3, <1>4, <1>5, <1>6, <1>7, <1>8, <1>9, <1>10, <1>11 DEF Next

(* An empty queue satisfies the invariant. *)
LEMMA QueueInit == Init => QInv
  BY QueueAssumption
     DEF QueueAssumption, Init, QInv, TypeOK, Statuses, Leases, RunningIsLeased, TrustIsBacked,
         Trusts, RecoveringIsExpired, InterruptedIsDropped

(* QInv is an inductive invariant of the queue. *)
THEOREM QueueInvariance == Spec => []QInv
<1>1. QInv /\ [Next]_vars => QInv'
  BY QueueNext
<1>. QED  BY QueueInit, <1>1, PTL DEF Spec

(* Rows and leases stay in the states the code knows. *)
THEOREM QueueTypeCorrect == Spec => []TypeOK
<1>1. QInv => TypeOK
  BY DEF QInv
<1>. QED  BY <1>1, QueueInvariance, PTL

(* Two workers never trust one lease: both would be its owner. *)
THEOREM LeasesExclude == Spec => []LeaseExclusive
<1>1. QInv => LeaseExclusive
  BY DEF QInv, TrustIsBacked, LeaseExclusive
<1>. QED  BY <1>1, QueueInvariance, PTL

(* Running attempts are under a lease, others under none. *)
THEOREM RunningHasLease == Spec => []RunningIsLeased
<1>1. QInv => RunningIsLeased
  BY DEF QInv
<1>. QED  BY <1>1, QueueInvariance, PTL

(* What LeaseIsRespected and EndIsFinal say of one step. *)
LeaseStands ==
  \A w \in Workers, a \in Attempts :
    status[a] = "running" /\ owner[a] = w /\ Trusts(w, a) =>
      \/ status'[a] = "running" /\ owner'[a] = w
      \/ ~Trusts(w, a)'
EndStands ==
  \A a \in Attempts :
    status[a] \in {"succeeded", "failed", "interrupted"} => status'[a] = status[a]

(* The where clauses protect a running lease and an ended attempt, except   *)
(* from markRunningAttemptsInterrupted(), after which no worker is left.    *)
LEMMA QueueStands ==
  ASSUME QInv, [Next]_vars
  PROVE  LeaseStands /\ EndStands
<1>. USE QueueAssumption
     DEF QueueAssumption, QInv, TypeOK, LeaseStands, EndStands, Trusts, Free, Hold, rows,
         RunningIsLeased, TrustIsBacked, RecoveringIsExpired, InterruptedIsDropped
<1>1. CASE UNCHANGED vars
  BY <1>1 DEF vars
<1>2. ASSUME NEW a \in Attempts, NEW delay \in 0 .. MaxDelay, Enqueue(a, delay)
      PROVE  LeaseStands /\ EndStands
  BY <1>2 DEF Enqueue
<1>3. ASSUME NEW w \in Workers, NEW a \in Attempts, ClaimNext(w, a)
      PROVE  LeaseStands /\ EndStands
  BY <1>3 DEF ClaimNext, Due
<1>4. ASSUME NEW w \in Workers, NEW a \in Attempts, RenewLease(w, a)
      PROVE  LeaseStands /\ EndStands
  BY <1>4 DEF RenewLease, OwnedBy
<1>5. ASSUME NEW w \in Workers, NEW a \in Attempts, NEW newStatus \in Statuses,
             NEW delay \in 0 .. MaxDelay, EndLease(w, a, newStatus, delay)
      PROVE  LeaseStands /\ EndStands
  BY <1>5 DEF EndLease, OwnedBy
<1>6. ASSUME NEW w \in Workers, NEW a \in Attempts, Complete(w, a) \/ Release(w, a)
      PROVE  LeaseStands /\ EndStands
  BY <1>5, <1>6 DEF Complete, Release, Statuses
<1>7. ASSUME NEW w \in Workers, NEW a \in Attempts, NEW retryAfter \in 0 .. MaxDelay,
             Fail(w, a, retryAfter)
      PROVE  LeaseStands /\ EndStands
  BY <1>5, <1>7 DEF Fail, Statuses
<1>8. CASE SelectExpired
  BY <1>8 DEF SelectExpired
<1>9. ASSUME NEW a \in Attempts, ReleaseExpired(a)
      PROVE  LeaseStands /\ EndStands
  BY <1>9 DEF ReleaseExpired, Leases
<1>10. CASE Tick
  BY <1>10 DEF Tick
<1>11. CASE Restart
  BY <1>11 DEF Restart
<1>. QED  BY <1>1, <1>2, <1>3, <1>4, <1>6, <1>7, <1>8, <1>9, <1>10, <1>11 DEF Next

(* A running lease is ended by its owner only. *)
THEOREM LeaseHolds == Spec => LeaseIsRespected
<1>1. QInv /\ [Next]_vars => [LeaseStands]_vars
  BY QueueStands
<1>2. [][LeaseStands]_vars => LeaseIsRespected
  BY PTL DEF LeaseIsRespected, LeaseStands
<1>. QED  BY <1>1, <1>2, QueueInvariance, PTL DEF Spec

(* The end of an attempt is final. *)
THEOREM EndHolds == Spec => EndIsFinal
<1>1. QInv /\ [Next]_vars => [EndStands]_vars
  BY QueueStands
<1>2. [][EndStands]_vars => EndIsFinal
  BY PTL DEF EndIsFinal, EndStands
<1>. QED  BY <1>1, <1>2, QueueInvariance, PTL DEF Spec

-----------------------------------------------------------------------------
(***************************************************************************)
(* The refinement of LeaseService.                                         *)
(***************************************************************************)
LEMMA ServiceInit == Init => Service!Init
  BY DEF Init, Service!Init, TrustedLeases, EndedAttempts, Trusts

(* A worker that owns an attempt not ended is the only one that can trust it. *)
LEMMA OwnerIsFree ==
  ASSUME QInv, NEW w \in Workers, NEW a \in Attempts,
         a \notin EndedAttempts, owner[a] \in {None, w}
  PROVE  Service!FreeFor(w, a)
<1>1. ASSUME NEW v \in Workers \ {w}
      PROVE  <<v, a>> \notin TrustedLeases
  BY <1>1, QueueAssumption DEF QueueAssumption, QInv, TrustIsBacked, TrustedLeases
<1>. QED  BY <1>1 DEF Service!FreeFor

(* Who trusts what, once one hold is set. *)
LEMMA TrustAfterHold ==
  ASSUME TypeOK, NEW w \in Workers, NEW a \in Attempts, NEW lease, Hold(w, a, lease)
  PROVE  TrustedLeases' = IF lease \in {None, 0} THEN TrustedLeases \ {<<w, a>>}
                          ELSE TrustedLeases \cup {<<w, a>>}
<1>1. \A v \in Workers, b \in Attempts :
        held'[v][b] = IF v = w /\ b = a THEN lease ELSE held[v][b]
  BY DEF Hold, TypeOK
<1>. QED  BY <1>1 DEF TrustedLeases, Trusts

(* Every step of the queue is a step of the service, or none. *)
LEMMA ServiceStep ==
  ASSUME QInv, [Next]_vars
  PROVE  [Service!Next]_(Service!vars)
<1>. USE QueueAssumption DEF QueueAssumption, rows, Service!vars
<1>0. TypeOK
  BY DEF QInv
<1>1. CASE UNCHANGED vars
  BY <1>1 DEF vars, TrustedLeases, EndedAttempts, Trusts
<1>2. ASSUME NEW a \in Attempts, NEW delay \in 0 .. MaxDelay, Enqueue(a, delay)
      PROVE  UNCHANGED Service!vars
  <2>1. EndedAttempts' = EndedAttempts
    BY <1>0, <1>2 DEF Enqueue, EndedAttempts, TypeOK
  <2>. QED  BY <1>2, <2>1 DEF Enqueue, TrustedLeases, Trusts
<1>3. ASSUME NEW w \in Workers, NEW a \in Attempts, ClaimNext(w, a)
      PROVE  Service!Next
  <2>1. a \notin EndedAttempts /\ owner[a] = None
    BY <1>3 DEF ClaimNext, Due, EndedAttempts, QInv, RunningIsLeased
  <2>2. EndedAttempts' = EndedAttempts
    BY <1>0, <1>3 DEF ClaimNext, Due, EndedAttempts, TypeOK
  <2>3. TrustedLeases' = TrustedLeases \cup {<<w, a>>}
    BY <1>0, <1>3, TrustAfterHold DEF ClaimNext
  <2>4. Service!Grant(w, a)
    BY <2>1, <2>2, <2>3, OwnerIsFree DEF Service!Grant
  <2>. QED  BY <2>4 DEF Service!Next
<1>4. ASSUME NEW w \in Workers, NEW a \in Attempts, RenewLease(w, a)
      PROVE  Service!Next
  <2>1. EndedAttempts' = EndedAttempts
    BY <1>4 DEF RenewLease, EndedAttempts
  <2>2. CASE OwnedBy(w, a) /\ status[a] = "running"
    <3>1. TrustedLeases' = TrustedLeases \cup {<<w, a>>}
      BY <1>0, <1>4, <2>2, TrustAfterHold DEF RenewLease
    <3>2. a \notin EndedAttempts
      BY <2>2 DEF EndedAttempts
    <3>3. Service!Grant(w, a)
      BY <2>1, <2>2, <3>1, <3>2, OwnerIsFree DEF OwnedBy, Service!Grant
    <3>. QED  BY <3>3 DEF Service!Next
  <2>3. CASE ~(OwnedBy(w, a) /\ status[a] = "running")
    <3>1. TrustedLeases' = TrustedLeases \ {<<w, a>>}
      BY <1>0, <1>4, <2>3, TrustAfterHold DEF RenewLease
    <3>2. Service!Lapse
      BY <2>1, <3>1 DEF Service!Lapse
    <3>. QED  BY <3>2 DEF Service!Next
  <2>. QED  BY <2>2, <2>3
<1>5. ASSUME NEW w \in Workers, NEW a \in Attempts,
             NEW newStatus \in {"succeeded", "queued", "failed"},
             NEW delay \in 0 .. MaxDelay, EndLease(w, a, newStatus, delay)
      PROVE  Service!Next
  <2>1. TrustedLeases' = TrustedLeases \ {<<w, a>>}
    BY <1>0, <1>5, TrustAfterHold DEF EndLease
  <2>2. CASE OwnedBy(w, a)
    <3>1. status' = [status EXCEPT ![a] = newStatus]
      BY <1>5, <2>2 DEF EndLease
    <3>2. a \notin EndedAttempts
      BY <1>5, <2>2 DEF EndLease, OwnedBy, EndedAttempts, QInv, RunningIsLeased, InterruptedIsDropped
    <3>3. CASE newStatus = "queued"
      <4>1. EndedAttempts' = EndedAttempts
        BY <1>0, <3>1, <3>2, <3>3 DEF EndedAttempts, TypeOK
      <4>2. Service!Lapse
        BY <2>1, <4>1 DEF Service!Lapse
      <4>. QED  BY <4>2 DEF Service!Next
    <3>4. CASE newStatus # "queued"
      <4>1. EndedAttempts' = EndedAttempts \cup {a}
        BY <1>0, <3>1, <3>4 DEF EndedAttempts, TypeOK
      <4>2. Service!End(w, a)
        BY <2>1, <2>2, <3>2, <4>1, OwnerIsFree DEF OwnedBy, Service!End
      <4>. QED  BY <4>2 DEF Service!Next
    <3>. QED  BY <3>3, <3>4
  <2>3. CASE ~OwnedBy(w, a)
    <3>1. EndedAttempts' = EndedAttempts
      BY <1>5, <2>3 DEF EndLease, EndedAttempts
    <3>2. Service!Lapse
      BY <2>1, <3>1 DEF Service!Lapse
    <3>. QED  BY <3>2 DEF Service!Next
  <2>. QED  BY <2>2, <2>3
<1>6. ASSUME NEW w \in Workers, NEW a \in Attempts, Complete(w, a) \/ Release(w, a)
      PROVE  Service!Next
  BY <1>0, <1>5, <1>6 DEF Complete, Release, TypeOK
<1>7. ASSUME NEW w \in Workers, NEW a \in Attempts, NEW retryAfter \in 0 .. MaxDelay,
             Fail(w, a, retryAfter)
      PROVE  Service!Next
  BY <1>5, <1>7 DEF Fail
<1>8. CASE SelectExpired
  BY <1>8 DEF SelectExpired, TrustedLeases, EndedAttempts, Trusts
<1>9. ASSUME NEW a \in Attempts, ReleaseExpired(a)
      PROVE  UNCHANGED Service!vars
  <2>1. status[a] = "running" /\ status' = [status EXCEPT ![a] = "queued"]
    BY <1>9 DEF ReleaseExpired, QInv, RecoveringIsExpired
  <2>2. EndedAttempts' = EndedAttempts
    BY <1>0, <2>1 DEF EndedAttempts, TypeOK
  <2>. QED  BY <1>9, <2>2 DEF ReleaseExpired, TrustedLeases, Trusts
<1>10. CASE Tick
  <2>1. EndedAttempts' = EndedAttempts
    BY <1>10 DEF Tick, EndedAttempts
  <2>2. \A w \in Workers, a \in Attempts : Trusts(w, a)' => Trusts(w, a)
    BY <1>10 DEF Tick, Trusts, CountDown
  <2>3. Service!Lapse
    BY <2>1, <2>2 DEF Service!Lapse, TrustedLeases
  <2>. QED  BY <2>3 DEF Service!Next
<1>11. CASE Restart
  <2>1. TrustedLeases' = {}
    BY <1>11 DEF Restart, TrustedLeases, Trusts
  <2>2. EndedAttempts \subseteq EndedAttempts' /\ EndedAttempts' \subseteq Attempts
    BY <1>11 DEF Restart, EndedAttempts
  <2>3. Service!Interrupt
    BY <2>1, <2>2 DEF Service!Interrupt
  <2>. QED  BY <2>3 DEF Service!Next
<1>. QED  BY <1>1, <1>2, <1>3, <1>4, <1>6, <1>7, <1>8, <1>9, <1>10, <1>11 DEF Next

(* The queue implements LeaseService, for any workers, attempts and lease. *)
THEOREM ServiceIsKept == Spec => LeasesAreKept
<1>1. QInv /\ [Next]_vars => [Service!Next]_(Service!vars)
  BY ServiceStep
<1>. QED  BY ServiceInit, <1>1, QueueInvariance, PTL DEF Spec, LeasesAreKept, Service!Spec
=============================================================================
