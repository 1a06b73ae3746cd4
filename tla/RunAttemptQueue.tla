--------------------------- MODULE RunAttemptQueue ---------------------------
(***************************************************************************)
(* The execution queue of src/core/runtime: RunAttemptQueue and the lease  *)
(* columns of run_attempts.  Workers claim queued attempts under a lease,  *)
(* renew it, and complete, fail or release what they hold; a lease that    *)
(* expired is released by any worker.                                      *)
(*                                                                         *)
(* Each operation is one statement or one transaction of the store, hence  *)
(* one action, but for recoverExpiredLeases(), which releases the rows it  *)
(* selected one by one.  Time is kept as what is left of it: Tick counts   *)
(* down leases and retry delays, so the clock itself needs no bound.       *)
(*                                                                         *)
(* External: the workers.  Nothing in src/ drives the queue; they call it  *)
(* as its tests do, for attempts a claim returned to them.                 *)
(***************************************************************************)
EXTENDS Naturals

CONSTANTS
  Attempts,   \* run attempt ids, each enqueued once
  Workers,    \* the workerId of each queue object
  Lease,      \* leaseDurationMs, in ticks
  MaxDelay,   \* longest delay asked for by enqueue() and fail(), in ticks
  None        \* null

ASSUME QueueAssumption ==
  /\ Lease \in Nat \ {0}
  /\ MaxDelay \in Nat
  /\ None \notin Workers /\ None \notin 0 .. Lease

Statuses == {"absent", "queued", "running", "succeeded", "failed", "interrupted"}

VARIABLES
  status,      \* run_attempts.status
  owner,       \* lease_owner
  left,        \* lease_expires_at - now; 0 once it passed, None for null
  wait,        \* next_run_at - now; 0 once it passed or for null
  created,     \* created_at, as the number of ticks that followed an enqueue
  clock,       \* the created_at of an attempt enqueued now
  recovering,  \* rows recoverExpiredLeases() has selected and not yet released
  held         \* of each worker: attempts it claimed, and the lease it knows of

rows == <<status, owner, left, wait, created>>
vars == <<rows, clock, recovering, held>>

Leases == 0 .. Lease

Init ==
  /\ status = [a \in Attempts |-> "absent"]
  /\ owner = [a \in Attempts |-> None]
  /\ left = [a \in Attempts |-> None]
  /\ wait = [a \in Attempts |-> 0]
  /\ created = [a \in Attempts |-> 0]
  /\ clock = 0
  /\ recovering = {}
  /\ held = [w \in Workers |-> [a \in Attempts |-> None]]

(* The process runs one operation at a time. *)
Free == recovering = {}

(* What a worker makes of an answer: a lease to work under, or nothing. *)
Hold(w, a, lease) == held' = [held EXCEPT ![w][a] = lease]

-----------------------------------------------------------------------------
Enqueue(a, delay) ==
  /\ Free
  /\ status[a] = "absent"
  /\ status' = [status EXCEPT ![a] = "queued"]
  /\ wait' = [wait EXCEPT ![a] = delay]
  /\ created' = [created EXCEPT ![a] = clock]
  /\ UNCHANGED <<owner, left, clock, recovering, held>>

(* Rows claimNextAttempt may pick: due, and under no lease that still runs. *)
Due(a) ==
  /\ status[a] = "queued"
  /\ wait[a] = 0
  /\ left[a] \in {None, 0}

(* The oldest of them, any of those created at the same time. *)
ClaimNext(w, a) ==
  /\ Free
  /\ Due(a)
  /\ \A b \in Attempts : Due(b) => created[a] <= created[b]
  /\ status' = [status EXCEPT ![a] = "running"]
  /\ owner' = [owner EXCEPT ![a] = w]
  /\ left' = [left EXCEPT ![a] = Lease]
  /\ Hold(w, a, Lease)
  /\ UNCHANGED <<wait, created, clock, recovering>>

(* The where clause of the writes below. *)
OwnedBy(w, a) == owner[a] = w

(* A worker told false knows that its lease is gone. *)
RenewLease(w, a) ==
  /\ Free
  /\ held[w][a] # None
  /\ IF OwnedBy(w, a) /\ status[a] = "running"
     THEN left' = [left EXCEPT ![a] = Lease] /\ Hold(w, a, Lease)
     ELSE Hold(w, a, None) /\ UNCHANGED left
  /\ UNCHANGED <<status, owner, wait, created, clock, recovering>>

(* Mutant: where id = ?, without the owner. *)
EndLeaseUnchecked(w, a, newStatus, delay) ==
  /\ Free
  /\ held[w][a] # None
  /\ status' = [status EXCEPT ![a] = newStatus]
  /\ owner' = [owner EXCEPT ![a] = None]
  /\ left' = [left EXCEPT ![a] = None]
  /\ wait' = [wait EXCEPT ![a] = delay]
  /\ Hold(w, a, None)
  /\ UNCHANGED <<created, clock, recovering>>

(* A write that ends the lease of w, if it is w's; the worker drops the     *)
(* attempt in any case, since the answer does not tell.                     *)
EndLease(w, a, newStatus, delay) ==
  /\ Free
  /\ held[w][a] # None
  /\ IF OwnedBy(w, a)
     THEN /\ status' = [status EXCEPT ![a] = newStatus]
          /\ owner' = [owner EXCEPT ![a] = None]
          /\ left' = [left EXCEPT ![a] = None]
          /\ wait' = [wait EXCEPT ![a] = delay]
     ELSE UNCHANGED <<status, owner, left, wait>>
  /\ Hold(w, a, None)
  /\ UNCHANGED <<created, clock, recovering>>

Complete(w, a) == EndLease(w, a, "succeeded", wait[a])

(* fail(): without a retry delay the failure is final. *)
Fail(w, a, retryAfter) ==
  EndLease(w, a, IF retryAfter > 0 THEN "queued" ELSE "failed", retryAfter)

Release(w, a) == EndLease(w, a, "queued", wait[a])

-----------------------------------------------------------------------------
(* Mutant: the last tick of a lease is taken for expired. *)
AlmostExpired == {a \in Attempts : status[a] = "running" /\ left[a] \in {0, 1}}

(* recoverExpiredLeases(): getExpiredLeases() ... *)
Expired == {a \in Attempts : status[a] = "running" /\ left[a] = 0}

SelectExpired ==
  /\ Free
  /\ Expired # {}
  /\ recovering' = Expired
  /\ UNCHANGED <<rows, clock, held>>

(* ... and releaseAttempt() for each of them. *)
ReleaseExpired(a) ==
  /\ a \in recovering
  /\ recovering' = recovering \ {a}
  /\ status' = [status EXCEPT ![a] = "queued"]
  /\ owner' = [owner EXCEPT ![a] = None]
  /\ left' = [left EXCEPT ![a] = None]
  /\ UNCHANGED <<wait, created, clock, held>>

CountDown(t) == IF t \in {None, 0} THEN t ELSE t - 1

(* Time passes; the clock only counts where created_at would differ. *)
Tick ==
  /\ Free
  /\ left' = [a \in Attempts |-> CountDown(left[a])]
  /\ wait' = [a \in Attempts |-> CountDown(wait[a])]
  /\ held' = [w \in Workers |-> [a \in Attempts |-> CountDown(held[w][a])]]
  /\ clock' = IF \E a \in Attempts : status[a] # "absent" /\ created[a] = clock
              THEN clock + 1 ELSE clock
  /\ UNCHANGED <<status, owner, created, recovering>>

(***************************************************************************)
(* The process dies and boots: its workers forget what they held, and      *)
(* markRunningAttemptsInterrupted() ends every running attempt, leaving    *)
(* the lease columns.                                                      *)
(***************************************************************************)
Restart ==
  /\ status' = [a \in Attempts |-> IF status[a] = "running" THEN "interrupted" ELSE status[a]]
  /\ held' = [w \in Workers |-> [a \in Attempts |-> None]]
  /\ recovering' = {}
  /\ UNCHANGED <<owner, left, wait, created, clock>>

Next ==
  \/ \E a \in Attempts : \E delay \in 0 .. MaxDelay : Enqueue(a, delay)
  \/ \E w \in Workers, a \in Attempts :
       \/ ClaimNext(w, a) \/ RenewLease(w, a) \/ Complete(w, a) \/ Release(w, a)
       \/ \E retryAfter \in 0 .. MaxDelay : Fail(w, a, retryAfter)
  \/ SelectExpired
  \/ \E a \in Attempts : ReleaseExpired(a)
  \/ Tick
  \/ Restart

Spec == Init /\ [][Next]_vars

-----------------------------------------------------------------------------
(* Rows, leases and workers are in states the code knows. *)
TypeOK ==
  /\ status \in [Attempts -> Statuses]
  /\ owner \in [Attempts -> Workers \cup {None}]
  /\ left \in [Attempts -> Leases \cup {None}]
  /\ wait \in [Attempts -> 0 .. MaxDelay]
  /\ created \in [Attempts -> Nat] /\ clock \in Nat
  /\ recovering \in SUBSET Attempts
  /\ held \in [Workers -> [Attempts -> Leases \cup {None}]]

(* w has been told of a lease on a, and by its own clock the lease runs. *)
Trusts(w, a) == held[w][a] \notin {None, 0}

(***************************************************************************)
(* Two workers never both trust a lease on one attempt, however claims,    *)
(* renewals, late answers, recoveries and restarts interleave.             *)
(***************************************************************************)
LeaseExclusive ==
  \A v, w \in Workers, a \in Attempts : Trusts(v, a) /\ Trusts(w, a) => v = w

(***************************************************************************)
(* An attempt that runs can be recovered: it has an owner and a lease that *)
(* will expire.  An attempt that waits or has ended is leased to nobody.   *)
(***************************************************************************)
RunningIsLeased ==
  \A a \in Attempts :
    /\ status[a] = "running" => owner[a] # None /\ left[a] # None
    /\ status[a] \notin {"running", "interrupted"} => owner[a] = None /\ left[a] = None

(***************************************************************************)
(* Nobody but its owner ends a lease that still runs: neither the recovery *)
(* nor a late complete(), fail() or release() of an earlier owner.         *)
(***************************************************************************)
LeaseIsRespected ==
  [][\A w \in Workers, a \in Attempts :
       status[a] = "running" /\ owner[a] = w /\ Trusts(w, a) =>
         \/ status'[a] = "running" /\ owner'[a] = w
         \/ ~Trusts(w, a)']_vars

(* An attempt that ended is neither retried nor ended otherwise. *)
EndIsFinal ==
  [][\A a \in Attempts :
       status[a] \in {"succeeded", "failed", "interrupted"} => status'[a] = status[a]]_vars

(***************************************************************************)
(* The queue implements LeaseService: a lease is trusted as long as its    *)
(* worker has reason to, and the ends of attempts are final.               *)
(***************************************************************************)
TrustedLeases == {p \in Workers \X Attempts : Trusts(p[1], p[2])}
EndedAttempts == {a \in Attempts : status[a] \in {"succeeded", "failed", "interrupted"}}

Service == INSTANCE LeaseService WITH trusted <- TrustedLeases, over <- EndedAttempts

LeasesAreKept == Service!Spec
=============================================================================
