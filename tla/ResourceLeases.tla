--------------------------- MODULE ResourceLeases ---------------------------
(***************************************************************************)
(* Leases on machine-wide resources ("git:identity", "host:heavy-job") that *)
(* the sessions of a team claim before a heavy or exclusive job: the table *)
(* resource_leases of supervisor/db/index.js, the supervisor operations    *)
(* acquireLease / releaseLease / renewLease, the resources.json file that   *)
(* declares each resource's policy, and the run rows a lease can be bound  *)
(* to.                                                                     *)
(*                                                                         *)
(* Every operation is one SQLite transaction (or one conditional UPDATE),  *)
(* run synchronously, so it is one action.  A timestamp is abstracted to   *)
(* the time left until it: the code only ever compares ttl_expires_at with *)
(* "now", so a lease row carries the ticks it has left, -1 once expired.   *)
(* The wall clock is assumed not to run backwards.                         *)
(***************************************************************************)
EXTENDS Integers, FiniteSets

CONSTANTS
    Leases,      \* lease ids (crypto.randomUUID in the code)
    Resources,   \* names a resources.json can declare
    Policies,    \* the policies it can declare, [kind, capacity]
    Principals,  \* authenticated callers
    Workers,     \* the principals that carry a workerId
    Runs,        \* run ids
    RunOwner,    \* the worker principal that owns each run
    MaxTtl,      \* bound: the longest lease, in ticks (MAX_LEASE_TTL_MS)
    Free,        \* "no row with this id yet"
    NoPolicy,    \* the resource is not declared
    NoRun        \* holder_run_id NULL

Row == [resource : Resources, policy : [kind : {"exclusive", "counted"}, capacity : Nat],
        holder : Principals, run : Runs \cup {NoRun}, left : -1..MaxTtl,
        released : {"no", "released", "run-ended", "lost", "expired-swept"}]

ASSUME PoliciesAssumption ==
    /\ Policies \subseteq [kind : {"exclusive", "counted"}, capacity : Nat]
    /\ \A p \in Policies : p.kind = "counted" => p.capacity > 0
    /\ NoPolicy \notin [kind : {"exclusive", "counted"}, capacity : Nat]

ASSUME IdentityAssumption ==
    /\ Workers \subseteq Principals
    /\ RunOwner \in [Runs -> Workers]
    /\ NoRun \notin Runs
    /\ Free \notin Row

ASSUME BoundsAssumption == MaxTtl \in Nat \ {0} /\ IsFiniteSet(Leases)

VARIABLES
    rows,      \* resource_leases
    runs,      \* the ended_at column of runs: "none" before createRun
    declared   \* what resources.json says now; it is read on every acquire

vars == <<rows, runs, declared>>

TypeOK ==
    /\ rows \in [Leases -> Row \cup {Free}]
    /\ runs \in [Runs -> {"none", "open", "ended"}]
    /\ declared \in [Resources -> Policies \cup {NoPolicy}]

-----------------------------------------------------------------------------
Unreleased(l) == rows[l] # Free /\ rows[l].released = "no"

\* released_at IS NULL AND ttl_expires_at >= now
Active(l) == Unreleased(l) /\ rows[l].left >= 0

ActiveOn(r) == {l \in Leases : Active(l) /\ rows[l].resource = r}

\* A capacity is only stored for a counted resource; 0 stands for NULL.
Stored(p) == [kind |-> p.kind, capacity |-> IF p.kind = "counted" THEN p.capacity ELSE 0]

Limit(p) == IF p.kind = "exclusive" THEN 1 ELSE p.capacity

PolicyConflictIgnored(r, p) == FALSE
PolicyConflict(r, p) == \E l \in ActiveOn(r) : rows[l].policy # p

HasRoomOffByOne(r, p) == Cardinality(ActiveOn(r)) <= Limit(p)
HasRoom(r, p) == Cardinality(ActiveOn(r)) < Limit(p)

RunAcceptsUnchecked(run) == TRUE
RunAccepts(run) == run # NoRun => runs[run] # "ended"

\* supervisor.acquireLease: a worker may only name its own run.
MayNameAnyRun(p, run) == TRUE
MayName(p, run) == run \in Runs /\ p \in Workers => RunOwner[run] = p

Release(S, reason) ==
    rows' = [l \in Leases |-> IF l \in S THEN [rows[l] EXCEPT !.released = reason] ELSE rows[l]]

-----------------------------------------------------------------------------
Init ==
    /\ rows = [l \in Leases |-> Free]
    /\ runs = [r \in Runs |-> "none"]
    /\ declared = [r \in Resources |-> NoPolicy]

(* A human edits resources.json; nothing else reads or caches it. *)
Redeclare(r, p) ==
    /\ declared' = [declared EXCEPT ![r] = p]
    /\ UNCHANGED <<rows, runs>>

(* acquireLease and tryAcquireLease.  A refusal changes nothing, so each    *)
(* early return is a conjunct of the guard; the memory-pressure refusal of  *)
(* "host:heavy-job" is the action not being taken.                          *)
AcquireLease(p, l, r, run, ttl) ==
    /\ rows[l] = Free
    /\ run \in Runs => runs[run] # "none"
    /\ MayName(p, run)
    /\ declared[r] # NoPolicy
    /\ RunAccepts(run)
    /\ ~PolicyConflict(r, declared[r])
    /\ HasRoom(r, declared[r])
    /\ rows' = [rows EXCEPT ![l] = [resource |-> r, policy |-> Stored(declared[r]),
                                    holder |-> p, run |-> run, left |-> ttl,
                                    released |-> "no"]]
    /\ UNCHANGED <<runs, declared>>

(* releaseLease and releaseLeaseRow. *)
ReleaseLease(p, l) ==
    /\ Unreleased(l)
    /\ rows[l].holder = p
    /\ Release({l}, "released")
    /\ UNCHANGED <<runs, declared>>

(* renewLease and renewLeaseRow: an expired lease is never renewed. *)
RenewLeaseEvenExpired(p, l, ttl) ==
    /\ Unreleased(l)
    /\ rows[l].holder = p
    /\ rows' = [rows EXCEPT ![l].left = ttl]
    /\ UNCHANGED <<runs, declared>>

RenewLease(p, l, ttl) ==
    /\ Active(l)
    /\ rows[l].holder = p
    /\ rows' = [rows EXCEPT ![l].left = ttl]
    /\ UNCHANGED <<runs, declared>>

(* sweepExpiredLeases, at boot and from the supervisor's timer. *)
ExpiredWithoutRun == {l \in Leases : Unreleased(l) /\ rows[l].left < 0 /\ rows[l].run = NoRun}
Expired == {l \in Leases : Unreleased(l) /\ rows[l].left < 0}

SweepLeases ==
    /\ Expired # {}
    /\ Release(Expired, "expired-swept")
    /\ UNCHANGED <<runs, declared>>

(* The row of a session; its own life is another module's subject. *)
CreateRun(r) ==
    /\ runs[r] = "none"
    /\ runs' = [runs EXCEPT ![r] = "open"]
    /\ UNCHANGED <<rows, declared>>

LeasesOf(r) == {l \in Leases : Unreleased(l) /\ rows[l].run = r}

(* endRun: the first writer closes the row and, in the same transaction,    *)
(* releases the leases of the run.                                          *)
EndRun(r) ==
    /\ runs[r] = "open"
    /\ runs' = [runs EXCEPT ![r] = "ended"]
    /\ Release(LeasesOf(r), "run-ended")
    /\ UNCHANGED declared

(* reconcileRun: the boot sweep's own terminal write, same transaction.     *)
ReconcileRun(r) ==
    /\ runs[r] = "open"
    /\ runs' = [runs EXCEPT ![r] = "ended"]
    /\ Release(LeasesOf(r), "lost")
    /\ UNCHANGED declared

(* reopenRun: a resumed run is open again; its old leases stay released.    *)
ReopenRun(r) ==
    /\ runs[r] = "ended"
    /\ runs' = [runs EXCEPT ![r] = "open"]
    /\ UNCHANGED <<rows, declared>>

(* Time passes. *)
Tick ==
    /\ rows' = [l \in Leases |-> IF Active(l) THEN [rows[l] EXCEPT !.left = @ - 1] ELSE rows[l]]
    /\ UNCHANGED <<runs, declared>>

Next ==
    \/ \E r \in Resources, p \in Policies \cup {NoPolicy} : Redeclare(r, p)
    \/ \E p \in Principals, l \in Leases, r \in Resources, run \in Runs \cup {NoRun}, ttl \in 1..MaxTtl :
          AcquireLease(p, l, r, run, ttl)
    \/ \E p \in Principals, l \in Leases : ReleaseLease(p, l)
    \/ \E p \in Principals, l \in Leases, ttl \in 1..MaxTtl : RenewLease(p, l, ttl)
    \/ SweepLeases
    \/ \E r \in Runs : CreateRun(r) \/ EndRun(r) \/ ReconcileRun(r) \/ ReopenRun(r)
    \/ Tick

Spec == Init /\ [][Next]_vars

(* Time passes and the supervisor's timer keeps firing. *)
FairSpec == Spec /\ WF_vars(Tick) /\ WF_vars(SweepLeases)

-----------------------------------------------------------------------------
(* Every active lease of a resource was admitted under the same policy,    *)
(* even across an edit of resources.json, and there are never more of them *)
(* than that policy allows (one, for an exclusive resource).               *)
SamePolicy ==
    \A l, m \in Leases :
        Active(l) /\ Active(m) /\ rows[l].resource = rows[m].resource
            => rows[l].policy = rows[m].policy

WithinLimit ==
    \A l \in Leases :
        Active(l) => Cardinality(ActiveOn(rows[l].resource)) <= Limit(rows[l].policy)

(* A lease bound to a run does not outlive it: whatever ended the run, and *)
(* however it was later resumed, an unreleased lease names an open run.    *)
HeldByOpenRun ==
    \A l \in Leases : Unreleased(l) /\ rows[l].run # NoRun => runs[rows[l].run] = "open"

(* A lease that stopped protecting its resource never does so again: not   *)
(* by a late renewal, not because its run is resumed.                      *)
NoRevival == [][\A l \in Leases : rows[l] # Free /\ ~Active(l) => ~Active(l)']_vars

(* A lease in force is lost only to its holder's own release, to its term  *)
(* running out, or to the end of its run, which for a worker is its own.   *)
LossIsAccountedFor ==
    [][\A l \in Leases : Active(l) /\ ~Active(l)' =>
          \/ rows'[l].released = "released"
          \/ rows'[l].released = "no" /\ rows[l].left = 0
          \/ /\ rows'[l].released \in {"run-ended", "lost"}
             /\ rows[l].run # NoRun /\ runs'[rows[l].run] = "ended"
             /\ rows[l].holder \in Workers => RunOwner[rows[l].run] = rows[l].holder]_vars

(* A holder that stops renewing (a killed session, say) does not keep its  *)
(* lease: the row is released unless it is renewed for ever.               *)
DeadHolderIsSwept ==
    \A l \in Leases :
        \/ []<>~Unreleased(l)
        \/ []<><<\E p \in Principals, ttl \in 1..MaxTtl : RenewLease(p, l, ttl)>>_vars

-----------------------------------------------------------------------------
(* The table seen as an arbiter: a claim holds its resource while its      *)
(* lease is in force, under the policy stored in its row.                  *)
StoredPolicies == {Stored(p) : p \in Policies}

PolicyOf(l) == IF rows[l] = Free THEN NoPolicy ELSE rows[l].policy

Arbiter == INSTANCE ResourceArbiter WITH
    Claims <- Leases,
    Terms <- StoredPolicies,
    None <- NoPolicy,
    holders <- [r \in Resources |-> ActiveOn(r)],
    terms <- [l \in Leases |-> PolicyOf(l)]

(* Expiry, sweeps, renewals, edits of resources.json, runs that end and    *)
(* runs that are resumed never make the table admit what an arbiter that   *)
(* knows none of them would refuse.                                        *)
ImplementsArbiter == Arbiter!Spec
=============================================================================
