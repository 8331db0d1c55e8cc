----------------------- MODULE ResourceLeases_proofs -----------------------
(***************************************************************************)
(* Proofs, for any sets of leases, resources, policies, principals and     *)
(* runs and any longest term, that the lease table keeps its exclusion     *)
(* promises and that it implements ResourceArbiter.                        *)
(***************************************************************************)
EXTENDS ResourceLeases, FiniteSetTheorems, TLAPS

(* What a row carries is a policy as the table stores it. *)
PolicyIsStored == \A l \in Leases : rows[l] # Free => rows[l].policy \in StoredPolicies

IInv == TypeOK /\ PolicyIsStored /\ SamePolicy /\ WithinLimit /\ HeldByOpenRun

-----------------------------------------------------------------------------
(* A policy that agrees with a stored one is stored unchanged. *)
LEMMA StoredIsStable ==
    ASSUME NEW p \in Policies, p \in StoredPolicies
    PROVE  Stored(p) = p
  BY PoliciesAssumption DEF StoredPolicies, Stored

LEMMA StoredType ==
    ASSUME NEW p \in Policies
    PROVE  /\ Stored(p) \in [kind : {"exclusive", "counted"}, capacity : Nat]
           /\ Stored(p) \in StoredPolicies
           /\ Limit(Stored(p)) = Limit(p)
           /\ Limit(p) \in Nat
  BY PoliciesAssumption DEF StoredPolicies, Stored, Limit

(* An edit of a row that touches only its release or its remaining term    *)
(* leaves a row.                                                           *)
LEMMA RowEdits ==
    ASSUME NEW row \in Row
    PROVE  /\ \A reason \in {"released", "run-ended", "lost", "expired-swept"} :
                 [row EXCEPT !.released = reason] \in Row
           /\ \A n \in -1..MaxTtl : [row EXCEPT !.left = n] \in Row
  BY DEF Row

(* The part of the invariant about active leases survives any step in      *)
(* which no lease becomes active and none changes resource or policy.      *)
LEMMA Shrinking ==
    ASSUME TypeOK, SamePolicy, WithinLimit,
           \A l \in Leases : Active(l)' =>
               /\ Active(l)
               /\ rows'[l].resource = rows[l].resource
               /\ rows'[l].policy = rows[l].policy
    PROVE  SamePolicy' /\ WithinLimit'
<1>1. SamePolicy'
  BY DEF SamePolicy
<1>2. ASSUME NEW l \in Leases, Active(l)', NEW r, r = rows'[l].resource
      PROVE  Cardinality(ActiveOn(r)') <= Limit(rows'[l].policy)
  <2>1. ActiveOn(r)' \subseteq ActiveOn(r) /\ ActiveOn(r) \subseteq Leases
    BY DEF ActiveOn
  <2>2. IsFiniteSet(ActiveOn(r)) /\ IsFiniteSet(ActiveOn(r)')
    BY <2>1, BoundsAssumption, FS_Subset
  <2>3. /\ Cardinality(ActiveOn(r)') <= Cardinality(ActiveOn(r))
        /\ Cardinality(ActiveOn(r)') \in Nat /\ Cardinality(ActiveOn(r)) \in Nat
    BY <2>1, <2>2, FS_Subset, FS_CardinalityType
  <2>4. /\ Cardinality(ActiveOn(r)) <= Limit(rows[l].policy)
        /\ Limit(rows'[l].policy) = Limit(rows[l].policy)
    BY <1>2 DEF WithinLimit, Limit
  <2>5. Limit(rows[l].policy) \in Nat
    BY <1>2 DEF TypeOK, Row, Limit, Active, Unreleased
  <2> QED
    BY <2>3, <2>4, <2>5
<1>3. WithinLimit'
  BY <1>2 DEF WithinLimit, ActiveOn, Active, Unreleased
<1> QED
  BY <1>1, <1>3

-----------------------------------------------------------------------------
LEMMA InitHolds == Init => IInv
<1> SUFFICES ASSUME Init PROVE IInv
  OBVIOUS
<1>1. TypeOK
  BY DEF Init, TypeOK
<1>2. \A l \in Leases : ~Unreleased(l) /\ rows[l] = Free
  BY DEF Init, Unreleased
<1> QED
  BY <1>1, <1>2 DEF IInv, PolicyIsStored, SamePolicy, WithinLimit, HeldByOpenRun, Active

LEMMA TypePreserved == TypeOK /\ [Next]_vars => TypeOK'
<1> SUFFICES ASSUME TypeOK, [Next]_vars PROVE TypeOK'
  OBVIOUS
<1>1. ASSUME NEW r \in Resources, NEW p \in Policies \cup {NoPolicy}, Redeclare(r, p)
      PROVE  TypeOK'
  BY <1>1 DEF TypeOK, Redeclare
<1>2. ASSUME NEW p \in Principals, NEW l \in Leases, NEW r \in Resources,
             NEW run \in Runs \cup {NoRun}, NEW ttl \in 1..MaxTtl,
             AcquireLease(p, l, r, run, ttl)
      PROVE  TypeOK'
  <2>1. declared[r] \in Policies
    BY <1>2 DEF AcquireLease, TypeOK
  <2>2. [resource |-> r, policy |-> Stored(declared[r]), holder |-> p, run |-> run,
         left |-> ttl, released |-> "no"] \in Row
    BY <2>1, StoredType, BoundsAssumption DEF Row
  <2> QED
    BY <1>2, <2>2 DEF AcquireLease, TypeOK
<1>3. ASSUME NEW S \in SUBSET Leases, \A l \in S : Unreleased(l),
             NEW reason \in {"released", "run-ended", "lost", "expired-swept"},
             Release(S, reason)
      PROVE  rows' \in [Leases -> Row \cup {Free}]
  <2>1. \A l \in S : [rows[l] EXCEPT !.released = reason] \in Row
    BY <1>3, RowEdits DEF TypeOK, Unreleased
  <2> QED
    BY <1>3, <2>1 DEF Release, TypeOK
<1>4. ASSUME NEW p \in Principals, NEW l \in Leases, ReleaseLease(p, l)
      PROVE  TypeOK'
  BY <1>3, <1>4 DEF ReleaseLease, TypeOK
<1>5. ASSUME NEW p \in Principals, NEW l \in Leases, NEW ttl \in 1..MaxTtl,
             RenewLease(p, l, ttl)
      PROVE  TypeOK'
  <2>1. rows[l] \in Row /\ ttl \in -1..MaxTtl
    BY <1>5, BoundsAssumption DEF RenewLease, Active, Unreleased, TypeOK
  <2>2. [rows[l] EXCEPT !.left = ttl] \in Row
    BY <2>1, RowEdits
  <2> QED
    BY <1>5, <2>2 DEF RenewLease, TypeOK
<1>6. CASE SweepLeases
  BY <1>3, <1>6 DEF SweepLeases, Expired, TypeOK
<1>7. ASSUME NEW r \in Runs, CreateRun(r) \/ ReopenRun(r)
      PROVE  TypeOK'
  BY <1>7 DEF CreateRun, ReopenRun, TypeOK
<1>8. ASSUME NEW r \in Runs, EndRun(r) \/ ReconcileRun(r)
      PROVE  TypeOK'
  <2>1. rows' \in [Leases -> Row \cup {Free}]
    BY <1>3, <1>8 DEF EndRun, ReconcileRun, LeasesOf
  <2> QED
    BY <1>8, <2>1 DEF EndRun, ReconcileRun, TypeOK
<1>9. CASE Tick
  <2>1. ASSUME NEW l \in Leases, Active(l)
        PROVE  [rows[l] EXCEPT !.left = @ - 1] \in Row
    <3>1. rows[l] \in Row /\ rows[l].left - 1 \in -1..MaxTtl
      BY <2>1, BoundsAssumption DEF Active, Unreleased, TypeOK, Row
    <3> QED
      BY <3>1, RowEdits
  <2> QED
    BY <1>9, <2>1 DEF Tick, TypeOK
<1>10. CASE UNCHANGED vars
  BY <1>10 DEF vars, TypeOK
<1> QED
  BY <1>1, <1>2, <1>4, <1>5, <1>6, <1>7, <1>8, <1>9, <1>10 DEF Next

-----------------------------------------------------------------------------
(* Every step but an acquire. *)
Other ==
    \/ \E r \in Resources, p \in Policies \cup {NoPolicy} : Redeclare(r, p)
    \/ \E p \in Principals, l \in Leases : ReleaseLease(p, l)
    \/ \E p \in Principals, l \in Leases, ttl \in 1..MaxTtl : RenewLease(p, l, ttl)
    \/ SweepLeases
    \/ \E r \in Runs : CreateRun(r) \/ EndRun(r) \/ ReconcileRun(r) \/ ReopenRun(r)
    \/ Tick
    \/ UNCHANGED vars

(* No such step puts a lease in force, frees a row or changes what it says *)
(* of its resource, its policy or its run.                                 *)
LEMMA OtherAdmitsNothing ==
    ASSUME TypeOK, Other, NEW l \in Leases
    PROVE  /\ rows[l] = Free <=> rows'[l] = Free
           /\ Unreleased(l)' => Unreleased(l)
           /\ Active(l)' => Active(l)
           /\ rows[l] # Free => /\ rows'[l].resource = rows[l].resource
                                /\ rows'[l].policy = rows[l].policy
                                /\ rows'[l].run = rows[l].run
<1> DEFINE Goal ==
      /\ rows[l] = Free <=> rows'[l] = Free
      /\ Unreleased(l)' => Unreleased(l)
      /\ Active(l)' => Active(l)
      /\ rows[l] # Free => /\ rows'[l].resource = rows[l].resource
                           /\ rows'[l].policy = rows[l].policy
                           /\ rows'[l].run = rows[l].run
<1>1. CASE rows'[l] = rows[l]
  BY <1>1 DEF Active, Unreleased
<1>2. ASSUME rows[l] # Free,
             NEW reason \in {"released", "run-ended", "lost", "expired-swept"},
             rows'[l] = [rows[l] EXCEPT !.released = reason]
      PROVE  Goal
  <2>1. rows[l] \in Row
    BY <1>2 DEF TypeOK
  <2>2. rows'[l] \in Row
    BY <1>2, <2>1, RowEdits
  <2>3. rows'[l] # Free /\ rows'[l].released = reason
    BY <1>2, <2>1, <2>2, IdentityAssumption DEF Row
  <2> QED
    BY <1>2, <2>1, <2>3 DEF Active, Unreleased, Row
<1>3. ASSUME Active(l), NEW n \in -1..MaxTtl,
             rows'[l] = [rows[l] EXCEPT !.left = n]
      PROVE  Goal
  <2>1. rows[l] \in Row
    BY <1>3 DEF TypeOK, Active, Unreleased
  <2>2. rows'[l] \in Row
    BY <1>3, <2>1, RowEdits
  <2> QED
    BY <1>3, <2>1, <2>2, IdentityAssumption DEF Active, Unreleased, Row
<1>4. ASSUME NEW S \in SUBSET Leases, \A m \in S : Unreleased(m),
             NEW reason \in {"released", "run-ended", "lost", "expired-swept"},
             Release(S, reason)
      PROVE  Goal
  <2>1. CASE l \in S
    BY <1>2, <1>4, <2>1 DEF Release, Unreleased
  <2>2. CASE l \notin S
    BY <1>1, <1>4, <2>2 DEF Release
  <2> QED
    BY <2>1, <2>2
<1>5. CASE \E r \in Resources, p \in Policies \cup {NoPolicy} : Redeclare(r, p)
  BY <1>1, <1>5 DEF Redeclare
<1>6. CASE \E p \in Principals, m \in Leases : ReleaseLease(p, m)
  BY <1>4, <1>6 DEF ReleaseLease
<1>7. ASSUME NEW p \in Principals, NEW m \in Leases, NEW ttl \in 1..MaxTtl,
             RenewLease(p, m, ttl)
      PROVE  Goal
  <2>1. ttl \in -1..MaxTtl
    BY BoundsAssumption
  <2>2. CASE l = m
    BY <1>3, <1>7, <2>1, <2>2 DEF RenewLease, TypeOK
  <2>3. CASE l # m
    BY <1>1, <1>7, <2>3 DEF RenewLease, TypeOK
  <2> QED
    BY <2>2, <2>3
<1>8. CASE SweepLeases
  BY <1>4, <1>8 DEF SweepLeases, Expired
<1>9. ASSUME NEW r \in Runs, CreateRun(r) \/ EndRun(r) \/ ReconcileRun(r) \/ ReopenRun(r)
      PROVE  Goal
  BY <1>1, <1>4, <1>9 DEF CreateRun, EndRun, ReconcileRun, ReopenRun, LeasesOf
<1>10. CASE Tick
  <2>1. CASE Active(l)
    <3>1. rows[l] \in Row
      BY <2>1 DEF Active, Unreleased, TypeOK
    <3>2. rows[l].left - 1 \in -1..MaxTtl
      BY <2>1, <3>1, BoundsAssumption DEF Active, Row
    <3> QED
      BY <1>3, <1>10, <2>1, <3>2 DEF Tick
  <2>2. CASE ~Active(l)
    BY <1>1, <1>10, <2>2 DEF Tick
  <2> QED
    BY <2>1, <2>2
<1>11. CASE UNCHANGED vars
  BY <1>1, <1>11 DEF vars
<1> QED
  BY <1>5, <1>6, <1>7, <1>8, <1>9, <1>10, <1>11 DEF Other

LEMMA NextIsAcquireOrOther ==
    [Next]_vars =>
        \/ \E p \in Principals, l \in Leases, r \in Resources, run \in Runs \cup {NoRun},
              ttl \in 1..MaxTtl : AcquireLease(p, l, r, run, ttl)
        \/ Other
  BY DEF Next, Other

-----------------------------------------------------------------------------
(* What an acquire does to the set of active leases: it adds one to its    *)
(* own resource, under terms everyone there shares and with room to spare. *)
LEMMA AcquireAdmitsOne ==
    ASSUME IInv,
           NEW p \in Principals, NEW l \in Leases, NEW r \in Resources,
           NEW run \in Runs \cup {NoRun}, NEW ttl \in 1..MaxTtl,
           AcquireLease(p, l, r, run, ttl)
    PROVE  /\ declared[r] \in Policies
           /\ rows[l] = Free /\ rows'[l] # Free /\ Unreleased(l)' /\ Active(l)'
           /\ rows'[l].policy = Stored(declared[r])
           /\ rows'[l].resource = r /\ rows'[l].run = run
           /\ \A m \in Leases \ {l} : rows'[m] = rows[m]
           /\ ActiveOn(r)' = ActiveOn(r) \cup {l}
           /\ l \notin ActiveOn(r)
           /\ \A q \in Resources \ {r} : ActiveOn(q)' = ActiveOn(q)
           /\ \A m \in ActiveOn(r) : rows[m].policy = Stored(declared[r])
           /\ Cardinality(ActiveOn(r)) < Limit(Stored(declared[r]))
<1>1. TypeOK /\ PolicyIsStored
  BY DEF IInv
<1>2. declared[r] \in Policies
  BY <1>1 DEF AcquireLease, TypeOK
<1>3. rows[l] = Free /\ \A m \in Leases \ {l} : rows'[m] = rows[m]
  BY <1>1 DEF AcquireLease, TypeOK
<1>4. rows'[l] = [resource |-> r, policy |-> Stored(declared[r]), holder |-> p,
                  run |-> run, left |-> ttl, released |-> "no"]
  BY <1>1 DEF AcquireLease, TypeOK
<1>5. rows'[l] \in Row
  BY <1>2, <1>4, StoredType, BoundsAssumption DEF Row
<1>6. Unreleased(l)' /\ Active(l)' /\ rows'[l] # Free
  BY <1>4, <1>5, IdentityAssumption, BoundsAssumption DEF Active, Unreleased
<1>7. \A m \in Leases \ {l} : Active(m)' <=> Active(m)
  BY <1>3 DEF Active, Unreleased
<1>8. /\ ActiveOn(r)' = ActiveOn(r) \cup {l}
      /\ l \notin ActiveOn(r)
      /\ \A q \in Resources \ {r} : ActiveOn(q)' = ActiveOn(q)
  BY <1>3, <1>4, <1>6, <1>7 DEF ActiveOn, Active, Unreleased
<1>9. \A m \in ActiveOn(r) : rows[m].policy = Stored(declared[r])
  <2>1. SUFFICES ASSUME NEW m \in ActiveOn(r) PROVE rows[m].policy = Stored(declared[r])
    OBVIOUS
  <2>2. rows[m].policy = declared[r]
    BY <2>1 DEF AcquireLease, PolicyConflict
  <2>3. declared[r] \in StoredPolicies
    BY <1>1, <2>1, <2>2 DEF PolicyIsStored, ActiveOn, Active, Unreleased
  <2> QED
    BY <1>2, <2>2, <2>3, StoredIsStable
<1>10. Cardinality(ActiveOn(r)) < Limit(Stored(declared[r]))
  BY <1>2, StoredType DEF AcquireLease, HasRoom
<1> QED
  BY <1>2, <1>3, <1>4, <1>6, <1>8, <1>9, <1>10

LEMMA StepPreserves == IInv /\ [Next]_vars => IInv'
<1> SUFFICES ASSUME IInv, [Next]_vars PROVE IInv'
  OBVIOUS
<1>1. TypeOK /\ TypeOK'
  BY TypePreserved DEF IInv
<1>2. CASE Other
  <2>1. PolicyIsStored'
    BY <1>1, <1>2, OtherAdmitsNothing DEF IInv, PolicyIsStored
  <2>2. SamePolicy' /\ WithinLimit'
    <3>1. \A l \in Leases : Active(l)' =>
             Active(l) /\ rows'[l].resource = rows[l].resource /\ rows'[l].policy = rows[l].policy
      BY <1>1, <1>2, OtherAdmitsNothing DEF Active, Unreleased
    <3> QED
      BY <1>1, <3>1, Shrinking DEF IInv
  <2>3. HeldByOpenRun'
    <3>1. SUFFICES ASSUME NEW l \in Leases, Unreleased(l)', rows'[l].run # NoRun
                   PROVE  runs'[rows'[l].run] = "open"
      BY DEF HeldByOpenRun
    <3>2. Unreleased(l) /\ rows'[l].run = rows[l].run
      BY <1>1, <1>2, <3>1, OtherAdmitsNothing DEF Unreleased
    <3>3. rows[l].run \in Runs /\ runs[rows[l].run] = "open"
      BY <1>1, <3>1, <3>2 DEF IInv, HeldByOpenRun, TypeOK, Row, Unreleased
    <3>4. ASSUME NEW r \in Runs, EndRun(r) \/ ReconcileRun(r)
          PROVE  rows[l].run # r
      <4>1. SUFFICES ASSUME rows[l].run = r PROVE FALSE
        OBVIOUS
      <4>2. l \in LeasesOf(r)
        BY <3>2, <4>1 DEF LeasesOf
      <4>3. rows[l] \in Row
        BY <1>1, <3>2 DEF TypeOK, Unreleased
      <4>4. rows'[l].released # "no"
        BY <3>4, <4>2, <4>3 DEF EndRun, ReconcileRun, Release, Row
      <4> QED
        BY <3>1, <4>4 DEF Unreleased
    <3>5. runs'[rows[l].run] = "open"
      <4>1. CASE UNCHANGED runs
        BY <3>3, <4>1
      <4>2. ASSUME NEW r \in Runs, CreateRun(r) \/ EndRun(r) \/ ReconcileRun(r) \/ ReopenRun(r)
            PROVE  runs'[rows[l].run] = "open"
        <5>1. CASE CreateRun(r) \/ ReopenRun(r)
          BY <1>1, <3>3, <5>1 DEF CreateRun, ReopenRun, TypeOK
        <5>2. CASE EndRun(r) \/ ReconcileRun(r)
          BY <1>1, <3>3, <3>4, <5>2 DEF EndRun, ReconcileRun, TypeOK
        <5> QED
          BY <4>2, <5>1, <5>2
      <4> QED
        BY <1>2, <4>1, <4>2 DEF Other, Redeclare, ReleaseLease, RenewLease, SweepLeases, Tick, vars
    <3> QED
      BY <3>2, <3>5
  <2> QED
    BY <1>1, <2>1, <2>2, <2>3 DEF IInv
<1>3. ASSUME NEW p \in Principals, NEW l \in Leases, NEW r \in Resources,
             NEW run \in Runs \cup {NoRun}, NEW ttl \in 1..MaxTtl,
             AcquireLease(p, l, r, run, ttl)
      PROVE  IInv'
  <2>1. PolicyIsStored'
    BY <1>3, AcquireAdmitsOne, StoredType DEF IInv, PolicyIsStored
  <2>2. ASSUME NEW m \in Leases, Active(m)', rows'[m].resource = r
        PROVE  rows'[m].policy = Stored(declared[r])
    <3>1. m \in ActiveOn(r)'
      BY <2>2 DEF ActiveOn
    <3>2. m = l \/ m \in ActiveOn(r) \ {l}
      BY <1>3, <3>1, AcquireAdmitsOne
    <3> QED
      BY <1>3, <2>2, <3>2, AcquireAdmitsOne
  <2>3. ASSUME NEW m \in Leases, Active(m)', rows'[m].resource # r
        PROVE  Active(m) /\ rows'[m] = rows[m] /\ rows[m].resource \in Resources \ {r}
    BY <1>1, <1>3, <2>3, AcquireAdmitsOne DEF Active, Unreleased, TypeOK, Row
  <2>4. SamePolicy'
    BY <2>2, <2>3 DEF IInv, SamePolicy
  <2>5. Cardinality(ActiveOn(r)') <= Limit(Stored(declared[r]))
    <3>1. IsFiniteSet(ActiveOn(r))
      BY BoundsAssumption, FS_Subset DEF ActiveOn
    <3>2. /\ Cardinality(ActiveOn(r) \cup {l}) = Cardinality(ActiveOn(r)) + 1
          /\ Cardinality(ActiveOn(r)) \in Nat
      BY <1>3, <3>1, AcquireAdmitsOne, FS_AddElement, FS_CardinalityType
    <3>3. /\ Cardinality(ActiveOn(r)) < Limit(Stored(declared[r]))
          /\ ActiveOn(r)' = ActiveOn(r) \cup {l}
          /\ declared[r] \in Policies
      BY <1>3, AcquireAdmitsOne
    <3>4. Limit(Stored(declared[r])) \in Nat
      BY <3>3, StoredType
    <3> QED
      BY <3>2, <3>3, <3>4
  <2>6. WithinLimit'
    <3>1. ASSUME NEW m \in Leases, Active(m)', NEW q, q = rows'[m].resource
          PROVE  Cardinality(ActiveOn(q)') <= Limit(rows'[m].policy)
      <4>1. CASE q = r
        BY <2>2, <2>5, <3>1, <4>1
      <4>2. CASE q # r
        BY <1>3, <2>3, <3>1, <4>2, AcquireAdmitsOne DEF IInv, WithinLimit
      <4> QED
        BY <4>1, <4>2
    <3> QED
      BY <3>1 DEF WithinLimit, ActiveOn, Active, Unreleased
  <2>7. HeldByOpenRun'
    <3>1. runs' = runs /\ (run # NoRun => runs[run] = "open")
      BY <1>1, <1>3, IdentityAssumption DEF AcquireLease, RunAccepts, TypeOK
    <3> QED
      BY <1>3, <3>1, AcquireAdmitsOne DEF IInv, HeldByOpenRun, Unreleased
  <2> QED
    BY <1>1, <2>1, <2>4, <2>6, <2>7 DEF IInv
<1> QED
  BY <1>2, <1>3, NextIsAcquireOrOther

LEMMA Invariance == Spec => []IInv
<1>1. Init => IInv
  BY InitHolds
<1>2. IInv /\ [Next]_vars => IInv'
  BY StepPreserves
<1> QED
  BY <1>1, <1>2, PTL DEF Spec

-----------------------------------------------------------------------------
(* Rows, runs and declarations keep their types, for ever.                 *)
THEOREM TypeCorrect == Spec => []TypeOK
  BY Invariance, PTL DEF IInv

(* Holders of one resource always share one policy: tryAcquireLease's      *)
(* policy check is enough, however resources.json is edited.               *)
THEOREM HoldersAgree == Spec => []SamePolicy
  BY Invariance, PTL DEF IInv

(* No resource ever has more holders than its policy admits, so an         *)
(* exclusive resource has one: the claim acquireLease makes to a session.  *)
THEOREM NeverOversubscribed == Spec => []WithinLimit
  BY Invariance, PTL DEF IInv

(* No lease outlives the run it is bound to (endRun, reconcileRun).        *)
THEOREM EndedRunsHoldNothing == Spec => []HeldByOpenRun
  BY Invariance, PTL DEF IInv

(* renewLeaseRow, the sweep and a resumed run never bring a lease back.    *)
THEOREM LostIsLost == Spec => NoRevival
<1>1. ASSUME IInv, [Next]_vars, NEW l \in Leases, rows[l] # Free, ~Active(l)
      PROVE  ~Active(l)'
  <2>1. CASE Other
    BY <1>1, <2>1, OtherAdmitsNothing DEF IInv
  <2>2. ASSUME NEW p \in Principals, NEW m \in Leases, NEW r \in Resources,
               NEW run \in Runs \cup {NoRun}, NEW ttl \in 1..MaxTtl,
               AcquireLease(p, m, r, run, ttl)
        PROVE  ~Active(l)'
    <3>1. rows'[l] = rows[l]
      BY <1>1, <2>2, AcquireAdmitsOne
    <3> QED
      BY <1>1, <3>1 DEF Active, Unreleased
  <2> QED
    BY <1>1, <2>1, <2>2, NextIsAcquireOrOther
<1>2. IInv /\ [Next]_vars =>
        [\A l \in Leases : rows[l] # Free /\ ~Active(l) => ~Active(l)']_vars
  BY <1>1
<1> QED
  BY <1>2, Invariance, PTL DEF Spec, NoRevival

(* A worker's lease is bound to a run of its own, or to none (MayName).     *)
BoundToOwnRun ==
    \A l \in Leases :
        rows[l] # Free /\ rows[l].run # NoRun /\ rows[l].holder \in Workers
            => RunOwner[rows[l].run] = rows[l].holder

LEMMA OwnRunStep == IInv /\ BoundToOwnRun /\ [Next]_vars => BoundToOwnRun'
<1> SUFFICES ASSUME IInv, BoundToOwnRun, [Next]_vars PROVE BoundToOwnRun'
  OBVIOUS
<1> USE DEF IInv, BoundToOwnRun
<1>1. ASSUME NEW p \in Principals, NEW l \in Leases, NEW r \in Resources,
             NEW run \in Runs \cup {NoRun}, NEW ttl \in 1..MaxTtl,
             AcquireLease(p, l, r, run, ttl)
      PROVE  BoundToOwnRun'
  <2>1. rows' = [rows EXCEPT ![l] = [resource |-> r, policy |-> Stored(declared[r]), holder |-> p,
                                     run |-> run, left |-> ttl, released |-> "no"]]
    BY <1>1 DEF AcquireLease
  <2>2. run # NoRun /\ p \in Workers => RunOwner[run] = p
    BY <1>1 DEF AcquireLease, MayName
  <2> QED
    BY <2>1, <2>2 DEF TypeOK
<1>2. ASSUME Other PROVE BoundToOwnRun'
  <2>1. ASSUME NEW l \in Leases, rows'[l] # Free
        PROVE  rows[l] # Free /\ rows'[l].run = rows[l].run /\ rows'[l].holder = rows[l].holder
    BY <1>2, <2>1 DEF TypeOK, Row, Other, Redeclare, ReleaseLease, RenewLease, SweepLeases,
       CreateRun, EndRun, ReconcileRun, ReopenRun, Tick, Release, Expired, LeasesOf, Active,
       Unreleased, vars
  <2> QED
    BY <2>1
<1> QED
  BY <1>1, <1>2, NextIsAcquireOrOther

(* A lease is lost to its holder's release, to time, or to the end of its  *)
(* own run: nobody else's session takes it down (acquireLease's check of   *)
(* the run a worker names, endRun, reconcileRun, the sweep).               *)
THEOREM LossHasACause == Spec => LossIsAccountedFor
<1> DEFINE Cause(l) ==
        \/ rows'[l].released = "released"
        \/ rows'[l].released = "no" /\ rows[l].left = 0
        \/ /\ rows'[l].released \in {"run-ended", "lost"}
           /\ rows[l].run # NoRun /\ runs'[rows[l].run] = "ended"
           /\ rows[l].holder \in Workers => RunOwner[rows[l].run] = rows[l].holder
<1>1. ASSUME IInv, BoundToOwnRun, [Next]_vars, NEW l \in Leases, Active(l), ~Active(l)'
      PROVE  Cause(l)
  <2> USE <1>1 DEF IInv, TypeOK
  <2>1. rows[l] \in Row /\ rows[l].released = "no" /\ rows[l].left >= 0
    BY DEF Active, Unreleased
  <2>2. ASSUME NEW p \in Principals, NEW m \in Leases, ReleaseLease(p, m) PROVE Cause(l)
    BY <2>1, <2>2 DEF ReleaseLease, Release, Active, Unreleased, Row
  <2>3. ASSUME NEW r \in Runs, EndRun(r) \/ ReconcileRun(r) PROVE Cause(l)
    <3>1. l \in LeasesOf(r)
      BY <2>1, <2>3 DEF EndRun, ReconcileRun, Release, Active, Unreleased
    <3>2. rows[l].run = r /\ runs'[r] = "ended" /\ r # NoRun
      BY <2>3, <3>1, IdentityAssumption DEF EndRun, ReconcileRun, LeasesOf
    <3>3. rows'[l].released \in {"run-ended", "lost"}
      BY <2>1, <2>3, <3>1 DEF EndRun, ReconcileRun, Release, Row
    <3> QED
      BY <2>1, <3>2, <3>3 DEF BoundToOwnRun, Active, Unreleased
  <2>4. CASE Tick
    <3>1. rows'[l] = [rows[l] EXCEPT !.left = @ - 1]
      BY <1>1, <2>4 DEF Tick
    <3>2. /\ rows[l].left \in Int /\ rows'[l].left = rows[l].left - 1
          /\ rows'[l].released = "no" /\ rows'[l] # Free
      BY <2>1, <3>1, BoundsAssumption, IdentityAssumption DEF Row
    <3>3. rows[l].left - 1 < 0
      BY <1>1, <3>1, <3>2, IdentityAssumption DEF Active, Unreleased
    <3> QED
      BY <2>1, <3>2, <3>3, BoundsAssumption DEF Row
  <2>5. CASE SweepLeases
    <3>1. l \notin Expired
      BY <2>1, BoundsAssumption DEF Expired, Row
    <3>2. rows'[l] = rows[l]
      BY <2>5, <3>1 DEF SweepLeases, Release
    <3> QED
      BY <1>1, <3>2 DEF Active, Unreleased
  <2>6. ASSUME NEW p \in Principals, NEW m \in Leases, NEW ttl \in 1..MaxTtl, RenewLease(p, m, ttl)
        PROVE  FALSE
    <3>1. CASE m = l
      <4>1. rows'[l] = [rows[l] EXCEPT !.left = ttl]
        BY <2>6, <3>1 DEF RenewLease
      <4>2. rows'[l].left = ttl /\ rows'[l].released = "no" /\ rows'[l] \in Row
        BY <2>1, <4>1, BoundsAssumption DEF Row
      <4> QED
        BY <1>1, <4>2, BoundsAssumption, IdentityAssumption DEF Active, Unreleased
    <3>2. CASE m # l
      BY <1>1, <2>6, <3>2 DEF RenewLease, Active, Unreleased
    <3> QED
      BY <3>1, <3>2
  <2>7. ASSUME UNCHANGED rows PROVE FALSE
    BY <2>7 DEF Active, Unreleased
  <2>8. ASSUME NEW p \in Principals, NEW m \in Leases, NEW r \in Resources,
               NEW run \in Runs \cup {NoRun}, NEW ttl \in 1..MaxTtl,
               AcquireLease(p, m, r, run, ttl)
        PROVE  FALSE
    BY <2>1, <2>8 DEF AcquireLease, Active, Unreleased
  <2> QED
    BY <2>2, <2>3, <2>4, <2>5, <2>6, <2>7, <2>8
       DEF Next, Redeclare, CreateRun, ReopenRun, vars
<1>2. IInv /\ BoundToOwnRun /\ [Next]_vars =>
        [\A l \in Leases : Active(l) /\ ~Active(l)' => Cause(l)]_vars
  BY <1>1
<1>3. Init => BoundToOwnRun
  BY DEF Init, BoundToOwnRun
<1> QED
  BY <1>2, <1>3, Invariance, OwnRunStep, PTL DEF Spec, LossIsAccountedFor

(* The instance of ResourceArbiter brings its own name for Cardinality.     *)
LEMMA SameCardinality == \A S : Arbiter!Cardinality(S) = Cardinality(S)
  BY DEF Arbiter!Cardinality, Cardinality

(* The initial table is an arbiter with no holder. *)
LEMMA ArbiterInit == Init => Arbiter!Init
  BY DEF Init, Arbiter!Init, ActiveOn, Active, Unreleased, PolicyOf

(* An acquire is an admission; every other step lets claims leave.         *)
LEMMA ArbiterStep == IInv /\ [Next]_vars => [Arbiter!Next]_(Arbiter!vars)
<1> SUFFICES ASSUME IInv, [Next]_vars PROVE Arbiter!Next
  BY DEF Arbiter!Next
<1>1. TypeOK
  BY DEF IInv
<1>2. ASSUME NEW p \in Principals, NEW l \in Leases, NEW r \in Resources,
             NEW run \in Runs \cup {NoRun}, NEW ttl \in 1..MaxTtl,
             AcquireLease(p, l, r, run, ttl)
      PROVE  Arbiter!Admit(l, r, Stored(declared[r]))
  <2> DEFINE t == Stored(declared[r])
  <2>1. PolicyOf(l) = NoPolicy /\ PolicyOf(l)' = t
    BY <1>2, AcquireAdmitsOne DEF PolicyOf
  <2>2. \A m \in Leases \ {l} : PolicyOf(m)' = PolicyOf(m)
    BY <1>2, AcquireAdmitsOne DEF PolicyOf
  <2>3. \A m \in ActiveOn(r) : PolicyOf(m) = t
    <3>1. \A m \in ActiveOn(r) : rows[m].policy = t
      BY <1>2, AcquireAdmitsOne
    <3>2. \A m \in ActiveOn(r) : m \in Leases /\ rows[m] # Free
      BY DEF ActiveOn, Active, Unreleased
    <3> QED
      BY <3>1, <3>2 DEF PolicyOf
  <2>4. Cardinality(ActiveOn(r)) < Arbiter!Room(t)
    BY <1>2, AcquireAdmitsOne DEF Arbiter!Room, Limit
  <2>5. [q \in Resources |-> ActiveOn(q)]'
          = [[q \in Resources |-> ActiveOn(q)] EXCEPT ![r] = ActiveOn(r) \cup {l}]
    <3>1. \A q \in Resources : ActiveOn(q)' = IF q = r THEN ActiveOn(r) \cup {l} ELSE ActiveOn(q)
      BY <1>2, AcquireAdmitsOne
    <3> QED
      BY <3>1, Zenon
  <2>6. [m \in Leases |-> PolicyOf(m)]' = [[m \in Leases |-> PolicyOf(m)] EXCEPT ![l] = t]
    BY <2>1, <2>2
  <2>7. ActiveOn(r) \subseteq Leases
    BY DEF ActiveOn
  <2> DEFINE H == [q \in Resources |-> ActiveOn(q)]
             T == [m \in Leases |-> PolicyOf(m)]
  <2>8. /\ T[l] = NoPolicy
        /\ \A m \in H[r] : T[m] = t
        /\ Cardinality(H[r]) < Arbiter!Room(t)
        /\ H' = [H EXCEPT ![r] = H[r] \cup {l}]
        /\ T' = [T EXCEPT ![l] = t]
    BY <2>1, <2>3, <2>4, <2>5, <2>6, <2>7
  <2> QED
    BY <2>8, SameCardinality DEF Arbiter!Admit, Arbiter!Room
<1>3. CASE Other
  <2> DEFINE Gone == {l \in Leases : ~Active(l)'}
  <2>1. \A l \in Leases : PolicyOf(l)' = PolicyOf(l)
    BY <1>1, <1>3, OtherAdmitsNothing DEF PolicyOf
  <2>2. \A r \in Resources : ActiveOn(r)' = ActiveOn(r) \ Gone
    <3>1. SUFFICES ASSUME NEW r \in Resources, NEW l \in Leases
                   PROVE  l \in ActiveOn(r)' <=> l \in ActiveOn(r) /\ Active(l)'
      BY DEF ActiveOn
    <3>2. Active(l)' => Active(l) /\ rows'[l].resource = rows[l].resource
      BY <1>1, <1>3, OtherAdmitsNothing DEF Active, Unreleased
    <3> QED
      BY <3>2 DEF ActiveOn
  <2>3. Arbiter!Leave(Gone)
    BY <2>1, <2>2 DEF Arbiter!Leave
  <2> QED
    BY <2>3 DEF Arbiter!Next
<1>4. ASSUME NEW p \in Principals, NEW l \in Leases, NEW r \in Resources,
             NEW run \in Runs \cup {NoRun}, NEW ttl \in 1..MaxTtl,
             AcquireLease(p, l, r, run, ttl)
      PROVE  Arbiter!Next
  <2>1. Stored(declared[r]) \in StoredPolicies
    BY <1>4, AcquireAdmitsOne, StoredType
  <2> QED
    BY <1>2, <1>4, <2>1 DEF Arbiter!Next
<1> QED
  BY <1>3, <1>4, NextIsAcquireOrOther

(* Every behaviour of the lease table is a behaviour of the arbiter.       *)
THEOREM LeasesRefineArbiter == Spec => ImplementsArbiter
  BY ArbiterInit, ArbiterStep, Invariance, PTL DEF Spec, ImplementsArbiter, Arbiter!Spec
=============================================================================
