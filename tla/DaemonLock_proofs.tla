-------------------------- MODULE DaemonLock_proofs --------------------------
(***************************************************************************)
(* Proofs about DaemonLock for any set of contenders and any bounds on     *)
(* attempts and retries.                                                   *)
(***************************************************************************)
EXTENDS DaemonLock, TLAPS

(* A file that says nothing is as old as the system: nobody who published, *)
(* or is on the way to a removal, has it in front of it.                   *)
TornIsUntouched ==
    \A p \in Procs :
        pc[p] \in {"rechecking", "unlinking", "held", "closing", "releasing"} => file # Torn

(* A pid in the file is that of a process that was started, ...            *)
FileWasPublished == file \in Procs => pc[file] # "idle"

(* ... so that one found dead has exited, and stays so.                    *)
StaleIsDead ==
    \A p \in Procs : pc[p] = "rechecking" /\ saw[p] \in Procs => pc[saw[p]] \in Exited

IInv == TypeOK /\ TornIsUntouched /\ FileWasPublished /\ StaleIsDead /\ TheftNeedsTheWindow
-----------------------------------------------------------------------------
LEMMA InitEstablishes == Init => IInv
BY LockAssumption
   DEF LockAssumption, Init, IInv, TypeOK, TornIsUntouched, FileWasPublished, StaleIsDead,
       TheftNeedsTheWindow

(* No step changes the type of the state.                                  *)
LEMMA TypeStep == TypeOK /\ [Next]_vars => TypeOK'
<1> SUFFICES ASSUME TypeOK, [Next]_vars PROVE TypeOK'
  OBVIOUS
<1> USE LockAssumption DEF LockAssumption, TypeOK
<1>1. ASSUME NEW p \in Procs, Start(p) PROVE TypeOK'
  BY <1>1 DEF Start, Goto
<1>2. ASSUME NEW p \in Procs, Link(p) PROVE TypeOK'
  BY <1>2 DEF Link, Goto
<1>3. ASSUME NEW p \in Procs, FindsHolder(p) \/ FindsUnreadable(p) PROVE TypeOK'
  BY <1>3 DEF FindsHolder, FindsUnreadable, Goto
<1>4. ASSUME NEW p \in Procs, FindsDead(p) PROVE TypeOK'
  BY <1>4 DEF FindsDead, Unreadable, Goto
<1>5. ASSUME NEW p \in Procs, Access(p) PROVE TypeOK'
  BY <1>5 DEF Access, Vanished, Again, Goto
<1>6. ASSUME NEW p \in Procs, Recheck(p) PROVE TypeOK'
  BY <1>6 DEF Recheck, Again, Goto
<1>7. ASSUME NEW p \in Procs, Unlink(p) PROVE TypeOK'
  BY <1>7 DEF Unlink, Again, Goto
<1>8. ASSUME NEW p \in Procs, Signal(p) \/ ReleaseReads(p) \/ ReleaseUnlinks(p) \/ Crash(p)
      PROVE TypeOK'
  BY <1>8 DEF Signal, ReleaseReads, ReleaseUnlinks, Crash, Goto
<1>9. CASE UNCHANGED vars
  BY <1>9 DEF vars
<1> QED
  BY <1>1, <1>2, <1>3, <1>4, <1>5, <1>6, <1>7, <1>8, <1>9 DEF Next, Acquire, Release

(* Only a publication puts anything new into the file, and its author is   *)
(* then new to everyone.                                                   *)
LEMMA FileStep ==
    ASSUME TypeOK, [Next]_vars
    PROVE  \/ file' = file
           \/ file' = None
           \/ \E q \in Procs : /\ file = None /\ file' = q /\ pc'[q] = "held"
                               /\ \A p \in Procs : q \in since'[p]
<1> USE DEF TypeOK
<1>1. ASSUME NEW q \in Procs, Link(q), file = None
      PROVE file' = q /\ pc'[q] = "held" /\ \A p \in Procs : q \in since'[p]
  BY <1>1 DEF Link, Goto
<1>2. ASSUME NEW q \in Procs, Link(q), file # None PROVE file' = file
  BY <1>2 DEF Link
<1>3. ASSUME NEW q \in Procs, Unlink(q) \/ ReleaseUnlinks(q) PROVE file' = None
  BY <1>3 DEF Unlink, ReleaseUnlinks
<1>4. ASSUME NEW q \in Procs, ~Link(q), ~Unlink(q), ~ReleaseUnlinks(q),
             Start(q) \/ Acquire(q) \/ Signal(q) \/ Release(q) \/ Crash(q)
      PROVE file' = file
  BY <1>4 DEF Start, Acquire, FindsHolder, FindsDead, FindsUnreadable, Access, Recheck, Signal,
              Release, ReleaseReads, Crash
<1> QED
  BY <1>1, <1>2, <1>3, <1>4 DEF Next, vars

(* An exited process stays so, and only a start ends being idle.           *)
LEMMA ExitIsFinal ==
    ASSUME TypeOK, [Next]_vars, NEW q \in Procs
    PROVE  /\ pc[q] \in Exited => pc'[q] = pc[q]
           /\ pc[q] # "idle" => pc'[q] # "idle"
BY DEF TypeOK, Exited, Next, Acquire, Release, Start, Link, FindsHolder, FindsDead,
       FindsUnreadable, Access, Recheck, Unlink, Signal, ReleaseReads, ReleaseUnlinks, Crash,
       Again, Goto, vars

(* Who enters the way to a removal, or holds, has seen a file with a name, *)
(* or none at all.                                                         *)
LEMMA TornStep ==
    ASSUME IInv, [Next]_vars
    PROVE  TornIsUntouched' /\ (file = Torn => file' = Torn)
<1> USE DEF IInv, TornIsUntouched
<1> DEFINE Near == {"rechecking", "unlinking", "held", "closing", "releasing"}
<1>1. file' = Torn => file = Torn
  BY FileStep, LockAssumption DEF LockAssumption
<1>2. ASSUME NEW p \in Procs, pc'[p] \in Near, file = Torn PROVE FALSE
  <2>1. pc[p] \notin Near
    BY <1>2
  <2>2. PICK q \in Procs : Start(q) \/ Acquire(q) \/ Signal(q) \/ Release(q) \/ Crash(q)
    BY <1>2, <2>1 DEF Next, vars
  <2>3. q = p
    BY <1>2, <2>1, <2>2 DEF TypeOK, Acquire, Release, Start, Link, FindsHolder, FindsDead,
       FindsUnreadable, Access, Recheck, Unlink, Signal, ReleaseReads, ReleaseUnlinks, Crash,
       Again, Goto
  <2> QED
    BY <1>2, <2>1, <2>2, <2>3, LockAssumption DEF LockAssumption, TypeOK, Acquire, Release, Start,
       Link, FindsHolder, FindsDead, FindsUnreadable, Unreadable, Access, Vanished, Recheck,
       Unlink, Signal, ReleaseReads, ReleaseUnlinks, Crash, Again, Goto
<1>3. file = Torn => file' = Torn
  <2> SUFFICES ASSUME file = Torn, file' # Torn PROVE FALSE
    OBVIOUS
  <2>1. PICK q \in Procs : Unlink(q) \/ ReleaseUnlinks(q)
    BY LockAssumption DEF LockAssumption, TypeOK, Next, Acquire, Release, Start, Link, FindsHolder,
       FindsDead, FindsUnreadable, Access, Recheck, Signal, ReleaseReads, Crash, vars
  <2> QED
    BY <2>1 DEF Unlink, ReleaseUnlinks
<1> QED
  BY <1>1, <1>2, <1>3

LEMMA PublishedStep ==
    ASSUME IInv, [Next]_vars
    PROVE  FileWasPublished'
<1> USE DEF IInv, FileWasPublished
<1>1. CASE file' = file
  BY <1>1, ExitIsFinal
<1>2. CASE file' = None
  BY <1>2, LockAssumption DEF LockAssumption
<1>3. CASE \E q \in Procs : file' = q /\ pc'[q] = "held"
  BY <1>3
<1> QED
  BY <1>1, <1>2, <1>3, FileStep

(* A pid is judged stale when it is read and not alive: it exited.         *)
LEMMA StaleStep ==
    ASSUME IInv, [Next]_vars
    PROVE  StaleIsDead'
<1> USE DEF IInv
<1> SUFFICES ASSUME NEW p \in Procs, pc'[p] = "rechecking", saw'[p] \in Procs
             PROVE  pc'[saw'[p]] \in Exited
  BY DEF StaleIsDead
<1>1. CASE pc[p] = "rechecking" /\ saw'[p] = saw[p]
  BY <1>1, ExitIsFinal DEF StaleIsDead
<1>2. CASE FindsDead(p)
  <2>1. saw'[p] = file /\ ~Alive(file)
    BY <1>2 DEF FindsDead, TypeOK
  <2>2. pc[file] \in Exited
    BY <2>1 DEF Alive, FileWasPublished
  <2> QED
    BY <2>1, <2>2, ExitIsFinal
<1>3. CASE ~(pc[p] = "rechecking" /\ saw'[p] = saw[p]) /\ ~FindsDead(p)
  BY <1>3, LockAssumption DEF LockAssumption, TypeOK, Next, Acquire, Release, Start, Link,
     FindsHolder, FindsDead, FindsUnreadable, Access, Recheck, Unlink, Signal, ReleaseReads,
     ReleaseUnlinks, Crash, Again, Goto, vars
<1> QED
  BY <1>1, <1>2, <1>3

(* The look itself: a file that is still the stale one names nobody alive. *)
LEMMA LookStep ==
    ASSUME IInv, NEW p \in Procs, Recheck(p) \/ ReleaseReads(p),
           pc'[p] \in {"unlinking", "releasing"}, Alive(file)
    PROVE  file = p
<1> USE DEF IInv
<1>1. CASE Recheck(p)
  BY <1>1, LockAssumption
     DEF LockAssumption, TypeOK, Recheck, StillTheSame, Unreadable, StaleIsDead, Alive, Again, Goto
<1>2. CASE ReleaseReads(p)
  BY <1>2 DEF TypeOK, ReleaseReads, Own, Goto
<1> QED
  BY <1>1, <1>2

LEMMA WindowStep ==
    ASSUME IInv, [Next]_vars
    PROVE  TheftNeedsTheWindow'
<1> USE DEF IInv
<1> SUFFICES ASSUME NEW p \in Procs, pc'[p] \in {"unlinking", "releasing"}, Alive(file)',
                    file' # p
             PROVE  file' \in since'[p]
  BY DEF TheftNeedsTheWindow
<1>1. CASE file' # file
  BY <1>1, FileStep, LockAssumption DEF LockAssumption, Alive
<1>2. CASE file' = file
  <2>1. Alive(file)
    BY <1>2, ExitIsFinal DEF Alive, FileWasPublished, TypeOK, Exited
  <2>2. CASE pc[p] = pc'[p]
    <3>1. file \in since[p]
      BY <1>2, <2>1, <2>2 DEF TheftNeedsTheWindow
    <3>2. since'[p] = since[p] \/ since[p] \subseteq since'[p]
      BY <2>2 DEF TypeOK, Next, Acquire, Release, Start, Link, FindsHolder, FindsDead,
         FindsUnreadable, Access, Recheck, Unlink, Signal, ReleaseReads, ReleaseUnlinks, Crash,
         Again, Goto, vars
    <3> QED
      BY <1>2, <3>1, <3>2
  <2>3. CASE pc[p] # pc'[p]
    <3>1. Recheck(p) \/ ReleaseReads(p)
      BY <2>3 DEF TypeOK, Next, Acquire, Release, Start, Link, FindsHolder, FindsDead,
         FindsUnreadable, Access, Recheck, Unlink, Signal, ReleaseReads, ReleaseUnlinks, Crash,
         Again, Goto, vars
    <3> QED
      BY <1>2, <2>1, <3>1, LookStep
  <2> QED
    BY <2>2, <2>3
<1> QED
  BY <1>1, <1>2

LEMMA IInvStep == IInv /\ [Next]_vars => IInv'
BY TypeStep, TornStep, PublishedStep, StaleStep, WindowStep DEF IInv

LEMMA IInvHolds == Spec => []IInv
BY InitEstablishes, IInvStep, PTL DEF Spec
-----------------------------------------------------------------------------
(* The state always has its type: no contender makes more attempts or      *)
(* reads than the bounds of acquireLock.                                   *)
THEOREM TypeCorrect == Spec => []TypeOK
<1>1. IInv => TypeOK
  BY DEF IInv
<1> QED
  BY <1>1, IInvHolds, PTL

(* What a contender or a release removes without it being its own is the   *)
(* lock of somebody who published after it last looked.                    *)
THEOREM RecheckNarrowsTheft == Spec => []TheftNeedsTheWindow
<1>1. IInv => TheftNeedsTheWindow
  BY DEF IInv
<1> QED
  BY <1>1, IInvHolds, PTL

(* A lock file that cannot be read is never removed or replaced.           *)
THEOREM UnknownStays == Spec => UnknownIsNotStolen
<1>1. IInv /\ [Next]_vars => [file = Torn => file' = Torn]_vars
  BY TornStep
<1> QED
  BY <1>1, IInvHolds, PTL DEF Spec, UnknownIsNotStolen
-----------------------------------------------------------------------------
(* Before anybody ever published or was killed, an old lock file has been  *)
(* removed once at most, and who lost a turn to that is about to publish.  *)
Late(p) == pc[p] \in {"held", "closing", "releasing", "gone"}

Fresh ==
    file # Torn /\ (\A q \in Procs : ~Late(q)) =>
        /\ file \in {Dead, None}
        /\ \A p \in Procs :
              /\ pc[p] \notin {"refused", "failed"}
              /\ attempt[p] # 1 => pc[p] = "linking" /\ file = None
              /\ pc[p] = "checking" => file = None
              /\ pc[p] = "rechecking" /\ file = Dead => saw[p] = Dead

LEMMA LateIsFinal ==
    ASSUME TypeOK, [Next]_vars, NEW q \in Procs, Late(q)
    PROVE  Late(q)'
BY DEF TypeOK, Late, Next, Acquire, Release, Start, Link, FindsHolder, FindsDead,
       FindsUnreadable, Access, Recheck, Unlink, Signal, ReleaseReads, ReleaseUnlinks, Crash,
       Again, Goto, vars

LEMMA FreshStep ==
    ASSUME MaxAttempts >= 2, IInv, Fresh, [Next]_vars
    PROVE  Fresh'
<1> USE LockAssumption DEF LockAssumption, IInv, TypeOK
<1> SUFFICES ASSUME file' # Torn, \A q \in Procs : ~Late(q)'
             PROVE  /\ file' \in {Dead, None}
                    /\ \A p \in Procs :
                          /\ pc'[p] \notin {"refused", "failed"}
                          /\ attempt'[p] # 1 => pc'[p] = "linking" /\ file' = None
                          /\ pc'[p] = "checking" => file' = None
                          /\ pc'[p] = "rechecking" /\ file' = Dead => saw'[p] = Dead
  BY DEF Fresh
<1>1. /\ file # Torn /\ \A q \in Procs : ~Late(q)
      /\ file \in {Dead, None}
      /\ \A p \in Procs :
            /\ pc[p] \notin {"refused", "failed"}
            /\ attempt[p] # 1 => pc[p] = "linking" /\ file = None
            /\ pc[p] = "checking" => file = None
            /\ pc[p] = "rechecking" /\ file = Dead => saw[p] = Dead
  BY TornStep, LateIsFinal DEF Fresh
<1>2. ASSUME NEW p \in Procs, Start(p) PROVE Fresh'
  BY <1>1, <1>2 DEF Fresh, Start, Goto
<1>3. ASSUME NEW p \in Procs, Link(p) PROVE Fresh'
  BY <1>1, <1>3 DEF Fresh, Link, Late, Goto
<1>4. ASSUME NEW p \in Procs, FindsHolder(p) PROVE Fresh'
  BY <1>1, <1>4 DEF FindsHolder, Alive
<1>5. ASSUME NEW p \in Procs, FindsDead(p) \/ FindsUnreadable(p) PROVE Fresh'
  BY <1>1, <1>5 DEF Fresh, FindsDead, FindsUnreadable, Unreadable, Goto
<1>6. ASSUME NEW p \in Procs, Access(p) PROVE Fresh'
  BY <1>1, <1>6 DEF Fresh, Access, Vanished, Goto
<1>7. ASSUME NEW p \in Procs, Recheck(p) PROVE Fresh'
  BY <1>1, <1>7 DEF Fresh, Recheck, StillTheSame, Unreadable, Again, Goto
<1>8. ASSUME NEW p \in Procs, Unlink(p) PROVE Fresh'
  BY <1>1, <1>8 DEF Fresh, Unlink, Again, Goto
<1>9. ASSUME NEW p \in Procs, Signal(p) \/ ReleaseReads(p) \/ ReleaseUnlinks(p) \/ Crash(p)
      PROVE Fresh'
  BY <1>1, <1>9 DEF Late, Signal, ReleaseReads, ReleaseUnlinks, Crash, Goto
<1>10. CASE UNCHANGED vars
  BY <1>1, <1>10 DEF vars
<1> QED
  BY <1>2, <1>3, <1>4, <1>5, <1>6, <1>7, <1>8, <1>9, <1>10 DEF Next, Acquire, Release, Fresh

(* With two attempts or more, contenders never all turn away from a lock   *)
(* that could be had.                                                      *)
THEOREM SomebodyServes ==
    ASSUME Procs # {}, MaxAttempts >= 2
    PROVE  Spec => []NotEveryoneLoses
<1>1. Init => IInv /\ Fresh
  <2>1. Init => Fresh
    BY LockAssumption DEF LockAssumption, Init, Fresh
  <2> QED
    BY <2>1, InitEstablishes
<1>2. IInv /\ Fresh /\ [Next]_vars => IInv' /\ Fresh'
  BY IInvStep, FreshStep
<1>3. Fresh => NotEveryoneLoses
  BY DEF Fresh, NotEveryoneLoses, Late
<1> QED
  BY <1>1, <1>2, <1>3, PTL DEF Spec
=============================================================================
