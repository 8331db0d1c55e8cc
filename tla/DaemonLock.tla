----------------------------- MODULE DaemonLock -----------------------------
(***************************************************************************)
(* The single-instance lock of the daemon: acquireLock and release of      *)
(* lock/lock.js as ipc/daemon.js calls them.  Every contender is an        *)
(* operating-system process of its own, so each file operation is an       *)
(* action and contenders interleave between any two of them.               *)
(*                                                                         *)
(* The file is known by the pid it names.  The private temp file a lock is *)
(* published from is seen by nobody else and is left out, and so is the    *)
(* lock file of releases that kept it elsewhere (legacyLockPath).          *)
(***************************************************************************)
EXTENDS Naturals, FiniteSets

CONSTANTS
    Procs,           \* daemons that are started; a pid is never reused
    Dead,            \* the pid of a daemon that died before all of them
    Torn,            \* a file that names no pid
    None,            \* no file
    MaxAttempts,     \* maxAttempts
    UnknownRetries   \* unknownRetries

ASSUME LockAssumption ==
    /\ MaxAttempts \in Nat \ {0} /\ UnknownRetries \in Nat
    /\ Dead # Torn /\ Dead # None /\ Torn # None
    /\ {Dead, Torn, None} \cap Procs = {}

VARIABLES
    file,      \* the lock file
    pc,        \* where each process is
    attempt,   \* its turn of the loop of acquireLock
    tries,     \* its turn of the loop of resolveExistingLock
    saw,       \* stalePid: the dead pid it read, None for null
    since      \* history: who published since it last looked at the file

vars == <<file, pc, attempt, tries, saw, since>>

TypeOK ==
    /\ file \in Procs \cup {Dead, Torn, None}
    /\ pc \in [Procs -> {"idle", "linking", "reading", "checking", "rechecking", "unlinking",
                         "held", "closing", "releasing", "refused", "failed", "gone"}]
    /\ attempt \in [Procs -> 1..MaxAttempts]
    /\ tries \in [Procs -> 0..UnknownRetries]
    /\ saw \in [Procs -> Procs \cup {Dead, None}]
    /\ since \in [Procs -> SUBSET Procs]

Init ==
    /\ file \in {None, Dead, Torn}
    /\ pc = [p \in Procs |-> "idle"]
    /\ attempt = [p \in Procs |-> 1]
    /\ tries = [p \in Procs |-> 0]
    /\ saw = [p \in Procs |-> None]
    /\ since = [p \in Procs |-> {}]
-----------------------------------------------------------------------------
Exited == {"refused", "failed", "gone"}

\* isPidAlive
Alive(pid) == pid \in Procs /\ pc[pid] \notin Exited \cup {"idle"}

\* readLockFile returns null
Unreadable == file \in {None, Torn}

Goto(p, where) == pc' = [pc EXCEPT ![p] = where]

(* continue, or the error after the last turn of the loop.                 *)
AgainWithoutBound(p) == Goto(p, "linking") /\ UNCHANGED attempt
Again(p) ==
    IF attempt[p] < MaxAttempts
    THEN Goto(p, "linking") /\ attempt' = [attempt EXCEPT ![p] = @ + 1]
    ELSE Goto(p, "failed") /\ UNCHANGED attempt

Start(p) ==
    /\ pc[p] = "idle"
    /\ Goto(p, "linking")
    /\ UNCHANGED <<file, attempt, tries, saw, since>>

(* link(2) either publishes the lock, payload and all, or finds a file.    *)
Link(p) ==
    /\ pc[p] = "linking"
    /\ IF file = None
       THEN /\ file' = p
            /\ since' = [q \in Procs |-> since[q] \cup {p}]
            /\ Goto(p, "held")
            /\ UNCHANGED tries
       ELSE /\ tries' = [tries EXCEPT ![p] = 0]
            /\ Goto(p, "reading")
            /\ UNCHANGED <<file, since>>
    /\ UNCHANGED <<attempt, saw>>

(* resolveExistingLock *)
FindsHolder(p) ==
    /\ pc[p] = "reading"
    /\ Alive(file)
    /\ Goto(p, "refused")
    /\ UNCHANGED <<file, attempt, tries, saw, since>>

FindsDead(p) ==
    /\ pc[p] = "reading"
    /\ ~Unreadable /\ ~Alive(file)
    /\ saw' = [saw EXCEPT ![p] = file]
    /\ Goto(p, "rechecking")
    /\ UNCHANGED <<file, attempt, tries, since>>

FindsUnreadable(p) ==
    /\ pc[p] = "reading"
    /\ Unreadable
    /\ Goto(p, "checking")
    /\ UNCHANGED <<file, attempt, tries, saw, since>>

(* Only a file that has vanished counts as stale; one that exists and says *)
(* nothing is read again, and left alone in the end.                       *)
Vanished == file = None

Access(p) ==
    /\ pc[p] = "checking"
    /\ IF Vanished
       THEN saw' = [saw EXCEPT ![p] = None] /\ Goto(p, "rechecking") /\ UNCHANGED <<attempt, tries>>
       ELSE /\ UNCHANGED saw
            /\ IF tries[p] < UnknownRetries
               THEN tries' = [tries EXCEPT ![p] = @ + 1] /\ Goto(p, "reading") /\ UNCHANGED attempt
               ELSE Again(p) /\ UNCHANGED tries
    /\ UNCHANGED <<file, since>>

(* stillTheSameStaleFile *)
SameWithoutLooking(p) == TRUE
StillTheSame(p) == IF saw[p] = None THEN Unreadable ELSE file = saw[p]

Recheck(p) ==
    /\ pc[p] = "rechecking"
    /\ IF StillTheSame(p) THEN Goto(p, "unlinking") /\ UNCHANGED attempt ELSE Again(p)
    /\ since' = [since EXCEPT ![p] = {}]
    /\ UNCHANGED <<file, tries, saw>>

UnlinkForgotten(p) ==
    /\ pc[p] = "unlinking"
    /\ Again(p)
    /\ UNCHANGED <<file, tries, saw, since>>

Unlink(p) ==
    /\ pc[p] = "unlinking"
    /\ file' = None
    /\ Again(p)
    /\ UNCHANGED <<tries, saw, since>>

(* A signal: after the bounded teardown, release looks at the file ...     *)
Signal(p) ==
    /\ pc[p] = "held"
    /\ Goto(p, "closing")
    /\ UNCHANGED <<file, attempt, tries, saw, since>>

Own(p) == file = p

ReleaseReads(p) ==
    /\ pc[p] = "closing"
    /\ Goto(p, IF Own(p) THEN "releasing" ELSE "gone")
    /\ since' = [since EXCEPT ![p] = {}]
    /\ UNCHANGED <<file, attempt, tries, saw>>

(* ... and removes it if it is its own; then the process exits.            *)
ReleaseUnlinks(p) ==
    /\ pc[p] = "releasing"
    /\ file' = None
    /\ Goto(p, "gone")
    /\ UNCHANGED <<attempt, tries, saw, since>>

(* SIGKILL, an uncaught error, or an error during startup: the file stays. *)
Crash(p) ==
    /\ pc[p] \notin Exited \cup {"idle"}
    /\ Goto(p, "gone")
    /\ UNCHANGED <<file, attempt, tries, saw, since>>
-----------------------------------------------------------------------------
Acquire(p) ==
    \/ Link(p) \/ FindsHolder(p) \/ FindsDead(p) \/ FindsUnreadable(p)
    \/ Access(p) \/ Recheck(p) \/ Unlink(p)

Release(p) == ReleaseReads(p) \/ ReleaseUnlinks(p)

Next == \E p \in Procs : Start(p) \/ Acquire(p) \/ Signal(p) \/ Release(p) \/ Crash(p)

Spec == Init /\ [][Next]_vars

(* File operations return; nobody has to be started, stopped or killed.    *)
FairSpec == Spec /\ \A p \in Procs : WF_vars(Acquire(p)) /\ WF_vars(Release(p))
-----------------------------------------------------------------------------
(* "The single-writer invariant the whole design rests on" (daemon.js):    *)
(* two daemons never both believe they hold the lock.                      *)
Holders == {p \in Procs : pc[p] = "held"}
OneHolder == Cardinality(Holders) <= 1

(* What the recheck and release's own look at the file achieve: a process  *)
(* about to remove the file never removes the lock of a live one that was  *)
(* there when it looked, only one published in the window since.           *)
TheftNeedsTheWindow ==
    \A p \in Procs :
        pc[p] \in {"unlinking", "releasing"} /\ Alive(file) => file = p \/ file \in since[p]

(* A file nobody can read is never taken from whoever may own it.          *)
UnknownIsNotStolen == [][file = Torn => file' = Torn]_vars

(* Not everybody loses: if all contenders were turned away, none of them   *)
(* killed and none of them ever a holder, the file is one nobody can read. *)
NotEveryoneLoses == (\A p \in Procs : pc[p] \in {"refused", "failed"}) => file = Torn

(* Every contender is told something: it holds the lock, is refused or     *)
(* gives up with an error after its attempts.                              *)
Settles == \A p \in Procs : pc[p] = "linking" ~> pc[p] \in {"held"} \cup Exited
=============================================================================
