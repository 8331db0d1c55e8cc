--------------------------- MODULE McpPool_proofs ---------------------------
(***************************************************************************)
(* Proofs about McpPool for any set of callers and of processes, any       *)
(* number of crashes and shutdowns, and every fault the module knows.      *)
(***************************************************************************)
EXTENDS McpPool, FiniteSetTheorems, TLAPS

(* The child in memory is the process the row names; its exit event has    *)
(* not been handled yet.                                                   *)
ChildIsServed ==
    child # None =>
        /\ status \in {"ready", "draining"}
        /\ pgid = child
        /\ child \in watched
        /\ proc[child] # "gone"

(* A caller on its way through spawnOne holds a process this daemon will   *)
(* see the end of, or has seen.                                            *)
SpawnIsWatched ==
    \A c \in Callers :
        pc[c] \in {"identity", "socket", "cleanup"} =>
            /\ target[c] \in Procs
            /\ target[c] \in watched \/ proc[target[c]] = "gone"

(* Nobody is in the middle of anything while no daemon serves.             *)
QuietWhileDown ==
    daemon \in {"down", "booting"} =>
        /\ child = None
        /\ \A c \in Callers : pc[c] \in {"idle", "attached", "done", "refused"}

(* While disposeAll waits for its victim, either the row is still as it    *)
(* was, or an exit event has closed what was open.                         *)
DisposeIsAlone ==
    daemon = "disposing" =>
        /\ victim \in Procs
        /\ status # "starting"
        /\ child = victim \/ \A c \in Callers : ~Open(c)

IInv ==
    /\ TypeOK
    /\ OpenMeansReady
    /\ TeardownIsExclusive
    /\ ChildIsServed
    /\ SpawnIsWatched
    /\ QuietWhileDown
    /\ DisposeIsAlone
-----------------------------------------------------------------------------
LEMMA InitEstablishes == Init => IInv
BY SwitchesAssumption
   DEF SwitchesAssumption, Init, IInv, TypeOK, OpenMeansReady, TeardownIsExclusive, ChildIsServed,
       SpawnIsWatched, QuietWhileDown, DisposeIsAlone, Open

LEMMA IInvStep == IInv /\ [Next]_vars => IInv'
<1> SUFFICES ASSUME IInv, [Next]_vars PROVE IInv'
  OBVIOUS
<1> USE SwitchesAssumption DEF SwitchesAssumption, IInv, TypeOK, OpenMeansReady,
        TeardownIsExclusive, ChildIsServed, SpawnIsWatched, QuietWhileDown, DisposeIsAlone, Open,
        Goto, rowVars, osVars, callVars, daemonVars
<1>1. ASSUME NEW c \in Callers, Join(c) PROVE IInv'
  BY <1>1 DEF Join, Joinable
<1>2. ASSUME NEW c \in Callers, NEW p \in Procs, Claim(c, p) PROVE IInv'
  BY <1>2 DEF Claim, Claimable
<1>3. ASSUME NEW c \in Callers, Wait(c) \/ PollTimeout(c) PROVE IInv'
  BY <1>3 DEF Wait, PollTimeout
<1>4. ASSUME NEW c \in Callers, IdentityVerified(c) PROVE IInv'
  BY <1>4 DEF IdentityVerified
<1>5. ASSUME NEW c \in Callers, IdentityUnverified(c) PROVE IInv'
  BY <1>5 DEF IdentityUnverified, GiveUp, MarkPoolFailed, Live, Close
<1>6. ASSUME NEW c \in Callers, SocketReady(c) PROVE IInv'
  BY <1>6 DEF SocketReady, StillStarting
<1>7. ASSUME NEW c \in Callers, LostReadyRace(c) \/ SocketTimeout(c) PROVE IInv'
  BY <1>7 DEF LostReadyRace, SocketTimeout
<1>8. ASSUME NEW c \in Callers, DiedBeforeReady(c) \/ CleanupDone(c) PROVE IInv'
  BY <1>8 DEF DiedBeforeReady, CleanupDone, GiveUp, MarkPoolFailed, Live, Close
<1>9. ASSUME NEW c \in Callers, StartRun(c) PROVE IInv'
  BY <1>9 DEF StartRun
<1>10. ASSUME NEW c \in Callers, Detach(c) PROVE IInv'
  BY <1>10 DEF Detach, LastOne, Live, Close, MarkPoolStopped
<1>11. ASSUME NEW c \in Callers, TeardownDone(c) \/ TeardownUnconfirmed(c) PROVE IInv'
  BY <1>11 DEF TeardownDone, TeardownUnconfirmed, MarkPoolStopped
<1>12. ASSUME NEW p \in Procs, Die(p) PROVE IInv'
  BY <1>12 DEF Die
<1>13. ASSUME NEW p \in Procs, ExitEvent(p) PROVE IInv'
  BY <1>13 DEF ExitEvent, MarkPoolFailed, Live, Close
<1>14. CASE Crash
  BY <1>14 DEF Crash, GoDown
<1>15. CASE Shutdown
  BY <1>15 DEF Shutdown, GoDown
<1>16. CASE DisposeDone
  BY <1>16 DEF DisposeDone, GoDown, MarkPoolStopped
<1>17. ASSUME NEW Lost \in SUBSET {c \in Callers : pc[c] = "attached"}, Boot(Lost) PROVE IInv'
  BY <1>17 DEF Boot, BootDrains, MarkPoolStopped, MarkPoolFailed, Live, Close
<1>18. CASE BootKillDone
  BY <1>18 DEF BootKillDone, MarkPoolFailed, Live, Close
<1>19. CASE UNCHANGED vars
  BY <1>19 DEF vars
<1> QED
  BY <1>1, <1>2, <1>3, <1>4, <1>5, <1>6, <1>7, <1>8, <1>9, <1>10, <1>11, <1>12, <1>13, <1>14,
     <1>15, <1>16, <1>17, <1>18, <1>19
     DEF Next, CallStep, RunStep, OsStep, BootStep

LEMMA IInvHolds == Spec => []IInv
BY InitEstablishes, IInvStep, PTL DEF Spec
-----------------------------------------------------------------------------
(* The state always has its type.                                          *)
THEOREM TypeCorrect == Spec => []TypeOK
<1>1. IInv => TypeOK
  BY DEF IInv
<1> QED
  BY <1>1, IInvHolds, PTL

(* Whatever fails, whoever kills the daemon and however callers interleave *)
(* at their awaits, an open attachment is one to a ready pool.             *)
THEOREM AttachedMeansServed == Spec => []OpenMeansReady
<1>1. IInv => OpenMeansReady
  BY DEF IInv
<1> QED
  BY <1>1, IInvHolds, PTL

(* At most one caller tears the pool down, and nobody is attached then.    *)
THEOREM OneTeardown == Spec => []TeardownIsExclusive
<1>1. IInv => TeardownIsExclusive
  BY DEF IInv
<1> QED
  BY <1>1, IInvHolds, PTL
-----------------------------------------------------------------------------
(* One resident process.  The claim of a process that comes up is not taken *)
(* from the caller that made it, so one daemon holds every process that    *)
(* runs: in the hands of the one caller that spawns, or named by the row.  *)
Spawning(c) == pc[c] \in {"identity", "socket"}

Undisturbed == ~SpawnsFail /\ MaxDowns = 0

OneSpawner ==
    /\ daemon = "up" /\ downs = 0
    /\ \A c \in Callers :
          /\ pc[c] # "cleanup"
          /\ Spawning(c) => /\ status = "starting" /\ pgid = None
                            /\ proc[target[c]] = "alive" /\ target[c] \notin signalled
          /\ pc[c] = "tearing" => target[c] = pgid
    /\ \A c, d \in Callers : Spawning(c) /\ Spawning(d) => c = d

AllAreHeld ==
    /\ status = "ready" => child = pgid /\ pgid # None
    /\ \A p \in Procs : proc[p] = "unborn" => p \notin signalled /\ p # pgid
    /\ \A p \in Procs :
          proc[p] \in {"alive", "exited"} =>
              \/ \E c \in Callers : Spawning(c) /\ target[c] = p
              \/ p = pgid /\ status \in {"ready", "draining"}

HeldInv == IInv /\ OneSpawner /\ AllAreHeld

LEMMA HeldInit == Init => HeldInv
<1> SUFFICES ASSUME Init PROVE HeldInv
  OBVIOUS
<1>1. OneSpawner /\ AllAreHeld
  BY SwitchesAssumption DEF SwitchesAssumption, Init, OneSpawner, AllAreHeld, Spawning
<1> QED BY <1>1, InitEstablishes DEF HeldInv

LEMMA HeldStep ==
    ASSUME Undisturbed, HeldInv, [Next]_vars
    PROVE  HeldInv'
<1> SUFFICES OneSpawner' /\ AllAreHeld'
  BY IInvStep DEF HeldInv
<1> IInv /\ OneSpawner /\ AllAreHeld
  BY DEF HeldInv
<1> USE SwitchesAssumption DEF SwitchesAssumption, Undisturbed, IInv, TypeOK, ChildIsServed,
        SpawnIsWatched, TeardownIsExclusive, Open, OneSpawner, AllAreHeld, Spawning, Goto, rowVars,
        osVars, callVars, daemonVars
<1>1. ASSUME NEW c \in Callers, Join(c) PROVE OneSpawner' /\ AllAreHeld'
  BY <1>1 DEF Join, Joinable
<1>2. ASSUME NEW c \in Callers, NEW p \in Procs, Claim(c, p) PROVE OneSpawner' /\ AllAreHeld'
  <2>1. ~\E d \in Callers : Spawning(d) \/ pc[d] = "tearing"
    BY <1>2 DEF Claim, Claimable
  <2>2. \A q \in Procs : proc[q] \notin {"alive", "exited"}
    BY <1>2, <2>1 DEF Claim, Claimable
  <2>3. OneSpawner'
    <3>1. /\ daemon' = "up" /\ downs' = 0 /\ status' = "starting" /\ pgid' = None
          /\ pc' = [pc EXCEPT ![c] = "identity"] /\ target' = [target EXCEPT ![c] = p]
          /\ proc' = [proc EXCEPT ![p] = "alive"] /\ signalled' = signalled /\ p \notin signalled
      BY <1>2 DEF Claim
    <3>2. \A d \in Callers : d = c \/ pc'[d] \notin {"identity", "socket", "cleanup", "tearing"}
      BY <2>1, <3>1
    <3> QED BY <3>1, <3>2
  <2>4. AllAreHeld'
    BY <1>2, <2>1, <2>2 DEF Claim
  <2> QED BY <2>3, <2>4
<1>3. ASSUME NEW c \in Callers, Wait(c) \/ PollTimeout(c) PROVE OneSpawner' /\ AllAreHeld'
  BY <1>3 DEF Wait, PollTimeout
<1>4. ASSUME NEW c \in Callers, IdentityVerified(c) PROVE OneSpawner' /\ AllAreHeld'
  BY <1>4 DEF IdentityVerified
<1>5. ASSUME NEW c \in Callers, IdentityUnverified(c) \/ LostReadyRace(c) \/ SocketTimeout(c)
                                \/ DiedBeforeReady(c) \/ CleanupDone(c)
      PROVE  FALSE
  BY <1>5 DEF IdentityUnverified, LostReadyRace, StillStarting, SocketTimeout, DiedBeforeReady,
              CleanupDone
<1>6. ASSUME NEW c \in Callers, SocketReady(c) PROVE OneSpawner' /\ AllAreHeld'
  BY <1>6 DEF SocketReady, StillStarting
<1>7. ASSUME NEW c \in Callers, StartRun(c) PROVE OneSpawner' /\ AllAreHeld'
  BY <1>7 DEF StartRun
<1>8. ASSUME NEW c \in Callers, Detach(c) PROVE OneSpawner' /\ AllAreHeld'
  <2>1. CASE Open(c) /\ LastOne(c)
    <3>1. status = "ready" /\ child = pgid /\ pgid \in Procs
      BY <2>1 DEF OpenMeansReady
    <3>2. ~\E d \in Callers : Spawning(d) \/ pc[d] = "tearing"
      BY <3>1
    <3>3. OneSpawner'
      BY <1>8, <2>1, <3>1, <3>2 DEF Detach
    <3>4. AllAreHeld'
      BY <1>8, <2>1, <3>1, <3>2 DEF Detach
    <3> QED BY <3>3, <3>4
  <2>2. CASE ~(Open(c) /\ LastOne(c))
    BY <1>8, <2>2 DEF Detach
  <2> QED BY <2>1, <2>2
<1>9. ASSUME NEW c \in Callers, TeardownDone(c) \/ TeardownUnconfirmed(c)
      PROVE  OneSpawner' /\ AllAreHeld'
  BY <1>9 DEF TeardownDone, TeardownUnconfirmed, MarkPoolStopped
<1>10. ASSUME NEW p \in Procs, Die(p) PROVE OneSpawner' /\ AllAreHeld'
  BY <1>10 DEF Die
<1>11. ASSUME NEW p \in Procs, ExitEvent(p) PROVE OneSpawner' /\ AllAreHeld'
  BY <1>11 DEF ExitEvent, MarkPoolFailed, Live, Close
<1>12. ~(Crash \/ Shutdown \/ DisposeDone \/ BootStep)
  BY DEF Crash, Shutdown, DisposeDone, BootStep, Boot, BootKillDone
<1>13. CASE UNCHANGED vars
  BY <1>13 DEF vars
<1> QED
  BY <1>1, <1>2, <1>3, <1>4, <1>5, <1>6, <1>7, <1>8, <1>9, <1>10, <1>11, <1>12, <1>13
     DEF Next, CallStep, RunStep, OsStep

(* While children come up and the daemon stays up, no race of attaching and   *)
(* detaching callers leaves a second process resident, not even if a kill   *)
(* goes unconfirmed ("one resident process per distinct (name, config)").   *)
THEOREM OneProcess == Undisturbed => (Spec => []OneResident)
<1>1. ASSUME HeldInv PROVE OneResident
  <2>1. \A p \in Resident : p = pgid
    BY <1>1 DEF HeldInv, AllAreHeld, Resident, Spawning
  <2>2. Resident = {} \/ Resident = {pgid}
    BY <2>1
  <2>3. Cardinality(Resident) \in {0, 1}
    BY <2>2, FS_EmptySet, FS_Singleton
  <2> QED BY <2>3 DEF OneResident
<1>2. CASE Undisturbed
  BY <1>1, <1>2, HeldInit, HeldStep, PTL DEF Spec
<1> QED BY <1>2
=============================================================================
