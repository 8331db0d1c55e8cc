------------------------------- MODULE McpPool -------------------------------
(***************************************************************************)
(* One shared MCP server process per (name, config): runtime/mcp-pool.js,   *)
(* the mcp_pool and mcp_pool_attachments rows it keeps through db/index.js, *)
(* and the calls runtime/supervisor.js makes to it when a run starts, ends, *)
(* and when the daemon boots or shuts down.                                *)
(*                                                                         *)
(* The daemon is one Node process, so code between two awaits is one       *)
(* action; callers interleave at their awaits, at the exit events of the   *)
(* children and at a crash of the daemon.  Rows of different (name,        *)
(* config) pairs never touch, so the module follows one of them.           *)
(***************************************************************************)
EXTENDS Naturals, FiniteSets

CONSTANTS
    Callers,       \* starts of runs that need the pool; each attaches once
    Procs,         \* bound: the processes that may ever be spawned
    None,
    SpawnsFail,    \* may a child fail to come up (ENOENT, death, timeout)?
    KillMayFail,   \* may a kill be left unconfirmed (EPERM, a stuck group)?
    MaxDowns,      \* bound: crashes and shutdowns of the daemon
    MayShutdown    \* does the daemon also go down gracefully?

ASSUME SwitchesAssumption ==
    /\ {SpawnsFail, KillMayFail, MayShutdown} \subseteq BOOLEAN
    /\ MaxDowns \in Nat
    /\ None \notin Procs

VARIABLES
    status,     \* mcp_pool.status, "none" before the first claim
    pgid,       \* mcp_pool.pgid
    att,        \* each caller's attachment row; unbound while run_id is NULL
    child,      \* the process behind the entry of liveChildren, if any
    proc,       \* the operating system's processes; "exited" until the exit
                \* event of a child reaches its daemon
    watched,    \* processes whose exit event this daemon will see
    signalled,  \* processes some kill was sent to
    pc,         \* where each caller is
    target,     \* the process a caller spawned, or is killing
    victim,     \* the process the daemon itself is killing, at boot or shutdown
    daemon,     \* "up", "booting", "disposing" or "down"
    downs       \* how often the daemon went down

rowVars == <<status, pgid, att>>
osVars == <<proc, watched, signalled>>
callVars == <<pc, target>>
daemonVars == <<victim, daemon, downs>>
vars == <<status, pgid, att, child, proc, watched, signalled, pc, target, victim, daemon, downs>>

TypeOK ==
    /\ status \in {"none", "starting", "ready", "draining", "stopped", "failed"}
    /\ pgid \in Procs \cup {None}
    /\ att \in [Callers -> {"none", "unbound", "bound", "closed"}]
    /\ child \in Procs \cup {None}
    /\ proc \in [Procs -> {"unborn", "alive", "exited", "gone"}]
    /\ watched \subseteq Procs /\ signalled \subseteq Procs
    /\ pc \in [Callers -> {"idle", "polling", "identity", "socket", "cleanup", "joined",
                           "attached", "tearing", "done", "refused"}]
    /\ target \in [Callers -> Procs \cup {None}]
    /\ victim \in Procs \cup {None}
    /\ daemon \in {"up", "booting", "disposing", "down"}
    /\ downs \in 0..MaxDowns

Init ==
    /\ status = "none" /\ pgid = None
    /\ att = [c \in Callers |-> "none"]
    /\ child = None
    /\ proc = [p \in Procs |-> "unborn"]
    /\ watched = {} /\ signalled = {}
    /\ pc = [c \in Callers |-> "idle"]
    /\ target = [c \in Callers |-> None]
    /\ victim = None /\ daemon = "up" /\ downs = 0

-----------------------------------------------------------------------------
(* Rows *)
Open(c) == att[c] \in {"unbound", "bound"}

Live == status \in {"starting", "ready"}

Close(S) == [c \in Callers |-> IF c \in S /\ Open(c) THEN "closed" ELSE att[c]]

(* markPoolFailed: the row and every open attachment, in one transaction.  *)
MarkPoolFailedOnly ==
    /\ status' = IF Live THEN "failed" ELSE status
    /\ UNCHANGED att

MarkPoolFailed ==
    /\ status' = IF Live THEN "failed" ELSE status
    /\ att' = Close(Callers)

MarkPoolStopped == status' = "stopped" /\ pgid' = None

(* attachToPool lets a caller join a row that is ready, and nothing else.  *)
JoinableEvenDraining == status \in {"ready", "draining"}
Joinable == status = "ready"

(* claimPoolSlot hands out a slot nobody spawns, serves or tears down.     *)
ClaimableWhileStarting == status \in {"none", "stopped", "failed", "starting"}
Claimable == status \in {"none", "stopped", "failed"}

(* detachAndMaybeDrain: was this the last open attachment of a live row?   *)
LastOneIgnored(c) == Live
LastOne(c) == Live /\ \A d \in Callers \ {c} : ~Open(d)

Goto(c, where) == pc' = [pc EXCEPT ![c] = where]
-----------------------------------------------------------------------------
(* attach *)
Join(c) ==
    /\ daemon = "up" /\ pc[c] \in {"idle", "polling"}
    /\ Joinable
    /\ att' = [att EXCEPT ![c] = "unbound"]
    /\ Goto(c, "joined")
    /\ UNCHANGED <<status, pgid, child, osVars, target, daemonVars>>

(* claimPoolSlot and the synchronous part of spawnOne.  With ENOENT there  *)
(* is no process, and no exit event either.                                *)
Claim(c, p) ==
    /\ daemon = "up" /\ pc[c] \in {"idle", "polling"}
    /\ ~Joinable
    /\ Claimable
    /\ proc[p] = "unborn"
    /\ status' = "starting" /\ pgid' = None
    /\ \/ /\ proc' = [proc EXCEPT ![p] = "alive"]
          /\ watched' = watched \cup {p}
       \/ /\ SpawnsFail
          /\ proc' = [proc EXCEPT ![p] = "gone"]
          /\ UNCHANGED watched
    /\ target' = [target EXCEPT ![c] = p]
    /\ Goto(c, "identity")
    /\ UNCHANGED <<att, child, signalled, daemonVars>>

Wait(c) ==
    /\ daemon = "up" /\ pc[c] = "idle"
    /\ ~Joinable /\ ~Claimable
    /\ Goto(c, "polling")
    /\ UNCHANGED <<rowVars, child, osVars, target, daemonVars>>

PollTimeoutIfSpawning(c) ==
    /\ pc[c] = "polling" /\ status = "starting"
    /\ Goto(c, "refused")
    /\ UNCHANGED <<rowVars, child, osVars, target, daemonVars>>

PollTimeout(c) ==
    /\ pc[c] = "polling"
    /\ Goto(c, "refused")
    /\ UNCHANGED <<rowVars, child, osVars, target, daemonVars>>

(* The catch block of attach, when spawnOne threw: it knows the pool id,   *)
(* not which claim of that pool it is cleaning up after.                   *)
GiveUp(c) ==
    /\ child' = None
    /\ MarkPoolFailed
    /\ Goto(c, "refused")
    /\ UNCHANGED <<pgid, target, daemonVars>>

(* ps answers: a round trip in which exit events already due are delivered. *)
IdentityVerified(c) ==
    /\ pc[c] = "identity" /\ proc[target[c]] = "alive"
    /\ \A p \in Procs : proc[p] # "exited"
    /\ Goto(c, "socket")
    /\ UNCHANGED <<rowVars, child, osVars, target, daemonVars>>

(* SIGKILL to a child of our own takes effect at once; its exit event is   *)
(* still to come when the catch block below runs.                          *)
IdentityUnverified(c) ==
    /\ pc[c] = "identity"
    /\ SpawnsFail \/ proc[target[c]] = "gone"
    /\ signalled' = signalled \cup {target[c]}
    /\ proc' = [proc EXCEPT ![target[c]] = IF @ = "alive" THEN "exited" ELSE @]
    /\ GiveUp(c)
    /\ UNCHANGED watched

(* The socket answers: markPoolReady, then the join of the spawner itself. *)
StillStarting == status = "starting"

SocketReady(c) ==
    /\ pc[c] = "socket" /\ proc[target[c]] = "alive"
    /\ StillStarting
    /\ status' = "ready" /\ pgid' = target[c]
    /\ child' = target[c]
    /\ att' = [att EXCEPT ![c] = "unbound"]
    /\ Goto(c, "joined")
    /\ UNCHANGED <<osVars, target, daemonVars>>

LostReadyRace(c) ==
    /\ pc[c] = "socket" /\ proc[target[c]] = "alive"
    /\ ~StillStarting
    /\ signalled' = signalled \cup {target[c]}
    /\ Goto(c, "cleanup")
    /\ UNCHANGED <<rowVars, child, proc, watched, target, daemonVars>>

SocketTimeout(c) ==
    /\ pc[c] = "socket" /\ proc[target[c]] # "gone"
    /\ SpawnsFail
    /\ signalled' = signalled \cup {target[c]}
    /\ Goto(c, "cleanup")
    /\ UNCHANGED <<rowVars, child, proc, watched, target, daemonVars>>

(* The readiness loop notices the exit event at its next turn.             *)
DiedBeforeReady(c) ==
    /\ pc[c] = "socket" /\ proc[target[c]] = "gone"
    /\ GiveUp(c)
    /\ UNCHANGED osVars

(* killProcessGroup returned; spawnOne does not look at its answer.        *)
CleanupDone(c) ==
    /\ pc[c] = "cleanup"
    /\ proc[target[c]] = "gone" \/ (KillMayFail /\ proc[target[c]] = "alive")
    /\ GiveUp(c)
    /\ UNCHANGED osVars
-----------------------------------------------------------------------------
(* The run of an attached caller *)
StartRun(c) ==
    /\ daemon = "up" /\ pc[c] = "joined"
    /\ att' = [att EXCEPT ![c] = IF Open(c) THEN "bound" ELSE @]
    /\ Goto(c, "attached")
    /\ UNCHANGED <<status, pgid, child, osVars, target, daemonVars>>

(* detach up to its await: a failed start, or a run that ended.            *)
Detach(c) ==
    /\ daemon = "up" /\ pc[c] \in {"joined", "attached"}
    /\ att' = Close({c})
    /\ IF Open(c) /\ LastOne(c)
       THEN IF child # None
            THEN /\ status' = "draining" /\ UNCHANGED pgid
                 /\ signalled' = signalled \cup {pgid}
                 /\ target' = [target EXCEPT ![c] = pgid]
                 /\ Goto(c, "tearing")
            ELSE /\ MarkPoolStopped
                 /\ Goto(c, "done")
                 /\ UNCHANGED <<signalled, target>>
       ELSE /\ Goto(c, "done")
            /\ UNCHANGED <<status, pgid, signalled, target>>
    /\ UNCHANGED <<child, proc, watched, daemonVars>>

TeardownDone(c) ==
    /\ pc[c] = "tearing" /\ proc[target[c]] = "gone"
    /\ child' = None
    /\ MarkPoolStopped
    /\ Goto(c, "done")
    /\ UNCHANGED <<att, osVars, target, daemonVars>>

TeardownUnconfirmed(c) ==
    /\ KillMayFail
    /\ pc[c] = "tearing" /\ proc[target[c]] = "alive"
    /\ Goto(c, "done")
    /\ UNCHANGED <<rowVars, child, osVars, target, daemonVars>>
-----------------------------------------------------------------------------
(* Processes.  A served process may die at any time; one that is still     *)
(* coming up only if SpawnsFail.                                           *)
Die(p) ==
    /\ proc[p] = "alive"
    /\ p \in signalled \/ p = pgid \/ SpawnsFail
    /\ proc' = [proc EXCEPT ![p] = IF p \in watched THEN "exited" ELSE "gone"]
    /\ UNCHANGED <<rowVars, child, watched, signalled, callVars, daemonVars>>

(* The listener spawnOne installs on every child.                          *)
ExitEvent(p) ==
    /\ proc[p] = "exited"
    /\ proc' = [proc EXCEPT ![p] = "gone"]
    /\ child' = None
    /\ MarkPoolFailed
    /\ UNCHANGED <<pgid, watched, signalled, callVars, daemonVars>>
-----------------------------------------------------------------------------
(* The daemon *)
(* Its memory and its callers go; rows and processes stay.                 *)
GoDown ==
    /\ daemon' = "down"
    /\ child' = None
    /\ watched' = {}
    /\ proc' = [p \in Procs |-> IF proc[p] = "exited" THEN "gone" ELSE proc[p]]
    /\ pc' = [c \in Callers |-> IF pc[c] \in {"idle", "attached", "done"} THEN pc[c] ELSE "refused"]
    /\ UNCHANGED <<target, signalled>>

Crash ==
    /\ daemon # "down" /\ downs < MaxDowns
    /\ downs' = downs + 1
    /\ GoDown
    /\ UNCHANGED <<rowVars, victim>>

(* shutdown: disposeAll kills the children liveChildren knows of ...       *)
Shutdown ==
    /\ MayShutdown /\ daemon = "up" /\ downs < MaxDowns
    /\ downs' = downs + 1
    /\ IF child # None
       THEN /\ daemon' = "disposing"
            /\ signalled' = signalled \cup {pgid}
            /\ victim' = pgid
            /\ UNCHANGED <<child, proc, watched, callVars>>
       ELSE GoDown /\ UNCHANGED victim
    /\ UNCHANGED rowVars

(* ... and marks the row once the kill is confirmed.                       *)
DisposeDone ==
    /\ daemon = "disposing"
    /\ \/ /\ proc[victim] = "gone"
          /\ MarkPoolStopped
       \/ /\ KillMayFail /\ proc[victim] = "alive"
          /\ UNCHANGED <<status, pgid>>
    /\ GoDown
    /\ UNCHANGED <<att, victim, downs>>

(* boot: the runs reconciled to lost are detached first, with no child in  *)
(* memory, so a row they were the last users of is stopped right there;    *)
(* then reconcileOnBoot looks at a row that still says starting or ready.  *)
BootDrains(Lost) ==
    /\ Live
    /\ \E c \in Lost : Open(c)
    /\ \A c \in Callers : Open(c) => c \in Lost

Boot(Lost) ==
    /\ daemon = "down"
    /\ pc' = [c \in Callers |-> IF c \in Lost THEN "done" ELSE pc[c]]
    /\ CASE BootDrains(Lost) ->
              /\ MarkPoolStopped /\ att' = Close(Lost)
              /\ daemon' = "up" /\ UNCHANGED <<signalled, victim>>
         [] Live /\ ~BootDrains(Lost) /\ pgid # None /\ proc[pgid] = "alive" ->
              /\ signalled' = signalled \cup {pgid} /\ victim' = pgid
              /\ att' = Close(Lost)
              /\ daemon' = "booting" /\ UNCHANGED <<status, pgid>>
         [] Live /\ ~BootDrains(Lost) /\ (pgid = None \/ proc[pgid] # "alive") ->
              /\ MarkPoolFailed
              /\ daemon' = "up" /\ UNCHANGED <<pgid, signalled, victim>>
         [] OTHER ->
              /\ att' = Close(Lost)
              /\ daemon' = "up" /\ UNCHANGED <<status, pgid, signalled, victim>>
    /\ UNCHANGED <<child, proc, watched, target, downs>>

(* The kill of a verified orphan of an earlier boot returned.              *)
BootKillDone ==
    /\ daemon = "booting"
    /\ daemon' = "up"
    /\ \/ (proc[victim] = "gone" /\ MarkPoolFailed)
       \/ (KillMayFail /\ proc[victim] = "alive" /\ UNCHANGED <<status, att>>)
    /\ UNCHANGED <<pgid, child, osVars, callVars, victim, downs>>
-----------------------------------------------------------------------------
CallStep(c) ==
    \/ Join(c) \/ (\E p \in Procs : Claim(c, p)) \/ Wait(c) \/ PollTimeout(c)
    \/ IdentityVerified(c) \/ IdentityUnverified(c)
    \/ SocketReady(c) \/ LostReadyRace(c) \/ SocketTimeout(c) \/ DiedBeforeReady(c)
    \/ CleanupDone(c)
    \/ TeardownDone(c) \/ TeardownUnconfirmed(c)

RunStep(c) == StartRun(c) \/ Detach(c)

OsStep(p) == Die(p) \/ ExitEvent(p)

BootStep ==
    (\E Lost \in SUBSET {c \in Callers : pc[c] = "attached"} : Boot(Lost)) \/ BootKillDone

Next ==
    \/ \E c \in Callers : CallStep(c) \/ RunStep(c)
    \/ \E p \in Procs : OsStep(p)
    \/ Crash \/ Shutdown \/ DisposeDone
    \/ BootStep

Spec == Init /\ [][Next]_vars

(* Awaits return, timers fire and a process that was signalled dies; runs  *)
(* need not end and healthy processes need not die.                        *)
FairSpec ==
    /\ Spec
    /\ \A c \in Callers : WF_vars(CallStep(c))
    /\ \A p \in Procs : WF_vars(p \in signalled /\ Die(p)) /\ WF_vars(ExitEvent(p))
    /\ WF_vars(DisposeDone) /\ WF_vars(BootStep)
-----------------------------------------------------------------------------
(* A process that is up, that nobody asked to go and that is no longer in  *)
(* the hands of the caller that spawned it.                                *)
Resident ==
    {p \in Procs : /\ proc[p] = "alive"
                   /\ p \notin signalled
                   /\ \A c \in Callers : pc[c] \in {"identity", "socket"} => target[c] # p}

(* "One resident process per distinct (name, config)": whatever races      *)
(* attaching callers run, no second process is left resident.              *)
OneResident == Cardinality(Resident) <= 1

(* An open attachment is one to a pool that is ready, in the daemon's life *)
(* and from one daemon to the next; in particular nobody is ever attached  *)
(* to a pool being torn down, or keeps a stale attachment on a pool that a *)
(* later caller resurrects.                                                *)
OpenMeansReady == \A c \in Callers : Open(c) => status = "ready"

(* At most one caller tears the pool down, and the process it kills is not *)
(* one somebody else is attached to.                                       *)
TeardownIsExclusive ==
    \A c \in Callers : pc[c] = "tearing" =>
        /\ \A d \in Callers : pc[d] = "tearing" => d = c
        /\ status = "draining"
        /\ \A d \in Callers : ~Open(d)

(* Every attach settles: the caller gets an attachment or an error.        *)
AttachSettles ==
    \A c \in Callers :
        pc[c] \in {"polling", "identity", "socket", "cleanup"} ~> pc[c] \in {"joined", "refused"}

(* Once the last user is gone the pooled process goes too.                 *)
Idle == \A c \in Callers : pc[c] \in {"done", "refused"}
IdlePoolDies == [](Idle => <>(\A p \in Procs : proc[p] # "alive"))
=============================================================================
