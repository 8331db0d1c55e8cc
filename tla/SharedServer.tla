---------------------------- MODULE SharedServer ----------------------------
(***************************************************************************)
(* The OpenCode runs of one directory: adapters/opencode/adapter.js, which *)
(* pools one `opencode serve` per directory and makes a run a session of   *)
(* it, with what runtime/supervisor.js and runtime/reconcile.js do to such *)
(* runs - stop, resume, input, boot, and the reap of one run of a process  *)
(* group that others share.                                                *)
(*                                                                         *)
(* An action ends where the code awaits.  The harness (external) takes     *)
(* prompts, ends turns, says so on the server's event stream, and dies.    *)
(* What it does in a session the adapter holds no handle of any more is    *)
(* not followed: nothing in the daemon learns of it.                       *)
(***************************************************************************)
EXTENDS Naturals, Sequences

CONSTANTS
    Runs,
    MaxServers,  \* bound: servers ever spawned in the directory
    MaxTurns,    \* bound: prompts the handle of a run is given, for each run
    MaxDowns,    \* bound: crashes and shutdowns of the daemon
    Patient      \* do operators wait for a run to be quiet? (see Quiet)

ASSUME SharedAssumption ==
    /\ MaxServers \in Nat \ {0} /\ MaxTurns \in [Runs -> Nat \ {0}] /\ MaxDowns \in Nat
    /\ Patient \in BOOLEAN

Servers == 1..MaxServers
Turns == 0..CHOOSE m \in {MaxTurns[r] : r \in Runs} : \A r \in Runs : MaxTurns[r] <= m

VARIABLES
    proc,      \* the servers; "starting" until they answer the health check
    pool,      \* serverPool's entry for the directory, 0 if there is none
    pc,        \* where the start of a run is: waiting for the server, asking
               \* it what it loaded, up
    on,        \* the run's server; a row records its process group
    run,       \* the adapter's `runs`: handles and what they keep
    consumer,  \* does the pump consume the run's stream?
    row,       \* the runs row: ended_at and lifecycle
    call,      \* a stop or reap of the run: what it awaits, the row it read
               \* and the siblings it found
    downs

serverVars == <<proc, pool>>
startVars == <<pc, on>>
bookVars == <<consumer, row>>
vars == <<serverVars, startVars, run, bookVars, call, downs>>

(* A handle.  Of an event only the turn it ends is kept, since a turn may  *)
(* end in two: session.error, then session.idle, which alone would mean    *)
(* that it completed.                                                      *)
Run == [held : BOOLEAN,
        turn : {"none", "sent", "running"},  \* the prompt it was last given
        turns : Turns,                       \* how many these were
        wire : Seq(Turns),         \* ends the server has sent, not yet demultiplexed
        ended : BOOLEAN,           \* _turnEndedForCurrentTurn
        cancelled : BOOLEAN,       \* _cancelled
        unread : BOOLEAN,          \* an end in _eventLog beyond _readCursor
        logged : SUBSET Turns]  \* turns whose end is in _eventLog

NoRun == [held |-> FALSE, turn |-> "none", turns |-> 0, wire |-> <<>>,
          ended |-> FALSE, cancelled |-> FALSE, unread |-> FALSE, logged |-> {}]
NewRun == [NoRun EXCEPT !.held = TRUE]

Rows == {"none", "managed", "orphan", "closed"}
NoCall == [at |-> "idle", was |-> "none", with |-> {}]

TypeOK ==
    /\ proc \in [Servers -> {"unborn", "starting", "serving", "dead"}]
    /\ pool \in Servers \cup {0}
    /\ pc \in [Runs -> {"none", "waiting", "describing", "up"}]
    /\ on \in [Runs -> Servers \cup {0}]
    /\ \A r \in Runs : run[r] \in Run /\ (run[r].held \/ run[r] = NoRun)
    /\ consumer \in [Runs -> BOOLEAN] /\ row \in [Runs -> Rows]
    /\ call \in [Runs -> [at : {"idle", "stop", "verify", "kill"},
                          was : Rows, with : SUBSET Runs]]
    /\ downs \in 0..MaxDowns

Init ==
    /\ proc = [s \in Servers |-> "unborn"] /\ pool = 0
    /\ pc = [r \in Runs |-> "none"] /\ on = [r \in Runs |-> 0]
    /\ run = [r \in Runs |-> NoRun]
    /\ consumer = [r \in Runs |-> FALSE] /\ row = [r \in Runs |-> "none"]
    /\ call = [r \in Runs |-> NoCall]
    /\ downs = 0

Serves(r) == on[r] # 0 /\ proc[on[r]] = "serving"
Held(r) == run[r].held
Open(r) == row[r] \in {"managed", "orphan"}

-----------------------------------------------------------------------------
(* Starting a run: getServer, the session, what the server loaded.         *)

(* getServer shares the entry of the directory, whatever has become of its *)
(* process, or spawns a server and publishes the entry before it is ready. *)
GetServer(r) ==
    /\ pc[r] = "none"
    /\ \/ pool # 0 /\ UNCHANGED serverVars
       \/ /\ pool = 0
          /\ \E s \in Servers :
                /\ proc[s] = "unborn" /\ \A t \in 1..s-1 : proc[t] # "unborn"
                /\ pool' = s
                /\ proc' = [proc EXCEPT ![s] = "starting"]
    /\ pc' = [pc EXCEPT ![r] = "waiting"]
    /\ on' = [on EXCEPT ![r] = pool']
    /\ UNCHANGED <<run, bookVars, call, downs>>

(* waitForHealth, then the server's event stream is open.                  *)
ServerReady ==
    /\ pool # 0 /\ proc[pool] = "starting"
    /\ proc' = [proc EXCEPT ![pool] = "serving"]
    /\ UNCHANGED <<pool, startVars, run, bookVars, call, downs>>

(* The spawn failed, or the server is not healthy after 15 s, or has no    *)
(* event stream: every start that waits for it throws.  Nothing will ask   *)
(* for the server again, also if it is merely late: it counts as unborn.   *)
ServerNotReady ==
    /\ pool # 0 /\ proc[pool] = "starting"
    /\ proc' = [proc EXCEPT ![pool] = "unborn"]
    /\ pool' = 0
    /\ LET waiting == {r \in Runs : pc[r] = "waiting"}
       IN /\ pc' = [r \in Runs |-> IF r \in waiting THEN "none" ELSE pc[r]]
          /\ on' = [r \in Runs |-> IF r \in waiting THEN 0 ELSE on[r]]
    /\ UNCHANGED <<run, bookVars, call, downs>>

(* POST /session made the session, and the run is in `runs` from here on.  *)
CreateSession(r) ==
    /\ pc[r] = "waiting" /\ Serves(r)
    /\ pc' = [pc EXCEPT ![r] = "describing"]
    /\ run' = [run EXCEPT ![r] = NewRun]
    /\ UNCHANGED <<serverVars, on, bookVars, call, downs>>

\* the server refuses, or is gone: its entry stays in the pool
CreateSessionFails(r) ==
    /\ pc[r] = "waiting" /\ proc[on[r]] # "starting"
    /\ pc' = [pc EXCEPT ![r] = "none"] /\ on' = [on EXCEPT ![r] = 0]
    /\ UNCHANGED <<serverVars, run, bookVars, call, downs>>

(* describeServerEnv answered or gave up; the prompt is sent without being *)
(* awaited, and start of the supervisor inserts the row, attaches the pump *)
(* and records the identity of the server, which is known by now.          *)
Launch(r) ==
    /\ pc[r] = "describing"
    /\ pc' = [pc EXCEPT ![r] = "up"]
    /\ run' = [run EXCEPT ![r].turn = "sent", ![r].turns = 1]
    /\ row' = [row EXCEPT ![r] = "managed"]
    /\ consumer' = [consumer EXCEPT ![r] = TRUE]
    /\ UNCHANGED <<serverVars, on, call, downs>>

-----------------------------------------------------------------------------
(* Turns.  The server's part is external.                                  *)

PromptArrives(r) ==
    /\ run[r].turn = "sent" /\ Serves(r)
    /\ run' = [run EXCEPT ![r].turn = "running"]
    /\ UNCHANGED <<serverVars, startVars, bookVars, call, downs>>

(* The end of a turn enters the run's log.                                 *)
Log(R, t) == [R EXCEPT !.ended = TRUE, !.unread = TRUE, !.logged = @ \cup {t}]

(* The prompt is refused or cannot be sent.  start ends the turn itself,   *)
(* without asking whether it has ended; sendInput throws, and that is all. *)
PromptFails(r) ==
    /\ run[r].turn = "sent"
    /\ LET idle == [run[r] EXCEPT !.turn = "none"]
       IN run' = [run EXCEPT ![r] = IF idle.turns = 1 THEN Log(idle, 1) ELSE idle]
    /\ UNCHANGED <<serverVars, startVars, bookVars, call, downs>>

\* session.idle alone, or session.error and then session.idle
Ended(R) == [R EXCEPT !.turn = "none", !.wire = Append(@, R.turns)]
EndedTwice(R) == [R EXCEPT !.turn = "none", !.wire = @ \o <<R.turns, R.turns>>]

TurnEnds(r) ==
    /\ run[r].turn = "running"
    /\ \E R \in {Ended(run[r]), EndedTwice(run[r])} : run' = [run EXCEPT ![r] = R]
    /\ UNCHANGED <<serverVars, startVars, bookVars, call, downs>>

(* POST /abort: ends a running turn with two events, and may fail.         *)
Abort(r) ==
    \/ run[r].turn = "running" /\ run' = [run EXCEPT ![r] = EndedTwice(@)]
    \/ UNCHANGED run

Interrupt(r) ==
    /\ Held(r) /\ pc[r] = "up" /\ Abort(r)
    /\ UNCHANGED <<serverVars, startVars, bookVars, call, downs>>

(* _demuxOneEvent: only the first end of a turn reaches the run's log.     *)
NeverRedundant(r) == FALSE
Redundant(r) == run[r].ended
Demux(r) ==
    /\ run[r].wire # <<>>
    /\ LET R == [run[r] EXCEPT !.wire = Tail(@)]
       IN run' = [run EXCEPT ![r] = IF Redundant(r) THEN R ELSE Log(R, Head(run[r].wire))]
    /\ UNCHANGED <<serverVars, startVars, bookVars, call, downs>>

(* observe yields what the log holds and returns once it has yielded the   *)
(* end of a turn, or was cancelled; the pump's onEnd hook closes the row.  *)
StreamEnds(r) ==
    /\ consumer[r] /\ (run[r].unread \/ run[r].cancelled)
    /\ run' = [run EXCEPT ![r].unread = FALSE]
    /\ consumer' = [consumer EXCEPT ![r] = FALSE]
    /\ row' = [row EXCEPT ![r] = "closed"]
    /\ UNCHANGED <<serverVars, startVars, call, downs>>

(* With Patient, an operator gives input to a run that was resumed, and    *)
(* only when everything the server said of it so far has been read.        *)
Quiet(r) == run[r].wire = <<>> /\ ~run[r].unread

\* a new turn begins: the flag of the one before must not outlive it
NewTurnSameFlag(R) == [R EXCEPT !.turn = "sent", !.turns = @ + 1]
NewTurn(R) == [R EXCEPT !.turn = "sent", !.turns = @ + 1, !.ended = FALSE]
SendInput(r) ==
    /\ Held(r) /\ pc[r] = "up" /\ run[r].turn = "none" /\ run[r].turns < MaxTurns[r]
    /\ Patient => consumer[r] /\ Quiet(r)
    /\ run' = [run EXCEPT ![r] = NewTurn(@)]
    /\ UNCHANGED <<serverVars, startVars, bookVars, call, downs>>

(* resume of a run the adapter holds: the row is reopened, the identity of *)
(* the same server recorded, and the stream consumed anew.  A consumer     *)
(* there still is is cancelled, and with it the run, for good.             *)
NotReopened(r) == row[r]
Reopened(r) == IF row[r] = "closed" THEN "managed" ELSE row[r]
Resume(r) ==
    /\ Held(r) /\ pc[r] = "up"
    /\ Patient => ~consumer[r]
    /\ row' = [row EXCEPT ![r] = Reopened(r)]
    /\ run' = [run EXCEPT ![r].cancelled = @ \/ consumer[r]]
    /\ consumer' = [consumer EXCEPT ![r] = TRUE]
    /\ UNCHANGED <<serverVars, startVars, call, downs>>

-----------------------------------------------------------------------------
(* Stop and reap.                                                          *)

AtCall(r, at) == call' = [call EXCEPT ![r] = [NoCall EXCEPT !.at = at]]
CallEnds(r) == call' = [call EXCEPT ![r] = NoCall]

StopBegins(r) ==
    /\ row[r] # "none" /\ call[r].at = "idle"
    /\ AtCall(r, "stop") /\ Abort(r)
    /\ UNCHANGED <<serverVars, startVars, bookVars, downs>>

(* The end of a session, whether a stop or a reap asked for it: whatever   *)
(* the abort did, adapter.stop forgets the run, and the pump and the row   *)
(* are closed.  Of a run the adapter does not hold a stop closes the row,  *)
(* and does nothing else.                                                  *)
StopDone(r) ==
    /\ call[r].at = "stop" /\ CallEnds(r)
    /\ run' = [run EXCEPT ![r] = NoRun]
    /\ consumer' = [consumer EXCEPT ![r] = FALSE]
    /\ row' = [row EXCEPT ![r] = "closed"]
    /\ UNCHANGED <<serverVars, startVars, downs>>

ReapBegins(r) ==
    /\ row[r] # "none" /\ call[r].at = "idle"
    /\ call' = [call EXCEPT ![r] = [at |-> "verify", was |-> row[r], with |-> {}]]
    /\ UNCHANGED <<serverVars, startVars, run, bookVars, downs>>

\* refusal #1: the process is gone, and an open row is lost
ReapFindsNobody(r) ==
    /\ call[r].at = "verify" /\ ~Serves(r) /\ CallEnds(r)
    /\ row' = [row EXCEPT ![r] = IF call[r].was = "closed" THEN @ ELSE "closed"]
    /\ UNCHANGED <<serverVars, startVars, run, consumer, downs>>

\* listOpenRunsSharingProcessGroup
Siblings(r) == {q \in Runs \ {r} : Open(q) /\ on[q] = on[r]}
NoEscape(r) == FALSE
AllOrphans(r) ==
    /\ call[r].was = "orphan" /\ ~Held(r)
    /\ \A q \in Siblings(r) : row[q] = "orphan" /\ ~Held(q)

(* The process is ours.  The group is killed if nobody shares it, or if    *)
(* everybody in it is an orphan: these keep each other's rows open.        *)
ReapKills(r) ==
    /\ call[r].at = "verify" /\ Serves(r)
    /\ Siblings(r) = {} \/ AllOrphans(r)
    /\ call' = [call EXCEPT ![r].at = "kill", ![r].with = Siblings(r)]
    /\ UNCHANGED <<serverVars, startVars, run, bookVars, downs>>

\* refusal #2: only the session is ended, through the handle if there is one
ReapSpares(r) ==
    /\ call[r].at = "verify" /\ Serves(r)
    /\ Siblings(r) # {} /\ ~AllOrphans(r)
    /\ IF Held(r) THEN AtCall(r, "stop") /\ Abort(r)
                  ELSE CallEnds(r) /\ UNCHANGED run
    /\ UNCHANGED <<serverVars, startVars, bookVars, downs>>

(* A server goes, with the turns it was running, and may have told the     *)
(* runs it had (server.instance.disposed).  Its entry in the pool stays.   *)
Down(s, R) ==
    /\ proc' = [proc EXCEPT ![s] = "dead"]
    /\ \E told \in BOOLEAN :
          run' = [r \in Runs |->
                    IF on[r] # s \/ ~Held(r) THEN R[r]
                    ELSE [R[r] EXCEPT !.turn = IF @ = "running" THEN "none" ELSE @,
                                      !.wire = IF told THEN Append(@, R[r].turns) ELSE @]]

\* the rows that were open then are closed; closeRun cancels the stream of r
GroupKilled(r) ==
    /\ call[r].at = "kill" /\ CallEnds(r)
    /\ LET R == [run EXCEPT ![r].cancelled = @ \/ consumer[r]]
       IN IF Serves(r) THEN Down(on[r], R) ELSE run' = R /\ UNCHANGED proc
    /\ LET booked == call[r].with \cup (IF call[r].was = "closed" THEN {} ELSE {r})
       IN row' = [q \in Runs |-> IF q \in booked THEN "closed" ELSE row[q]]
    /\ consumer' = [consumer EXCEPT ![r] = FALSE]
    /\ UNCHANGED <<pool, startVars, downs>>

GroupSurvives(r) ==
    /\ call[r].at = "kill" /\ Serves(r) /\ CallEnds(r)
    /\ UNCHANGED <<serverVars, startVars, run, bookVars, downs>>

-----------------------------------------------------------------------------
(* Failures.                                                               *)

ServerDies(s) ==
    /\ proc[s] = "serving"
    /\ Down(s, run)
    /\ UNCHANGED <<pool, startVars, bookVars, call, downs>>

(* The daemon shuts down, killing the pooled server (disposeAll), or is    *)
(* killed itself; the next one holds nothing, and reconcileOnBoot looks at *)
(* the open rows.  A start in progress is gone.  Only restarts that find a *)
(* row count.                                                              *)
Restart(kill) ==
    /\ \E r \in Runs : row[r] # "none"
    /\ downs < MaxDowns /\ downs' = downs + 1
    /\ proc' = IF kill /\ pool # 0 THEN [proc EXCEPT ![pool] = "dead"] ELSE proc
    /\ pool' = 0
    /\ pc' = [r \in Runs |-> IF pc[r] = "up" THEN "up" ELSE "none"]
    /\ on' = [r \in Runs |-> IF pc[r] = "up" THEN on[r] ELSE 0]
    /\ run' = [r \in Runs |-> NoRun] /\ consumer' = [r \in Runs |-> FALSE]
    /\ row' = [r \in Runs |-> IF ~Open(r) THEN row[r]
                              ELSE IF proc'[on[r]] = "dead" THEN "closed" ELSE "orphan"]
    /\ call' = [r \in Runs |-> NoCall]

Next ==
    \/ ServerReady \/ ServerNotReady
    \/ \E r \in Runs :
          \/ GetServer(r) \/ CreateSession(r) \/ CreateSessionFails(r) \/ Launch(r)
          \/ PromptArrives(r) \/ PromptFails(r) \/ TurnEnds(r) \/ Interrupt(r)
          \/ Demux(r) \/ StreamEnds(r) \/ SendInput(r) \/ Resume(r)
          \/ StopBegins(r) \/ StopDone(r)
          \/ ReapBegins(r) \/ ReapFindsNobody(r) \/ ReapKills(r) \/ ReapSpares(r)
          \/ GroupKilled(r) \/ GroupSurvives(r)
    \/ \E s \in Servers : ServerDies(s)
    \/ \E kill \in BOOLEAN : Restart(kill)

(* The harness ends the turns it runs; the reader of its events, the pump  *)
(* and the awaits of a reap are scheduled by Node.  A kill that is tried   *)
(* again and again works in the end.                                       *)
Fairness ==
    \A r \in Runs :
        /\ WF_vars(TurnEnds(r)) /\ WF_vars(Demux(r)) /\ WF_vars(StreamEnds(r))
        /\ WF_vars(ReapFindsNobody(r) \/ ReapKills(r) \/ ReapSpares(r))
        /\ SF_vars(GroupKilled(r))

Spec == Init /\ [][Next]_vars /\ Fairness

-----------------------------------------------------------------------------
(* When reap starts to kill a process group, it kills no other run whose   *)
(* stream is followed (reconcile.js: never kills a group shared with       *)
(* another open run).  What counts is the rows, so every run that is       *)
(* followed must have an open one, over all its ends, stops and resumes.   *)
(* A run whose stream has ended takes input under its closed row (sendInput*)
(* of supervisor.js asks for none) and is then killed at work; where       *)
(* operators are patient, who is at work is followed, and so is spared.    *)
AtWork(q) == pc[q] = "up" /\ run[q].turn # "none"
NoCollateral ==
    [][\A r \in Runs : ReapKills(r) =>
          \A q \in Runs \ {r} :
             on[q] = on[r] => ~consumer[q] /\ (Patient => ~AtWork(q))]_vars

(* Of all that is said about the end of a turn the log keeps the first: an *)
(* aborted or failed turn is not overwritten as completed by the idle that *)
(* follows.  As long as it is the run's last turn this holds whatever      *)
(* operators do; in a later one, if its input did not overtake an end that *)
(* was still under way, for sendInput lowers the flag (adapter.js:749,     *)
(* _turnEndedForCurrentTurn).                                              *)
OneEndPerTurn ==
    [][\A r \in Runs :
          /\ Demux(r) /\ Head(run[r].wire) \in run[r].logged
          /\ Patient \/ Head(run[r].wire) = run[r].turns
          => run'[r] = [run[r] EXCEPT !.wire = Tail(@)]]_vars

(* A turn that runs while the pump listens ends the stream that listens to *)
(* it, the second turn like the first; only a server that died without a   *)
(* word leaves a consumer waiting (observe must not hang, findings S8, B9).*)
TurnsAreBooked ==
    \A r \in Runs : consumer[r] /\ run[r].turn = "running" ~> ~consumer[r] \/ ~Serves(r)

(* Orphans that share a server do not protect each other for ever: one     *)
(* that is reaped again and again gets rid of its open row (reconcile.js,  *)
(* the escape hatch of refusal #2).                                        *)
OrphansGo ==
    \A r \in Runs : []<>(call[r].at = "verify") => []<>(row[r] # "orphan")
=============================================================================
