---------------------------- MODULE AskRoundTrip ----------------------------
(***************************************************************************)
(* One run of a worker and the questions it parks on a human: the runs and *)
(* asks rows of supervisor/db/index.js, the paths of runtime/supervisor.js  *)
(* and runtime/reconcile.js that open, end, resume and reap the run or     *)
(* raise, answer, withdraw, close and deliver an ask, the event pump's     *)
(* consumer between them, and the parked requests of the harness adapter.  *)
(*                                                                         *)
(* The daemon is one Node process: an action ends where the code awaits    *)
(* something outside it (ps, a pipe, a kill's grace period).  Events the   *)
(* pump's consumer finds are handled in the same turn of the loop they     *)
(* arrive in, so an event is only ever pending while nobody consumes.      *)
(***************************************************************************)
EXTENDS Naturals, FiniteSets

CONSTANTS
    Reqs,       \* harness request ids; a replacement process may reuse them
    Decisions,  \* what a human may decide: allow, deny, the answers to a question
    MaxGens,    \* bound: the processes one run has had (start, then resumes)
    MaxDowns,   \* bound: crashes and shutdowns of the daemon
    Enabled     \* what operators, harness and system do in this instance

Behaviours == {"identity-rejects", "reap", "crash-in-reap", "resume-live", "turn-errors",
               "turn-aborts", "write-fails", "retry", "stop", "stop-ended"}

ASSUME BoundsAssumption ==
    /\ MaxGens \in Nat \ {0} /\ MaxDowns \in Nat
    /\ Enabled \subseteq Behaviours

ASSUME DecisionsAssumption == Decisions \cap {"none", "open", "closed", "withdrawn"} = {}

Gens == 1..MaxGens
Keys == Gens \X Reqs     \* the unique index (run, generation, request) of asks
Ends == {"open", "self", "stopped", "reaped", "lost"}

VARIABLES
    row,       \* the runs row: end, orphan (lifecycle) and ident, the
               \* generation whose verified pid/pgid/lstart it records
    asks,      \* the asks rows; st is "none" before createAsk
    task,      \* state of the run's task
    gen,       \* generation of the newest process
    procs,     \* the worker processes
    adapter,   \* how the adapter sees the run; "unknown" after a restart
    parked,    \* the adapter's parked requests: by which generation
    pending,   \* withdrawals nobody has consumed yet
    consumer,  \* is the pump consuming the run's stream?
    launch,    \* a start or resume that waits for the process identity
    reap,      \* a reap in progress, with the row it read at its start
    writing,   \* answers on their way into a worker's stdin
    heard,     \* every answer a worker has read (history)
    missed,    \* asks whose answer's own delivery did not get through (history)
    daemon,
    downs

rowVars == <<row, asks, task>>
harnessVars == <<gen, procs, adapter, parked, pending, consumer>>
callVars == <<launch, reap, writing, heard, missed>>
vars == <<rowVars, harnessVars, callVars, daemon, downs>>

Ask == [st : {"none", "open", "closed", "withdrawn"} \cup Decisions,
        due : BOOLEAN,                          \* auto_close_at is set
        sent : {"no", "yes", "abandoned"},      \* delivered_at, delivery_abandoned_at
        redacted : BOOLEAN]                     \* payload reduced to a hash

Heard == [key : Keys, to : Gens, intact : BOOLEAN, decision : Decisions]

TypeOK ==
    /\ row \in [end : Ends, orphan : BOOLEAN, ident : Gens \cup {0}]
    /\ asks \in [Keys -> Ask]
    /\ \A k \in Keys :
          /\ asks[k].redacted \/ asks[k].sent = "yes" => asks[k].st \in Decisions
          /\ asks[k].sent = "abandoned" => asks[k].st \notin {"none", "open"}
    /\ task \in {"implementing", "blocked"}
    /\ gen \in Gens
    /\ procs \in [Gens -> {"unborn", "alive", "dead"}]
    /\ adapter \in {"running", "interrupted", "errored", "stopped", "cancelled", "unknown"}
    /\ parked \in [Reqs -> Gens \cup {0}]
    /\ pending \subseteq Reqs
    /\ consumer \in BOOLEAN
    /\ launch \in {"none", "start", "resume"}
    /\ reap \in [pc : {"idle", "verifying", "killing"}, target : Gens \cup {0}, wasOpen : BOOLEAN]
    /\ writing \subseteq [key : Keys, to : Gens, intact : BOOLEAN, by : {"answer", "retry"}]
    /\ heard \subseteq Heard /\ missed \subseteq Keys
    /\ daemon \in {"up", "down"}
    /\ downs \in 0..MaxDowns

NoAsk == [st |-> "none", due |-> FALSE, sent |-> "no", redacted |-> FALSE]
NewAsk(due) == [st |-> "open", due |-> due, sent |-> "no", redacted |-> FALSE]
NoReap == [pc |-> "idle", target |-> 0, wasOpen |-> FALSE]

(* The run row was just inserted and the pump attached; start still waits  *)
(* for the identity of its child.                                          *)
Init ==
    /\ row = [end |-> "open", orphan |-> FALSE, ident |-> 0]
    /\ asks = [k \in Keys |-> NoAsk]
    /\ task = "implementing"
    /\ gen = 1
    /\ procs = [g \in Gens |-> IF g = 1 THEN "alive" ELSE "unborn"]
    /\ adapter = "running"
    /\ parked = [r \in Reqs |-> 0]
    /\ pending = {}
    /\ consumer = TRUE
    /\ launch = "start" /\ reap = NoReap
    /\ writing = {} /\ heard = {} /\ missed = {}
    /\ daemon = "up" /\ downs = 0

-----------------------------------------------------------------------------
(* The asks table *)
OpenAsks(A) == {k \in Keys : A[k].st = "open"}
Decided(A, k) == A[k].st \in Decisions

\* closeOpenAsksForRun, scheduleAskAutoClose, and the reset in reopenRun
CloseOpen(A) == [k \in Keys |-> IF A[k].st = "open" THEN [A[k] EXCEPT !.st = "closed"] ELSE A[k]]
KeepDeadlines(A) == A
Schedule(A) == [k \in Keys |-> IF A[k].st = "open" THEN [A[k] EXCEPT !.due = TRUE] ELSE A[k]]
Unschedule(A) == [k \in Keys |-> IF A[k].st = "open" THEN [A[k] EXCEPT !.due = FALSE] ELSE A[k]]

(* createAsk, with a deadline at once if the run has ended.  A repeat of an *)
(* event finds its row under the unique index and changes nothing.         *)
CreateWithoutDeadline(A, k, ended) ==
    IF A[k].st = "none" THEN [A EXCEPT ![k] = NewAsk(FALSE)] ELSE A
Create(A, k, ended) ==
    IF A[k].st = "none" THEN [A EXCEPT ![k] = NewAsk(ended)] ELSE A

(* withdrawApprovalAsk looks a row up by request id alone: unresolved rows *)
(* first, then the newest.  A row already decided keeps its decision, and  *)
(* what is abandoned is its delivery.                                      *)
RowsOf(A, r) == {k \in Keys : k[2] = r /\ A[k].st # "none"}
Withdrawable(A, r) ==
    LET candidates == IF RowsOf(A, r) \cap OpenAsks(A) # {}
                      THEN RowsOf(A, r) \cap OpenAsks(A) ELSE RowsOf(A, r)
    IN {k \in candidates : \A j \in candidates : j[1] <= k[1]}
Withdraw(A, R) ==
    [k \in Keys |->
        IF ~\E r \in R : k \in Withdrawable(A, r) THEN A[k]
        ELSE IF A[k].st = "open" THEN [A[k] EXCEPT !.st = "withdrawn"]
        ELSE IF A[k].sent = "no" THEN [A[k] EXCEPT !.sent = "abandoned"]
        ELSE A[k]]

\* reconcileAutoBlockedTasks and syncBlockedOnAskOpened
StillBlocked(A) == task
Unblocked(A) == IF OpenAsks(A) = {} THEN "implementing" ELSE task
BlockedBy(A) == IF OpenAsks(A) \ OpenAsks(asks) # {} THEN "blocked" ELSE Unblocked(A)
-----------------------------------------------------------------------------
(* Ending a run: closeAndScheduleAsks.  The first writer decides; asks of  *)
(* a run that ended on its own keep a grace period, others are closed.     *)
IsOpen == row.end = "open"

EndsAs(A, reason) ==
    /\ row' = IF IsOpen THEN [row EXCEPT !.end = reason] ELSE row
    /\ asks' = IF ~IsOpen THEN A ELSE IF reason = "self" THEN Schedule(A) ELSE CloseOpen(A)
    /\ task' = BlockedBy(asks')

\* A deliberate operation in flight outranks what the stream's end suggests.
Reason == IF reap.pc = "idle" THEN "self" ELSE "reaped"
-----------------------------------------------------------------------------
(* The worker and its stream *)
Alive(g) == procs[g] = "alive"

\* observe() returns; an aborted turn's status is none of those that end it.
StreamEndedByStatus == adapter \in {"stopped", "errored", "cancelled"}
StreamEnded == adapter \in {"stopped", "errored", "cancelled"}
               \/ (procs[gen] = "dead" /\ adapter # "interrupted")

(* can_use_tool arrives; recordApprovalAsk turns it into a row when the    *)
(* pump's consumer sees it.                                                *)
Park(r) ==
    /\ daemon = "up" /\ adapter \notin {"unknown", "stopped"} /\ Alive(gen)
    /\ asks[<<gen, r>>].st = "none" /\ parked[r] = 0
    /\ parked' = [parked EXCEPT ![r] = gen]
    /\ asks' = IF consumer THEN Create(asks, <<gen, r>>, ~IsOpen) ELSE asks
    /\ task' = BlockedBy(asks')
    /\ UNCHANGED <<row, gen, procs, adapter, pending, consumer, callVars, daemon, downs>>

(* control_cancel_request: the harness takes a request back.               *)
HarnessWithdraws(r) ==
    /\ daemon = "up" /\ adapter # "unknown" /\ Alive(gen)
    /\ parked[r] = gen
    /\ parked' = [parked EXCEPT ![r] = 0]
    /\ pending' = IF consumer THEN pending ELSE pending \cup {r}
    /\ asks' = IF consumer THEN Withdraw(asks, {r}) ELSE asks
    /\ task' = BlockedBy(asks')
    /\ UNCHANGED <<row, gen, procs, adapter, consumer, callVars, daemon, downs>>

(* A process exits.  If it is the run's and consumed, the stream ends and  *)
(* the onEnd hook books it; the exit of a replaced process is ignored.     *)
Exit(g) ==
    /\ Alive(g)
    /\ procs' = [procs EXCEPT ![g] = "dead"]
    /\ IF g = gen /\ consumer /\ adapter # "interrupted"
       THEN EndsAs(asks, Reason) /\ consumer' = FALSE
       ELSE UNCHANGED <<rowVars, consumer>>
    /\ UNCHANGED <<gen, adapter, parked, pending, callVars, daemon, downs>>

(* A turn ends with is_error: the adapter ends the stream, not the process. *)
TurnErrors ==
    /\ "turn-errors" \in Enabled
    /\ daemon = "up" /\ adapter = "running" /\ Alive(gen)
    /\ adapter' = "errored" /\ consumer' = FALSE
    /\ IF consumer THEN EndsAs(asks, Reason) ELSE UNCHANGED rowVars
    /\ UNCHANGED <<gen, procs, parked, pending, callVars, daemon, downs>>

(* A turn is interrupted; a new turn makes the run running again.          *)
TurnAborts ==
    /\ "turn-aborts" \in Enabled
    /\ daemon = "up" /\ adapter = "running" /\ Alive(gen)
    /\ adapter' = "interrupted"
    /\ UNCHANGED <<rowVars, gen, procs, parked, pending, consumer, callVars, daemon, downs>>

SendInput ==
    /\ daemon = "up" /\ adapter \in {"interrupted", "errored"} /\ Alive(gen)
    /\ adapter' = "running"
    /\ UNCHANGED <<rowVars, gen, procs, parked, pending, consumer, callVars, daemon, downs>>
-----------------------------------------------------------------------------
(* start, stop, resume *)

(* The run is ended at once; the process dies of it later, if it does.     *)
Stop ==
    /\ (IF IsOpen THEN "stop" ELSE "stop-ended") \in Enabled
    /\ daemon = "up" /\ adapter # "unknown"
    /\ adapter' = "stopped" /\ consumer' = FALSE
    /\ parked' = [r \in Reqs |-> 0]
    /\ EndsAs(asks, "stopped")
    /\ UNCHANGED <<gen, procs, pending, callVars, daemon, downs>>

\* reopenRun: a row that ended is live again, and its asks have no deadline.
Reopened == IF IsOpen THEN row ELSE [row EXCEPT !.end = "open", !.orphan = FALSE]
ReopenedAsks(A) == IF IsOpen THEN A ELSE Unschedule(A)

\* _bindChild withdraws what the replaced process had parked.
NothingReplaced == {}
ReplacedRequests == {r \in Reqs : parked[r] # 0}

(* resume of a run whose process is gone or was given up: a new process,   *)
(* the requests of the old one withdrawn, the row reopened.                *)
Resume ==
    /\ daemon = "up" /\ launch = "none"
    /\ adapter \in {"stopped", "errored"} \/ (adapter # "unknown" /\ procs[gen] = "dead")
    /\ gen < MaxGens
    /\ gen' = gen + 1
    /\ procs' = [procs EXCEPT ![gen + 1] = "alive"]
    /\ adapter' = "running"
    /\ pending' = IF consumer THEN pending ELSE pending \cup ReplacedRequests
    /\ parked' = [r \in Reqs |-> 0]
    /\ row' = Reopened
    /\ asks' = ReopenedAsks(IF consumer THEN Withdraw(asks, ReplacedRequests) ELSE asks)
    /\ task' = BlockedBy(asks')
    /\ launch' = "resume"
    /\ UNCHANGED <<consumer, reap, writing, heard, missed, daemon, downs>>

(* resume of a run whose process is alive: the adapter does nothing.       *)
ResumeLive ==
    /\ "resume-live" \in Enabled
    /\ daemon = "up" /\ launch = "none"
    /\ adapter \in {"running", "interrupted", "cancelled"} /\ Alive(gen)
    /\ row' = Reopened /\ asks' = ReopenedAsks(asks)
    /\ launch' = "resume"
    /\ UNCHANGED <<task, harnessVars, reap, writing, heard, missed, daemon, downs>>

\* What a fresh consumer finds: withdrawals, then requests still parked.
Drained ==
    LET A == Withdraw(asks, pending)
        fresh == {k \in Keys : parked[k[2]] = k[1] /\ A[k].st = "none"}
    IN [k \in Keys |-> IF k \in fresh THEN NewAsk(~IsOpen) ELSE A[k]]

Identified(R, ok) == IF ok THEN [R EXCEPT !.ident = gen] ELSE R

(* persistIdentity returned, with a verified identity or without one.      *)
StartDone(ok) ==
    /\ launch = "start" /\ (ok => Alive(gen))
    /\ launch' = "none"
    /\ row' = Identified(row, ok)
    /\ UNCHANGED <<asks, task, harnessVars, reap, writing, heard, missed, daemon, downs>>

(* resume goes on: resetRun cancels the stream a consumer still reads, and *)
(* cancellation is a flag of the run, so the fresh consumer's stream ends  *)
(* with it; either one's hook books the end of the run.                    *)
ResumeDone(ok) ==
    /\ launch = "resume" /\ (ok => Alive(gen))
    /\ launch' = "none"
    /\ pending' = {}
    /\ adapter' = IF consumer THEN "cancelled" ELSE adapter
    /\ IF consumer \/ StreamEnded
       THEN /\ consumer' = FALSE
            /\ row' = [Identified(row, ok) EXCEPT !.end = IF IsOpen THEN Reason ELSE @]
            /\ asks' = IF ~IsOpen THEN Drained
                       ELSE IF Reason = "self" THEN Schedule(Drained) ELSE CloseOpen(Drained)
       ELSE /\ consumer' = TRUE
            /\ row' = Identified(row, ok)
            /\ asks' = Drained
    /\ task' = BlockedBy(asks')
    /\ UNCHANGED <<gen, procs, parked, reap, writing, heard, missed, daemon, downs>>

(* The child came back in somebody else's process group and was killed.    *)
LaunchRejected ==
    /\ "identity-rejects" \in Enabled
    /\ launch # "none"
    /\ launch' = "none"
    /\ procs' = [procs EXCEPT ![gen] = "dead"]
    /\ row' = IF IsOpen THEN [row EXCEPT !.end = "self"] ELSE row
    /\ consumer' = FALSE
    /\ UNCHANGED <<asks, task, gen, adapter, parked, pending, reap, writing, heard, missed, daemon, downs>>
-----------------------------------------------------------------------------
(* answerAsk: the decision is stored, then delivered.  The adapter refuses *)
(* a request that is not parked, or not by the generation that asked.      *)
DeliverableAnyGeneration(k) == parked[k[2]] # 0
Deliverable(k) == parked[k[2]] = k[1]

\* A question's answers are sent inside the stored input of its tool call.
Intact(A, k) == ~A[k].redacted
Written(w) == [key |-> w.key, to |-> w.to, intact |-> w.intact, decision |-> asks[w.key].st]

\* markAskDelivered or the abandonment, and the redaction, of one row
NotedAsDelivered(a, sent, redacted) ==
    [st |-> a.st, due |-> a.due, sent |-> IF sent = "no" THEN "no" ELSE "yes", redacted |-> redacted]
Noted(a, sent, redacted) == [st |-> a.st, due |-> a.due, sent |-> sent, redacted |-> redacted]

(* deliverAnswer, up to the write's callback.  A permanent refusal gives   *)
(* the delivery up; any other failure leaves the answer in the queue.      *)
Send(A, k, by) ==
    LET refused == adapter # "unknown" /\ ~Deliverable(k)
        fails == adapter = "unknown" \/ ~Alive(gen)
        done == by = "answer" /\ (refused \/ fails)
        sent == IF refused /\ A[k].sent # "yes" THEN "abandoned" ELSE A[k].sent
    IN /\ asks' = [A EXCEPT ![k] = Noted(A[k], sent, A[k].redacted \/ done)]
       /\ writing' = IF refused \/ fails THEN writing
                     ELSE writing \cup {[key |-> k, to |-> gen, intact |-> Intact(A, k), by |-> by]}
       /\ missed' = IF done THEN missed \cup {k} ELSE missed

AnswerAsk(k, d) ==
    /\ daemon = "up"
    /\ asks[k].st = "open"
    /\ Send([asks EXCEPT ![k].st = d], k, "answer")
    /\ task' = Unblocked(asks')
    /\ UNCHANGED <<row, harnessVars, launch, reap, heard, daemon, downs>>

(* deliverPendingAnswers, for one answer of the redelivery queue.          *)
Queued(k) == Decided(asks, k) /\ asks[k].sent = "no" /\ IsOpen

Retry(k) ==
    /\ "retry" \in Enabled
    /\ daemon = "up"
    /\ Queued(k)
    /\ Send(asks, k, "retry")
    /\ UNCHANGED <<row, task, harnessVars, launch, reap, heard, daemon, downs>>

\* redactResolvedAskPayload follows answerAsk's own delivery, not a retry.
RedactedAlways(w) == TRUE
Redacted(w) == asks[w.key].redacted \/ w.by = "answer"

DeliverOk(w) ==
    /\ w \in writing /\ Alive(w.to)
    /\ writing' = writing \ {w}
    /\ heard' = heard \cup {Written(w)}
    /\ parked' = [parked EXCEPT ![w.key[2]] = 0]
    /\ asks' = [asks EXCEPT ![w.key] = Noted(@, "yes", Redacted(w))]
    /\ UNCHANGED <<row, task, gen, procs, adapter, pending, consumer, launch, reap, missed, daemon, downs>>

DeliverFails(w) ==
    /\ w \in writing
    /\ "write-fails" \in Enabled \/ ~Alive(w.to)
    /\ writing' = writing \ {w}
    /\ asks' = [asks EXCEPT ![w.key].redacted = Redacted(w)]
    /\ missed' = IF w.by = "answer" THEN missed \cup {w.key} ELSE missed
    /\ UNCHANGED <<row, task, harnessVars, launch, reap, heard, daemon, downs>>

(* sweepAsks: the timer closes asks whose grace period is over.            *)
Closed(A, S) == [k \in Keys |-> IF k \in S THEN [A[k] EXCEPT !.st = "closed"] ELSE A[k]]
Due(A) == {k \in OpenAsks(A) : A[k].due}

SweepAsks ==
    /\ daemon = "up"
    /\ \E S \in (SUBSET Due(asks)) \ {{}} : asks' = Closed(asks, S)
    /\ task' = Unblocked(asks')
    /\ UNCHANGED <<row, harnessVars, callVars, daemon, downs>>
-----------------------------------------------------------------------------
(* reap(runId) *)
NothingElse == <<gen, procs, parked, pending, launch, writing, heard, missed>>

\* Nothing to kill: a row that was open is lost and its asks are closed.
BookLost(wasOpen) ==
    /\ row' = IF wasOpen /\ IsOpen THEN [row EXCEPT !.end = "lost"] ELSE row
    /\ asks' = IF wasOpen /\ IsOpen THEN CloseOpen(asks) ELSE asks
    /\ task' = Unblocked(asks')

(* The row is read here; without an identity that is the end of it.        *)
ReapBegins ==
    /\ "reap" \in Enabled
    /\ daemon = "up" /\ reap = NoReap
    /\ IF row.ident = 0
       THEN BookLost(TRUE) /\ reap' = reap
       ELSE /\ reap' = [pc |-> "verifying", target |-> row.ident, wasOpen |-> IsOpen]
            /\ UNCHANGED rowVars
    /\ UNCHANGED <<NothingElse, adapter, consumer, daemon, downs>>

ReapRefused ==
    /\ reap.pc = "verifying" /\ ~Alive(reap.target)
    /\ BookLost(reap.wasOpen)
    /\ reap' = NoReap
    /\ UNCHANGED <<NothingElse, adapter, consumer, daemon, downs>>

ReapVerified ==
    /\ reap.pc = "verifying" /\ Alive(reap.target)
    /\ reap' = [reap EXCEPT !.pc = "killing"]
    /\ UNCHANGED <<rowVars, harnessVars, launch, writing, heard, missed, daemon, downs>>

(* The group is gone: the row that was open when reap began is booked, and *)
(* the pump closed; a consumer it cancels books what is open by then.      *)
ReapKilled ==
    /\ reap.pc = "killing" /\ ~Alive(reap.target)
    /\ reap' = NoReap
    /\ LET books == reap.wasOpen /\ IsOpen
           cancels == IsOpen /\ ~books /\ consumer
       IN /\ row' = [row EXCEPT !.end = IF books THEN "reaped" ELSE IF cancels THEN "self" ELSE @]
          /\ asks' = IF books THEN CloseOpen(asks) ELSE IF cancels THEN Schedule(asks) ELSE asks
    /\ task' = Unblocked(asks')
    /\ adapter' = IF consumer THEN "cancelled" ELSE adapter
    /\ consumer' = FALSE
    /\ UNCHANGED <<NothingElse, daemon, downs>>

ReapSurvived ==
    /\ reap.pc = "killing" /\ Alive(reap.target)
    /\ reap' = NoReap
    /\ UNCHANGED <<rowVars, harnessVars, launch, writing, heard, missed, daemon, downs>>
-----------------------------------------------------------------------------
(* The daemon goes down and comes back *)
Forgotten ==
    /\ downs < MaxDowns /\ downs' = downs + 1
    /\ daemon = "up" /\ daemon' = "down"
    /\ adapter' = "unknown" /\ consumer' = FALSE
    /\ parked' = [r \in Reqs |-> 0] /\ pending' = {}
    /\ launch' = "none" /\ reap' = NoReap /\ writing' = {}
    /\ UNCHANGED gen

(* SIGKILL: workers live on, a pipe may already have taken an answer.      *)
Crash ==
    /\ Forgotten
    /\ \E W \in SUBSET writing : heard' = heard \cup {Written(w) : w \in W}
    /\ UNCHANGED <<rowVars, procs, missed>>

(* SIGKILL between the two statements of a reap that books a lost run.     *)
CrashInReap ==
    /\ "crash-in-reap" \in Enabled
    /\ \/ "reap" \in Enabled /\ reap = NoReap /\ row.ident = 0
       \/ reap.pc = "verifying" /\ ~Alive(reap.target) /\ reap.wasOpen
    /\ IsOpen
    /\ Forgotten
    /\ row' = [row EXCEPT !.end = "lost"]
    /\ UNCHANGED <<asks, task, procs, heard, missed>>

(* shutdown: the pump's consumers end, then the adapter kills the run, in  *)
(* the time it has.                                                        *)
Shutdown ==
    /\ Forgotten
    /\ IF consumer THEN EndsAs(asks, Reason) ELSE UNCHANGED rowVars
    /\ UNCHANGED <<procs, heard, missed>>

(* boot: reconcile the open row, then sweep; the redelivery that follows   *)
(* finds no handle and leaves every queued answer as it is.                *)
Boot ==
    /\ daemon = "down" /\ daemon' = "up"
    /\ LET gone == row.ident = 0 \/ ~Alive(row.ident)
           settled == IF IsOpen THEN CloseOpen(asks) ELSE asks
       IN /\ row' = IF ~IsOpen THEN row
                    ELSE IF gone THEN [row EXCEPT !.end = "lost"] ELSE [row EXCEPT !.orphan = TRUE]
          /\ \E S \in SUBSET Due(settled) : asks' = Closed(settled, S)
    /\ task' = Unblocked(asks')
    /\ UNCHANGED <<harnessVars, callVars, downs>>
-----------------------------------------------------------------------------
Harness ==
    \/ \E r \in Reqs : Park(r) \/ HarnessWithdraws(r)
    \/ \E g \in Gens : Exit(g)
    \/ TurnErrors \/ TurnAborts

Operator ==
    \/ SendInput \/ Stop \/ Resume \/ ResumeLive \/ ReapBegins
    \/ \E k \in Keys : Retry(k) \/ \E d \in Decisions : AnswerAsk(k, d)

Continues ==
    \/ \E ok \in BOOLEAN : StartDone(ok) \/ ResumeDone(ok)
    \/ LaunchRejected
    \/ \E w \in writing : DeliverOk(w) \/ DeliverFails(w)
    \/ ReapRefused \/ ReapVerified \/ ReapKilled \/ ReapSurvived

Next == Harness \/ Operator \/ Continues \/ SweepAsks \/ Crash \/ CrashInReap \/ Shutdown \/ Boot

Spec == Init /\ [][Next]_vars

(* The sweep is a timer of the daemon, and a daemon that went down is      *)
(* started again; nothing else has to happen.                              *)
FairSpec == Spec /\ WF_vars(SweepAsks) /\ WF_vars(Boot)
-----------------------------------------------------------------------------
(* What a human decided, or the daemon closed, stays so: no answer, sweep, *)
(* withdrawal, reap or restart rewrites a resolved ask (answerAsk,         *)
(* withdrawAsk, sweepExpiredAsks, closeOpenAsksForRun).                    *)
DecisionStands ==
    [][\A k \in Keys : asks[k].st \notin {"none", "open"} => asks'[k].st = asks[k].st]_vars

(* A worker only ever reads answers to requests it parked itself, and what *)
(* it reads is the decision on record (answerApproval's generation checks, *)
(* deliverAnswer).                                                         *)
HeardByItsAsker ==
    \A h \in heard : h.to = h.key[1] /\ h.decision = asks[h.key].st

(* A blocked task has an open ask to answer: every path that resolves asks *)
(* also reconsiders the task (reconcileAutoBlockedTasks).                  *)
BlockedMeansAsked == daemon = "up" /\ task = "blocked" => OpenAsks(asks) # {}

(* An open ask can still be resolved by someone: its run is open, or it    *)
(* has a deadline (closeAndScheduleAsks, createAsk).                       *)
NoStrandedAsk == \A k \in OpenAsks(asks) : IsOpen \/ asks[k].due

(* No clock runs against the ask of a run that is still going (reopenRun). *)
DeadlineMeansEnded == \A k \in Due(asks) : ~IsOpen

(* An open ask of a consumed run is one the current worker is parked on,   *)
(* so that answering it unblocks somebody (stillParked, _bindChild); unless *)
(* its id was used before: the write of an answer to an earlier process    *)
(* takes whatever is parked under the id away (answerApproval).            *)
OpenMeansParked ==
    consumer /\ IsOpen =>
        \A k \in OpenAsks(asks) :
            \/ parked[k[2]] = k[1]
            \/ \E h \in heard : h.key[2] = k[2] /\ h.key[1] < k[1]

(* The stream of a process that exited ends, so that its run is ended too: *)
(* nothing else tells the daemon (adapter.js, exit listener and observe).  *)
(* An exit after an aborted turn is the one that does not end it.          *)
ExitEndsStream == procs[gen] = "dead" /\ adapter # "interrupted" => ~consumer

(* An ask left open by a run that ended is eventually resolved, or the run *)
(* is resumed (sweepExpiredAsks on the timer and at boot).                 *)
AskSettles ==
    \A k \in Keys : (asks[k].st = "open" /\ ~IsOpen) ~> (asks[k].st # "open" \/ IsOpen)

(* The tool input a harness is told to run is the one it asked about: the  *)
(* payload is not reduced while a delivery may still need it, neither the   *)
(* answer's own nor one beside it (answerAsk, deliverPendingAnswers).       *)
(* Only what is sent again after the answer's own delivery came to nothing  *)
(* is sent without it.                                                     *)
AnswerIntact == \A h \in heard : h.intact \/ h.key \in missed

(* The row of a run whose process the daemon holds is not terminal         *)
(* (supervisor.js, resume).  A resume of a live run breaks it.             *)
LiveIsListed ==
    launch = "none" /\ adapter \in {"running", "cancelled"} /\ Alive(gen) => IsOpen
-----------------------------------------------------------------------------
(* The table and the answers seen as a book of asks; an answer is told to   *)
(* whoever's request it was read by.                                       *)
Book == INSTANCE AskBook WITH
    book <- [k \in Keys |-> asks[k].st],
    told <- {<<<<h.to, h.key[2]>>, h.decision>> : h \in heard},
    marked <- {k \in Keys : asks[k].sent = "yes"},
    blocked <- task = "blocked"

(* Processes that are replaced under the same request ids, withdrawals that *)
(* wait for a consumer, reaps, crashes and restarts never make the run do   *)
(* what a book of asks would not: an ask decided twice, or told to another  *)
(* process, marked delivered untold, or blocking the task when it is gone.  *)
ImplementsAskBook == Book!Spec
=============================================================================
