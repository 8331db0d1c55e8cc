------------------------- MODULE AskRoundTrip_proofs -------------------------
(***************************************************************************)
(* Proofs about AskRoundTrip for any sets of requests and decisions and    *)
(* any number of resumes, crashes and restarts.                            *)
(***************************************************************************)
EXTENDS AskRoundTrip, TLAPS

(* The asks table as it may be: its type, and what deliveries imply.       *)
Sane(A) ==
    /\ A \in [Keys -> Ask]
    /\ \A k \in Keys :
          /\ A[k].redacted \/ A[k].sent = "yes" => A[k].st \in Decisions
          /\ A[k].sent = "abandoned" => A[k].st \notin {"none", "open"}

(* Answers that would be sent without their payload.                       *)
Reduced(A) == {k \in Keys : A[k].redacted /\ A[k].sent # "yes"}

(* What any operation may do to it: B is sane, a resolved ask stays, and an *)
(* answer is reduced only as its own delivery comes to nothing.            *)
Moves(A, B) ==
    /\ Sane(B)
    /\ \A k \in Keys : A[k].st \notin {"none", "open"} => B[k].st = A[k].st
    /\ Reduced(B) \subseteq Reduced(A) \cup missed'

LEMMA StatesDiffer ==
    \A d \in Decisions : d \notin {"none", "open", "closed", "withdrawn"}
BY DecisionsAssumption DEF DecisionsAssumption

LEMMA MovesTrans ==
    ASSUME NEW A, NEW B, NEW C, Moves(A, B), Moves(B, C)
    PROVE  Moves(A, C)
BY DEF Moves

LEMMA CloseOpenMoves ==
    ASSUME NEW A, Sane(A)
    PROVE  Moves(A, CloseOpen(A)) /\ OpenAsks(CloseOpen(A)) = {}
<1>1. \A k \in Keys : [A[k] EXCEPT !.st = "closed"] \in Ask
  BY DEF Sane, Ask
<1> QED
  BY <1>1, StatesDiffer DEF Sane, Ask, Moves, CloseOpen, OpenAsks, Reduced

LEMMA ScheduleMoves ==
    ASSUME NEW A, Sane(A)
    PROVE  /\ Moves(A, Schedule(A)) /\ OpenAsks(Schedule(A)) = OpenAsks(A)
           /\ \A k \in OpenAsks(A) : Schedule(A)[k].due
<1>1. \A k \in Keys : [A[k] EXCEPT !.due = TRUE] \in Ask
  BY DEF Sane, Ask
<1> QED
  BY <1>1, StatesDiffer DEF Sane, Ask, Moves, Schedule, OpenAsks, Reduced

LEMMA UnscheduleMoves ==
    ASSUME NEW A, Sane(A)
    PROVE  /\ Moves(A, Unschedule(A)) /\ OpenAsks(Unschedule(A)) = OpenAsks(A)
           /\ \A k \in OpenAsks(A) : ~Unschedule(A)[k].due
<1>1. \A k \in Keys : [A[k] EXCEPT !.due = FALSE] \in Ask
  BY DEF Sane, Ask
<1> QED
  BY <1>1, StatesDiffer DEF Sane, Ask, Moves, Unschedule, OpenAsks, Reduced

LEMMA CreateMoves ==
    ASSUME NEW A, Sane(A), NEW k \in Keys, NEW ended \in BOOLEAN
    PROVE  /\ Moves(A, Create(A, k, ended))
           /\ \A j \in Keys : j # k => Create(A, k, ended)[j] = A[j]
           /\ A[k].st # "none" => Create(A, k, ended) = A
           /\ A[k].st = "none" => /\ Create(A, k, ended)[k].st = "open"
                                  /\ Create(A, k, ended)[k].due = ended
<1> DEFINE new == NewAsk(ended)
<1>2. new \in Ask /\ new.st = "open" /\ new.due = ended /\ ~new.redacted /\ new.sent = "no"
  BY DEF Ask, NewAsk
<1>3. CASE A[k].st = "none"
  <2>1. Create(A, k, ended) = [A EXCEPT ![k] = new]
    BY <1>3 DEF Create
  <2>2. /\ Create(A, k, ended)[k] = new /\ Create(A, k, ended) \in [Keys -> Ask]
        /\ \A j \in Keys : j # k => Create(A, k, ended)[j] = A[j]
    BY <2>1, <1>2 DEF Sane
  <2> QED
    BY <1>2, <1>3, <2>2 DEF Sane, Moves, Reduced
<1>4. CASE A[k].st # "none"
  BY <1>4 DEF Create, Moves
<1> QED
  BY <1>3, <1>4

LEMMA WithdrawMoves ==
    ASSUME NEW A, Sane(A), NEW R
    PROVE  /\ Moves(A, Withdraw(A, R)) /\ OpenAsks(Withdraw(A, R)) \subseteq OpenAsks(A)
           /\ \A k \in OpenAsks(Withdraw(A, R)) : Withdraw(A, R)[k] = A[k]
<1> DEFINE B == Withdraw(A, R)
<1>1. B = [k \in Keys |-> B[k]]
  BY DEF Withdraw
<1>2. ASSUME NEW k \in Keys
      PROVE  \/ B[k] = A[k]
             \/ A[k].st = "open" /\ B[k] = [A[k] EXCEPT !.st = "withdrawn"]
             \/ A[k].st \notin {"none", "open"} /\ A[k].sent = "no"
                  /\ B[k] = [A[k] EXCEPT !.sent = "abandoned"]
  <2>1. ASSUME NEW r \in R, k \in Withdrawable(A, r) PROVE A[k].st # "none"
    BY <2>1 DEF Withdrawable, RowsOf
  <2> QED
    BY <2>1 DEF Withdraw
<1>3. ASSUME NEW k \in Keys
      PROVE  /\ B[k] \in Ask
             /\ B[k].redacted \/ B[k].sent = "yes" => B[k].st \in Decisions
             /\ B[k].sent = "abandoned" => B[k].st \notin {"none", "open"}
             /\ A[k].st \notin {"none", "open"} => B[k].st = A[k].st
             /\ B[k].st = "open" => B[k] = A[k]
             /\ B[k].redacted /\ B[k].sent # "yes" => A[k].redacted /\ A[k].sent # "yes"
  <2>1. CASE B[k] = A[k]
    BY <2>1 DEF Sane
  <2>2. CASE A[k].st = "open" /\ B[k] = [A[k] EXCEPT !.st = "withdrawn"]
    BY <2>2, StatesDiffer DEF Sane, Ask
  <2>3. CASE A[k].st \notin {"none", "open"} /\ A[k].sent = "no"
             /\ B[k] = [A[k] EXCEPT !.sent = "abandoned"]
    BY <2>3, StatesDiffer DEF Sane, Ask
  <2> QED BY <1>2, <2>1, <2>2, <2>3
<1> QED
  BY <1>1, <1>3 DEF Sane, Moves, OpenAsks, Reduced

LEMMA ClosedMoves ==
    ASSUME NEW A, Sane(A), NEW S, S \subseteq Due(A)
    PROVE  /\ Moves(A, Closed(A, S)) /\ OpenAsks(Closed(A, S)) \subseteq OpenAsks(A)
           /\ \A k \in OpenAsks(Closed(A, S)) : Closed(A, S)[k] = A[k]
<1>1. \A k \in Keys : [A[k] EXCEPT !.st = "closed"] \in Ask
  BY DEF Sane, Ask
<1> QED
  BY <1>1, StatesDiffer DEF Sane, Ask, Moves, Closed, Due, OpenAsks, Reduced

LEMMA DrainedMoves ==
    ASSUME Sane(asks)
    PROVE  /\ Moves(asks, Drained)
           /\ \A k \in OpenAsks(Drained) : \/ k \in OpenAsks(asks) /\ Drained[k] = asks[k]
                                           \/ Drained[k] = NewAsk(~IsOpen)
<1> DEFINE A == Withdraw(asks, pending)
<1>1. Moves(asks, A) /\ \A k \in OpenAsks(A) : k \in OpenAsks(asks) /\ A[k] = asks[k]
  BY WithdrawMoves
<1>2. /\ NewAsk(~IsOpen) \in Ask /\ NewAsk(~IsOpen).st = "open"
      /\ ~NewAsk(~IsOpen).redacted /\ NewAsk(~IsOpen).sent = "no"
  BY DEF NewAsk, Ask, IsOpen
<1>3. /\ Drained = [k \in Keys |-> Drained[k]]
      /\ \A k \in Keys : Drained[k] = A[k] \/ (A[k].st = "none" /\ Drained[k] = NewAsk(~IsOpen))
  BY DEF Drained
<1>4. \A k \in Keys : Drained[k] \in Ask
  BY <1>1, <1>2, <1>3 DEF Moves, Sane
<1>5. Moves(A, Drained)
  BY <1>1, <1>2, <1>3, <1>4 DEF Moves, Sane, Reduced
<1>6. Moves(asks, Drained)
  BY <1>1, <1>5, MovesTrans
<1> QED
  BY <1>1, <1>3, <1>6 DEF OpenAsks

(* EndsAs applied to a table that moved on from the one before.            *)
LEMMA EndsMoves ==
    ASSUME Sane(asks), NEW A, Moves(asks, A), NEW reason, EndsAs(A, reason)
    PROVE  Moves(asks, asks')
<1>1. Moves(A, asks')
  BY CloseOpenMoves, ScheduleMoves DEF EndsAs, Moves
<1> QED
  BY <1>1, MovesTrans

LEMMA SendMoves ==
    ASSUME NEW A, Sane(A), NEW k \in Keys, A[k].st \in Decisions, NEW by, Send(A, k, by)
    PROVE  /\ Moves(A, asks')
           /\ \A j \in Keys : asks'[j].st = A[j].st /\ asks'[j].due = A[j].due
<1> DEFINE refused == adapter # "unknown" /\ ~Deliverable(k)
           done == by = "answer" /\ (refused \/ adapter = "unknown" \/ ~Alive(gen))
           sent == IF refused /\ A[k].sent # "yes" THEN "abandoned" ELSE A[k].sent
           new == Noted(A[k], sent, A[k].redacted \/ done)
<1>1. asks' = [A EXCEPT ![k] = new]
  BY DEF Send
<1>2. /\ new \in Ask /\ new.st = A[k].st /\ new.due = A[k].due /\ new.sent = sent
      /\ new.redacted = (A[k].redacted \/ done)
  BY DEF Sane, Ask, Noted
<1>3. asks'[k] = new /\ \A j \in Keys : j # k => asks'[j] = A[j]
  BY <1>1 DEF Sane
<1>4. (done => k \in missed') /\ (A[k].sent = "yes" => sent = "yes")
  BY DEF Send
<1>5. sent = "abandoned" => A[k].st \notin {"none", "open"}
  BY StatesDiffer
<1>6. (sent = "yes" => A[k].sent = "yes") /\ (A[k].sent = "yes" => A[k].st \in Decisions)
  BY DEF Sane
<1> HIDE DEF new, done, sent
<1>7. Reduced(asks') \subseteq Reduced(A) \cup missed'
  BY <1>2, <1>3, <1>4 DEF Reduced
<1>8. Sane(asks') /\ \A j \in Keys : asks'[j].st = A[j].st /\ asks'[j].due = A[j].due
  BY <1>1, <1>2, <1>3, <1>5, <1>6 DEF Sane
<1> QED
  BY <1>2, <1>3, <1>7, <1>8 DEF Moves
-----------------------------------------------------------------------------
(* An answer on its way is one that was decided, on its way to the process *)
(* that asked.                                                             *)
WritesAreDecided ==
    \A w \in writing : asks[w.key].st \in Decisions /\ w.to = w.key[1]

(* Only the newest process has requests parked.                            *)
ParkedByNewest == \A r \in Reqs : parked[r] \in {0, gen}

LEMMA SaneFromType == TypeOK => Sane(asks) /\ Moves(asks, asks)
BY DEF TypeOK, Sane, Moves

LEMMA AskKeys == \A g \in Gens, r \in Reqs : <<g, r>> \in Keys
BY DEF Keys

(* What answerAsk stores before it delivers.                               *)
LEMMA AnsweredIsSane ==
    ASSUME TypeOK, NEW k \in Keys, NEW d \in Decisions, asks[k].st = "open"
    PROVE  /\ Moves(asks, [asks EXCEPT ![k].st = d]) /\ Sane([asks EXCEPT ![k].st = d])
           /\ [asks EXCEPT ![k].st = d][k].st \in Decisions
<1> USE SaneFromType
<1>1. ~asks[k].redacted /\ asks[k].sent = "no"
  BY StatesDiffer DEF Sane, Ask
<1>2. /\ [asks[k] EXCEPT !.st = d] \in Ask
      /\ [asks[k] EXCEPT !.st = d].st = d
      /\ [asks[k] EXCEPT !.st = d].sent = "no" /\ ~[asks[k] EXCEPT !.st = d].redacted
  BY <1>1 DEF Sane, Ask
<1> QED
  BY <1>1, <1>2, StatesDiffer DEF Sane, Moves, Reduced

LEMMA AsksStep ==
    ASSUME TypeOK, WritesAreDecided, [Next]_vars
    PROVE  Moves(asks, asks')
<1> USE SaneFromType
<1>1. ASSUME NEW r \in Reqs, Park(r) PROVE Moves(asks, asks')
  BY <1>1, AskKeys, CreateMoves DEF Park, TypeOK, IsOpen
<1>2. ASSUME NEW r \in Reqs, HarnessWithdraws(r) PROVE Moves(asks, asks')
  BY <1>2, WithdrawMoves DEF HarnessWithdraws
<1>3. ASSUME NEW g \in Gens, Exit(g) PROVE Moves(asks, asks')
  BY <1>3, EndsMoves DEF Exit, rowVars
<1>4. CASE TurnErrors
  BY <1>4, EndsMoves DEF TurnErrors, rowVars
<1>5. CASE TurnAborts \/ SendInput
  BY <1>5 DEF TurnAborts, SendInput, rowVars
<1>6. CASE Stop
  BY <1>6, EndsMoves DEF Stop
<1>7. CASE Resume
  <2> DEFINE A == IF consumer THEN Withdraw(asks, ReplacedRequests) ELSE asks
  <2>1. Moves(asks, A) /\ Sane(A)
    BY WithdrawMoves DEF Moves
  <2>2. Moves(A, ReopenedAsks(A))
    BY <2>1, UnscheduleMoves DEF ReopenedAsks, Moves
  <2> QED
    BY <1>7, <2>1, <2>2, MovesTrans DEF Resume
<1>8. CASE ResumeLive
  BY <1>8, UnscheduleMoves DEF ResumeLive, ReopenedAsks
<1>9. ASSUME NEW ok \in BOOLEAN, StartDone(ok) PROVE Moves(asks, asks')
  BY <1>9 DEF StartDone
<1>10. ASSUME NEW ok \in BOOLEAN, ResumeDone(ok) PROVE Moves(asks, asks')
  <2>1. Moves(asks, Drained) /\ Sane(Drained)
    BY DrainedMoves DEF Moves
  <2>2. asks' = Drained \/ asks' = Schedule(Drained) \/ asks' = CloseOpen(Drained)
    BY <1>10 DEF ResumeDone
  <2> QED
    BY <2>1, <2>2, ScheduleMoves, CloseOpenMoves, MovesTrans
<1>11. CASE LaunchRejected
  BY <1>11 DEF LaunchRejected
<1>12. ASSUME NEW k \in Keys, NEW d \in Decisions, AnswerAsk(k, d) PROVE Moves(asks, asks')
  <2> DEFINE A == [asks EXCEPT ![k].st = d]
  <2>1. Moves(asks, A) /\ Sane(A) /\ A[k].st \in Decisions
    BY <1>12, AnsweredIsSane DEF AnswerAsk
  <2>2. Moves(A, asks')
    BY <1>12, <2>1, SendMoves DEF AnswerAsk
  <2> QED
    BY <2>1, <2>2, MovesTrans
<1>13. ASSUME NEW k \in Keys, Retry(k) PROVE Moves(asks, asks')
  BY <1>13, SendMoves DEF Retry, Queued, Decided
<1>14. ASSUME NEW w \in writing, DeliverOk(w) \/ DeliverFails(w) PROVE Moves(asks, asks')
  <2>1. w.key \in Keys /\ asks[w.key].st \in Decisions
    BY DEF TypeOK, WritesAreDecided
  <2>2. CASE DeliverOk(w)
    <3>1. asks' = [asks EXCEPT ![w.key] = Noted(asks[w.key], "yes", Redacted(w))]
      BY <2>2 DEF DeliverOk
    <3>2. Noted(asks[w.key], "yes", Redacted(w)) \in Ask
      BY <2>1 DEF Noted, Redacted, Ask, Sane
    <3> QED
      BY <2>1, <3>1, <3>2, StatesDiffer DEF Noted, Sane, Moves, Reduced
  <2>3. CASE DeliverFails(w)
    <3>1. asks' = [asks EXCEPT ![w.key].redacted = Redacted(w)]
      BY <2>3 DEF DeliverFails
    <3>2. Redacted(w) \in BOOLEAN
      BY <2>1 DEF Redacted, Ask, Sane
    <3>3. Sane(asks') /\ \A k \in Keys : asks'[k].st = asks[k].st /\ asks'[k].sent = asks[k].sent
      BY <2>1, <3>1, <3>2, StatesDiffer DEF Ask, Sane
    <3>4. \A k \in Keys : asks'[k].redacted => asks[k].redacted \/ k \in missed'
      BY <2>1, <2>3, <3>1, <3>2 DEF Ask, Sane, Redacted, DeliverFails
    <3> QED
      BY <3>3, <3>4 DEF Moves, Reduced
  <2> QED
    BY <1>14, <2>2, <2>3
<1>15. CASE ReapBegins \/ ReapRefused
  BY <1>15, CloseOpenMoves DEF ReapBegins, ReapRefused, BookLost, rowVars
<1>16. CASE ReapVerified \/ ReapSurvived
  BY <1>16 DEF ReapVerified, ReapSurvived, rowVars
<1>17. CASE ReapKilled
  BY <1>17, CloseOpenMoves, ScheduleMoves DEF ReapKilled
<1>18. CASE SweepAsks
  BY <1>18, ClosedMoves DEF SweepAsks
<1>19. CASE Crash \/ CrashInReap
  BY <1>19 DEF Crash, CrashInReap, rowVars
<1>20. CASE Shutdown
  BY <1>20, EndsMoves DEF Shutdown, rowVars
<1>21. CASE Boot
  <2> DEFINE A == IF IsOpen THEN CloseOpen(asks) ELSE asks
  <2>1. Moves(asks, A) /\ Sane(A)
    BY CloseOpenMoves DEF Moves
  <2>2. PICK S \in SUBSET Due(A) : asks' = Closed(A, S)
    BY <1>21 DEF Boot
  <2> QED
    BY <2>1, <2>2, ClosedMoves, MovesTrans
<1>22. CASE UNCHANGED vars
  BY <1>22 DEF vars, rowVars
<1> QED
  BY <1>1, <1>2, <1>3, <1>4, <1>5, <1>6, <1>7, <1>8, <1>9, <1>10, <1>11, <1>12, <1>13, <1>14,
     <1>15, <1>16, <1>17, <1>18, <1>19, <1>20, <1>21, <1>22
     DEF Next, Harness, Operator, Continues
-----------------------------------------------------------------------------
(* The task is left alone or reconsidered.                                 *)
LEMMA TaskStep ==
    ASSUME [Next]_vars
    PROVE  task' = task \/ task' = Unblocked(asks') \/ task' = BlockedBy(asks')
BY DEF Next, Harness, Operator, Continues, Park, HarnessWithdraws, Exit, TurnErrors, TurnAborts,
     SendInput, Stop, Resume, ResumeLive, StartDone, ResumeDone, LaunchRejected, AnswerAsk, Retry,
     DeliverOk, DeliverFails, ReapBegins, ReapRefused, ReapVerified, ReapKilled, ReapSurvived,
     BookLost, SweepAsks, Crash, CrashInReap, Shutdown, Forgotten, Boot, NothingElse, EndsAs,
     rowVars, harnessVars, callVars, vars

(* What a step may do to the row, action by action.                        *)
RowTypes == [end : Ends, orphan : BOOLEAN, ident : Gens \cup {0}]

LEMMA RowEdits ==
    ASSUME TypeOK
    PROVE  /\ row \in RowTypes /\ row.end \in Ends /\ Reason \in Ends /\ Reopened \in RowTypes
           /\ \A e \in Ends : [row EXCEPT !.end = e] \in RowTypes
           /\ [row EXCEPT !.orphan = TRUE] \in RowTypes
           /\ \A ok \in BOOLEAN :
                 /\ Identified(row, ok) \in RowTypes
                 /\ Identified(row, ok).end = row.end
                 /\ \A e \in Ends : [Identified(row, ok) EXCEPT !.end = e] \in RowTypes
BY DEF TypeOK, RowTypes, Ends, Reason, Reopened, Identified

LEMMA RowStep ==
    ASSUME TypeOK, [Next]_vars
    PROVE  row' \in RowTypes
<1>1. {"self", "stopped", "reaped", "lost", "open"} \subseteq Ends
  BY DEF Ends
<1> USE <1>1, RowEdits
<1>2. ASSUME NEW A, NEW reason \in Ends, EndsAs(A, reason) PROVE row' \in RowTypes
  BY <1>2 DEF EndsAs
<1>3. CASE Resume \/ ResumeLive
  BY <1>3 DEF Resume, ResumeLive
<1>4. ASSUME NEW ok \in BOOLEAN, StartDone(ok) PROVE row' \in RowTypes
  BY <1>4 DEF StartDone
<1>5. ASSUME NEW ok \in BOOLEAN, ResumeDone(ok) PROVE row' \in RowTypes
  BY <1>5 DEF ResumeDone
<1>6. ASSUME (\E g \in Gens : Exit(g)) \/ TurnErrors \/ Stop \/ Shutdown PROVE row' \in RowTypes
  BY <1>2, <1>6 DEF Exit, TurnErrors, Stop, Shutdown, rowVars
<1>7. CASE LaunchRejected \/ CrashInReap \/ Boot
  BY <1>7 DEF LaunchRejected, CrashInReap, Boot
<1>8. CASE ReapBegins \/ ReapRefused \/ ReapKilled
  BY <1>8 DEF ReapBegins, ReapRefused, ReapKilled, BookLost, rowVars
<1>9. CASE row' = row
  BY <1>9
<1> QED
  BY <1>3, <1>4, <1>5, <1>6, <1>7, <1>8, <1>9
     DEF Next, Harness, Operator, Continues, Park, HarnessWithdraws, TurnAborts, SendInput,
         AnswerAsk, Retry, DeliverOk, DeliverFails, ReapVerified, ReapSurvived, SweepAsks, Crash,
         rowVars, vars
-----------------------------------------------------------------------------
(* The rest of the type invariant, and ParkedByNewest with it.             *)
WorkerTypes ==
    /\ gen \in Gens
    /\ procs \in [Gens -> {"unborn", "alive", "dead"}]
    /\ adapter \in {"running", "interrupted", "errored", "stopped", "cancelled", "unknown"}
    /\ parked \in [Reqs -> Gens \cup {0}]
    /\ pending \subseteq Reqs
    /\ consumer \in BOOLEAN

LEMMA WorkerStep ==
    ASSUME TypeOK, ParkedByNewest, [Next]_vars
    PROVE  WorkerTypes' /\ ParkedByNewest'
<1>1. WorkerTypes
  BY DEF TypeOK, WorkerTypes
<1> USE <1>1 DEF WorkerTypes, ParkedByNewest
<1>2. ASSUME NEW r \in Reqs, Park(r) \/ HarnessWithdraws(r) PROVE WorkerTypes' /\ ParkedByNewest'
  BY <1>2 DEF Park, HarnessWithdraws
<1>3. ASSUME NEW g \in Gens, Exit(g) PROVE WorkerTypes' /\ ParkedByNewest'
  BY <1>3 DEF Exit
<1>4. CASE TurnErrors \/ TurnAborts \/ SendInput
  BY <1>4 DEF TurnErrors, TurnAborts, SendInput
<1>5. CASE Stop
  BY <1>5 DEF Stop
<1>6. CASE Resume
  <2>1. gen + 1 \in Gens
    BY <1>6, BoundsAssumption DEF Resume, Gens, BoundsAssumption
  <2> QED
    BY <1>6, <2>1 DEF Resume, ReplacedRequests
<1>7. ASSUME NEW ok \in BOOLEAN, ResumeDone(ok) PROVE WorkerTypes' /\ ParkedByNewest'
  BY <1>7 DEF ResumeDone
<1>8. CASE LaunchRejected
  BY <1>8 DEF LaunchRejected
<1>9. ASSUME NEW w \in writing, DeliverOk(w) PROVE WorkerTypes' /\ ParkedByNewest'
  BY <1>9 DEF DeliverOk
<1>10. CASE ReapBegins \/ ReapRefused \/ ReapKilled
  BY <1>10 DEF ReapBegins, ReapRefused, ReapKilled, NothingElse
<1>11. CASE Crash \/ CrashInReap \/ Shutdown
  BY <1>11 DEF Crash, CrashInReap, Shutdown, Forgotten
<1>12. CASE UNCHANGED harnessVars
  BY <1>12 DEF harnessVars
<1> QED
  BY <1>2, <1>3, <1>4, <1>5, <1>6, <1>7, <1>8, <1>9, <1>10, <1>11, <1>12
     DEF Next, Harness, Operator, Continues, ResumeLive, StartDone, AnswerAsk, Retry, DeliverFails,
         ReapVerified, ReapSurvived, SweepAsks, Boot, vars
-----------------------------------------------------------------------------
(* Launches, reaps and the daemon.                                         *)
CallTypes ==
    /\ launch \in {"none", "start", "resume"}
    /\ reap \in [pc : {"idle", "verifying", "killing"}, target : Gens \cup {0}, wasOpen : BOOLEAN]
    /\ daemon \in {"up", "down"}
    /\ downs \in 0..MaxDowns

LEMMA CallStep ==
    ASSUME TypeOK, [Next]_vars
    PROVE  CallTypes'
<1>1. CallTypes /\ NoReap \in [pc : {"idle", "verifying", "killing"}, target : Gens \cup {0},
                               wasOpen : BOOLEAN]
  BY DEF TypeOK, CallTypes, NoReap
<1> USE <1>1 DEF CallTypes
<1>2. CASE Resume \/ ResumeLive
  BY <1>2 DEF Resume, ResumeLive
<1>3. ASSUME NEW ok \in BOOLEAN, StartDone(ok) \/ ResumeDone(ok) PROVE CallTypes'
  BY <1>3 DEF StartDone, ResumeDone
<1>4. CASE LaunchRejected
  BY <1>4 DEF LaunchRejected
<1>5. CASE ReapBegins
  <2>1. row.ident \in Gens \cup {0} /\ IsOpen \in BOOLEAN
    BY DEF TypeOK, IsOpen
  <2>2. \/ reap' = reap
        \/ reap' = [pc |-> "verifying", target |-> row.ident, wasOpen |-> IsOpen]
    BY <1>5 DEF ReapBegins
  <2>3. UNCHANGED <<launch, daemon, downs>>
    BY <1>5 DEF ReapBegins, NothingElse
  <2> QED
    BY <2>1, <2>2, <2>3
<1>6. CASE ReapVerified
  BY <1>6 DEF ReapVerified
<1>7. CASE ReapRefused \/ ReapKilled \/ ReapSurvived
  BY <1>7 DEF ReapRefused, ReapKilled, ReapSurvived, NothingElse
<1>8. CASE Crash \/ CrashInReap \/ Shutdown
  BY <1>8, BoundsAssumption DEF Crash, CrashInReap, Shutdown, Forgotten, BoundsAssumption
<1>9. CASE Boot
  BY <1>9 DEF Boot, callVars
<1>10. CASE UNCHANGED <<launch, reap, daemon, downs>>
  BY <1>10
<1> QED
  BY <1>2, <1>3, <1>4, <1>5, <1>6, <1>7, <1>8, <1>9, <1>10
     DEF Next, Harness, Operator, Continues, Park, HarnessWithdraws, Exit, TurnErrors, TurnAborts,
         SendInput, Stop, AnswerAsk, Retry, DeliverOk, DeliverFails, SweepAsks, callVars, vars
-----------------------------------------------------------------------------
(* Answers on their way and answers read.                                  *)
Writes == [key : Keys, to : Gens, intact : BOOLEAN, by : {"answer", "retry"}]

LEMMA SendWrites ==
    ASSUME TypeOK, ParkedByNewest, NEW A, Sane(A), NEW k \in Keys, NEW by \in {"answer", "retry"},
           Send(A, k, by)
    PROVE  \A w \in writing' \ writing : w \in Writes /\ w.key = k /\ w.to = k[1]
<1> DEFINE new == [key |-> k, to |-> gen, intact |-> Intact(A, k), by |-> by]
<1>1. CASE writing' = writing
  BY <1>1
<1>2. CASE Deliverable(k) /\ writing' = writing \cup {new}
  <2>1. k[1] \in Gens /\ k[2] \in Reqs
    BY DEF Keys
  <2>2. k[1] = gen
    BY <1>2, <2>1 DEF Deliverable, ParkedByNewest, Gens
  <2>3. new \in Writes /\ new.key = k /\ new.to = gen
    BY DEF Writes, Intact, TypeOK
  <2> QED
    BY <1>2, <2>2, <2>3
<1> QED
  BY <1>1, <1>2 DEF Send

LEMMA WritesStep ==
    ASSUME TypeOK, ParkedByNewest, WritesAreDecided, [Next]_vars
    PROVE  WritesAreDecided' /\ writing' \subseteq Writes
<1>1. Moves(asks, asks') /\ writing \subseteq Writes
  BY AsksStep DEF TypeOK, Writes
<1>2. \A w \in writing : w \in Writes /\ asks'[w.key].st \in Decisions /\ w.to = w.key[1]
  BY <1>1, StatesDiffer DEF WritesAreDecided, Moves, Writes
<1>3. CASE writing' \subseteq writing
  BY <1>2, <1>3 DEF WritesAreDecided
<1>4. ASSUME NEW k \in Keys, NEW A, NEW by \in {"answer", "retry"}, Sane(A), A[k].st \in Decisions,
             Send(A, k, by)
      PROVE  WritesAreDecided' /\ writing' \subseteq Writes
  <2>1. \A w \in writing' \ writing : w \in Writes /\ w.key = k /\ w.to = k[1]
    BY <1>4, SendWrites
  <2>2. asks'[k].st \in Decisions
    BY <1>4, SendMoves
  <2> QED
    BY <1>2, <2>1, <2>2 DEF WritesAreDecided
<1>5. ASSUME NEW k \in Keys, NEW d \in Decisions, AnswerAsk(k, d)
      PROVE  WritesAreDecided' /\ writing' \subseteq Writes
  BY <1>4, <1>5, AnsweredIsSane DEF AnswerAsk
<1>6. ASSUME NEW k \in Keys, Retry(k) PROVE WritesAreDecided' /\ writing' \subseteq Writes
  BY <1>4, <1>6, SaneFromType DEF Retry, Queued, Decided
<1> QED
  BY <1>3, <1>5, <1>6
     DEF Next, Harness, Operator, Continues, Park, HarnessWithdraws, Exit, TurnErrors, TurnAborts,
         SendInput, Stop, Resume, ResumeLive, StartDone, ResumeDone, LaunchRejected, DeliverOk,
         DeliverFails, ReapBegins, ReapRefused, ReapVerified, ReapKilled, ReapSurvived, SweepAsks,
         Crash, CrashInReap, Shutdown, Forgotten, Boot, NothingElse, callVars, vars

(* What is missed stays so, and is an ask.                                  *)
LEMMA MissedStep ==
    ASSUME TypeOK, [Next]_vars
    PROVE  missed \subseteq missed' /\ missed' \subseteq Keys
<1>1. missed \subseteq Keys /\ \A w \in writing : w.key \in Keys
  BY DEF TypeOK
<1>2. ASSUME NEW A, NEW k \in Keys, NEW by, Send(A, k, by)
      PROVE  missed \subseteq missed' /\ missed' \subseteq Keys
  BY <1>1, <1>2 DEF Send
<1>3. ASSUME NEW k \in Keys, Retry(k) \/ \E d \in Decisions : AnswerAsk(k, d)
      PROVE  missed \subseteq missed' /\ missed' \subseteq Keys
  BY <1>2, <1>3 DEF Retry, AnswerAsk
<1>4. ASSUME NEW w \in writing, DeliverFails(w)
      PROVE  missed \subseteq missed' /\ missed' \subseteq Keys
  BY <1>1, <1>4 DEF DeliverFails
<1> QED
  BY <1>1, <1>3, <1>4
     DEF Next, Harness, Operator, Continues, Park, HarnessWithdraws, Exit, TurnErrors, TurnAborts,
         SendInput, Stop, Resume, ResumeLive, StartDone, ResumeDone, LaunchRejected, DeliverOk,
         ReapBegins, ReapRefused, ReapVerified, ReapKilled, ReapSurvived, SweepAsks, Crash,
         CrashInReap, Shutdown, Forgotten, Boot, NothingElse, callVars, vars

(* What a worker reads is a write that was under way.                      *)
LEMMA HeardStep ==
    ASSUME TypeOK, WritesAreDecided, HeardByItsAsker, [Next]_vars
    PROVE  heard' \subseteq Heard /\ HeardByItsAsker'
<1>1. Moves(asks, asks')
  BY AsksStep
<1>2. \A h \in heard : h \in Heard /\ h.to = h.key[1] /\ h.decision = asks'[h.key].st
  BY <1>1, StatesDiffer DEF TypeOK, Heard, HeardByItsAsker, Moves
<1>3. ASSUME NEW w \in writing
      PROVE  /\ Written(w) \in Heard /\ Written(w).to = Written(w).key[1]
             /\ Written(w).decision = asks'[Written(w).key].st
  <2>1. /\ w.key \in Keys /\ w.to \in Gens /\ w.intact \in BOOLEAN
        /\ asks[w.key].st \in Decisions /\ w.to = w.key[1]
    BY DEF TypeOK, WritesAreDecided
  <2>2. asks'[w.key].st = asks[w.key].st
    BY <1>1, <2>1, StatesDiffer DEF Moves
  <2> QED
    BY <2>1, <2>2 DEF Written, Heard
<1>4. CASE heard' = heard
  BY <1>2, <1>4 DEF HeardByItsAsker
<1>5. ASSUME NEW w \in writing, DeliverOk(w) PROVE heard' \subseteq Heard /\ HeardByItsAsker'
  BY <1>2, <1>3, <1>5 DEF DeliverOk, HeardByItsAsker
<1>6. CASE Crash
  <2>1. PICK W \in SUBSET writing : heard' = heard \cup {Written(w) : w \in W}
    BY <1>6 DEF Crash
  <2> QED
    BY <1>2, <1>3, <2>1 DEF HeardByItsAsker
<1> QED
  BY <1>4, <1>5, <1>6
     DEF Next, Harness, Operator, Continues, Park, HarnessWithdraws, Exit, TurnErrors, TurnAborts,
         SendInput, Stop, Resume, ResumeLive, StartDone, ResumeDone, LaunchRejected, AnswerAsk,
         Retry, DeliverFails, ReapBegins, ReapRefused, ReapVerified, ReapKilled, ReapSurvived,
         SweepAsks, CrashInReap, Shutdown, Boot, NothingElse, callVars, vars
-----------------------------------------------------------------------------
(* Actions that leave the task alone close no ask, and the others look at  *)
(* the asks they leave behind.                                             *)
LEMMA BlockedStep ==
    ASSUME TypeOK, WritesAreDecided, BlockedMeansAsked, [Next]_vars
    PROVE  BlockedMeansAsked'
<1>1. ASSUME task' = Unblocked(asks') \/ task' = BlockedBy(asks') PROVE BlockedMeansAsked'
  BY <1>1 DEF Unblocked, BlockedBy, BlockedMeansAsked, OpenAsks
<1>2. ASSUME task' = task, OpenAsks(asks)' = OpenAsks(asks), daemon' = daemon
      PROVE BlockedMeansAsked'
  BY <1>2 DEF BlockedMeansAsked
<1>3. CASE UNCHANGED <<task, asks, daemon>>
  BY <1>2, <1>3 DEF OpenAsks
<1>4. CASE ResumeLive
  BY <1>2, <1>4, UnscheduleMoves, SaneFromType DEF ResumeLive, ReopenedAsks, OpenAsks
<1>5. ASSUME NEW k \in Keys, Retry(k) PROVE BlockedMeansAsked'
  BY <1>2, <1>5, SendMoves, SaneFromType DEF Retry, Queued, Decided, OpenAsks
<1>6. ASSUME NEW w \in writing, DeliverOk(w) PROVE BlockedMeansAsked'
  <2>1. w.key \in Keys /\ asks' = [asks EXCEPT ![w.key] = Noted(asks[w.key], "yes", Redacted(w))]
    BY <1>6 DEF TypeOK, DeliverOk
  <2>2. \A k \in Keys : asks'[k].st = asks[k].st
    BY <2>1 DEF Noted, TypeOK
  <2> QED
    BY <1>2, <1>6, <2>2 DEF DeliverOk, OpenAsks
<1>7. ASSUME NEW w \in writing, DeliverFails(w) PROVE BlockedMeansAsked'
  <2>1. w.key \in Keys /\ asks' = [asks EXCEPT ![w.key].redacted = Redacted(w)]
    BY <1>7 DEF TypeOK, DeliverFails
  <2>2. \A k \in Keys : asks'[k].st = asks[k].st
    BY <2>1 DEF TypeOK, Ask
  <2> QED
    BY <1>2, <1>7, <2>2 DEF DeliverFails, OpenAsks
<1>8. CASE daemon' = "down"
  BY <1>8 DEF BlockedMeansAsked
<1> QED
  BY <1>1, <1>3, <1>4, <1>5, <1>6, <1>7, <1>8
     DEF Next, Harness, Operator, Continues, Park, HarnessWithdraws, Exit, TurnErrors, TurnAborts,
         SendInput, Stop, Resume, StartDone, ResumeDone, LaunchRejected, AnswerAsk, ReapBegins,
         ReapRefused, ReapVerified, ReapKilled, ReapSurvived, BookLost, EndsAs, SweepAsks, Crash,
         CrashInReap, Shutdown, Forgotten, Boot, rowVars, vars
-----------------------------------------------------------------------------
(* A row that is open afterwards was open before, or was just reopened.    *)
LEMMA DeadlineStep ==
    ASSUME TypeOK, WritesAreDecided, DeadlineMeansEnded, [Next]_vars
    PROVE  DeadlineMeansEnded'
<1>1. SUFFICES ASSUME IsOpen', NEW k \in OpenAsks(asks') PROVE ~asks'[k].due
  BY DEF DeadlineMeansEnded, Due
<1>2. k \in Keys /\ asks'[k].st = "open"
  BY <1>1 DEF OpenAsks
<1>3. /\ row \in RowTypes /\ "open" \in Ends /\ Sane(asks)
      /\ \A e \in Ends : [row EXCEPT !.end = e].end = e
      /\ \A e \in {"self", "stopped", "reaped", "lost"} : e # "open" /\ e \in Ends
  BY SaneFromType, RowEdits DEF RowTypes, Ends
<1>4. IsOpen => \A j \in OpenAsks(asks) : ~asks[j].due
  BY DEF DeadlineMeansEnded, Due
<1> USE <1>1, <1>2, <1>3, <1>4
<1>5. ASSUME IsOpen, k \in OpenAsks(asks), asks'[k] = asks[k] PROVE ~asks'[k].due
  BY <1>5
<1>6. ASSUME NEW A, NEW reason \in Ends \ {"open"}, EndsAs(A, reason) PROVE FALSE
  BY <1>6 DEF EndsAs, IsOpen
<1>7. Reason \in Ends \ {"open"}
  BY DEF Reason, Ends
<1>8. ASSUME NEW r \in Reqs, Park(r) PROVE ~asks'[k].due
  <2>1. IsOpen /\ <<gen, r>> \in Keys
    BY <1>8 DEF Park, IsOpen, TypeOK, Keys
  <2>2. asks' = asks \/ \E ended \in BOOLEAN : ~ended /\ asks' = Create(asks, <<gen, r>>, ended)
    BY <1>8, <2>1 DEF Park
  <2>3. CASE asks' = asks
    BY <1>5, <2>1, <2>3
  <2>4. ASSUME NEW ended \in BOOLEAN, ~ended, asks' = Create(asks, <<gen, r>>, ended)
        PROVE  ~asks'[k].due
    <3>1. asks[<<gen, r>>].st = "none" /\ asks'[<<gen, r>>].due = ended
      BY <1>8, <2>1, <2>4, CreateMoves DEF Park
    <3>2. CASE k = <<gen, r>>
      BY <2>4, <3>1, <3>2
    <3>3. CASE k # <<gen, r>>
      BY <1>5, <2>1, <2>4, <3>3, CreateMoves DEF OpenAsks
    <3> QED
      BY <3>2, <3>3
  <2> QED
    BY <2>2, <2>3, <2>4
<1>9. ASSUME NEW r \in Reqs, HarnessWithdraws(r) PROVE ~asks'[k].due
  BY <1>9, <1>5, WithdrawMoves DEF HarnessWithdraws, IsOpen
<1>10. ASSUME NEW g \in Gens, Exit(g) PROVE ~asks'[k].due
  BY <1>10, <1>5, <1>6, <1>7 DEF Exit, rowVars, IsOpen
<1>11. CASE TurnErrors \/ Shutdown
  BY <1>11, <1>5, <1>6, <1>7 DEF TurnErrors, Shutdown, rowVars, IsOpen
<1>12. CASE Stop
  BY <1>12, <1>6 DEF Stop, Ends
<1>13. CASE Resume
  <2> DEFINE A == IF consumer THEN Withdraw(asks, ReplacedRequests) ELSE asks
  <2>1. Sane(A) /\ \A j \in OpenAsks(A) : j \in OpenAsks(asks) /\ A[j] = asks[j]
    BY WithdrawMoves DEF Moves
  <2>2. asks' = ReopenedAsks(A)
    BY <1>13 DEF Resume
  <2> QED
    BY <2>1, <2>2, UnscheduleMoves DEF ReopenedAsks
<1>14. CASE ResumeLive
  BY <1>14, UnscheduleMoves DEF ResumeLive, ReopenedAsks
<1>15. ASSUME NEW ok \in BOOLEAN, ResumeDone(ok) PROVE ~asks'[k].due
  <2>1. row'.end = "open" => IsOpen /\ asks' = Drained
    <3>1. CASE consumer \/ StreamEnded
      BY <1>15, <3>1, <1>7, RowEdits DEF ResumeDone, RowTypes, IsOpen
    <3>2. CASE ~(consumer \/ StreamEnded)
      BY <1>15, <3>2, RowEdits DEF ResumeDone, IsOpen
    <3> QED
      BY <3>1, <3>2
  <2>2. IsOpen /\ asks' = Drained
    BY <2>1 DEF IsOpen
  <2>3. CASE k \in OpenAsks(asks) /\ Drained[k] = asks[k]
    BY <2>2, <2>3
  <2>4. CASE Drained[k] = NewAsk(~IsOpen)
    <3>1. NewAsk(~IsOpen).due = FALSE
      BY <2>2 DEF NewAsk
    <3> QED
      BY <2>2, <2>4, <3>1
  <2> QED
    BY <2>2, <2>3, <2>4, DrainedMoves
<1>16. CASE LaunchRejected \/ CrashInReap
  BY <1>16 DEF LaunchRejected, CrashInReap, IsOpen
<1>17. CASE ReapBegins \/ ReapRefused
  BY <1>17, <1>5 DEF ReapBegins, ReapRefused, BookLost, rowVars, IsOpen
<1>18. CASE ReapKilled
  BY <1>18, <1>5 DEF ReapKilled, IsOpen
<1>19. CASE SweepAsks
  BY <1>19, <1>5, ClosedMoves DEF SweepAsks, IsOpen
<1>20. CASE Boot
  <2>1. IsOpen
    BY <1>20 DEF Boot, IsOpen
  <2>2. PICK S \in SUBSET Due(CloseOpen(asks)) : asks' = Closed(CloseOpen(asks), S)
    BY <1>20, <2>1 DEF Boot
  <2> QED
    BY <2>2, CloseOpenMoves, ClosedMoves DEF Moves
<1>21. ASSUME NEW j \in Keys, NEW d \in Decisions, AnswerAsk(j, d) PROVE ~asks'[k].due
  <2> DEFINE A == [asks EXCEPT ![j].st = d]
  <2>1. Sane(A) /\ A[j].st \in Decisions /\ \A i \in Keys : i # j => A[i] = asks[i]
    BY <1>21, AnsweredIsSane DEF AnswerAsk, TypeOK
  <2>2. asks'[k].st = A[k].st /\ asks'[k].due = A[k].due
    BY <1>21, <2>1, SendMoves DEF AnswerAsk
  <2> QED
    BY <1>21, <2>1, <2>2, StatesDiffer DEF AnswerAsk, OpenAsks, IsOpen
<1>22. ASSUME NEW j \in Keys, Retry(j) PROVE ~asks'[k].due
  <2>1. IsOpen /\ asks'[k].st = asks[k].st /\ asks'[k].due = asks[k].due
    BY <1>22, SendMoves DEF Retry, Queued, Decided, IsOpen
  <2> QED
    BY <2>1 DEF OpenAsks
<1>23. ASSUME NEW w \in writing, DeliverOk(w) \/ DeliverFails(w) PROVE ~asks'[k].due
  <2>1. w.key \in Keys /\ asks[w.key].st \in Decisions
    BY DEF TypeOK, WritesAreDecided
  <2>2. \A j \in Keys : j # w.key => asks'[j] = asks[j]
    BY <1>23, <2>1 DEF DeliverOk, DeliverFails, TypeOK
  <2>3. asks'[w.key].st \in Decisions
    BY <2>1, AsksStep, StatesDiffer DEF Moves
  <2> QED
    BY <1>23, <1>5, <2>1, <2>2, <2>3, StatesDiffer DEF DeliverOk, DeliverFails, OpenAsks, IsOpen
<1>24. ASSUME NEW ok \in BOOLEAN, StartDone(ok) PROVE ~asks'[k].due
  BY <1>24, <1>5, RowEdits DEF StartDone, IsOpen, OpenAsks
<1>25. CASE UNCHANGED <<row, asks>>
  BY <1>25, <1>5 DEF IsOpen, OpenAsks
<1> QED
  BY <1>8, <1>9, <1>10, <1>11, <1>12, <1>13, <1>14, <1>15, <1>16, <1>17, <1>18, <1>19, <1>20,
     <1>21, <1>22, <1>23, <1>24, <1>25
     DEF Next, Harness, Operator, Continues, TurnAborts, SendInput, ReapVerified, ReapSurvived,
         Crash, rowVars, vars
-----------------------------------------------------------------------------
(* A consumer is attached only to a stream that has not ended.             *)
LEMMA ExitStep ==
    ASSUME TypeOK, ExitEndsStream, [Next]_vars
    PROVE  ExitEndsStream'
<1>1. gen \in Gens /\ procs \in [Gens -> {"unborn", "alive", "dead"}]
  BY DEF TypeOK
<1> USE <1>1 DEF ExitEndsStream
<1>2. CASE consumer' = FALSE
  BY <1>2
<1>3. ASSUME NEW g \in Gens, Exit(g) PROVE ExitEndsStream'
  BY <1>3 DEF Exit, Alive
<1>4. CASE SendInput
  BY <1>4 DEF SendInput, Alive
<1>5. CASE TurnAborts
  BY <1>5 DEF TurnAborts
<1>6. CASE Resume
  <2>1. gen + 1 \in Gens
    BY <1>6, BoundsAssumption DEF Resume, Gens, BoundsAssumption
  <2> QED
    BY <1>6, <2>1 DEF Resume
<1>7. ASSUME NEW ok \in BOOLEAN, ResumeDone(ok) PROVE ExitEndsStream'
  BY <1>7 DEF ResumeDone, StreamEnded
<1>8. CASE UNCHANGED <<gen, procs, adapter, consumer>>
  BY <1>8
<1>9. CASE UNCHANGED harnessVars
  BY <1>9 DEF harnessVars
<1> QED
  BY <1>2, <1>3, <1>4, <1>5, <1>6, <1>7, <1>8, <1>9
     DEF Next, Harness, Operator, Continues, Park, HarnessWithdraws, TurnErrors, Stop, ResumeLive,
         StartDone, LaunchRejected, AnswerAsk, Retry, DeliverOk, DeliverFails, ReapBegins,
         ReapRefused, ReapVerified, ReapKilled, ReapSurvived, SweepAsks, Crash, CrashInReap,
         Shutdown, Forgotten, Boot, NothingElse, vars
-----------------------------------------------------------------------------
IInv ==
    /\ TypeOK /\ WritesAreDecided /\ ParkedByNewest
    /\ HeardByItsAsker /\ BlockedMeansAsked /\ DeadlineMeansEnded /\ ExitEndsStream

LEMMA InitHolds == Init => IInv
<1> SUFFICES ASSUME Init PROVE IInv
  OBVIOUS
<1>1. NoAsk \in Ask /\ NoAsk.st = "none" /\ ~NoAsk.redacted /\ NoAsk.sent = "no"
  BY DEF NoAsk, Ask
<1>2. \A k \in Keys : asks[k] = NoAsk
  BY DEF Init
<1>3. asks \in [Keys -> Ask] /\ OpenAsks(asks) = {}
  BY <1>1, <1>2 DEF Init, OpenAsks
<1>4. 1 \in Gens /\ gen = 1 /\ procs \in [Gens -> {"unborn", "alive", "dead"}]
  BY BoundsAssumption DEF Init, Gens, BoundsAssumption
<1>5. /\ row \in [end : Ends, orphan : BOOLEAN, ident : Gens \cup {0}]
      /\ reap \in [pc : {"idle", "verifying", "killing"}, target : Gens \cup {0}, wasOpen : BOOLEAN]
  BY DEF Init, Ends, NoReap
<1>6. TypeOK
  BY <1>1, <1>2, <1>3, <1>4, <1>5, BoundsAssumption DEF Init, TypeOK, BoundsAssumption
<1>7. WritesAreDecided /\ ParkedByNewest /\ HeardByItsAsker
  BY DEF Init, WritesAreDecided, ParkedByNewest, HeardByItsAsker
<1>8. BlockedMeansAsked /\ DeadlineMeansEnded /\ ExitEndsStream
  BY <1>3, <1>4 DEF Init, BlockedMeansAsked, DeadlineMeansEnded, Due, ExitEndsStream
<1> QED
  BY <1>6, <1>7, <1>8 DEF IInv

LEMMA StepHolds ==
    ASSUME IInv, [Next]_vars
    PROVE  IInv'
<1> USE DEF IInv
<1>1. Sane(asks)' /\ writing' \subseteq Writes /\ heard' \subseteq Heard
  BY AsksStep, WritesStep, HeardStep DEF Moves, Sane
<1>2. task' \in {"implementing", "blocked"}
  BY TaskStep DEF Unblocked, BlockedBy, TypeOK
<1>3. TypeOK'
  BY <1>1, <1>2, RowStep, WorkerStep, CallStep, MissedStep
     DEF TypeOK, Sane, RowTypes, WorkerTypes, CallTypes, Writes
<1> QED
  BY <1>3, WorkerStep, WritesStep, HeardStep, BlockedStep, DeadlineStep, ExitStep

LEMMA Invariance == Spec => []IInv
BY InitHolds, StepHolds, PTL DEF Spec

(* The variables keep their types, and an answer is delivered, reduced to  *)
(* a hash or abandoned only once there is one.                             *)
THEOREM TypeCorrect == Spec => []TypeOK
BY Invariance, PTL DEF IInv

(* A resolved ask keeps its resolution, whoever acts next.                 *)
THEOREM ResolvedStays == Spec => DecisionStands
<1>1. IInv /\ [Next]_vars
        => [\A k \in Keys : asks[k].st \notin {"none", "open"} => asks'[k].st = asks[k].st]_vars
  BY AsksStep DEF IInv, Moves
<1> QED
  BY <1>1, Invariance, PTL DEF Spec, DecisionStands

(* A worker hears the decision on record, about a request of its own.      *)
THEOREM AskerHears == Spec => []HeardByItsAsker
BY Invariance, PTL DEF IInv

(* While the daemon runs, a blocked task has something to answer.          *)
THEOREM BlockedTaskIsAsked == Spec => []BlockedMeansAsked
BY Invariance, PTL DEF IInv

(* No deadline runs against a run that goes on.                            *)
THEOREM DeadlinesWaitForTheEnd == Spec => []DeadlineMeansEnded
BY Invariance, PTL DEF IInv

(* An exit that no aborted turn hides ends the stream.                     *)
THEOREM ExitIsSeen == Spec => []ExitEndsStream
BY Invariance, PTL DEF IInv
-----------------------------------------------------------------------------
(* Two statements end a run and settle its asks.  No ask is stranded as    *)
(* long as nothing comes between them and no path leaves the second out.   *)
LEMMA StrandedStep ==
    ASSUME {"identity-rejects", "crash-in-reap"} \cap Enabled = {},
           TypeOK, WritesAreDecided, NoStrandedAsk, [Next]_vars
    PROVE  NoStrandedAsk'
<1>1. SUFFICES ASSUME NEW k \in OpenAsks(asks') PROVE IsOpen' \/ asks'[k].due
  BY DEF NoStrandedAsk, OpenAsks, IsOpen
<1>2. k \in Keys /\ asks'[k].st = "open"
  BY <1>1 DEF OpenAsks
<1>3. Sane(asks) /\ Moves(asks, asks)
  BY SaneFromType
<1>4. ~IsOpen => \A j \in OpenAsks(asks) : asks[j].due
  BY DEF NoStrandedAsk
<1> USE <1>1, <1>2, <1>3, <1>4
<1>5. ASSUME IsOpen' = IsOpen, k \in OpenAsks(asks), asks'[k] = asks[k]
      PROVE IsOpen' \/ asks'[k].due
  BY <1>5
<1>6. ASSUME NEW A, Sane(A), NEW reason, EndsAs(A, reason),
             IsOpen \/ (k \in OpenAsks(A) => A[k].due)
      PROVE  IsOpen' \/ asks'[k].due
  BY <1>6, ScheduleMoves, CloseOpenMoves DEF EndsAs
<1>7. ASSUME NEW r \in Reqs, Park(r) PROVE IsOpen' \/ asks'[k].due
  <2>1. <<gen, r>> \in Keys /\ IsOpen' = IsOpen
    BY <1>7 DEF Park, IsOpen, TypeOK, Keys
  <2>2. \/ asks' = asks
        \/ \E ended \in BOOLEAN : (IsOpen \/ ended) /\ asks' = Create(asks, <<gen, r>>, ended)
    BY <1>7 DEF Park, IsOpen
  <2>3. CASE asks' = asks
    BY <1>5, <2>1, <2>3
  <2>4. ASSUME NEW ended \in BOOLEAN, IsOpen \/ ended, asks' = Create(asks, <<gen, r>>, ended)
        PROVE  IsOpen' \/ asks'[k].due
    <3>1. asks[<<gen, r>>].st = "none" /\ asks'[<<gen, r>>].due = ended
      BY <1>7, <2>1, <2>4, CreateMoves DEF Park
    <3>2. CASE k = <<gen, r>>
      BY <2>1, <2>4, <3>1, <3>2
    <3>3. CASE k # <<gen, r>>
      BY <1>5, <2>1, <2>4, <3>3, CreateMoves DEF OpenAsks
    <3> QED
      BY <3>2, <3>3
  <2> QED
    BY <2>2, <2>3, <2>4
<1>8. ASSUME NEW r \in Reqs, HarnessWithdraws(r) PROVE IsOpen' \/ asks'[k].due
  BY <1>8, <1>5, WithdrawMoves DEF HarnessWithdraws, IsOpen
<1>9. ASSUME (\E g \in Gens : Exit(g)) \/ TurnErrors \/ Shutdown \/ Stop
      PROVE  IsOpen' \/ asks'[k].due
  <2>1. CASE \E reason : EndsAs(asks, reason)
    BY <1>6, <2>1
  <2>2. CASE UNCHANGED rowVars
    BY <1>5, <2>2 DEF rowVars, IsOpen, OpenAsks
  <2> QED
    BY <1>9, <2>1, <2>2 DEF Exit, TurnErrors, Shutdown, Stop
<1>10. CASE Resume \/ ResumeLive
  <2>1. \A e \in {"open"} : row'.end = e
    BY <1>10 DEF Resume, ResumeLive, Reopened, IsOpen, TypeOK
  <2> QED
    BY <2>1 DEF IsOpen
<1>11. ASSUME NEW ok \in BOOLEAN, ResumeDone(ok) PROVE IsOpen' \/ asks'[k].due
  <2>1. Sane(Drained)
    BY DrainedMoves DEF Moves
  <2>2. CASE IsOpen /\ row'.end # "open"
    <3>1. asks' = Schedule(Drained) \/ asks' = CloseOpen(Drained)
      BY <1>11, <2>2, RowEdits DEF ResumeDone, IsOpen
    <3> QED
      BY <2>1, <3>1, ScheduleMoves, CloseOpenMoves
  <2>3. CASE ~IsOpen
    <3>1. asks' = Drained
      BY <1>11, <2>3 DEF ResumeDone
    <3>2. NewAsk(~IsOpen).due = TRUE
      BY <2>3 DEF NewAsk
    <3> QED
      BY <2>3, <3>1, <3>2, DrainedMoves
  <2> QED
    BY <2>2, <2>3 DEF IsOpen
<1>12. CASE ReapBegins \/ ReapRefused
  BY <1>12, <1>5, CloseOpenMoves DEF ReapBegins, ReapRefused, BookLost, rowVars, IsOpen, OpenAsks
<1>13. CASE ReapKilled
  <2>1. CASE reap.wasOpen /\ IsOpen
    BY <1>13, <2>1, CloseOpenMoves DEF ReapKilled
  <2>2. CASE IsOpen /\ ~reap.wasOpen /\ consumer
    BY <1>13, <2>2, ScheduleMoves DEF ReapKilled
  <2>3. CASE ~(reap.wasOpen /\ IsOpen) /\ ~(IsOpen /\ ~reap.wasOpen /\ consumer)
    <3>1. asks' = asks /\ row' = [row EXCEPT !.end = row.end]
      BY <1>13, <2>3 DEF ReapKilled
    <3>2. row'.end = row.end
      BY <3>1 DEF TypeOK
    <3> QED
      BY <1>5, <3>1, <3>2 DEF IsOpen, OpenAsks
  <2> QED
    BY <2>1, <2>2, <2>3
<1>14. CASE SweepAsks
  BY <1>14, <1>5, ClosedMoves DEF SweepAsks, IsOpen
<1>15. CASE Boot
  <2> DEFINE A == IF IsOpen THEN CloseOpen(asks) ELSE asks
  <2>1. PICK S \in SUBSET Due(A) : asks' = Closed(A, S)
    BY <1>15 DEF Boot
  <2>2. Sane(A) /\ k \in OpenAsks(A) /\ asks'[k] = A[k]
    BY <2>1, CloseOpenMoves, ClosedMoves DEF Moves
  <2>3. ~IsOpen
    BY <2>2, CloseOpenMoves
  <2> QED
    BY <2>2, <2>3
<1>16. ASSUME NEW j \in Keys, NEW d \in Decisions, AnswerAsk(j, d) PROVE IsOpen' \/ asks'[k].due
  <2> DEFINE A == [asks EXCEPT ![j].st = d]
  <2>1. Sane(A) /\ A[j].st \in Decisions /\ \A i \in Keys : i # j => A[i] = asks[i]
    BY <1>16, AnsweredIsSane DEF AnswerAsk, TypeOK
  <2>2. asks'[k].st = A[k].st /\ asks'[k].due = A[k].due
    BY <1>16, <2>1, SendMoves DEF AnswerAsk
  <2> QED
    BY <1>16, <2>1, <2>2, StatesDiffer DEF AnswerAsk, OpenAsks, IsOpen
<1>17. ASSUME NEW j \in Keys, Retry(j) PROVE IsOpen' \/ asks'[k].due
  BY <1>17 DEF Retry, Queued, IsOpen
<1>18. ASSUME NEW w \in writing, DeliverOk(w) \/ DeliverFails(w) PROVE IsOpen' \/ asks'[k].due
  <2>1. w.key \in Keys /\ asks[w.key].st \in Decisions
    BY DEF TypeOK, WritesAreDecided
  <2>2. \A j \in Keys : j # w.key => asks'[j] = asks[j]
    BY <1>18, <2>1 DEF DeliverOk, DeliverFails, TypeOK
  <2>3. asks'[w.key].st \in Decisions
    BY <2>1, AsksStep, StatesDiffer DEF Moves
  <2> QED
    BY <1>18, <1>5, <2>1, <2>2, <2>3, StatesDiffer DEF DeliverOk, DeliverFails, OpenAsks, IsOpen
<1>19. ASSUME NEW ok \in BOOLEAN, StartDone(ok) PROVE IsOpen' \/ asks'[k].due
  BY <1>19, <1>5, RowEdits DEF StartDone, IsOpen, OpenAsks
<1>20. CASE UNCHANGED <<row, asks>>
  BY <1>20, <1>5 DEF IsOpen, OpenAsks
<1> QED
  BY <1>7, <1>8, <1>9, <1>10, <1>11, <1>12, <1>13, <1>14, <1>15, <1>16, <1>17, <1>18, <1>19, <1>20
     DEF Next, Harness, Operator, Continues, TurnAborts, SendInput, LaunchRejected, ReapVerified,
         ReapSurvived, Crash, CrashInReap, rowVars, vars

(* An open ask is not stranded: its run goes on, or a deadline closes it.  *)
THEOREM NobodyIsStranded ==
    ASSUME {"identity-rejects", "crash-in-reap"} \cap Enabled = {}
    PROVE  Spec => []NoStrandedAsk
<1>1. Init => NoStrandedAsk
  BY DEF Init, NoStrandedAsk, OpenAsks, IsOpen
<1>2. IInv /\ NoStrandedAsk /\ [Next]_vars => NoStrandedAsk'
  BY StrandedStep DEF IInv
<1> QED
  BY <1>1, <1>2, Invariance, PTL DEF Spec
-----------------------------------------------------------------------------
(* What is on its way carries its payload unless the answer's own delivery   *)
(* came to nothing, and only then is the payload gone.                     *)
IntactInv ==
    /\ \A w \in writing : w.intact \/ w.key \in missed
    /\ Reduced(asks) \subseteq missed
    /\ AnswerIntact

LEMMA IntactStep ==
    ASSUME IInv, IntactInv, [Next]_vars
    PROVE  IntactInv'
<1>1. missed \subseteq missed'
  BY MissedStep DEF IInv
<1>2. Reduced(asks)' \subseteq missed'
  <2>1. Moves(asks, asks')
    BY AsksStep DEF IInv
  <2> QED BY <1>1, <2>1 DEF Moves, IntactInv, Reduced
<1>3. ASSUME NEW w \in writing
      PROVE  (w.intact \/ w.key \in missed') /\ (Written(w).intact \/ Written(w).key \in missed')
  BY <1>1 DEF IntactInv, Written
<1>4. \A h \in heard : h.intact \/ h.key \in missed'
  BY <1>1 DEF IntactInv, AnswerIntact
<1>5. CASE writing' \subseteq writing /\ heard' = heard
  BY <1>2, <1>3, <1>4, <1>5 DEF IntactInv, AnswerIntact
<1>6. ASSUME NEW k \in Keys, NEW A, NEW by, Send(A, k, by), heard' = heard,
             A[k].redacted => k \in missed
      PROVE  IntactInv'
  <2> DEFINE new == [key |-> k, to |-> gen, intact |-> Intact(A, k), by |-> by]
  <2>1. writing' = writing \/ writing' = writing \cup {new}
    BY <1>6 DEF Send
  <2>2. new.key = k /\ new.intact = ~A[k].redacted
    BY DEF Intact
  <2>3. new.intact \/ new.key \in missed'
    BY <1>1, <1>6, <2>2
  <2> HIDE DEF new
  <2> QED BY <1>2, <1>3, <1>4, <1>6, <2>1, <2>3 DEF IntactInv, AnswerIntact
<1>7. ASSUME NEW k \in Keys, NEW d \in Decisions, AnswerAsk(k, d) PROVE IntactInv'
  <2> DEFINE A == [asks EXCEPT ![k].st = d]
  <2>1. asks[k].st = "open" /\ ~asks[k].redacted
    BY <1>7, StatesDiffer DEF AnswerAsk, IInv, TypeOK, Ask
  <2>2. ~A[k].redacted
    BY <2>1 DEF IInv, TypeOK, Ask
  <2>3. Send(A, k, "answer") /\ heard' = heard
    BY <1>7 DEF AnswerAsk
  <2> HIDE DEF A
  <2> QED BY <1>6, <2>2, <2>3
<1>8. ASSUME NEW k \in Keys, Retry(k) PROVE IntactInv'
  <2>1. Send(asks, k, "retry") /\ heard' = heard /\ asks[k].sent = "no"
    BY <1>8 DEF Retry, Queued
  <2>2. asks[k].redacted => k \in missed
    BY <2>1 DEF IntactInv, Reduced
  <2> QED BY <1>6, <2>1, <2>2
<1>9. ASSUME NEW w \in writing, DeliverOk(w) PROVE IntactInv'
  <2>1. heard' = heard \cup {Written(w)} /\ writing' \subseteq writing
    BY <1>9 DEF DeliverOk
  <2> QED BY <1>2, <1>3, <1>4, <1>9, <2>1 DEF IntactInv, AnswerIntact
<1>10. CASE Crash
  <2>1. PICK W \in SUBSET writing : heard' = heard \cup {Written(w) : w \in W}
    BY <1>10 DEF Crash
  <2>2. writing' = {}
    BY <1>10 DEF Crash, Forgotten
  <2> QED BY <1>2, <1>3, <1>4, <2>1, <2>2 DEF IntactInv, AnswerIntact
<1> QED
  BY <1>5, <1>7, <1>8, <1>9, <1>10
     DEF Next, Harness, Operator, Continues, Park, HarnessWithdraws, Exit, TurnErrors, TurnAborts,
         SendInput, Stop, Resume, ResumeLive, StartDone, ResumeDone, LaunchRejected,
         DeliverFails, ReapBegins, ReapRefused, ReapVerified, ReapKilled, ReapSurvived, SweepAsks,
         CrashInReap, Shutdown, Forgotten, Boot, NothingElse, callVars, vars

(* A worker is told to run the input it asked about, however deliveries and *)
(* redeliveries overlap, fail or die with the daemon, as long as the        *)
(* answer's own delivery has not come to nothing before.                   *)
THEOREM AnswersStayIntact == Spec => []AnswerIntact
<1>1. Init => IntactInv
  BY DEF Init, IntactInv, AnswerIntact, Reduced, NoAsk
<1>2. IInv /\ IntactInv /\ [Next]_vars => IntactInv'
  BY IntactStep
<1>3. IntactInv => AnswerIntact
  BY DEF IntactInv
<1> QED
  BY <1>1, <1>2, <1>3, Invariance, PTL DEF Spec
-----------------------------------------------------------------------------
(* Open asks and parked requests.  An ask of a known run is parked, or has   *)
(* lost its place to the answer of an earlier process, or is the newest one *)
(* of a request whose withdrawal waits for a consumer.  Only the stop of a   *)
(* run that had ended unparks without settling the asks.                    *)
Answerable(k) ==
    \/ parked[k[2]] = k[1]
    \/ \E h \in heard : h.key[2] = k[2] /\ h.key[1] < k[1]

Slated(k) == k[2] \in pending /\ \A j \in OpenAsks(asks) : j[2] = k[2] => j[1] <= k[1]

Owned == \A k \in OpenAsks(asks) : Answerable(k) \/ Slated(k)

HarnessInv ==
    /\ adapter = "unknown" => ~consumer /\ launch = "none"
    /\ consumer => pending = {}
    /\ \A g \in Gens : Alive(g) => g <= gen

ParkInv ==
    /\ HarnessInv
    /\ \A k \in OpenAsks(asks) : k[1] <= gen
    /\ adapter # "unknown" => Owned

(* A withdrawal reaches the newest open ask of its request.                  *)
LEMMA NewestIsWithdrawn ==
    ASSUME NEW A, NEW R, NEW k \in OpenAsks(A), k[2] \in R,
           \A j \in OpenAsks(A) : j[2] = k[2] => j[1] <= k[1]
    PROVE  k \notin OpenAsks(Withdraw(A, R))
<1> DEFINE r == k[2]
           live == RowsOf(A, r) \cap OpenAsks(A)
<1>1. k \in Keys /\ A[k].st = "open" /\ k \in live
  BY DEF OpenAsks, RowsOf
<1>2. \A j \in live : j \in OpenAsks(A) /\ j[2] = k[2]
  BY DEF RowsOf
<1>3. k \in Withdrawable(A, r)
  BY <1>1, <1>2 DEF Withdrawable
<1>4. Withdraw(A, R)[k] = [A[k] EXCEPT !.st = "withdrawn"]
  BY <1>1, <1>3 DEF Withdraw
<1>5. Withdraw(A, R)[k].st # "open"
  BY <1>4
<1> QED BY <1>5 DEF OpenAsks

(* Only a request that arrives, or that a fresh consumer finds parked, opens  *)
(* an ask.                                                                 *)
LEMMA OpensStep ==
    ASSUME IInv, [Next]_vars
    PROVE  \/ OpenAsks(asks') \subseteq OpenAsks(asks)
           \/ \E r \in Reqs : Park(r)
           \/ \E ok \in BOOLEAN : ResumeDone(ok)
<1>1. TypeOK /\ WritesAreDecided /\ Sane(asks)
  BY SaneFromType DEF IInv
<1>2. ASSUME NEW A, Moves(asks, A), OpenAsks(A) \subseteq OpenAsks(asks), NEW reason, EndsAs(A, reason)
      PROVE  OpenAsks(asks') \subseteq OpenAsks(asks)
  <2>1. Sane(A)
    BY <1>2 DEF Moves
  <2> QED BY <1>2, <2>1, CloseOpenMoves, ScheduleMoves DEF EndsAs
<1>3. ASSUME (\E g \in Gens : Exit(g)) \/ TurnErrors \/ Stop \/ Shutdown
      PROVE  OpenAsks(asks') \subseteq OpenAsks(asks)
  BY <1>1, <1>2, <1>3, SaneFromType DEF Exit, TurnErrors, Stop, Shutdown, rowVars
<1>4. ASSUME NEW r \in Reqs, HarnessWithdraws(r) PROVE OpenAsks(asks') \subseteq OpenAsks(asks)
  BY <1>1, <1>4, WithdrawMoves DEF HarnessWithdraws
<1>5. CASE Resume \/ ResumeLive
  <2>1. ASSUME NEW A, Sane(A) PROVE OpenAsks(ReopenedAsks(A)) = OpenAsks(A)
    BY <2>1, UnscheduleMoves DEF ReopenedAsks
  <2>2. Sane(Withdraw(asks, ReplacedRequests))
        /\ OpenAsks(Withdraw(asks, ReplacedRequests)) \subseteq OpenAsks(asks)
    BY <1>1, WithdrawMoves DEF Moves
  <2>3. OpenAsks(ReopenedAsks(asks)) = OpenAsks(asks)
    BY <1>1, <2>1
  <2>4. OpenAsks(ReopenedAsks(Withdraw(asks, ReplacedRequests))) \subseteq OpenAsks(asks)
    BY <2>1, <2>2
  <2> QED BY <1>5, <2>3, <2>4 DEF Resume, ResumeLive
<1>6. ASSUME NEW k \in Keys, NEW d \in Decisions, AnswerAsk(k, d)
      PROVE  OpenAsks(asks') \subseteq OpenAsks(asks)
  <2> DEFINE A == [asks EXCEPT ![k].st = d]
  <2>1. Sane(A) /\ A[k].st \in Decisions
    BY <1>1, <1>6, AnsweredIsSane DEF AnswerAsk
  <2>2. \A j \in Keys : A[j].st = "open" => asks[j].st = "open"
    BY <1>1, <2>1, StatesDiffer DEF Sane
  <2>3. Send(A, k, "answer")
    BY <1>6 DEF AnswerAsk
  <2> HIDE DEF A
  <2>4. \A j \in Keys : asks'[j].st = A[j].st
    BY <2>1, <2>3, SendMoves
  <2> QED BY <2>2, <2>4 DEF OpenAsks
<1>7. ASSUME NEW k \in Keys, Retry(k) PROVE OpenAsks(asks') \subseteq OpenAsks(asks)
  BY <1>1, <1>7, SendMoves DEF Retry, Queued, Decided, OpenAsks
<1>8. ASSUME NEW w \in writing, DeliverOk(w) \/ DeliverFails(w)
      PROVE  OpenAsks(asks') \subseteq OpenAsks(asks)
  <2>1. w.key \in Keys /\ asks[w.key].st \in Decisions /\ asks[w.key] \in Ask
    BY <1>1 DEF TypeOK, WritesAreDecided
  <2>2. asks' = [asks EXCEPT ![w.key] = Noted(asks[w.key], "yes", Redacted(w))]
        \/ asks' = [asks EXCEPT ![w.key].redacted = Redacted(w)]
    BY <1>8 DEF DeliverOk, DeliverFails
  <2>3. \A j \in Keys : asks'[j].st = asks[j].st
    BY <1>1, <2>1, <2>2 DEF Noted, TypeOK, Ask
  <2> QED BY <2>3 DEF OpenAsks
<1>9. CASE ReapBegins \/ ReapRefused \/ ReapKilled
  BY <1>1, <1>9, CloseOpenMoves, ScheduleMoves DEF ReapBegins, ReapRefused, ReapKilled, BookLost, rowVars
<1>10. CASE SweepAsks
  BY <1>1, <1>10, ClosedMoves DEF SweepAsks
<1>11. CASE Boot
  <2> DEFINE A == IF IsOpen THEN CloseOpen(asks) ELSE asks
  <2>1. Sane(A) /\ OpenAsks(A) \subseteq OpenAsks(asks)
    BY <1>1, CloseOpenMoves DEF Moves
  <2>2. PICK S \in SUBSET Due(A) : asks' = Closed(A, S)
    BY <1>11 DEF Boot
  <2> QED BY <2>1, <2>2, ClosedMoves
<1>12. CASE UNCHANGED asks
  BY <1>12
<1> QED
  BY <1>3, <1>4, <1>5, <1>6, <1>7, <1>8, <1>9, <1>10, <1>11, <1>12
     DEF Next, Harness, Operator, Continues, TurnAborts, SendInput, StartDone, LaunchRejected,
         ReapVerified, ReapSurvived, Crash, CrashInReap, rowVars, vars

LEMMA HarnessStep ==
    ASSUME IInv, HarnessInv, [Next]_vars
    PROVE  HarnessInv' /\ (adapter' # "unknown" => adapter # "unknown")
<1>1. gen \in Gens /\ gen \in Nat /\ procs \in [Gens -> {"unborn", "alive", "dead"}] /\ gen + 1 \in Nat
      /\ \A g \in Gens : g \in Nat
  BY DEF IInv, TypeOK, Gens
<1>2. /\ adapter = "unknown" => ~consumer /\ launch = "none"
      /\ consumer => pending = {}
      /\ \A g \in Gens : procs[g] = "alive" => g <= gen
  BY DEF HarnessInv, Alive
<1>3. CASE UNCHANGED <<gen, procs>>
  <2> DEFINE Kept == /\ adapter' = "unknown" => ~consumer' /\ launch' = "none"
                     /\ consumer' => pending' = {}
                     /\ adapter' # "unknown" => adapter # "unknown"
  <2>1. ASSUME NEW r \in Reqs, Park(r) \/ HarnessWithdraws(r) PROVE Kept
    BY <1>2, <2>1 DEF Park, HarnessWithdraws, callVars
  <2>2. ASSUME TurnErrors \/ TurnAborts \/ SendInput \/ Stop PROVE Kept
    BY <1>2, <2>2 DEF TurnErrors, TurnAborts, SendInput, Stop, callVars
  <2>3. ASSUME ResumeLive PROVE Kept
    BY <1>2, <2>3 DEF ResumeLive, harnessVars
  <2>4. ASSUME NEW ok \in BOOLEAN, StartDone(ok) \/ ResumeDone(ok) PROVE Kept
    <3>1. CASE StartDone(ok)
      BY <1>2, <3>1 DEF StartDone, harnessVars
    <3>2. CASE ResumeDone(ok)
      <4>1. launch = "resume" /\ pending' = {} /\ (adapter' = "cancelled" \/ adapter' = adapter)
        BY <3>2 DEF ResumeDone
      <4> QED BY <1>2, <4>1
    <3> QED BY <2>4, <3>1, <3>2
  <2>5. ASSUME ReapBegins \/ ReapRefused \/ ReapVerified \/ ReapKilled \/ ReapSurvived
        PROVE  Kept
    <3>1. UNCHANGED <<pending, launch>>
      BY <2>5 DEF ReapBegins, ReapRefused, ReapVerified, ReapKilled, ReapSurvived, NothingElse,
                  harnessVars
    <3>2. \/ UNCHANGED <<adapter, consumer>>
          \/ ~consumer' /\ (adapter' = adapter \/ (consumer /\ adapter' = "cancelled"))
      BY <2>5 DEF ReapBegins, ReapRefused, ReapVerified, ReapKilled, ReapSurvived, NothingElse,
                  harnessVars
    <3> QED BY <1>2, <3>1, <3>2
  <2>6. ASSUME Crash \/ CrashInReap \/ Shutdown PROVE Kept
    BY <2>6 DEF Crash, CrashInReap, Shutdown, Forgotten
  <2>7. ASSUME UNCHANGED <<adapter, consumer, pending, launch>> PROVE Kept
    BY <1>2, <2>7
  <2>8. ASSUME Resume \/ LaunchRejected \/ \E g \in Gens : Exit(g) PROVE Kept
    BY <1>2, <2>8 DEF Resume, LaunchRejected, Exit, callVars
  <2>9. Kept
    <3> HIDE DEF Kept
    <3> QED BY <2>1, <2>2, <2>3, <2>4, <2>5, <2>6, <2>7, <2>8
            DEF Next, Harness, Operator, Continues, AnswerAsk, Retry, DeliverOk, DeliverFails,
                SweepAsks, Boot, harnessVars, callVars, vars
  <2>10. \A g \in Gens : procs'[g] = "alive" => g <= gen'
    BY <1>2, <1>3
  <2> QED BY <2>9, <2>10 DEF HarnessInv, Alive
<1>4. ASSUME NEW g \in Gens, Exit(g) PROVE HarnessInv' /\ (adapter' # "unknown" => adapter # "unknown")
  <2>1. /\ gen' = gen /\ procs' = [procs EXCEPT ![g] = "dead"] /\ UNCHANGED <<adapter, pending, launch>>
        /\ consumer' => consumer
    BY <1>4, <1>1 DEF Exit, callVars, TypeOK, IInv
  <2> QED BY <1>1, <1>2, <2>1 DEF HarnessInv, Alive
<1>5. CASE Resume
  <2>1. /\ gen' = gen + 1 /\ procs' = [procs EXCEPT ![gen + 1] = "alive"] /\ adapter' = "running" /\ adapter # "unknown"
        /\ pending' = (IF consumer THEN pending ELSE pending \cup ReplacedRequests)
        /\ consumer' = consumer
    BY <1>5 DEF Resume
  <2>2. \A h \in Gens : procs'[h] = "alive" => h <= gen'
    BY <1>1, <1>2, <2>1
  <2> QED BY <1>2, <2>1, <2>2 DEF HarnessInv, Alive
<1>6. CASE LaunchRejected
  <2>1. /\ gen' = gen /\ procs' = [procs EXCEPT ![gen] = "dead"] /\ UNCHANGED <<adapter, pending>>
        /\ ~consumer' /\ launch' = "none"
    BY <1>6 DEF LaunchRejected
  <2> QED BY <1>1, <1>2, <2>1 DEF HarnessInv, Alive
<1>7. \/ UNCHANGED <<gen, procs>> \/ Resume \/ LaunchRejected
      \/ \E g \in Gens : Exit(g)
  BY DEF Next, Harness, Operator, Continues, Park, HarnessWithdraws, TurnErrors, TurnAborts,
         SendInput, Stop, ResumeLive, StartDone, ResumeDone, AnswerAsk, Retry, DeliverOk,
         DeliverFails, ReapBegins, ReapRefused, ReapVerified, ReapKilled, ReapSurvived, SweepAsks,
         Crash, CrashInReap, Shutdown, Forgotten, Boot, NothingElse, rowVars, harnessVars, callVars,
         vars
<1> QED BY <1>3, <1>4, <1>5, <1>6, <1>7

(* A step that parks and unparks nothing, and opens no ask.                  *)
LEMMA OwnedStays ==
    ASSUME Owned, OpenAsks(asks') \subseteq OpenAsks(asks), UNCHANGED parked,
           pending \subseteq pending', heard \subseteq heard'
    PROVE  Owned'
<1> SUFFICES ASSUME NEW k \in OpenAsks(asks') PROVE Answerable(k)' \/ Slated(k)'
  BY DEF Owned
<1>1. CASE Answerable(k)
  BY <1>1 DEF Answerable
<1>2. CASE Slated(k)
  BY <1>2 DEF Slated
<1> QED BY <1>1, <1>2 DEF Owned

LEMMA OwnedStep ==
    ASSUME "stop-ended" \notin Enabled, IInv, ParkInv, [Next]_vars
    PROVE  ParkInv'
<1>1. /\ TypeOK /\ WritesAreDecided /\ ParkedByNewest /\ HarnessInv /\ HarnessInv' /\ Sane(asks)
      /\ adapter' # "unknown" => adapter # "unknown"
      /\ \A k \in OpenAsks(asks) : k[1] <= gen
      /\ adapter # "unknown" => Owned
  BY HarnessStep, SaneFromType DEF IInv, ParkInv
<1>2. /\ gen \in Nat /\ gen \in Gens
      /\ \A A : \A k \in OpenAsks(A) : k \in Keys /\ k[1] \in Nat /\ k[1] \in Gens /\ k[2] \in Reqs
                                       /\ k = <<k[1], k[2]>>
  BY <1>1 DEF TypeOK, Gens, Keys, OpenAsks
<1>3. gen' \in Nat /\ gen <= gen'
  <2>1. gen' = gen \/ gen' = gen + 1
    BY DEF Next, Harness, Operator, Continues, Park, HarnessWithdraws, Exit, TurnErrors, TurnAborts,
         SendInput, Stop, Resume, ResumeLive, StartDone, ResumeDone, LaunchRejected, AnswerAsk,
         Retry, DeliverOk, DeliverFails, ReapBegins, ReapRefused, ReapVerified, ReapKilled,
         ReapSurvived, SweepAsks, Crash, CrashInReap, Shutdown, Forgotten, Boot, NothingElse,
         rowVars, harnessVars, callVars, vars
  <2> QED BY <1>2, <2>1
<1>4. ASSUME \A k \in OpenAsks(asks') : k[1] <= gen', adapter' # "unknown" => Owned'
      PROVE  ParkInv'
  BY <1>1, <1>4 DEF ParkInv
<1>5. ASSUME OpenAsks(asks') \subseteq OpenAsks(asks), adapter' # "unknown" => Owned'
      PROVE  ParkInv'
  <2>1. \A k \in OpenAsks(asks') : k[1] <= gen'
    BY <1>1, <1>2, <1>3, <1>5
  <2> QED BY <1>4, <1>5, <2>1
<1>6. ASSUME OpenAsks(asks') \subseteq OpenAsks(asks), UNCHANGED parked,
             pending \subseteq pending', heard \subseteq heard'
      PROVE  ParkInv'
  BY <1>1, <1>5, <1>6, OwnedStays
(* What was parked by the newest process, is parked no more and stays open is *)
(* the newest ask of a request to withdraw.                                *)
<1>7. ASSUME NEW k \in OpenAsks(asks), parked[k[2]] = k[1]
      PROVE  k[1] = gen /\ \A j \in OpenAsks(asks) : j[2] = k[2] => j[1] <= k[1]
  <2>1. k[1] \in Gens /\ k[2] \in Reqs /\ k[1] # 0
    BY <1>2, <1>7 DEF Gens
  <2>2. k[1] = gen
    BY <1>1, <1>7, <2>1 DEF ParkedByNewest
  <2> QED BY <1>1, <1>7, <2>2
<1>8. ASSUME NEW r \in Reqs, Park(r) PROVE ParkInv'
  <2> DEFINE new == <<gen, r>>
  <2>1. /\ adapter # "unknown" /\ adapter' = adapter /\ parked[r] = 0 /\ asks[new].st = "none"
        /\ parked' = [parked EXCEPT ![r] = gen] /\ UNCHANGED <<gen, pending, heard, consumer>>
        /\ asks' = IF consumer THEN Create(asks, new, ~IsOpen) ELSE asks
    BY <1>8 DEF Park, callVars
  <2>2. new \in Keys /\ r \in DOMAIN parked /\ new[1] = gen /\ new[2] = r
    BY <1>1, <1>2 DEF Keys, TypeOK
  <2>3. ASSUME NEW k \in OpenAsks(asks'), k # new
        PROVE  k \in OpenAsks(asks) /\ k[2] \in Reqs /\ (k[2] = r => parked[k[2]] # k[1])
    <3>1. k \in OpenAsks(asks)
      <4>1. \A j \in Keys : j # new => asks'[j] = asks[j]
        <5>1. asks \in [Keys -> Ask]
          BY <1>1 DEF TypeOK
        <5>2. \A ended : \A j \in Keys : j # new => Create(asks, new, ended)[j] = asks[j]
          BY <2>2, <5>1 DEF Create
        <5> QED BY <2>1, <5>2
      <4> QED BY <2>3, <4>1 DEF OpenAsks
    <3> QED BY <1>2, <2>1, <3>1 DEF Gens
  <2> HIDE DEF new
  <2>4. Owned'
    <3> SUFFICES ASSUME NEW k \in OpenAsks(asks') PROVE Answerable(k)' \/ Slated(k)'
      BY DEF Owned
    <3>1. CASE k = new
      BY <2>1, <2>2, <3>1 DEF Answerable
    <3>2. CASE k # new /\ Answerable(k)
      <4>1. k[2] \in Reqs /\ parked' = [parked EXCEPT ![r] = gen] /\ heard' = heard
            /\ (k[2] = r => parked[k[2]] # k[1]) /\ parked \in [Reqs -> Gens \cup {0}]
        BY <1>1, <2>1, <2>3, <3>2 DEF TypeOK
      <4>2. parked[k[2]] = k[1] => parked'[k[2]] = k[1]
        BY <4>1
      <4> QED BY <3>2, <4>1, <4>2 DEF Answerable
    <3>3. CASE k # new /\ Slated(k)
      <4>1. ~consumer /\ asks' = asks
        BY <1>1, <2>1, <3>3 DEF Slated, HarnessInv
      <4> QED BY <2>1, <3>3, <4>1 DEF Slated
    <3> QED BY <1>1, <2>1, <2>3, <3>1, <3>2, <3>3 DEF Owned
  <2>5. \A k \in OpenAsks(asks') : k[1] <= gen'
    BY <1>1, <1>2, <2>1, <2>2, <2>3
  <2> QED BY <1>4, <2>4, <2>5
<1>9. ASSUME NEW r \in Reqs, HarnessWithdraws(r) PROVE ParkInv'
  <2>1. /\ adapter # "unknown" /\ parked[r] = gen /\ parked' = [parked EXCEPT ![r] = 0]
        /\ pending' = IF consumer THEN pending ELSE pending \cup {r}
        /\ asks' = IF consumer THEN Withdraw(asks, {r}) ELSE asks
        /\ UNCHANGED <<gen, heard, consumer>>
    BY <1>9 DEF HarnessWithdraws, callVars
  <2>2. OpenAsks(asks') \subseteq OpenAsks(asks)
    BY <1>1, <2>1, WithdrawMoves
  <2>3. ASSUME NEW k \in OpenAsks(asks') PROVE Answerable(k)' \/ Slated(k)'
    <3>1. k \in OpenAsks(asks)
      BY <2>2
    <3>2. CASE parked[k[2]] = k[1] /\ k[2] = r
      <4>1. \A j \in OpenAsks(asks) : j[2] = k[2] => j[1] <= k[1]
        BY <1>7, <3>1, <3>2
      <4>2. CASE consumer
        <5>1. asks' = Withdraw(asks, {r}) /\ k[2] \in {r}
          BY <2>1, <3>2, <4>2
        <5>2. k \notin OpenAsks(Withdraw(asks, {r}))
          BY <3>1, <4>1, <5>1, NewestIsWithdrawn
        <5> QED BY <5>1, <5>2
      <4>3. CASE ~consumer
        BY <2>1, <2>2, <3>2, <4>1, <4>3 DEF Slated
      <4> QED BY <4>2, <4>3
    <3>3. CASE parked[k[2]] = k[1] /\ k[2] # r
      <4>1. k[2] \in Reqs /\ parked \in [Reqs -> Gens \cup {0}]
        BY <1>1, <1>2, <3>1 DEF TypeOK
      <4>2. parked'[k[2]] = k[1]
        BY <2>1, <3>3, <4>1
      <4> QED BY <4>2 DEF Answerable
    <3>4. CASE Answerable(k) /\ parked[k[2]] # k[1]
      BY <2>1, <3>4 DEF Answerable
    <3>5. CASE Slated(k)
      BY <2>1, <2>2, <3>5 DEF Slated
    <3> QED BY <1>1, <2>1, <3>1, <3>2, <3>3, <3>4, <3>5 DEF Owned
  <2> QED BY <1>5, <2>2, <2>3 DEF Owned
<1>10. CASE Stop
  <2>1. IsOpen
    BY <1>10 DEF Stop
  <2>2. asks' = CloseOpen(asks)
    BY <1>10, <2>1 DEF Stop, EndsAs
  <2>3. OpenAsks(asks') = {}
    BY <1>1, <2>2, CloseOpenMoves
  <2> QED BY <1>5, <2>3 DEF Owned
<1>11. CASE Resume
  <2>1. /\ adapter # "unknown" /\ parked' = [r \in Reqs |-> 0] /\ gen' = gen + 1
        /\ pending' = IF consumer THEN pending ELSE pending \cup ReplacedRequests
        /\ asks' = ReopenedAsks(IF consumer THEN Withdraw(asks, ReplacedRequests) ELSE asks)
        /\ UNCHANGED heard
    BY <1>11 DEF Resume
  <2>2. ASSUME NEW A, Sane(A) PROVE OpenAsks(ReopenedAsks(A)) = OpenAsks(A)
    BY <2>2, UnscheduleMoves DEF ReopenedAsks
  <2>3. OpenAsks(asks') = IF consumer THEN OpenAsks(Withdraw(asks, ReplacedRequests)) ELSE OpenAsks(asks)
    BY <1>1, <2>1, <2>2, WithdrawMoves DEF Moves
  <2>4. OpenAsks(asks') \subseteq OpenAsks(asks)
    BY <1>1, <2>3, WithdrawMoves
  <2>5. ASSUME NEW k \in OpenAsks(asks') PROVE Answerable(k)' \/ Slated(k)'
    <3>1. k \in OpenAsks(asks)
      BY <2>4
    <3>2. CASE parked[k[2]] = k[1]
      <4>1. \A j \in OpenAsks(asks) : j[2] = k[2] => j[1] <= k[1]
        BY <1>7, <3>1, <3>2
      <4>2. k[2] \in ReplacedRequests
        BY <1>2, <3>1, <3>2 DEF ReplacedRequests, Gens
      <4>3. CASE consumer
        BY <2>3, <3>1, <4>1, <4>2, <4>3, NewestIsWithdrawn
      <4>4. CASE ~consumer
        BY <2>1, <2>4, <4>1, <4>2, <4>4 DEF Slated
      <4> QED BY <4>3, <4>4
    <3>3. CASE Answerable(k) /\ parked[k[2]] # k[1]
      BY <2>1, <3>3 DEF Answerable
    <3>4. CASE Slated(k)
      BY <2>1, <2>4, <3>4 DEF Slated
    <3> QED BY <1>1, <2>1, <3>1, <3>2, <3>3, <3>4 DEF Owned
  <2> QED BY <1>5, <2>4, <2>5 DEF Owned
<1>12. ASSUME NEW ok \in BOOLEAN, ResumeDone(ok) PROVE ParkInv'
  <2> DEFINE A == Withdraw(asks, pending)
  <2>1. /\ launch = "resume" /\ adapter # "unknown" /\ UNCHANGED <<gen, parked, heard>>
        /\ asks' = Drained \/ asks' = Schedule(Drained) \/ asks' = CloseOpen(Drained)
    BY <1>1, <1>12 DEF ResumeDone, HarnessInv
  <2>2. OpenAsks(asks') \subseteq OpenAsks(Drained)
    <3>1. Sane(Drained)
      BY <1>1, DrainedMoves DEF Moves
    <3> QED BY <2>1, <3>1, ScheduleMoves, CloseOpenMoves
  <2>3. ASSUME NEW k \in OpenAsks(Drained)
        PROVE  k \in OpenAsks(A) \/ parked[k[2]] = k[1]
    BY DEF Drained, OpenAsks
  <2>4. OpenAsks(A) \subseteq OpenAsks(asks)
    BY <1>1, WithdrawMoves
  <2>5. ASSUME NEW k \in OpenAsks(A) PROVE Answerable(k)
    <3>1. k \in OpenAsks(asks)
      BY <2>4
    <3>2. ~Slated(k)
      BY <3>1, NewestIsWithdrawn DEF Slated
    <3> QED BY <1>1, <2>1, <3>1, <3>2 DEF Owned
  <2>6. ASSUME NEW k \in OpenAsks(asks') PROVE Answerable(k)' /\ k[1] <= gen'
    <3>1. k \in OpenAsks(A) \/ parked[k[2]] = k[1]
      BY <2>2, <2>3
    <3>2. Answerable(k)
      BY <2>5, <3>1 DEF Answerable
    <3>3. k[1] <= gen
      <4>1. CASE k \in OpenAsks(A)
        BY <1>1, <2>4, <4>1
      <4>2. CASE parked[k[2]] = k[1]
        <5>1. k[1] \in Gens /\ k[2] \in Reqs /\ ~(0 \in Gens)
          BY <1>2 DEF Gens
        <5>2. k[1] = gen
          BY <1>1, <4>2, <5>1 DEF ParkedByNewest
        <5> QED BY <1>2, <5>2
      <4> QED BY <3>1, <4>1, <4>2
    <3> QED BY <2>1, <3>2, <3>3 DEF Answerable
  <2> QED BY <1>4, <2>6 DEF Owned
<1>13. ASSUME NEW w \in writing, DeliverOk(w) PROVE ParkInv'
  <2>1. /\ w.key \in Keys /\ w.key[2] \in Reqs /\ w.to = w.key[1] /\ w.to \in Gens /\ w.to \in Nat
        /\ asks[w.key].st \in Decisions
    BY <1>1 DEF TypeOK, WritesAreDecided, Keys, Gens
  <2>2. /\ Alive(w.to) /\ heard' = heard \cup {Written(w)} /\ Written(w).key = w.key
        /\ parked' = [parked EXCEPT ![w.key[2]] = 0] /\ UNCHANGED <<gen, adapter, pending>>
    BY <1>13 DEF DeliverOk, Written
  <2>3. OpenAsks(asks') \subseteq OpenAsks(asks)
    <3>1. asks' = [asks EXCEPT ![w.key] = Noted(asks[w.key], "yes", Redacted(w))]
      BY <1>13 DEF DeliverOk
    <3>2. asks \in [Keys -> Ask]
      BY <1>1 DEF TypeOK
    <3>3. \A j \in Keys : asks'[j].st = asks[j].st
      BY <2>1, <3>1, <3>2 DEF Noted
    <3> QED BY <3>3 DEF OpenAsks
  <2>4. ASSUME NEW k \in OpenAsks(asks'), adapter' # "unknown"
        PROVE  Answerable(k)' \/ Slated(k)'
    <3>1. k \in OpenAsks(asks)
      BY <2>3
    <3>2. CASE parked[k[2]] = k[1] /\ k[2] = w.key[2]
      <4>1. k[1] = gen
        BY <1>7, <3>1, <3>2
      <4>2. k # w.key
        BY <2>1, <3>1, StatesDiffer DEF OpenAsks
      <4>3. w.key[1] # k[1]
        BY <1>2, <2>1, <3>1, <3>2, <4>2 DEF Keys
      <4>4. w.key[1] < k[1]
        BY <1>1, <1>2, <2>1, <2>2, <4>1, <4>3 DEF HarnessInv
      <4> QED BY <2>2, <3>2, <4>4 DEF Answerable
    <3>3. CASE parked[k[2]] = k[1] /\ k[2] # w.key[2]
      <4>1. k[2] \in Reqs /\ parked \in [Reqs -> Gens \cup {0}]
        BY <1>1, <1>2, <3>1 DEF TypeOK
      <4>2. parked'[k[2]] = k[1]
        BY <2>2, <3>3, <4>1
      <4> QED BY <4>2 DEF Answerable
    <3>4. CASE Answerable(k) /\ parked[k[2]] # k[1]
      BY <2>2, <3>4 DEF Answerable
    <3>5. CASE Slated(k)
      BY <2>2, <2>3, <3>5 DEF Slated
    <3>6. Answerable(k) \/ Slated(k)
      BY <1>1, <2>4, <3>1 DEF Owned
    <3> QED BY <3>2, <3>3, <3>4, <3>5, <3>6
  <2> QED BY <1>5, <2>3, <2>4 DEF Owned
<1>14. ASSUME Crash \/ CrashInReap \/ Shutdown PROVE ParkInv'
  <2>1. adapter' = "unknown"
    BY <1>14 DEF Crash, CrashInReap, Shutdown, Forgotten
  <2>2. ~(\E r \in Reqs : Park(r)) /\ ~(\E ok \in BOOLEAN : ResumeDone(ok))
    BY <1>1, <1>14, <2>1 DEF Park, ResumeDone, HarnessInv, Crash, CrashInReap, Shutdown, Forgotten
  <2>3. OpenAsks(asks') \subseteq OpenAsks(asks)
    BY <2>2, OpensStep
  <2> QED BY <1>5, <2>1, <2>3
<1>15. ASSUME \/ \E g \in Gens : Exit(g)
              \/ TurnErrors \/ TurnAborts \/ SendInput \/ ResumeLive \/ LaunchRejected
              \/ \E ok \in BOOLEAN : StartDone(ok)
              \/ \E k \in Keys : Retry(k) \/ \E d \in Decisions : AnswerAsk(k, d)
              \/ \E w \in writing : DeliverFails(w)
              \/ ReapBegins \/ ReapRefused \/ ReapVerified \/ ReapKilled \/ ReapSurvived
              \/ SweepAsks \/ Boot \/ UNCHANGED vars
       PROVE  ParkInv'
  <2>1. UNCHANGED <<parked, pending, heard>>
    BY <1>15 DEF Exit, TurnErrors, TurnAborts, SendInput, ResumeLive, LaunchRejected, StartDone,
                 Retry, AnswerAsk, DeliverFails, ReapBegins, ReapRefused, ReapVerified, ReapKilled,
                 ReapSurvived, SweepAsks, Boot, NothingElse, harnessVars, callVars, vars
  <2>2. CASE OpenAsks(asks') \subseteq OpenAsks(asks)
    BY <1>6, <2>1, <2>2
  <2> QED BY <1>8, <1>12, <2>2, OpensStep
<1> QED
  BY <1>8, <1>9, <1>10, <1>11, <1>12, <1>13, <1>14, <1>15 DEF Next, Harness, Operator, Continues

(* Unless an ended run is stopped again, an open ask of a consumed run is one *)
(* its worker is parked on: a decision reaches somebody.  Stopping a run that *)
(* had ended unparks its requests and leaves their asks to a grace period;   *)
(* resumed within it, the run is consumed again and the asks are orphans.    *)
THEOREM AnswersReachSomebody ==
    ASSUME "stop-ended" \notin Enabled
    PROVE  Spec => []OpenMeansParked
<1>1. Init => ParkInv
  <2>1. Init => OpenAsks(asks) = {}
    BY DEF Init, OpenAsks, NoAsk
  <2>2. Init => HarnessInv
    BY DEF Init, HarnessInv, Alive
  <2> QED BY <2>1, <2>2 DEF ParkInv, Owned
<1>2. IInv /\ ParkInv /\ [Next]_vars => ParkInv'
  BY OwnedStep
<1>3. ParkInv => OpenMeansParked
  BY DEF ParkInv, HarnessInv, Owned, Answerable, Slated, OpenMeansParked
<1> QED
  BY <1>1, <1>2, <1>3, Invariance, PTL DEF Spec
-----------------------------------------------------------------------------
(* The run implements AskBook.  What an operation on the table does to the  *)
(* book: asks are raised or given up, and no mark is set or taken back.     *)
Turns(A, B) ==
    \A k \in Keys : /\ Book!Passes(A[k].st, B[k].st)
                    /\ B[k].sent = "yes" <=> A[k].sent = "yes"

LEMMA TurnsTrans ==
    ASSUME NEW A, NEW B, NEW C, Turns(A, B), Turns(B, C)
    PROVE  Turns(A, C)
BY DEF Turns, Book!Passes, Book!GivenUp

LEMMA TurnsNowhere == \A A : Turns(A, A)
BY DEF Turns, Book!Passes

LEMMA TableTurns ==
    ASSUME NEW A, Sane(A)
    PROVE  /\ Turns(A, CloseOpen(A)) /\ Turns(A, Schedule(A)) /\ Turns(A, Unschedule(A))
           /\ \A R : Turns(A, Withdraw(A, R))
           /\ \A S \in SUBSET Due(A) : Turns(A, Closed(A, S))
<1> USE DEF Turns, Book!Passes, Book!GivenUp
<1>1. \A k \in Keys : A[k] \in Ask
  BY DEF Sane
<1>2. Turns(A, CloseOpen(A))
  BY <1>1 DEF CloseOpen, Ask
<1>3. Turns(A, Schedule(A)) /\ Turns(A, Unschedule(A))
  BY <1>1 DEF Schedule, Unschedule, Ask
<1>4. ASSUME NEW R PROVE Turns(A, Withdraw(A, R))
  BY <1>1 DEF Withdraw, Ask
<1>5. ASSUME NEW S \in SUBSET Due(A) PROVE Turns(A, Closed(A, S))
  BY <1>1 DEF Closed, Due, OpenAsks, Ask
<1> QED BY <1>2, <1>3, <1>4, <1>5

LEMMA CreateTurns ==
    ASSUME NEW A, Sane(A), NEW k \in Keys, NEW ended \in BOOLEAN
    PROVE  Turns(A, Create(A, k, ended))
<1>1. NewAsk(ended).st = "open" /\ NewAsk(ended).sent = "no"
  BY DEF NewAsk
<1>2. A[k].st = "none" => A[k].sent # "yes"
  BY StatesDiffer DEF Sane
<1> QED BY <1>1, <1>2 DEF Sane, Create, Turns, Book!Passes, Book!GivenUp

LEMMA DrainedTurns ==
    ASSUME Sane(asks)
    PROVE  Turns(asks, Drained)
<1> DEFINE A == Withdraw(asks, pending)
<1>1. Turns(asks, A) /\ Sane(A)
  BY TableTurns, WithdrawMoves DEF Moves
<1>2. NewAsk(~IsOpen).st = "open" /\ NewAsk(~IsOpen).sent = "no"
  BY DEF NewAsk
<1>3. \A k \in Keys : Drained[k] = A[k] \/ (A[k].st = "none" /\ Drained[k] = NewAsk(~IsOpen))
  BY DEF Drained
<1>4. \A k \in Keys : A[k].st = "none" => A[k].sent # "yes"
  BY <1>1, StatesDiffer DEF Sane
<1>5. Turns(A, Drained)
  BY <1>2, <1>3, <1>4 DEF Turns, Book!Passes, Book!GivenUp
<1> QED BY <1>1, <1>5, TurnsTrans

LEMMA EndsTurns ==
    ASSUME Sane(asks), NEW reason, EndsAs(asks, reason)
    PROVE  Turns(asks, asks')
BY TableTurns, TurnsNowhere DEF EndsAs

LEMMA SendTurns ==
    ASSUME NEW A, Sane(A), NEW k \in Keys, NEW by, Send(A, k, by)
    PROVE  Turns(A, asks')
<1> DEFINE refused == adapter # "unknown" /\ ~Deliverable(k)
           done == by = "answer" /\ (refused \/ adapter = "unknown" \/ ~Alive(gen))
           sent == IF refused /\ A[k].sent # "yes" THEN "abandoned" ELSE A[k].sent
           new == Noted(A[k], sent, A[k].redacted \/ done)
<1>1. asks' = [A EXCEPT ![k] = new]
  BY DEF Send
<1>2. new.st = A[k].st /\ (new.sent = "yes" <=> A[k].sent = "yes")
  BY DEF Noted
<1> HIDE DEF new
<1> QED BY <1>1, <1>2 DEF Sane, Turns, Book!Passes

(* Only a human decides, and only a delivery marks.                         *)
LEMMA AsksTurn ==
    ASSUME IInv, [Next]_vars
    PROVE  \/ Turns(asks, asks')
           \/ \E k \in Keys, d \in Decisions : AnswerAsk(k, d)
           \/ \E w \in writing : DeliverOk(w)
<1>1. TypeOK /\ WritesAreDecided /\ Sane(asks)
  BY SaneFromType DEF IInv
<1>2. ASSUME NEW r \in Reqs, Park(r) \/ HarnessWithdraws(r) PROVE Turns(asks, asks')
  <2>1. <<gen, r>> \in Keys /\ (~IsOpen) \in BOOLEAN
    BY <1>1, AskKeys DEF TypeOK, IsOpen
  <2> QED BY <1>1, <1>2, <2>1, CreateTurns, TableTurns, TurnsNowhere DEF Park, HarnessWithdraws
<1>3. ASSUME (\E g \in Gens : Exit(g)) \/ TurnErrors \/ Stop \/ Shutdown
      PROVE  Turns(asks, asks')
  BY <1>1, <1>3, EndsTurns, TurnsNowhere DEF Exit, TurnErrors, Stop, Shutdown, rowVars
<1>4. CASE Resume \/ ResumeLive
  <2> DEFINE A == IF consumer THEN Withdraw(asks, ReplacedRequests) ELSE asks
  <2>1. Turns(asks, A) /\ Sane(A)
    BY <1>1, TableTurns, TurnsNowhere, WithdrawMoves DEF Moves
  <2>2. Turns(A, ReopenedAsks(A)) /\ Turns(asks, ReopenedAsks(asks))
    BY <1>1, <2>1, TableTurns, TurnsNowhere DEF ReopenedAsks
  <2>3. asks' = ReopenedAsks(A) \/ asks' = ReopenedAsks(asks)
    BY <1>4 DEF Resume, ResumeLive
  <2> QED BY <2>1, <2>2, <2>3, TurnsTrans
<1>5. ASSUME NEW ok \in BOOLEAN, ResumeDone(ok) PROVE Turns(asks, asks')
  <2>1. Turns(asks, Drained) /\ Sane(Drained)
    BY <1>1, DrainedTurns, DrainedMoves DEF Moves
  <2>2. asks' = Drained \/ asks' = Schedule(Drained) \/ asks' = CloseOpen(Drained)
    BY <1>5 DEF ResumeDone
  <2> QED BY <2>1, <2>2, TableTurns, TurnsTrans
<1>6. ASSUME NEW k \in Keys, Retry(k) PROVE Turns(asks, asks')
  BY <1>1, <1>6, SendTurns DEF Retry
<1>7. ASSUME NEW w \in writing, DeliverFails(w) PROVE Turns(asks, asks')
  <2>1. asks' = [asks EXCEPT ![w.key].redacted = Redacted(w)] /\ \A k \in Keys : asks[k] \in Ask
    BY <1>1, <1>7 DEF DeliverFails, Sane
  <2>2. \A k \in Keys : asks'[k].st = asks[k].st /\ asks'[k].sent = asks[k].sent
    BY <1>1, <2>1 DEF Sane, Ask
  <2> QED BY <2>2 DEF Turns, Book!Passes
<1>8. CASE ReapBegins \/ ReapRefused \/ ReapKilled
  BY <1>1, <1>8, TableTurns, TurnsNowhere DEF ReapBegins, ReapRefused, ReapKilled, BookLost, rowVars
<1>9. CASE SweepAsks
  BY <1>1, <1>9, TableTurns DEF SweepAsks
<1>10. CASE Boot
  <2> DEFINE A == IF IsOpen THEN CloseOpen(asks) ELSE asks
  <2>1. Turns(asks, A) /\ Sane(A)
    BY <1>1, TableTurns, TurnsNowhere, CloseOpenMoves DEF Moves
  <2>2. PICK S \in SUBSET Due(A) : asks' = Closed(A, S)
    BY <1>10 DEF Boot
  <2> QED BY <2>1, <2>2, TableTurns, TurnsTrans
<1>11. CASE UNCHANGED asks
  BY <1>11, TurnsNowhere
<1> QED
  BY <1>2, <1>3, <1>4, <1>5, <1>6, <1>7, <1>8, <1>9, <1>10, <1>11
     DEF Next, Harness, Operator, Continues, TurnAborts, SendInput, StartDone, LaunchRejected,
         ReapVerified, ReapSurvived, Crash, CrashInReap, rowVars, vars

(* The task, up or down, is blocked by open asks only.                      *)
AlwaysAsked == task = "blocked" => OpenAsks(asks) # {}

LEMMA OpenInBook == \A A : Book!Open([k \in Keys |-> A[k].st]) = OpenAsks(A)
BY DEF Book!Open, OpenAsks

LEMMA SameOpen ==
    ASSUME NEW A, NEW B, \A k \in Keys : B[k].st = A[k].st
    PROVE  OpenAsks(B) = OpenAsks(A)
BY DEF OpenAsks

LEMMA Reconsiders ==
    ASSUME IInv, AlwaysAsked, [Next]_vars
    PROVE  Book!Reconsidered /\ AlwaysAsked'
<1>1. TypeOK /\ WritesAreDecided /\ Sane(asks) /\ task \in {"implementing", "blocked"}
  BY SaneFromType DEF IInv, TypeOK
<1> DEFINE Before == OpenAsks(asks)
           After == OpenAsks(asks')
           Blocks == (task' = "blocked") <=> (After \ Before # {} \/ (task = "blocked" /\ After # {}))
<1>2. ASSUME Blocks PROVE Book!Reconsidered /\ AlwaysAsked'
  <2>1. Book!Open([k \in Keys |-> asks[k].st]) = Before
        /\ Book!Open([k \in Keys |-> asks'[k].st]) = After
    BY OpenInBook
  <2>2. Book!Reconsidered
    BY <1>2, <2>1 DEF Book!Reconsidered
  <2> QED BY <1>2, <2>2 DEF AlwaysAsked
<1>3. ASSUME task' = BlockedBy(asks') PROVE Blocks
  BY <1>1, <1>3 DEF BlockedBy, Unblocked
<1>4. ASSUME task' = Unblocked(asks'), After \subseteq Before PROVE Blocks
  BY <1>1, <1>4 DEF Unblocked
<1>5. ASSUME task' = task, After = Before PROVE Blocks
  BY <1>5 DEF AlwaysAsked
<1> HIDE DEF Blocks
<1>6. ASSUME (\E r \in Reqs : Park(r) \/ HarnessWithdraws(r)) \/ Resume
             \/ \E ok \in BOOLEAN : ResumeDone(ok)
      PROVE  Blocks
  BY <1>3, <1>6 DEF Park, HarnessWithdraws, Resume, ResumeDone
<1>7. ASSUME (\E g \in Gens : Exit(g)) \/ TurnErrors \/ Stop \/ Shutdown PROVE Blocks
  BY <1>3, <1>5, <1>7 DEF Exit, TurnErrors, Stop, Shutdown, EndsAs, rowVars
<1>8. ASSUME (\E k \in Keys, d \in Decisions : AnswerAsk(k, d)) \/ SweepAsks \/ Boot
             \/ ReapBegins \/ ReapRefused \/ ReapKilled
      PROVE  Blocks
  <2>1. task' = Unblocked(asks') \/ UNCHANGED <<asks, task>>
    BY <1>8 DEF AnswerAsk, SweepAsks, Boot, ReapBegins, ReapRefused, ReapKilled, BookLost, rowVars
  <2>2. CASE UNCHANGED <<asks, task>>
    BY <1>5, <2>2
  <2>3. CASE task' = Unblocked(asks')
    <3>1. ASSUME NEW k \in Keys, NEW d \in Decisions, AnswerAsk(k, d) PROVE After \subseteq Before
      <4> DEFINE A == [asks EXCEPT ![k].st = d]
      <4>1. Sane(A) /\ A[k].st \in Decisions
        BY <1>1, <3>1, AnsweredIsSane DEF AnswerAsk
      <4>2. \A j \in Keys : A[j].st = "open" => asks[j].st = "open"
        BY <1>1, <4>1, StatesDiffer DEF Sane
      <4>3. Send(A, k, "answer")
        BY <3>1 DEF AnswerAsk
      <4> HIDE DEF A
      <4>4. \A j \in Keys : asks'[j].st = A[j].st
        BY <4>1, <4>3, SendMoves
      <4> QED BY <4>2, <4>4 DEF OpenAsks
    <3>2. ASSUME SweepAsks PROVE After \subseteq Before
      BY <1>1, <3>2, ClosedMoves DEF SweepAsks
    <3>3. ASSUME Boot PROVE After \subseteq Before
      <4> DEFINE A == IF IsOpen THEN CloseOpen(asks) ELSE asks
      <4>1. Sane(A) /\ OpenAsks(A) \subseteq Before
        BY <1>1, CloseOpenMoves DEF Moves
      <4>2. PICK S \in SUBSET Due(A) : asks' = Closed(A, S)
        BY <3>3 DEF Boot
      <4> QED BY <4>1, <4>2, ClosedMoves
    <3>4. ASSUME ReapBegins \/ ReapRefused \/ ReapKilled PROVE After \subseteq Before
      BY <1>1, <3>4, CloseOpenMoves, ScheduleMoves
         DEF ReapBegins, ReapRefused, ReapKilled, BookLost, rowVars
    <3> QED BY <1>4, <1>8, <2>3, <3>1, <3>2, <3>3, <3>4
  <2> QED BY <2>1, <2>2, <2>3
<1>9. ASSUME ResumeLive \/ (\E k \in Keys : Retry(k))
             \/ \E w \in writing : DeliverOk(w) \/ DeliverFails(w)
      PROVE  Blocks
  <2>1. task' = task
    BY <1>9 DEF ResumeLive, Retry, DeliverOk, DeliverFails
  <2>2. ASSUME ResumeLive PROVE After = Before
    BY <1>1, <2>2, UnscheduleMoves DEF ResumeLive, ReopenedAsks
  <2>3. ASSUME NEW k \in Keys, Retry(k) PROVE After = Before
    BY <1>1, <2>3, SendMoves, SameOpen DEF Retry, Queued, Decided
  <2>4. ASSUME NEW w \in writing, DeliverOk(w) \/ DeliverFails(w) PROVE After = Before
    <3>1. w.key \in Keys /\ \A k \in Keys : asks[k] \in Ask
      BY <1>1 DEF TypeOK, Sane
    <3>2. asks' = [asks EXCEPT ![w.key] = Noted(asks[w.key], "yes", Redacted(w))]
          \/ asks' = [asks EXCEPT ![w.key].redacted = Redacted(w)]
      BY <2>4 DEF DeliverOk, DeliverFails
    <3>3. \A k \in Keys : asks'[k].st = asks[k].st
      BY <1>1, <3>1, <3>2 DEF Noted, TypeOK, Ask
    <3> QED BY <3>3, SameOpen
  <2> QED BY <1>5, <1>9, <2>1, <2>2, <2>3, <2>4
<1>10. ASSUME UNCHANGED <<asks, task>> PROVE Blocks
  BY <1>5, <1>10
<1>11. Blocks
  BY <1>6, <1>7, <1>8, <1>9, <1>10
     DEF Next, Harness, Operator, Continues, TurnAborts, SendInput, StartDone, LaunchRejected,
         ReapVerified, ReapSurvived, Crash, CrashInReap, rowVars, vars
<1> QED BY <1>2, <1>11

(* What is read was a write under way, and so an answer of the book's.      *)
LEMMA BookStep ==
    ASSUME IInv, AlwaysAsked, [Next]_vars
    PROVE  Book!Next
<1> DEFINE book == [k \in Keys |-> asks[k].st]
           told == {<<<<h.to, h.key[2]>>, h.decision>> : h \in heard}
           marked == {k \in Keys : asks[k].sent = "yes"}
<1>1. TypeOK /\ WritesAreDecided /\ Sane(asks)
  BY SaneFromType DEF IInv
<1>2. Book!Reconsidered
  BY Reconsiders
<1>3. ASSUME NEW w \in writing
      PROVE  /\ w.key \in Keys /\ asks[w.key].st \in Decisions
             /\ <<<<Written(w).to, Written(w).key[2]>>, Written(w).decision>> = <<w.key, book[w.key]>>
  <2>1. w.key \in Keys /\ asks[w.key].st \in Decisions /\ w.to = w.key[1]
    BY <1>1 DEF TypeOK, WritesAreDecided
  <2>2. w.key = <<w.key[1], w.key[2]>>
    BY <2>1 DEF Keys
  <2> QED BY <2>1, <2>2 DEF Written
<1>4. ASSUME NEW W \in SUBSET writing, heard' = heard \cup {Written(w) : w \in W}
      PROVE  told' = told \cup Book!Answers({w.key : w \in W})
  <2>1. told' = told \cup {<<<<Written(w).to, Written(w).key[2]>>, Written(w).decision>> : w \in W}
    BY <1>4
  <2>2. Book!Answers({w.key : w \in W}) = {<<w.key, book[w.key]>> : w \in W}
    BY <1>3 DEF Book!Answers
  <2> QED BY <1>3, <2>1, <2>2
<1>5. ASSUME Turns(asks, asks'), heard' = heard PROVE Book!Change
  <2>1. marked' = marked
    BY <1>5 DEF Turns
  <2>2. \A k \in Keys : Book!Passes(book[k], book'[k])
    BY <1>5 DEF Turns
  <2> QED BY <1>2, <1>5, <2>1, <2>2 DEF Book!Change
<1>6. ASSUME NEW k \in Keys, NEW d \in Decisions, AnswerAsk(k, d) PROVE Book!Decide(k, d)
  <2> DEFINE A == [asks EXCEPT ![k].st = d]
  <2>1. Sane(A) /\ A[k].st \in Decisions /\ asks[k].st = "open" /\ Send(A, k, "answer")
        /\ heard' = heard
    BY <1>1, <1>6, AnsweredIsSane DEF AnswerAsk
  <2>2. \A j \in Keys : A[j].st = (IF j = k THEN d ELSE asks[j].st) /\ A[j].sent = asks[j].sent
    BY <1>1 DEF Sane, Ask
  <2> HIDE DEF A
  <2>3. \A j \in Keys : asks'[j].st = A[j].st /\ (asks'[j].sent = "yes" <=> A[j].sent = "yes")
    BY <2>1, SendMoves, SendTurns DEF Turns
  <2>4. marked' = marked
    BY <2>2, <2>3
  <2>5. book' = [book EXCEPT ![k] = d]
    BY <2>2, <2>3
  <2> QED BY <1>2, <2>1, <2>4, <2>5 DEF Book!Decide
<1>7. ASSUME NEW w \in writing, DeliverOk(w) PROVE Book!Deliver(w.key)
  <2>1. /\ asks' = [asks EXCEPT ![w.key] = Noted(asks[w.key], "yes", Redacted(w))]
        /\ heard' = heard \cup {Written(w)} /\ task' = task
    BY <1>7 DEF DeliverOk
  <2>2. w.key \in Keys /\ asks[w.key].st \in Decisions
    BY <1>3
  <2>3. \A j \in Keys : asks'[j].st = asks[j].st
                        /\ (asks'[j].sent = "yes" <=> asks[j].sent = "yes" \/ j = w.key)
    BY <1>1, <2>1, <2>2 DEF Noted, Sane, Ask
  <2>4. book' = book /\ marked' = marked \cup {w.key}
    BY <2>2, <2>3
  <2>5. told' = told \cup Book!Answers({w.key})
    <3>1. {Written(v) : v \in {w}} = {Written(w)} /\ {v.key : v \in {w}} = {w.key} /\ {w} \in SUBSET writing
      OBVIOUS
    <3> QED BY <1>4, <2>1, <3>1
  <2> QED BY <2>1, <2>2, <2>4, <2>5 DEF Book!Deliver
<1>8. CASE Crash
  <2>1. PICK W \in SUBSET writing : heard' = heard \cup {Written(w) : w \in W}
    BY <1>8 DEF Crash
  <2>2. book' = book /\ marked' = marked /\ task' = task
    BY <1>8 DEF Crash, rowVars
  <2>3. {w.key : w \in W} \in SUBSET Keys /\ \A k \in {w.key : w \in W} : book[k] \in Decisions
    BY <1>3
  <2>4. Book!Slip({w.key : w \in W})
    BY <1>4, <2>1, <2>2, <2>3 DEF Book!Slip
  <2> QED BY <2>3, <2>4 DEF Book!Next
<1>9. heard' = heard \/ Crash \/ \E w \in writing : DeliverOk(w)
  BY DEF Next, Harness, Operator, Continues, Park, HarnessWithdraws, Exit, TurnErrors, TurnAborts,
         SendInput, Stop, Resume, ResumeLive, StartDone, ResumeDone, LaunchRejected, AnswerAsk,
         Retry, DeliverFails, ReapBegins, ReapRefused, ReapVerified, ReapKilled, ReapSurvived,
         SweepAsks, CrashInReap, Shutdown, Boot, NothingElse, callVars, vars
<1> QED
  BY <1>3, <1>5, <1>6, <1>7, <1>8, <1>9, AsksTurn DEF Book!Next

(* Through resumes, reaps, crashes and restarts, the run does what a book of *)
(* asks would: one decision per ask, told to its asker, marked when told.    *)
THEOREM RunKeepsTheBook == Spec => ImplementsAskBook
<1>1. Init => Book!Init /\ AlwaysAsked
  BY DEF Init, Book!Init, AlwaysAsked, NoAsk
<1>2. IInv /\ AlwaysAsked /\ [Next]_vars => AlwaysAsked' /\ [Book!Next]_(Book!vars)
  BY Reconsiders, BookStep
<1> QED
  BY <1>1, <1>2, Invariance, PTL DEF Spec, ImplementsAskBook, Book!Spec
=============================================================================
