------------------------- MODULE SharedServer_proofs -------------------------
(***************************************************************************)
(* Proofs about SharedServer, for any runs and any bounds, whether or not  *)
(* operators are patient.                                                  *)
(***************************************************************************)
EXTENDS SharedServer, TLAPS

Fields == {"held", "turn", "turns", "wire", "ended", "cancelled", "unread", "logged"}
CallFields == {"at", "was", "with"}

Form ==
    /\ DOMAIN proc = Servers /\ pool \in Servers \cup {0}
    /\ DOMAIN pc = Runs /\ DOMAIN on = Runs /\ DOMAIN run = Runs
    /\ DOMAIN consumer = Runs /\ DOMAIN row = Runs /\ DOMAIN call = Runs
    /\ \A r \in Runs : /\ on[r] \in Servers \cup {0}
                      /\ DOMAIN run[r] = Fields /\ DOMAIN call[r] = CallFields

-----------------------------------------------------------------------------
(* Nobody who is followed is killed with a sibling *)

(* A run that has a session has it on a server that came up.                *)
Placed(r) ==
    /\ pc[r] \in {"describing", "up"} => on[r] \in Servers /\ proc[on[r]] \in {"serving", "dead"}
    /\ row[r] \in Rows /\ (row[r] # "none" <=> pc[r] = "up")
    /\ consumer[r] => pc[r] = "up"
    /\ pc[r] = "describing" => Held(r) /\ run[r].turn = "none" /\ (Serves(r) => run[r] = NewRun)
    /\ run[r].turn # "none" => Held(r)

(* While the server lives, a run that is followed has an open row and a    *)
(* handle.  Where operators are patient, a run at work is followed, and no *)
(* earlier end and no cancellation is about to end its stream.             *)
WorkIsBooked(r) ==
    pc[r] = "up" /\ Serves(r) =>
        /\ consumer[r] => Open(r) /\ Held(r)
        /\ Patient => /\ run[r].turn # "none" => /\ consumer[r] /\ ~run[r].unread
                                                 /\ run[r].wire = <<>>
                      /\ ~run[r].cancelled

(* Whoever is booked when a group is killed runs on that group's server.    *)
KillsKnowTheirGroup(r) ==
    /\ call[r].at # "idle" \/ call[r].with # {} => pc[r] = "up"
    /\ \A q \in call[r].with : q \in Runs /\ pc[q] = "up" /\ on[q] = on[r]

GroupInv == Form /\ \A r \in Runs : Placed(r) /\ WorkIsBooked(r) /\ KillsKnowTheirGroup(r)

LEMMA FormInit == Init => Form
BY DEF Init, Form, Fields, CallFields, NoRun, NoCall

(* The end of a turn and what of a handle it leaves alone.                  *)
LEMMA TurnIsOver ==
    ASSUME NEW R, DOMAIN R = Fields, NEW E \in {Ended(R), EndedTwice(R)}
    PROVE  /\ DOMAIN E = Fields /\ E.turn = "none"
           /\ E.held = R.held /\ E.cancelled = R.cancelled /\ E.turns = R.turns
           /\ E.logged = R.logged /\ E.ended = R.ended
BY DEF Fields, Ended, EndedTwice

(* Every step, and only by looking at what it assigns.                      *)
LEMMA FormStep == Form /\ [Next]_vars => Form'
<1> SUFFICES ASSUME Form, [Next]_vars PROVE Form'
  OBVIOUS
<1> USE DEF Form, Fields, CallFields, serverVars, startVars, bookVars, NoRun, NoCall
<1>1. ASSUME ServerReady \/ ServerNotReady PROVE Form'
  BY <1>1 DEF ServerReady, ServerNotReady
<1>2. ASSUME NEW r \in Runs,
             GetServer(r) \/ CreateSession(r) \/ CreateSessionFails(r) \/ Launch(r)
      PROVE  Form'
  BY <1>2 DEF GetServer, CreateSession, CreateSessionFails, Launch, NewRun, Servers
<1>3. ASSUME NEW r \in Runs, PromptArrives(r) \/ PromptFails(r) PROVE Form'
  BY <1>3 DEF PromptArrives, PromptFails, Log
<1>4. ASSUME NEW r \in Runs, TurnEnds(r) \/ Interrupt(r) PROVE Form'
  <2>1. \/ run' = run
        \/ \E E \in {Ended(run[r]), EndedTwice(run[r])} : run' = [run EXCEPT ![r] = E]
    BY <1>4 DEF TurnEnds, Interrupt, Abort
  <2>2. UNCHANGED <<proc, pool, pc, on, consumer, row, call>>
    BY <1>4 DEF TurnEnds, Interrupt
  <2>3. \A E \in {Ended(run[r]), EndedTwice(run[r])} : DOMAIN E = Fields
    BY TurnIsOver
  <2> QED BY <2>1, <2>2, <2>3
<1>5. ASSUME NEW r \in Runs, Demux(r) \/ StreamEnds(r) PROVE Form'
  BY <1>5 DEF Demux, StreamEnds, Log
<1>6. ASSUME NEW r \in Runs, SendInput(r) \/ Resume(r) PROVE Form'
  BY <1>6 DEF SendInput, Resume, NewTurn
<1>7. ASSUME NEW r \in Runs, StopBegins(r) \/ StopDone(r) PROVE Form'
  BY <1>7 DEF StopBegins, StopDone, AtCall, CallEnds, Abort, EndedTwice
<1>8. ASSUME NEW r \in Runs, ReapBegins(r) \/ ReapFindsNobody(r) \/ ReapKills(r) PROVE Form'
  BY <1>8 DEF ReapBegins, ReapFindsNobody, ReapKills, CallEnds
<1>9. ASSUME NEW r \in Runs, ReapSpares(r) \/ GroupSurvives(r) PROVE Form'
  BY <1>9 DEF ReapSpares, GroupSurvives, AtCall, CallEnds, Abort, EndedTwice
<1>10. ASSUME NEW r \in Runs, GroupKilled(r) PROVE Form'
  <2>1. /\ \A q \in Runs : DOMAIN run'[q] = Fields
        /\ DOMAIN run' = Runs /\ DOMAIN proc' = Servers
    <3>1. CASE Serves(r)
      <4> DEFINE R == [run EXCEPT ![r].cancelled = @ \/ consumer[r]]
      <4>1. Down(on[r], R)
        BY <1>10, <3>1 DEF GroupKilled
      <4>2. \A q \in Runs : DOMAIN R[q] = Fields
        OBVIOUS
      <4> HIDE DEF R, Fields
      <4>3. PICK told \in BOOLEAN :
              run' = [q \in Runs |->
                        IF on[q] # on[r] \/ ~Held(q) THEN R[q]
                        ELSE [R[q] EXCEPT !.turn = IF @ = "running" THEN "none" ELSE @,
                                          !.wire = IF told THEN Append(@, R[q].turns) ELSE @]]
        BY <4>1 DEF Down
      <4>4. \A q \in Runs : DOMAIN run'[q] = DOMAIN R[q]
        BY <4>3
      <4>5. DOMAIN proc' = Servers
        BY <4>1 DEF Down
      <4> QED BY <4>2, <4>3, <4>4, <4>5
    <3>2. CASE ~Serves(r)
      BY <1>10, <3>2 DEF GroupKilled
    <3> QED BY <3>1, <3>2
  <2>2. /\ UNCHANGED <<pool, pc, on>>
        /\ DOMAIN row' = Runs /\ DOMAIN consumer' = Runs /\ DOMAIN call' = Runs
        /\ \A q \in Runs : DOMAIN call'[q] = CallFields
    BY <1>10 DEF GroupKilled, CallEnds
  <2> QED BY <2>1, <2>2
<1>11. ASSUME NEW s \in Servers, ServerDies(s) PROVE Form'
  BY <1>11 DEF ServerDies, Down
<1>12. ASSUME NEW kill \in BOOLEAN, Restart(kill) PROVE Form'
  BY <1>12 DEF Restart
<1>13. CASE UNCHANGED vars
  BY <1>13 DEF vars
<1> QED BY <1>1, <1>2, <1>3, <1>4, <1>5, <1>6, <1>7, <1>8, <1>9, <1>10, <1>11, <1>12, <1>13 DEF Next

(* What a step leaves of a run it is not about, and of all sessions: a       *)
(* server that came up comes up no second time, and a run stays where it is.*)
Same(q) == /\ pc'[q] = pc[q] /\ on'[q] = on[q] /\ run'[q] = run[q]
           /\ consumer'[q] = consumer[q] /\ row'[q] = row[q]
SessionsStay ==
    /\ \A p \in Runs : pc[p] = "up" => pc'[p] = "up" /\ on'[p] = on[p]
    /\ \A s \in Servers : proc[s] \in {"serving", "dead"} =>
                             proc'[s] = proc[s] \/ proc'[s] = "dead"

LEMMA NotInvolved ==
    ASSUME GroupInv, SessionsStay, NEW q \in Runs, Same(q)
    PROVE  Placed(q)' /\ WorkIsBooked(q)'
BY DEF GroupInv, SessionsStay, Same, Placed, WorkIsBooked, Serves, Held, Open

LEMMA CallsKept ==
    ASSUME GroupInv, SessionsStay,
           \A q \in Runs : /\ call'[q].with \subseteq call[q].with
                           /\ call'[q].at # "idle" => call[q].at # "idle" \/ row[q] # "none"
    PROVE  \A q \in Runs : KillsKnowTheirGroup(q)'
<1> SUFFICES ASSUME NEW r \in Runs PROVE KillsKnowTheirGroup(r)'
  OBVIOUS
<1> USE DEF GroupInv, KillsKnowTheirGroup, Placed, SessionsStay
<1>1. call'[r].at # "idle" \/ call'[r].with # {} => pc[r] = "up"
  OBVIOUS
<1>2. ASSUME NEW q \in call'[r].with PROVE q \in Runs /\ pc'[q] = "up" /\ on'[q] = on'[r]
  BY <1>1
<1> QED BY <1>1, <1>2

(* A step of r alone.                                                      *)
LEMMA OneRunSteps ==
    ASSUME GroupInv, Form', SessionsStay, NEW r \in Runs, \A q \in Runs \ {r} : Same(q),
           Placed(r)', WorkIsBooked(r)', \A q \in Runs : KillsKnowTheirGroup(q)'
    PROVE  GroupInv'
BY NotInvolved DEF GroupInv

LEMMA GroupInit == Init => GroupInv
BY FormInit DEF Init, GroupInv, Placed, WorkIsBooked, KillsKnowTheirGroup, NoRun, NoCall, Rows

LEMMA StartKeepsGroup ==
    ASSUME GroupInv, Form', NEW r \in Runs,
           GetServer(r) \/ CreateSession(r) \/ CreateSessionFails(r) \/ Launch(r)
    PROVE  GroupInv'
<1> Form BY DEF GroupInv
<1> Placed(r) /\ WorkIsBooked(r) BY DEF GroupInv
<1> USE DEF Form, serverVars, startVars, bookVars
<1>1. SessionsStay
  BY DEF SessionsStay, GetServer, CreateSession, CreateSessionFails, Launch
<1>2. \A q \in Runs \ {r} : Same(q)
  BY DEF Same, GetServer, CreateSession, CreateSessionFails, Launch
<1>3. \A q \in Runs : KillsKnowTheirGroup(q)'
  <2>1. call' = call
    BY DEF GetServer, CreateSession, CreateSessionFails, Launch
  <2> QED BY <1>1, <2>1, CallsKept
<1>4. CASE GetServer(r) \/ CreateSessionFails(r)
  <2>1. Placed(r)' /\ WorkIsBooked(r)'
    BY <1>4 DEF GetServer, CreateSessionFails, Placed, WorkIsBooked, Held
  <2> QED BY <1>1, <1>2, <1>3, <2>1, OneRunSteps
<1>5. CASE CreateSession(r)
  <2>1. on[r] \in Servers /\ proc[on[r]] = "serving"
    BY <1>5 DEF CreateSession, Serves
  <2>2. Placed(r)' /\ WorkIsBooked(r)'
    BY <1>5, <2>1 DEF CreateSession, Placed, WorkIsBooked, Held, NewRun, NoRun
  <2> QED BY <1>1, <1>2, <1>3, <2>2, OneRunSteps
<1>6. CASE Launch(r)
  <2>1. Placed(r)'
    BY <1>6 DEF Launch, Placed, Held, Fields, Rows
  <2>2. Serves(r)' => run[r] = NewRun
    BY <1>6 DEF Launch, Placed, Serves
  <2>3. WorkIsBooked(r)'
    BY <1>6, <2>2 DEF Launch, WorkIsBooked, NewRun, NoRun, Open
  <2> QED BY <1>1, <1>2, <1>3, <2>1, <2>3, OneRunSteps
<1> QED BY <1>4, <1>5, <1>6

(* A step of a run that is up which leaves its server, its place and every   *)
(* call alone, or ends or begins one.                                      *)
LEMMA UpRunSteps ==
    ASSUME GroupInv, Form', NEW r \in Runs, UNCHANGED <<serverVars, startVars>>,
           \A q \in Runs \ {r} : Same(q),
           \A q \in Runs : /\ call'[q].with \subseteq call[q].with
                           /\ call'[q].at # "idle" => call[q].at # "idle" \/ row[q] # "none",
           Placed(r)', WorkIsBooked(r)'
    PROVE  GroupInv'
<1>1. SessionsStay
  BY DEF SessionsStay, serverVars, startVars
<1> QED BY <1>1, CallsKept, OneRunSteps

LEMMA TurnKeepsGroup ==
    ASSUME GroupInv, Form', NEW r \in Runs,
           \/ PromptArrives(r) \/ PromptFails(r) \/ TurnEnds(r) \/ Interrupt(r) \/ Demux(r)
    PROVE  GroupInv'
<1> Form BY DEF GroupInv
<1> Placed(r) /\ WorkIsBooked(r) BY DEF GroupInv
<1> USE DEF Form, Fields, serverVars, startVars, bookVars
<1>1. /\ UNCHANGED <<serverVars, startVars, bookVars, call>>
      /\ \A q \in Runs \ {r} : run'[q] = run[q]
  BY DEF PromptArrives, PromptFails, TurnEnds, Interrupt, Abort, Demux
<1>2. /\ run'[r].held = run[r].held /\ run'[r].cancelled = run[r].cancelled
      /\ run'[r].turn # "none" =>
            /\ run[r].turn # "none"
            /\ run[r].wire = <<>> => (run'[r].wire = <<>> /\ run'[r].unread = run[r].unread)
  <2>1. CASE PromptArrives(r)
    BY <2>1 DEF PromptArrives
  <2>2. CASE PromptFails(r)
    BY <2>2 DEF PromptFails, Log
  <2>3. CASE TurnEnds(r)
    <3>1. PICK E \in {Ended(run[r]), EndedTwice(run[r])} : run' = [run EXCEPT ![r] = E]
      BY <2>3 DEF TurnEnds
    <3> HIDE DEF Fields
    <3> QED BY <3>1, TurnIsOver
  <2>4. CASE Interrupt(r)
    <3>1. run' = run \/ run' = [run EXCEPT ![r] = EndedTwice(run[r])]
      BY <2>4 DEF Interrupt, Abort
    <3> HIDE DEF Fields
    <3> QED BY <3>1, TurnIsOver
  <2>5. CASE Demux(r)
    <3>1. run[r].wire # <<>>
      BY <2>5 DEF Demux
    <3>2. /\ run'[r].held = run[r].held /\ run'[r].cancelled = run[r].cancelled
          /\ run'[r].turn = run[r].turn
      BY <2>5 DEF Demux, Log
    <3> QED BY <3>1, <3>2
  <2> QED BY <2>1, <2>2, <2>3, <2>4, <2>5
<1>4. Patient /\ pc[r] = "up" /\ Serves(r) /\ run'[r].turn # "none" =>
         ~run'[r].unread /\ run'[r].wire = <<>>
  BY <1>2 DEF WorkIsBooked
<1>5. pc[r] = "describing" /\ Serves(r) => run' = run
  <2>1. NewRun.turn = "none" /\ NewRun.wire = <<>>
    BY DEF NewRun, NoRun
  <2> QED BY <2>1 DEF PromptArrives, PromptFails, TurnEnds, Interrupt, Demux, Placed
<1>6. Placed(r)' /\ WorkIsBooked(r)'
  BY <1>1, <1>2, <1>4, <1>5 DEF Placed, WorkIsBooked, Held, Serves, Open
<1> QED BY <1>1, <1>6, UpRunSteps DEF Same

LEMMA StreamKeepsGroup ==
    ASSUME GroupInv, Form', NEW r \in Runs, StreamEnds(r) \/ SendInput(r) \/ Resume(r)
    PROVE  GroupInv'
<1> Form BY DEF GroupInv
<1> Placed(r) /\ WorkIsBooked(r) BY DEF GroupInv
<1> USE DEF Form, Fields, serverVars, startVars, bookVars
<1>1. /\ UNCHANGED <<serverVars, startVars, call>>
      /\ \A q \in Runs \ {r} : Same(q)
  BY DEF StreamEnds, SendInput, Resume, Same
<1>2. CASE StreamEnds(r)
  <2>1. Placed(r)'
    BY <1>1, <1>2 DEF StreamEnds, Placed, Held, Serves, Rows
  <2>2. WorkIsBooked(r)'
    BY <1>1, <1>2 DEF StreamEnds, WorkIsBooked, Held, Serves, Open
  <2> QED BY <1>1, <1>2, <2>1, <2>2, UpRunSteps
<1>3. CASE SendInput(r)
  <2>1. /\ run'[r].held /\ run[r].held /\ pc[r] = "up" /\ UNCHANGED <<consumer, row>>
        /\ run'[r].cancelled = run[r].cancelled
        /\ Patient => consumer[r] /\ ~run'[r].unread /\ run'[r].wire = <<>>
    BY <1>3 DEF SendInput, NewTurn, Quiet, Held
  <2>2. Placed(r)' /\ WorkIsBooked(r)'
    BY <1>1, <2>1 DEF Placed, WorkIsBooked, Held, Serves, Open
  <2> QED BY <1>1, <2>2, UpRunSteps
<1>4. CASE Resume(r)
  <2>1. Placed(r)'
    BY <1>1, <1>4 DEF Resume, Reopened, Placed, Held, Serves, Rows
  <2>2. WorkIsBooked(r)'
    <3>1. Open(r)'
      BY <1>4 DEF Resume, Reopened, Placed, Open, Rows
    <3>2. /\ consumer'[r] /\ Held(r) /\ (Patient => ~consumer[r])
          /\ run'[r] = [run[r] EXCEPT !.cancelled = @ \/ consumer[r]]
      BY <1>4 DEF Resume
    <3>3. Patient /\ Serves(r) /\ pc[r] = "up" => ~run[r].cancelled /\ run[r].turn = "none"
      BY <3>2 DEF WorkIsBooked
    <3>4. /\ Patient /\ Serves(r) /\ pc[r] = "up" => ~run'[r].cancelled /\ run'[r].turn = "none"
          /\ run'[r].held
      BY <3>2, <3>3 DEF Held
    <3> QED BY <1>1, <3>1, <3>4 DEF WorkIsBooked, Serves, Held
  <2> QED BY <1>1, <2>1, <2>2, UpRunSteps
<1> QED BY <1>2, <1>3, <1>4

(* An abort, asked for by a stop or by a reap.                              *)
LEMMA AbortKeepsGroup ==
    ASSUME GroupInv, Form', NEW r \in Runs, pc[r] = "up", Abort(r),
           UNCHANGED <<serverVars, startVars, bookVars>>,
           \A q \in Runs : /\ call'[q].with \subseteq call[q].with
                           /\ call'[q].at # "idle" => call[q].at # "idle" \/ row[q] # "none"
    PROVE  GroupInv'
<1> Form BY DEF GroupInv
<1> Placed(r) /\ WorkIsBooked(r) BY DEF GroupInv
<1> USE DEF Form, serverVars, startVars, bookVars
<1>1. \A q \in Runs \ {r} : Same(q)
  BY DEF Abort, Same
<1>2. CASE run' = run
  BY <1>1, <1>2, UpRunSteps DEF Placed, WorkIsBooked, Held, Serves, Open
<1>3. CASE run[r].turn = "running" /\ run' = [run EXCEPT ![r] = EndedTwice(run[r])]
  <2>1. run'[r].held /\ run'[r].turn = "none" /\ run'[r].cancelled = run[r].cancelled
    BY <1>3, TurnIsOver DEF Placed, Held
  <2>2. Placed(r)' /\ WorkIsBooked(r)'
    BY <2>1 DEF Placed, WorkIsBooked, Held, Serves, Open
  <2> QED BY <1>1, <2>2, UpRunSteps
<1> QED BY <1>2, <1>3 DEF Abort

LEMMA StopKeepsGroup ==
    ASSUME GroupInv, Form', NEW r \in Runs, StopBegins(r) \/ StopDone(r)
    PROVE  GroupInv'
<1> Form BY DEF GroupInv
<1> Placed(r) /\ WorkIsBooked(r) /\ KillsKnowTheirGroup(r) BY DEF GroupInv
<1> USE DEF Form, CallFields, serverVars, startVars, bookVars
<1>1. \A q \in Runs \ {r} : call'[q] = call[q]
  BY DEF StopBegins, StopDone, AtCall, CallEnds
<1>2. CASE StopBegins(r)
  <2>1. call'[r].with = {} /\ row[r] # "none" /\ Abort(r) /\ UNCHANGED <<proc, pool, pc, on, consumer, row>>
    BY <1>2 DEF StopBegins, AtCall, NoCall
  <2> QED BY <1>1, <2>1, AbortKeepsGroup DEF Placed
<1>3. CASE StopDone(r)
  <2>1. /\ call'[r].with = {} /\ call'[r].at = "idle" /\ pc[r] = "up"
        /\ UNCHANGED <<proc, pool, pc, on>>
        /\ \A q \in Runs \ {r} : Same(q)
    BY <1>3 DEF StopDone, CallEnds, NoCall, KillsKnowTheirGroup, Same
  <2>2. Placed(r)' /\ WorkIsBooked(r)'
    BY <1>3, <2>1 DEF StopDone, NoRun, Placed, WorkIsBooked, Held, Serves, Open, Rows
  <2> QED BY <1>1, <2>1, <2>2, UpRunSteps
<1> QED BY <1>2, <1>3

LEMMA ReapKeepsGroup ==
    ASSUME GroupInv, Form', NEW r \in Runs,
           ReapBegins(r) \/ ReapFindsNobody(r) \/ ReapKills(r) \/ ReapSpares(r) \/ GroupSurvives(r)
    PROVE  GroupInv'
<1> Form BY DEF GroupInv
<1> Placed(r) /\ WorkIsBooked(r) /\ KillsKnowTheirGroup(r) BY DEF GroupInv
<1> USE DEF Form, CallFields, serverVars, startVars, bookVars
<1>1. \A q \in Runs \ {r} : call'[q] = call[q]
  BY DEF ReapBegins, ReapFindsNobody, ReapKills, ReapSpares, GroupSurvives, AtCall, CallEnds
<1>2. CASE ReapBegins(r) \/ GroupSurvives(r)
  <2>1. /\ call'[r].with = {} /\ (call'[r].at # "idle" => row[r] # "none")
        /\ UNCHANGED <<proc, pool, pc, on, run, consumer, row>>
    BY <1>2 DEF ReapBegins, GroupSurvives, CallEnds, NoCall
  <2>2. Placed(r)' /\ WorkIsBooked(r)'
    BY <2>1 DEF Placed, WorkIsBooked, Held, Serves, Open
  <2> QED BY <1>1, <2>1, <2>2, UpRunSteps DEF Same
<1>3. CASE ReapFindsNobody(r)
  <2>1. /\ call'[r].with = {} /\ call'[r].at = "idle" /\ pc[r] = "up" /\ ~Serves(r)
        /\ row'[r] \in {row[r], "closed"} /\ UNCHANGED <<proc, pool, pc, on, run, consumer>>
        /\ \A q \in Runs \ {r} : Same(q)
    BY <1>3 DEF ReapFindsNobody, CallEnds, NoCall, KillsKnowTheirGroup, Same
  <2>2. Placed(r)' /\ WorkIsBooked(r)'
    BY <2>1 DEF Placed, WorkIsBooked, Held, Serves, Rows
  <2> QED BY <1>1, <2>1, <2>2, UpRunSteps
<1>4. CASE ReapKills(r)
  <2>1. /\ call'[r].with = Siblings(r) /\ pc[r] = "up"
        /\ UNCHANGED <<proc, pool, pc, on, run, consumer, row>>
    BY <1>4 DEF ReapKills, KillsKnowTheirGroup
  <2>2. SessionsStay
    BY <2>1 DEF SessionsStay
  <2>3. KillsKnowTheirGroup(r)'
    BY <2>1 DEF KillsKnowTheirGroup, Siblings, Open, GroupInv, Placed
  <2>4. ASSUME NEW q \in Runs \ {r} PROVE KillsKnowTheirGroup(q)'
    BY <1>1, <2>1 DEF KillsKnowTheirGroup, GroupInv
  <2>5. Placed(r)' /\ WorkIsBooked(r)'
    BY <2>1 DEF Placed, WorkIsBooked, Held, Serves, Open
  <2> QED BY <2>1, <2>2, <2>3, <2>4, <2>5, OneRunSteps DEF Same
<1>5. CASE ReapSpares(r)
  <2>1. call[r].at # "idle" /\ pc[r] = "up"
    BY <1>5 DEF ReapSpares, KillsKnowTheirGroup
  <2>2. call'[r].with = {} /\ Abort(r) /\ UNCHANGED <<proc, pool, pc, on, consumer, row>>
    BY <1>5 DEF ReapSpares, AtCall, CallEnds, NoCall, Abort
  <2> QED BY <1>1, <2>1, <2>2, AbortKeepsGroup
<1> QED BY <1>2, <1>3, <1>4, <1>5

(* A server goes, or turns out to be gone, and with it what its runs were    *)
(* doing.                                                                  *)
LEMMA WithoutServer ==
    ASSUME GroupInv, Form', NEW s \in Servers, UNCHANGED <<pool, startVars>>,
           proc'[s] # "serving", proc[s] \in {"serving", "dead"} => proc'[s] = "dead",
           \A t \in Servers \ {s} : proc'[t] = proc[t],
           \A q \in Runs :
              /\ on[q] # s => Same(q)
              /\ run'[q].held = run[q].held /\ run'[q].turn \in {run[q].turn, "none"}
              /\ row'[q] = row[q] \/ (pc[q] = "up" /\ row'[q] = "closed")
              /\ consumer'[q] => consumer[q]
              /\ call'[q].with \subseteq call[q].with
              /\ call'[q].at # "idle" => call[q].at # "idle"
    PROVE  GroupInv'
<1> USE DEF startVars
<1>1. SessionsStay
  BY DEF SessionsStay
<1>2. \A q \in Runs : KillsKnowTheirGroup(q)'
  BY <1>1, CallsKept
<1>3. ASSUME NEW q \in Runs PROVE Placed(q)' /\ WorkIsBooked(q)'
  <2>1. CASE on[q] # s
    BY <1>1, <2>1, NotInvolved
  <2>2. CASE on[q] = s
    <3>1. Placed(q)
      BY DEF GroupInv
    <3>2. ~Serves(q)'
      BY <2>2 DEF Serves
    <3>3. WorkIsBooked(q)'
      BY <3>2 DEF WorkIsBooked
    <3>4. Placed(q)'
      BY <2>2, <3>1, <3>2 DEF Placed, Held, Rows
    <3> QED BY <3>3, <3>4
  <2> QED BY <2>1, <2>2
<1> QED BY <1>2, <1>3 DEF GroupInv

(* What becomes of the handles when a server goes.                         *)
LEMMA HandlesOfTheDead ==
    ASSUME NEW s, NEW R, Down(s, R), NEW q \in Runs, DOMAIN R[q] = Fields
    PROVE  /\ on[q] # s => run'[q] = R[q]
           /\ run'[q].held = R[q].held /\ run'[q].turn \in {R[q].turn, "none"}
<1>1. PICK told \in BOOLEAN :
         run' = [r \in Runs |->
                    IF on[r] # s \/ ~Held(r) THEN R[r]
                    ELSE [R[r] EXCEPT !.turn = IF @ = "running" THEN "none" ELSE @,
                                      !.wire = IF told THEN Append(@, R[r].turns) ELSE @]]
  BY DEF Down
<1>2. CASE on[q] # s \/ ~Held(q)
  BY <1>1, <1>2
<1>3. CASE ~(on[q] # s \/ ~Held(q))
  <2> DEFINE wire == IF told THEN Append(R[q].wire, R[q].turns) ELSE R[q].wire
             turn == IF R[q].turn = "running" THEN "none" ELSE R[q].turn
  <2>1. run'[q] = [R[q] EXCEPT !.turn = turn, !.wire = wire]
    BY <1>1, <1>3
  <2>2. turn \in {R[q].turn, "none"}
    OBVIOUS
  <2> HIDE DEF wire, turn
  <2> QED BY <1>3, <2>1, <2>2 DEF Fields
<1> QED BY <1>2, <1>3

LEMMA KillKeepsGroup ==
    ASSUME GroupInv, Form', NEW r \in Runs, GroupKilled(r)
    PROVE  GroupInv'
<1> Form BY DEF GroupInv
<1> USE DEF Form, CallFields, Fields, startVars
<1> DEFINE s == on[r]
           booked == call[r].with \cup (IF call[r].was = "closed" THEN {} ELSE {r})
<1>1. s \in Servers /\ \A q \in booked : q \in Runs /\ pc[q] = "up" /\ on[q] = s
  <2>1. Placed(r) /\ KillsKnowTheirGroup(r) /\ call[r].at = "kill"
    BY DEF GroupInv, GroupKilled
  <2> QED BY <2>1 DEF Placed, KillsKnowTheirGroup
<1>2. /\ UNCHANGED <<pool, startVars>> /\ consumer' = [consumer EXCEPT ![r] = FALSE]
      /\ row' = [q \in Runs |-> IF q \in booked THEN "closed" ELSE row[q]]
      /\ call' = [call EXCEPT ![r] = NoCall]
  BY DEF GroupKilled, CallEnds
<1>3. /\ proc'[s] # "serving" /\ (proc[s] \in {"serving", "dead"} => proc'[s] = "dead")
      /\ \A t \in Servers \ {s} : proc'[t] = proc[t]
  <2>1. CASE Serves(r)
    <3>1. proc' = [proc EXCEPT ![s] = "dead"]
      BY <2>1 DEF GroupKilled, Down
    <3> QED BY <1>1, <3>1
  <2>2. CASE ~Serves(r)
    <3>1. proc' = proc /\ s # 0
      BY <1>1, <2>2 DEF GroupKilled, Servers
    <3> QED BY <2>2, <3>1 DEF Serves
  <2> QED BY <2>1, <2>2
<1>4. ASSUME NEW q \in Runs
      PROVE  /\ on[q] # s => run'[q] = run[q]
             /\ run'[q].held = run[q].held /\ run'[q].turn \in {run[q].turn, "none"}
  <2> DEFINE R == [run EXCEPT ![r].cancelled = @ \/ consumer[r]]
  <2>1. /\ DOMAIN R[q] = Fields /\ (q # r => R[q] = run[q])
        /\ R[q].held = run[q].held /\ R[q].turn = run[q].turn
    OBVIOUS
  <2> HIDE DEF R
  <2>2. CASE Serves(r)
    <3>1. Down(s, R)
      BY <2>2 DEF GroupKilled, R
    <3> HIDE DEF s, Fields
    <3>2. /\ on[q] # s => run'[q] = R[q]
          /\ run'[q].held = R[q].held /\ run'[q].turn \in {R[q].turn, "none"}
      BY <2>1, <3>1, HandlesOfTheDead
    <3>3. on[q] # s => q # r
      BY DEF s
    <3> QED BY <2>1, <3>2, <3>3
  <2>3. CASE ~Serves(r)
    <3>1. run' = R
      BY <2>3 DEF GroupKilled, R
    <3> QED BY <2>1, <3>1
  <2> QED BY <2>2, <2>3
<1> HIDE DEF s, booked
<1>5. ASSUME NEW q \in Runs
      PROVE  /\ on[q] # s => Same(q)
             /\ row'[q] = row[q] \/ (pc[q] = "up" /\ row'[q] = "closed")
             /\ consumer'[q] => consumer[q]
             /\ call'[q].with \subseteq call[q].with
             /\ call'[q].at # "idle" => call[q].at # "idle"
  BY <1>1, <1>2, <1>4 DEF Same, NoCall, s
<1> QED BY <1>1, <1>2, <1>3, <1>4, <1>5, WithoutServer

LEMMA ServersKeepGroup ==
    ASSUME GroupInv, Form', ServerReady \/ ServerNotReady \/ \E s \in Servers : ServerDies(s)
    PROVE  GroupInv'
<1> Form BY DEF GroupInv
<1> USE DEF Form, Fields, serverVars, startVars, bookVars
<1>1. CASE ServerReady
  <2>1. SessionsStay /\ UNCHANGED call /\ \A q \in Runs : Same(q)
    BY <1>1 DEF ServerReady, SessionsStay, Same
  <2> QED BY <2>1, NotInvolved, CallsKept DEF GroupInv
<1>2. CASE ServerNotReady
  <2>1. /\ SessionsStay /\ UNCHANGED call
        /\ \A q \in Runs : pc[q] # "waiting" => Same(q)
        /\ \A q \in Runs : pc[q] = "waiting" => pc'[q] = "none"
        /\ UNCHANGED <<run, consumer, row>>
    BY <1>2 DEF ServerNotReady, SessionsStay, Same, Servers
  <2>2. ASSUME NEW q \in Runs PROVE Placed(q)' /\ WorkIsBooked(q)'
    <3>1. CASE pc[q] # "waiting"
      BY <2>1, <3>1, NotInvolved
    <3>2. CASE pc[q] = "waiting"
      <4>1. Placed(q)
        BY DEF GroupInv
      <4> QED BY <2>1, <3>2, <4>1 DEF Placed, WorkIsBooked, Held
    <3> QED BY <3>1, <3>2
  <2> QED BY <2>1, <2>2, CallsKept DEF GroupInv
<1>3. ASSUME NEW s \in Servers, ServerDies(s) PROVE GroupInv'
  <2>1. /\ UNCHANGED <<pool, pc, on, consumer, row, call>>
        /\ proc'[s] = "dead" /\ \A t \in Servers \ {s} : proc'[t] = proc[t]
    BY <1>3 DEF ServerDies, Down
  <2>2. ASSUME NEW q \in Runs
        PROVE  /\ on[q] # s => Same(q)
               /\ run'[q].held = run[q].held /\ run'[q].turn \in {run[q].turn, "none"}
    <3>1. Down(s, run) /\ DOMAIN run[q] = Fields
      BY <1>3 DEF ServerDies
    <3> HIDE DEF Fields
    <3>2. on[q] # s => run'[q] = run[q]
      BY <3>1, HandlesOfTheDead
    <3>3. run'[q].held = run[q].held /\ run'[q].turn \in {run[q].turn, "none"}
      BY <3>1, HandlesOfTheDead
    <3> QED BY <2>1, <3>2, <3>3 DEF Same
  <2> QED BY <2>1, <2>2, WithoutServer
<1> QED BY <1>1, <1>2, <1>3

LEMMA RestartKeepsGroup ==
    ASSUME GroupInv, Form', NEW kill \in BOOLEAN, Restart(kill)
    PROVE  GroupInv'
<1> Form BY DEF GroupInv
<1> USE DEF Form
<1>1. ASSUME NEW q \in Runs PROVE Placed(q)' /\ WorkIsBooked(q)' /\ KillsKnowTheirGroup(q)'
  <2>1. Placed(q)
    BY DEF GroupInv
  <2>2. /\ pc'[q] = (IF pc[q] = "up" THEN "up" ELSE "none")
        /\ on'[q] = (IF pc[q] = "up" THEN on[q] ELSE 0)
        /\ run'[q] = NoRun /\ call'[q] = NoCall /\ consumer'[q] = FALSE
        /\ row'[q] = row[q] \/ (Open(q) /\ row'[q] \in {"closed", "orphan"})
    BY DEF Restart
  <2>3. \A s \in Servers : proc'[s] = proc[s] \/ proc'[s] = "dead"
    BY DEF Restart
  <2>4. KillsKnowTheirGroup(q)'
    BY <2>2 DEF KillsKnowTheirGroup, NoCall
  <2>5. Placed(q)'
    BY <2>1, <2>2, <2>3 DEF Placed, Open, NoRun, Rows
  <2>6. WorkIsBooked(q)'
    BY <2>2 DEF WorkIsBooked, NoRun
  <2> QED BY <2>4, <2>5, <2>6
<1> QED BY <1>1 DEF GroupInv

LEMMA GroupStep == GroupInv /\ [Next]_vars => GroupInv'
<1> SUFFICES ASSUME GroupInv, [Next]_vars PROVE GroupInv'
  OBVIOUS
<1>1. Form'
  BY FormStep DEF GroupInv
<1>2. CASE UNCHANGED vars
  <2>1. SessionsStay /\ UNCHANGED call /\ \A q \in Runs : Same(q)
    BY <1>2 DEF vars, serverVars, startVars, bookVars, SessionsStay, Same
  <2> QED BY <1>1, <2>1, NotInvolved, CallsKept DEF GroupInv
<1>3. ASSUME NEW r \in Runs,
             GetServer(r) \/ CreateSession(r) \/ CreateSessionFails(r) \/ Launch(r)
      PROVE  GroupInv'
  BY <1>1, <1>3, StartKeepsGroup
<1>4. ASSUME NEW r \in Runs,
             PromptArrives(r) \/ PromptFails(r) \/ TurnEnds(r) \/ Interrupt(r) \/ Demux(r)
      PROVE  GroupInv'
  BY <1>1, <1>4, TurnKeepsGroup
<1>5. ASSUME NEW r \in Runs, StreamEnds(r) \/ SendInput(r) \/ Resume(r) PROVE GroupInv'
  BY <1>1, <1>5, StreamKeepsGroup
<1>6. ASSUME NEW r \in Runs, StopBegins(r) \/ StopDone(r) PROVE GroupInv'
  BY <1>1, <1>6, StopKeepsGroup
<1>7. ASSUME NEW r \in Runs,
             ReapBegins(r) \/ ReapFindsNobody(r) \/ ReapKills(r) \/ ReapSpares(r) \/ GroupSurvives(r)
      PROVE  GroupInv'
  BY <1>1, <1>7, ReapKeepsGroup
<1>8. ASSUME NEW r \in Runs, GroupKilled(r) PROVE GroupInv'
  BY <1>1, <1>8, KillKeepsGroup
<1>9. CASE ServerReady \/ ServerNotReady \/ \E s \in Servers : ServerDies(s)
  BY <1>1, <1>9, ServersKeepGroup
<1>10. ASSUME NEW kill \in BOOLEAN, Restart(kill) PROVE GroupInv'
  BY <1>1, <1>10, RestartKeepsGroup
<1> QED BY <1>2, <1>3, <1>4, <1>5, <1>6, <1>7, <1>8, <1>9, <1>10 DEF Next

(* A reap that starts to kill a process group kills no other run that is   *)
(* followed: such a run has an open row, which makes it a sibling, and is  *)
(* held, which makes the group no group of orphans (reapRun in             *)
(* reconcile.js).  With patient operators it kills no other run at work.   *)
THEOREM FollowedRunsAreSpared == Spec => NoCollateral
<1>1. ASSUME GroupInv, NEW r \in Runs, ReapKills(r), NEW q \in Runs \ {r}, on[q] = on[r]
      PROVE  ~consumer[q] /\ (Patient => ~AtWork(q))
  <2>1. Serves(q) /\ Placed(q) /\ WorkIsBooked(q)
    BY <1>1 DEF ReapKills, Serves, GroupInv
  <2>2. ~consumer[q]
    <3> SUFFICES ASSUME consumer[q] PROVE FALSE
      OBVIOUS
    <3>1. Open(q) /\ Held(q)
      BY <2>1 DEF Placed, WorkIsBooked
    <3>2. q \in Siblings(r)
      BY <1>1, <3>1 DEF Siblings
    <3> QED BY <1>1, <3>1, <3>2 DEF ReapKills, AllOrphans
  <2>3. Patient => ~AtWork(q)
    BY <2>1, <2>2 DEF AtWork, WorkIsBooked
  <2> QED BY <2>2, <2>3
<1>2. GroupInv =>
        \A r \in Runs : ReapKills(r) =>
          \A q \in Runs \ {r} : on[q] = on[r] => ~consumer[q] /\ (Patient => ~AtWork(q))
  BY <1>1
<1>3. GroupInv /\ [Next]_vars => GroupInv'
  BY GroupStep
<1> QED BY <1>2, <1>3, GroupInit, PTL DEF Spec, NoCollateral

-----------------------------------------------------------------------------
(* One end for each turn *)

(* The flag is up whenever the end of the current turn is in the log       *)
(* already, and, where operators are patient, whenever an end still under  *)
(* way is.                                                                 *)
Honest(R) ==
    /\ R.turns \in Nat /\ R.wire \in Seq(Nat)
    /\ \A t \in R.logged : t \in Nat /\ t <= R.turns
    /\ \A i \in 1..Len(R.wire) :
          R.wire[i] <= R.turns /\ (Patient /\ R.wire[i] \in R.logged => R.ended)
    /\ R.turns \in R.logged => R.ended

EndInv ==
    Form /\ \A r \in Runs : Honest(run[r]) /\ (pc[r] = "describing" => run[r].turns = 0)

(* Sequences of naturals, shorter by one or longer by some.                 *)
LEMMA TailIsLater ==
    ASSUME NEW w \in Seq(Nat), w # <<>>
    PROVE  /\ Head(w) = w[1] /\ 1 \in 1..Len(w) /\ Tail(w) \in Seq(Nat)
           /\ \A i \in 1..Len(Tail(w)) : i + 1 \in 1..Len(w) /\ Tail(w)[i] = w[i + 1]
OBVIOUS

LEMMA OneOfTheLastTwo ==
    ASSUME NEW m \in Nat, NEW i \in 1..(m + 2)
    PROVE  i \in 1..m \/ i = m + 1 \/ i = m + 2
OBVIOUS

LEMMA MoreOfTheSame ==
    ASSUME NEW w \in Seq(Nat), NEW n \in Nat, NEW v \in {Append(w, n), w \o <<n, n>>}
    PROVE  /\ v \in Seq(Nat)
           /\ \A i \in 1..Len(v) : v[i] = n \/ (i \in 1..Len(w) /\ v[i] = w[i])
<1>1. CASE v = Append(w, n)
  BY <1>1
<1>2. CASE v = w \o <<n, n>>
  <2>1. /\ v \in Seq(Nat) /\ Len(v) = Len(w) + 2 /\ Len(w) \in Nat
        /\ \A i \in 1..Len(w) : v[i] = w[i]
    BY <1>2
  <2>2. v[Len(w) + 1] = n /\ v[Len(w) + 2] = n
    BY <1>2
  <2>3. \A i \in 1..Len(v) : i \in 1..Len(w) \/ i = Len(w) + 1 \/ i = Len(w) + 2
    BY ONLY <2>1, OneOfTheLastTwo
  <2> QED BY <2>1, <2>2, <2>3
<1> QED BY <1>1, <1>2

(* What is not said of ends keeps a handle honest, and so do the end of a     *)
(* turn, on the wire or in the log, and reading the wire.                  *)
LEMMA StaysHonest ==
    ASSUME NEW R, NEW S, Honest(R),
           S.turns = R.turns, S.wire = R.wire, S.logged = R.logged, S.ended = R.ended
    PROVE  Honest(S)
BY DEF Honest

LEMMA HonestEnds ==
    ASSUME NEW R, NEW S, Honest(R), S.wire \in {Append(R.wire, R.turns), R.wire \o <<R.turns, R.turns>>},
           S.turns = R.turns, S.logged = R.logged, S.ended = R.ended
    PROVE  Honest(S)
<1>1. R.turns \in Nat /\ R.wire \in Seq(Nat)
  BY DEF Honest
<1>2. /\ S.wire \in Seq(Nat)
      /\ \A i \in 1..Len(S.wire) :
            S.wire[i] = R.turns \/ (i \in 1..Len(R.wire) /\ S.wire[i] = R.wire[i])
  BY <1>1, MoreOfTheSame
<1>3. ASSUME NEW i \in 1..Len(S.wire)
      PROVE  S.wire[i] <= S.turns /\ (Patient /\ S.wire[i] \in S.logged => S.ended)
  <2>1. CASE S.wire[i] = R.turns
    BY <1>1, <2>1 DEF Honest
  <2>2. CASE i \in 1..Len(R.wire) /\ S.wire[i] = R.wire[i]
    BY <2>2 DEF Honest
  <2> QED BY <1>2, <2>1, <2>2
<1> QED BY <1>1, <1>2, <1>3 DEF Honest

LEMMA LoggedIsHonest ==
    ASSUME NEW R, NEW t \in Nat, DOMAIN R = Fields, Honest(R), t <= R.turns
    PROVE  Honest(Log(R, t))
<1> DEFINE S == Log(R, t)
<1>1. /\ S.turns = R.turns /\ S.wire = R.wire /\ S.logged = R.logged \cup {t}
      /\ S.ended = TRUE
  BY DEF Log, Fields
<1> HIDE DEF S
<1>2. Honest(S)
  BY <1>1 DEF Honest
<1> QED BY <1>2 DEF S

LEMMA HonestTail ==
    ASSUME NEW R, NEW S, Honest(R), R.wire # <<>>,
           S.turns = R.turns, S.wire = Tail(R.wire), S.logged = R.logged, S.ended = R.ended
    PROVE  Honest(S)
<1>1. R.turns \in Nat /\ R.wire \in Seq(Nat)
  BY DEF Honest
<1>2. /\ S.wire \in Seq(Nat)
      /\ \A i \in 1..Len(S.wire) : i + 1 \in 1..Len(R.wire) /\ S.wire[i] = R.wire[i + 1]
  BY <1>1, TailIsLater
<1>3. ASSUME NEW i \in 1..Len(S.wire)
      PROVE  S.wire[i] <= S.turns /\ (Patient /\ S.wire[i] \in S.logged => S.ended)
  BY <1>1, <1>2 DEF Honest
<1> QED BY <1>1, <1>2, <1>3 DEF Honest

LEMMA EndInit == Init => EndInv
<1> SUFFICES ASSUME Init PROVE EndInv
  OBVIOUS
<1>1. Honest(NoRun)
  BY DEF Honest, NoRun
<1> QED BY <1>1, FormInit DEF Init, EndInv

(* A step in which one handle changes, and no session comes into being.      *)
LEMMA OneHandle ==
    ASSUME EndInv, Form', NEW r \in Runs, \A q \in Runs \ {r} : run'[q] = run[q],
           \A q \in Runs : pc'[q] = "describing" => pc[q] = "describing",
           Honest(run'[r]), run'[r].turns = run[r].turns
    PROVE  EndInv'
BY DEF EndInv

LEMMA SameHandles ==
    ASSUME EndInv, Form', run' = run,
           \A q \in Runs : pc'[q] = "describing" => pc[q] = "describing"
    PROVE  EndInv'
BY DEF EndInv

LEMMA StartIsHonest ==
    ASSUME EndInv, Form', NEW r \in Runs,
           GetServer(r) \/ CreateSession(r) \/ CreateSessionFails(r) \/ Launch(r)
    PROVE  EndInv'
<1> Form BY DEF EndInv
<1> USE DEF Form, Fields
<1>1. CASE GetServer(r) \/ CreateSessionFails(r)
  <2>1. run' = run /\ \A q \in Runs : pc'[q] = "describing" => pc[q] = "describing"
    BY <1>1 DEF GetServer, CreateSessionFails
  <2> QED BY <2>1, SameHandles
<1>2. CASE CreateSession(r)
  <2>1. /\ run' = [run EXCEPT ![r] = NewRun] /\ pc' = [pc EXCEPT ![r] = "describing"]
        /\ NewRun.turns = 0 /\ Honest(NewRun)
    BY <1>2 DEF CreateSession, NewRun, NoRun, Honest
  <2> QED BY <2>1 DEF EndInv
<1>3. CASE Launch(r)
  <2> DEFINE S == [run[r] EXCEPT !.turn = "sent", !.turns = 1]
  <2>1. Honest(run[r]) /\ run[r].turns = 0
    BY <1>3 DEF Launch, EndInv
  <2>2. /\ S.turns = 1 /\ S.wire = run[r].wire /\ S.logged = run[r].logged
        /\ S.ended = run[r].ended
    OBVIOUS
  <2>3. run' = [run EXCEPT ![r] = S] /\ pc' = [pc EXCEPT ![r] = "up"]
    BY <1>3 DEF Launch
  <2> HIDE DEF S
  <2>4. Honest(S)
    <3>1. \A t \in S.logged : t \in Nat /\ t <= 0
      BY <2>1, <2>2 DEF Honest
    <3>2. ASSUME NEW i \in 1..Len(S.wire)
          PROVE  S.wire[i] <= S.turns /\ (Patient /\ S.wire[i] \in S.logged => S.ended)
      <4>1. S.wire[i] <= 0 /\ S.wire[i] \in Nat /\ (Patient /\ S.wire[i] \in S.logged => S.ended)
        BY <2>1, <2>2 DEF Honest
      <4> QED BY <2>2, <4>1
    <3>3. \A t \in S.logged : t \in Nat /\ t <= S.turns
      BY <2>2, <3>1, <2>1 DEF Honest
    <3> QED BY <2>1, <2>2, <3>1, <3>2, <3>3 DEF Honest
  <2> QED BY <2>3, <2>4 DEF EndInv
<1> QED BY <1>1, <1>2, <1>3

(* An abort, wherever it is asked for.                                     *)
LEMMA AbortIsHonest ==
    ASSUME EndInv, Form', NEW r \in Runs, Abort(r), UNCHANGED pc
    PROVE  EndInv'
<1> Form /\ Honest(run[r]) BY DEF EndInv
<1> USE DEF Form, Fields
<1>1. CASE run' = run
  BY <1>1, SameHandles
<1>2. CASE run' = [run EXCEPT ![r] = EndedTwice(run[r])]
  <2>1. /\ run'[r].turns = run[r].turns /\ run'[r].logged = run[r].logged
        /\ run'[r].ended = run[r].ended
        /\ run'[r].wire = run[r].wire \o <<run[r].turns, run[r].turns>>
    BY <1>2 DEF EndedTwice
  <2>2. Honest(run'[r])
    BY <2>1, HonestEnds
  <2> QED BY <1>2, <2>1, <2>2, OneHandle
<1> QED BY <1>1, <1>2 DEF Abort

LEMMA TurnIsHonest ==
    ASSUME EndInv, Form', NEW r \in Runs,
           PromptArrives(r) \/ PromptFails(r) \/ TurnEnds(r) \/ Interrupt(r) \/ Demux(r)
    PROVE  EndInv'
<1> Form /\ Honest(run[r]) BY DEF EndInv
<1> USE DEF Form, Fields, startVars
<1> SUFFICES ASSUME ~Interrupt(r) PROVE EndInv'
  BY AbortIsHonest DEF Interrupt
<1>1. pc' = pc /\ \A q \in Runs \ {r} : run'[q] = run[q]
  BY DEF PromptArrives, PromptFails, TurnEnds, Demux
<1>2. run'[r].turns = run[r].turns /\ Honest(run'[r])
  <2>1. CASE PromptArrives(r)
    BY <2>1, StaysHonest DEF PromptArrives
  <2>2. CASE PromptFails(r)
    <3> DEFINE idle == [run[r] EXCEPT !.turn = "none"]
    <3>1. /\ idle.turns = run[r].turns /\ idle.wire = run[r].wire
          /\ idle.logged = run[r].logged /\ idle.ended = run[r].ended /\ DOMAIN idle = Fields
      OBVIOUS
    <3>2. run'[r] = IF idle.turns = 1 THEN Log(idle, 1) ELSE idle
      BY <2>2 DEF PromptFails
    <3> HIDE DEF idle
    <3>3. Honest(idle)
      BY <3>1, StaysHonest
    <3>4. idle.turns = 1 => Honest(Log(idle, 1))
      BY <3>1, <3>3, LoggedIsHonest
    <3> QED BY <3>1, <3>2, <3>3, <3>4 DEF Log
  <2>3. CASE TurnEnds(r)
    <3>1. PICK E \in {Ended(run[r]), EndedTwice(run[r])} : run' = [run EXCEPT ![r] = E]
      BY <2>3 DEF TurnEnds
    <3>2. /\ E.turns = run[r].turns /\ E.logged = run[r].logged /\ E.ended = run[r].ended
      BY <3>1, TurnIsOver, SMTT(30)
    <3>3. E.wire \in {Append(run[r].wire, run[r].turns), run[r].wire \o <<run[r].turns, run[r].turns>>}
      BY DEF Ended, EndedTwice
    <3> QED BY <3>1, <3>2, <3>3, HonestEnds
  <2>4. CASE Demux(r)
    <3> DEFINE R == [run[r] EXCEPT !.wire = Tail(run[r].wire)]
    <3>1. /\ run[r].wire # <<>> /\ R.turns = run[r].turns /\ R.wire = Tail(run[r].wire)
          /\ R.logged = run[r].logged /\ R.ended = run[r].ended
      BY <2>4 DEF Demux
    <3>2. Honest(R)
      BY <3>1, HonestTail
    <3>3. Head(run[r].wire) \in Nat /\ Head(run[r].wire) <= run[r].turns
      BY <3>1, TailIsLater DEF Honest
    <3>4. run'[r] = R \/ run'[r] = Log(R, Head(run[r].wire))
      BY <2>4 DEF Demux
    <3>5. DOMAIN R = Fields
      OBVIOUS
    <3> HIDE DEF R
    <3>6. Honest(Log(R, Head(run[r].wire)))
      BY <3>1, <3>2, <3>3, <3>5, LoggedIsHonest
    <3> QED BY <3>1, <3>2, <3>4, <3>5, <3>6 DEF Log
  <2> QED BY <2>1, <2>2, <2>3, <2>4
<1> QED BY <1>1, <1>2, OneHandle

LEMMA StreamIsHonest ==
    ASSUME EndInv, Form', NEW r \in Runs, StreamEnds(r) \/ SendInput(r) \/ Resume(r)
    PROVE  EndInv'
<1> Form /\ Honest(run[r]) BY DEF EndInv
<1> USE DEF Form, Fields, startVars
<1>1. pc' = pc /\ \A q \in Runs \ {r} : run'[q] = run[q]
  BY DEF StreamEnds, SendInput, Resume
<1>2. CASE StreamEnds(r) \/ Resume(r)
  <2>1. /\ run'[r].turns = run[r].turns /\ run'[r].wire = run[r].wire
        /\ run'[r].logged = run[r].logged /\ run'[r].ended = run[r].ended
    BY <1>2 DEF StreamEnds, Resume
  <2> QED BY <1>1, <2>1, StaysHonest, OneHandle
<1>3. CASE SendInput(r)
  <2>1. /\ Patient => run[r].wire = <<>>
        /\ pc[r] = "up"
        /\ run'[r].turns = run[r].turns + 1 /\ run'[r].wire = run[r].wire
        /\ run'[r].logged = run[r].logged
    BY <1>3 DEF SendInput, Quiet, NewTurn
  <2>2. Honest(run'[r])
    <3>1. /\ run'[r].turns \in Nat /\ run'[r].wire \in Seq(Nat)
          /\ \A t \in run'[r].logged : t \in Nat /\ t <= run'[r].turns
          /\ run'[r].turns \notin run'[r].logged
      BY <2>1 DEF Honest
    <3>2. ASSUME NEW i \in 1..Len(run'[r].wire)
          PROVE  /\ run'[r].wire[i] <= run'[r].turns
                 /\ Patient /\ run'[r].wire[i] \in run'[r].logged => run'[r].ended
      <4>1. run[r].wire[i] \in Nat /\ run[r].wire[i] <= run[r].turns /\ run[r].turns \in Nat
        BY <2>1 DEF Honest
      <4>2. ~Patient
        BY <2>1
      <4> QED BY <2>1, <4>1, <4>2
    <3> QED BY <3>1, <3>2 DEF Honest
  <2> QED BY <1>1, <2>1, <2>2 DEF EndInv
<1> QED BY <1>2, <1>3

(* What is done to many handles at once leaves each of them honest.          *)
LEMMA ManyHandles ==
    ASSUME EndInv, Form', \A q \in Runs : pc'[q] = "describing" => pc[q] = "describing",
           \A q \in Runs :
              run'[q] = NoRun \/ (Honest(run'[q]) /\ run'[q].turns = run[q].turns)
    PROVE  EndInv'
<1>1. Honest(NoRun) /\ NoRun.turns = 0
  BY DEF Honest, NoRun
<1> QED BY <1>1 DEF EndInv

LEMMA DeathIsHonest ==
    ASSUME NEW s, NEW R, Down(s, R), NEW q \in Runs, DOMAIN R[q] = Fields, Honest(R[q])
    PROVE  Honest(run'[q]) /\ run'[q].turns = R[q].turns
<1>1. PICK told \in BOOLEAN :
         run' = [r \in Runs |->
                    IF on[r] # s \/ ~Held(r) THEN R[r]
                    ELSE [R[r] EXCEPT !.turn = IF @ = "running" THEN "none" ELSE @,
                                      !.wire = IF told THEN Append(@, R[r].turns) ELSE @]]
  BY DEF Down
<1>2. CASE on[q] # s \/ ~Held(q)
  BY <1>1, <1>2
<1>3. CASE ~(on[q] # s \/ ~Held(q))
  <2> DEFINE wire == IF told THEN Append(R[q].wire, R[q].turns) ELSE R[q].wire
             turn == IF R[q].turn = "running" THEN "none" ELSE R[q].turn
             S == [R[q] EXCEPT !.turn = turn, !.wire = wire]
  <2>1. run'[q] = S
    BY <1>1, <1>3
  <2>2. wire \in {R[q].wire, Append(R[q].wire, R[q].turns)}
    OBVIOUS
  <2> HIDE DEF wire, turn
  <2>3. /\ S.wire = wire /\ S.turns = R[q].turns /\ S.logged = R[q].logged
        /\ S.ended = R[q].ended
    BY DEF Fields
  <2> HIDE DEF S
  <2>4. Honest(S)
    BY <2>2, <2>3, StaysHonest, HonestEnds
  <2> QED BY <2>1, <2>3, <2>4
<1> QED BY <1>2, <1>3

LEMMA EndOfRunsIsHonest ==
    ASSUME EndInv, Form',
           \/ \E r \in Runs : StopDone(r) \/ GroupKilled(r)
           \/ ServerReady \/ ServerNotReady
           \/ \E s \in Servers : ServerDies(s)
           \/ \E kill \in BOOLEAN : Restart(kill)
    PROVE  EndInv'
<1> Form BY DEF EndInv
<1> USE DEF Form
<1>1. \A q \in Runs : pc'[q] = "describing" => pc[q] = "describing"
  <2> USE DEF startVars
  <2>1. ASSUME NEW r \in Runs, StopDone(r) \/ GroupKilled(r)
        PROVE  \A q \in Runs : pc'[q] = "describing" => pc[q] = "describing"
    BY <2>1 DEF StopDone, GroupKilled
  <2>2. ASSUME NEW s \in Servers, ServerDies(s)
        PROVE  \A q \in Runs : pc'[q] = "describing" => pc[q] = "describing"
    BY <2>2 DEF ServerDies
  <2> QED BY <2>1, <2>2 DEF ServerReady, ServerNotReady, Restart
<1>2. ASSUME NEW r \in Runs, StopDone(r) PROVE EndInv'
  <2>1. \A q \in Runs : run'[q] = IF q = r THEN NoRun ELSE run[q]
    BY <1>2 DEF StopDone
  <2> QED BY <1>1, <2>1, ManyHandles DEF EndInv
<1>3. ASSUME NEW r \in Runs, GroupKilled(r) PROVE EndInv'
  <2> DEFINE R == [run EXCEPT ![r].cancelled = @ \/ consumer[r]]
  <2>1. Down(on[r], R) \/ run' = R
    BY <1>3 DEF GroupKilled
  <2>2. ASSUME NEW q \in Runs
        PROVE  DOMAIN R[q] = Fields /\ Honest(R[q]) /\ R[q].turns = run[q].turns
    <3>1. /\ DOMAIN R[q] = Fields /\ R[q].turns = run[q].turns /\ R[q].wire = run[q].wire
          /\ R[q].logged = run[q].logged /\ R[q].ended = run[q].ended
      BY DEF Fields
    <3> HIDE DEF R
    <3> QED BY <3>1, StaysHonest DEF EndInv
  <2> HIDE DEF R
  <2>3. ASSUME NEW q \in Runs PROVE Honest(run'[q]) /\ run'[q].turns = run[q].turns
    BY <2>1, <2>2, DeathIsHonest
  <2> QED BY <1>1, <2>3, ManyHandles
<1>4. ASSUME NEW s \in Servers, ServerDies(s) PROVE EndInv'
  <2>1. Down(s, run)
    BY <1>4 DEF ServerDies
  <2>2. ASSUME NEW q \in Runs PROVE Honest(run'[q]) /\ run'[q].turns = run[q].turns
    BY <2>1, DeathIsHonest DEF EndInv
  <2> QED BY <1>1, <2>2, ManyHandles
<1>5. ASSUME NEW kill \in BOOLEAN, Restart(kill) PROVE EndInv'
  BY <1>1, <1>5, ManyHandles DEF Restart
<1>6. CASE ServerReady \/ ServerNotReady
  BY <1>1, <1>6, SameHandles DEF ServerReady, ServerNotReady
<1> QED BY <1>2, <1>3, <1>4, <1>5, <1>6

LEMMA EndStep == EndInv /\ [Next]_vars => EndInv'
<1> SUFFICES ASSUME EndInv, [Next]_vars PROVE EndInv'
  OBVIOUS
<1> USE DEF startVars, bookVars, serverVars
<1>1. Form'
  BY FormStep DEF EndInv
<1>2. CASE UNCHANGED vars
  BY <1>1, <1>2, SameHandles DEF vars
<1>3. ASSUME NEW r \in Runs,
             GetServer(r) \/ CreateSession(r) \/ CreateSessionFails(r) \/ Launch(r)
      PROVE  EndInv'
  BY <1>1, <1>3, StartIsHonest
<1>4. ASSUME NEW r \in Runs,
             PromptArrives(r) \/ PromptFails(r) \/ TurnEnds(r) \/ Interrupt(r) \/ Demux(r)
      PROVE  EndInv'
  BY <1>1, <1>4, TurnIsHonest
<1>5. ASSUME NEW r \in Runs, StreamEnds(r) \/ SendInput(r) \/ Resume(r) PROVE EndInv'
  BY <1>1, <1>5, StreamIsHonest
<1>6. ASSUME NEW r \in Runs, StopBegins(r) PROVE EndInv'
  BY <1>1, <1>6, AbortIsHonest DEF StopBegins
<1>7. ASSUME NEW r \in Runs, ReapBegins(r) \/ ReapFindsNobody(r) \/ ReapKills(r) \/ GroupSurvives(r)
      PROVE  EndInv'
  BY <1>1, <1>7, SameHandles DEF ReapBegins, ReapFindsNobody, ReapKills, GroupSurvives
<1>8. ASSUME NEW r \in Runs, ReapSpares(r) PROVE EndInv'
  BY <1>1, <1>8, AbortIsHonest DEF ReapSpares, Abort
<1>9. CASE \/ \E r \in Runs : StopDone(r) \/ GroupKilled(r)
           \/ ServerReady \/ ServerNotReady
           \/ \E s \in Servers : ServerDies(s)
           \/ \E kill \in BOOLEAN : Restart(kill)
  BY <1>1, <1>9, EndOfRunsIsHonest
<1> QED BY <1>2, <1>3, <1>4, <1>5, <1>6, <1>7, <1>8, <1>9 DEF Next

(* An end of a turn that is in the log is not logged over as long as it is  *)
(* the run's last turn; nor in a later one, if input is sent to a run only  *)
(* when it is quiet (_demuxOneEvent and _turnEndedForCurrentTurn in        *)
(* adapter.js).                                                            *)
THEOREM TurnsEndOnce == Spec => OneEndPerTurn
<1>1. ASSUME EndInv, NEW r \in Runs, Demux(r), Head(run[r].wire) \in run[r].logged,
             Patient \/ Head(run[r].wire) = run[r].turns
      PROVE  run'[r] = [run[r] EXCEPT !.wire = Tail(@)]
  <2>1. Honest(run[r]) /\ run[r].wire # <<>> /\ DOMAIN run = Runs
    BY <1>1 DEF EndInv, Form, Demux
  <2>2. run[r].ended
    <3>1. CASE Patient
      BY <1>1, <2>1, <3>1, TailIsLater DEF Honest
    <3>2. CASE Head(run[r].wire) = run[r].turns
      BY <1>1, <2>1, <3>2 DEF Honest
    <3> QED BY <1>1, <3>1, <3>2
  <2> QED BY <1>1, <2>1, <2>2 DEF Demux, Redundant
<1>2. EndInv =>
        \A r \in Runs :
          /\ Demux(r) /\ Head(run[r].wire) \in run[r].logged
          /\ Patient \/ Head(run[r].wire) = run[r].turns
          => run'[r] = [run[r] EXCEPT !.wire = Tail(@)]
  BY <1>1
<1>3. EndInv /\ [Next]_vars => EndInv'
  BY EndStep
<1> QED BY <1>2, <1>3, EndInit, PTL DEF Spec, OneEndPerTurn
=============================================================================
