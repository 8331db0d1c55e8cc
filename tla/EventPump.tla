----------------------------- MODULE EventPump -----------------------------
(***************************************************************************)
(* The events of one run: the pump of runtime/event-pump.js, which          *)
(* consumes the adapter's stream, writes each event to event_log and keeps *)
(* the newest in a buffer, and the subscriptions that clients read it      *)
(* through (the observe command over the socket).                          *)
(*                                                                         *)
(* A resume gives the run a new pump state and leaves the old one to the   *)
(* subscriptions that still hold it, so pump is the sequence of the run's  *)
(* states, the last being the one that is attached.                        *)
(***************************************************************************)
EXTENDS Naturals, Sequences

CONSTANTS
    Subs,          \* connections that observe the run
    Kinds,         \* kinds of events; "assistant.delta" is prose
    bufferLimit,   \* events the buffer keeps
    MaxGens,       \* bound: starts and resumes of the run
    MaxStimuli     \* bound: what harness, clients and operator do, altogether

ASSUME PumpAssumption == bufferLimit \in Nat \ {0} /\ MaxGens \in Nat \ {0} /\ MaxStimuli \in Nat

VARIABLES
    event_log,     \* the run's tier 1 rows: their kinds
    pump,          \* the states the run has had
    sub,           \* each connection's subscription
    stimuli

pumpVars == <<event_log, pump, sub>>

NewState == [buffer |-> <<>>, firstSeq |-> 1, nextSeq |-> 1, done |-> FALSE, closed |-> FALSE,
             consumer |-> "awaiting"]
NoSub == [pc |-> "none", gen |-> 0, cursor |-> 0, heard |-> 0]

PumpTypeOK ==
    /\ event_log \in Seq(Kinds)
    /\ \A g \in DOMAIN pump :
          /\ pump[g].buffer \in Seq(Nat) /\ Len(pump[g].buffer) <= bufferLimit
          /\ pump[g].consumer \in {"awaiting", "hooking", "over"}
    /\ sub \in [Subs -> [pc : {"none", "top", "gapped", "inner", "parked", "done"},
                         gen : 0..MaxGens, cursor : Nat, heard : Nat]]
    /\ stimuli \in 0..MaxStimuli

\* attach, as a run starts
PumpInit ==
    /\ event_log = <<>>
    /\ pump = <<NewState>>
    /\ sub = [c \in Subs |-> NoSub]
    /\ stimuli = 0

Stimulus == stimuli < MaxStimuli /\ stimuli' = stimuli + 1

Woken(s, g) == IF s.gen = g /\ s.pc = "parked" THEN [s EXCEPT !.pc = "top"] ELSE s
Wake(g) == sub' = [c \in Subs |-> Woken(sub[c], g)]
-----------------------------------------------------------------------------
(* The consumer *)
Appended(st) ==
    LET grown == Append(st.buffer, st.nextSeq)
        dropped == IF Len(grown) > bufferLimit THEN Len(grown) - bufferLimit ELSE 0
    IN [st EXCEPT !.buffer = SubSeq(grown, dropped + 1, Len(grown)), !.firstSeq = @ + dropped,
                  !.nextSeq = @ + 1]

\* a write that fails loses the row and nothing else
recordEvent(kind) == event_log' = Append(event_log, kind) \/ UNCHANGED event_log

\* An event is kept and written before the consumer waits for its hooks.
Consume(g, kind) ==
    /\ Stimulus
    /\ pump[g].consumer = "awaiting" /\ ~pump[g].closed
    /\ pump' = [pump EXCEPT ![g] = [Appended(@) EXCEPT !.consumer = "hooking"]]
    /\ recordEvent(kind)
    /\ UNCHANGED sub

Hooked(g) ==
    /\ pump[g].consumer = "hooking"
    /\ pump' = [pump EXCEPT ![g].consumer = "awaiting"]
    /\ Wake(g)
    /\ UNCHANGED <<event_log, stimuli>>

\* the consumer's finally
FinallyUnwoken(g) == pump' = [pump EXCEPT ![g].done = TRUE, ![g].consumer = "over"] /\ UNCHANGED sub
Finally(g) == pump' = [pump EXCEPT ![g].done = TRUE, ![g].consumer = "over"] /\ Wake(g)

\* The adapter's stream ends or fails.
StreamEnds(g) ==
    /\ Stimulus
    /\ pump[g].consumer = "awaiting" /\ ~pump[g].closed
    /\ Finally(g)
    /\ UNCHANGED event_log

(* A cancelled stream settles, or yields once more: the loop sees `closed`. *)
CancelledStreamEnds(g) ==
    /\ pump[g].consumer = "awaiting" /\ pump[g].closed
    /\ Finally(g)
    /\ UNCHANGED <<event_log, stimuli>>
-----------------------------------------------------------------------------
(* closeRun, as a run is stopped or reaped, and resetRun with the attach    *)
(* that follows it in the same turn, as it is resumed.                     *)
CloseRun ==
    /\ Stimulus
    /\ ~pump[Len(pump)].closed
    /\ pump' = [pump EXCEPT ![Len(pump)].closed = TRUE, ![Len(pump)].buffer = <<>>]
    /\ Wake(Len(pump))
    /\ UNCHANGED event_log

ResetRun ==
    /\ Stimulus
    /\ Len(pump) < MaxGens
    /\ pump' = Append([pump EXCEPT ![Len(pump)].closed = TRUE], NewState)
    /\ Wake(Len(pump))
    /\ UNCHANGED event_log
-----------------------------------------------------------------------------
(* A subscription.  `cursor` is the server's; `heard` is where its client   *)
(* has got to by counting the frames and the gaps it was sent.             *)
\* A correlation id whose command still runs on the connection is refused.
IdFree(c) == sub[c].pc \in {"none", "done"}

Subscribe(c, cursor) ==
    /\ Stimulus
    /\ IdFree(c)
    /\ sub' = [sub EXCEPT ![c] = [pc |-> "top", gen |-> Len(pump), cursor |-> cursor, heard |-> cursor]]
    /\ UNCHANGED <<event_log, pump>>

(* The peer leaves, its socket fails, or it is cut for a line that is too   *)
(* long: the connection's signal ends the subscription.                    *)
Disconnect(c) ==
    /\ Stimulus
    /\ sub[c].pc # "none"
    /\ sub' = [sub EXCEPT ![c] = NoSub]
    /\ UNCHANGED <<event_log, pump>>

EvictedAtTop(s, st) == s.pc = "top" /\ s.cursor < st.firstSeq
Evicted(s, st) == s.cursor < st.firstSeq

\* the next seq at or after the cursor that the buffer holds, else nextSeq
NextRetained(s, st) ==
    LET retained == {q \in s.cursor..st.nextSeq : q - st.firstSeq + 1 \in DOMAIN st.buffer}
    IN IF retained = {} THEN st.nextSeq ELSE CHOOSE q \in retained : \A r \in retained : q <= r

(* What the client makes of a frame: it counts an event that comes in turn, *)
(* and what a gap frame announces.                                         *)
HearsGap(s, st) == [s EXCEPT !.cursor = st.firstSeq, !.heard = @ + (st.firstSeq - s.cursor)]
HearsEvent(s, st, q) ==
    [s EXCEPT !.cursor = q + 1,
              !.heard = IF st.buffer[q - st.firstSeq + 1] = @ THEN @ + 1 ELSE @]

(* The generator, from one suspension to the next: `top` is the outer loop, *)
(* `gapped` the outer loop after its own gap frame, which it leaves for the *)
(* inner loop without looking at `closed`, and `inner` the inner loop.      *)
Turn(c) ==
    LET s == sub[c]
        st == pump[s.gen]
        q == NextRetained(s, st)
    IN /\ s.pc \in {"top", "gapped", "inner"}
       /\ sub' = [sub EXCEPT ![c] =
             IF s.pc # "gapped" /\ st.closed THEN [s EXCEPT !.pc = "done"]
             ELSE IF Evicted(s, st)
             THEN [HearsGap(s, st) EXCEPT !.pc = IF s.pc = "top" THEN "gapped" ELSE "inner"]
             ELSE IF s.cursor < st.nextSeq /\ q < st.nextSeq
             THEN [HearsEvent(s, st, q) EXCEPT !.pc = "inner"]
             ELSE [s EXCEPT !.cursor = IF @ < st.nextSeq THEN st.nextSeq ELSE @,
                            !.pc = IF st.done THEN "done" ELSE "parked"]]
       /\ UNCHANGED <<event_log, pump, stimuli>>

PumpStep ==
    \/ \E g \in DOMAIN pump :
          \/ \E kind \in Kinds : Consume(g, kind)
          \/ Hooked(g) \/ StreamEnds(g) \/ CancelledStreamEnds(g)
    \/ CloseRun \/ ResetRun
    \/ \E c \in Subs :
          \/ \E from \in {0, pump[Len(pump)].firstSeq, sub[c].heard} : Subscribe(c, from)
          \/ Disconnect(c) \/ Turn(c)
-----------------------------------------------------------------------------
(* Eviction is visible to subscribers: by the frames and the gaps it was    *)
(* sent, a client knows exactly where its subscription stands, however     *)
(* events are evicted while it is between frames; and a stream that is done *)
(* is done for a client only when all of it was sent or announced (the     *)
(* header of event-pump.js).  Of a run that was closed the rest is dropped. *)
NothingUnannounced ==
    \A c \in Subs : LET s == sub[c] IN
        s.pc # "none" /\ ~pump[s.gen].closed =>
            /\ s.heard = s.cursor
            /\ s.pc = "done" => s.heard >= pump[s.gen].nextSeq

(* No subscription outlives its stream: one whose stream has ended, or      *)
(* whose run was closed or resumed, ends, whatever it is waiting for.      *)
SubscriptionsEnd ==
    \A c \in Subs :
        sub[c].gen # 0 /\ (pump[sub[c].gen].closed \/ pump[sub[c].gen].done)
            ~> sub[c].pc \in {"none", "done"}
=============================================================================
