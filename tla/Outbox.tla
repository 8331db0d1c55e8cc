------------------------------- MODULE Outbox -------------------------------
(***************************************************************************)
(* The notification outbox: the outbox rows of supervisor/db/index.js and   *)
(* the drains of runtime/slack-outbox.js that post them through the Slack   *)
(* bridge, a command-line program with its own ledger of idempotency keys. *)
(* A drain is started at boot and by a timer, and one may still wait for   *)
(* the bridge when the next one starts.                                    *)
(***************************************************************************)
EXTENDS Naturals, Sequences

CONSTANTS
    Events,       \* outbox ids: one per transition that is announced
    Drains,       \* drains that may overlap
    MaxFaults     \* bound: crashes, and calls of the bridge that fail or whose answer is lost

ASSUME FaultsAssumption == MaxFaults \in Nat

VARIABLES
    outbox,     \* the outbox rows: unwritten, undelivered or delivered
    drain,      \* each drain: what it read and has not settled, oldest first
    ledger,     \* the bridge: the keys it has posted under
    posts,      \* messages in the channel, per event (history)
    faults

outboxVars == <<outbox, drain, ledger, posts, faults>>

IdleDrain == [pc |-> "idle", todo |-> <<>>]

OutboxTypeOK ==
    /\ outbox.row \in [Events -> {"unwritten", "undelivered", "delivered"}]
    /\ outbox.order \in Seq(Events)
    /\ \A d \in Drains : /\ drain[d].pc \in {"idle", "posting", "answered", "failed"}
                         /\ drain[d].todo \in Seq(Events)
    /\ posts \in [Events -> Nat]
    /\ faults \in 0..MaxFaults

OutboxInit ==
    /\ outbox = [row |-> [e \in Events |-> "unwritten"], order |-> <<>>]
    /\ drain = [d \in Drains |-> IdleDrain]
    /\ ledger = {}
    /\ posts = [e \in Events |-> 0]
    /\ faults = 0

\* writeOutboxEvent.  Writing is best effort for the transition it follows.
Written(box, e) ==
    [row |-> [box.row EXCEPT ![e] = "undelivered"], order |-> Append(box.order, e)]
WriteBestEffort(e) ==
    \/ outbox' = Written(outbox, e) /\ UNCHANGED faults
    \/ UNCHANGED outbox /\ faults < MaxFaults /\ faults' = faults + 1

\* listUndeliveredOutboxEvents
NeverPosted == SelectSeq(outbox.order,
                         LAMBDA e : outbox.row[e] = "undelivered" /\ e \notin ledger)
Undelivered == SelectSeq(outbox.order, LAMBDA e : outbox.row[e] = "undelivered")

\* markOutboxDelivered
Marked(box, e) == [box EXCEPT !.row[e] = "delivered"]

\* the idempotency key given to the bridge: the row's own id
KeyPerDrain(e, d) == <<e, d>>
KeyOf(e, d) == e

Begun(todo) == IF todo = <<>> THEN IdleDrain ELSE [pc |-> "posting", todo |-> todo]

\* drain(), up to the first wait for the bridge
StartDrain(d) ==
    /\ drain[d].pc = "idle" /\ Undelivered # <<>>
    /\ drain' = [drain EXCEPT ![d] = Begun(Undelivered)]
    /\ UNCHANGED <<outbox, ledger, posts, faults>>

(* The bridge posts unless it knows the key; the process may fail before   *)
(* it posts, or be killed at its timeout with the answer unread.           *)
BridgePosts(d) ==
    LET e == Head(drain[d].todo)
        key == KeyOf(e, d)
    IN /\ ledger' = ledger \cup {key}
       /\ posts' = [posts EXCEPT ![e] = IF key \in ledger THEN @ ELSE @ + 1]
Post(d) ==
    /\ drain[d].pc = "posting"
    /\ \/ BridgePosts(d) /\ drain' = [drain EXCEPT ![d].pc = "answered"] /\ UNCHANGED faults
       \/ /\ faults < MaxFaults /\ faults' = faults + 1
          /\ BridgePosts(d) \/ UNCHANGED <<ledger, posts>>
          /\ drain' = [drain EXCEPT ![d].pc = "failed"]
    /\ UNCHANGED outbox

\* The rest of the loop's body: mark the row if the bridge said ok, and go on.
Settle(d) ==
    /\ drain[d].pc \in {"answered", "failed"}
    /\ outbox' = IF drain[d].pc = "answered"
                 THEN Marked(outbox, Head(drain[d].todo)) ELSE outbox
    /\ drain' = [drain EXCEPT ![d] = Begun(Tail(drain[d].todo))]
    /\ UNCHANGED <<ledger, posts, faults>>

(* The daemon dies and boots: the drains are gone, boot starts one.  Only   *)
(* a death that interrupts a drain counts as a fault.                      *)
DrainsRestart ==
    /\ faults' = IF \E d \in Drains : drain[d] # IdleDrain THEN faults + 1 ELSE faults
    /\ faults' <= MaxFaults
    /\ \E boot \in Drains :
          drain' = [d \in Drains |-> IF d = boot THEN Begun(Undelivered) ELSE IdleDrain]
    /\ UNCHANGED <<outbox, ledger, posts>>

DrainStep == \E d \in Drains : StartDrain(d) \/ Post(d) \/ Settle(d)

-----------------------------------------------------------------------------
(* However drains overlap, fail or die between the post and the mark, an    *)
(* event reaches the channel at most once, and a row is marked delivered   *)
(* only when it has (the module header's argument for passing outbox.id).  *)
PostedOnce ==
    \A e \in Events : /\ posts[e] <= 1
                      /\ outbox.row[e] = "delivered" => posts[e] = 1

(* A row once written is told in the end: no crash, failed call or          *)
(* overlapping drain makes every later drain pass it by.                   *)
ToldInTheEnd == \A e \in Events : outbox.row[e] = "undelivered" ~> outbox.row[e] = "delivered"
=============================================================================
