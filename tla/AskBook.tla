------------------------------ MODULE AskBook ------------------------------
(***************************************************************************)
(* What the approval round trip promises, with no processes, no daemon and  *)
(* no clock: an ask is put to a human once; it is decided at most once, and *)
(* only while it is open; nobody but the one who asked is told, and what    *)
(* he is told is the decision; it is marked delivered when he has been, and *)
(* never before; and the task is blocked by asks that are open, no longer.  *)
(* AskRoundTrip is shown to implement it.                                  *)
(***************************************************************************)
CONSTANTS
    Keys,       \* the asks there may ever be
    Decisions

VARIABLES
    book,       \* each ask: "none", "open", "closed", "withdrawn" or a decision
    told,       \* askers and decisions: who has been told what
    marked,     \* asks recorded as delivered
    blocked     \* is the task blocked on an ask?

vars == <<book, told, marked, blocked>>

Init ==
    /\ book = [k \in Keys |-> "none"]
    /\ told = {} /\ marked = {}
    /\ blocked = FALSE

Open(B) == {k \in Keys : B[k] = "open"}

(* A new ask blocks the task; once none is open it goes on.                 *)
Reconsidered ==
    blocked' = IF Open(book') \ Open(book) # {} THEN TRUE ELSE blocked /\ Open(book') # {}

(* Any number of asks are raised or given up, by whoever but a human.       *)
GivenUp == {"closed", "withdrawn"}
Passes(from, to) ==
    \/ from = to
    \/ from = "none" /\ to \in {"open"} \cup GivenUp
    \/ from = "open" /\ to \in GivenUp

Change ==
    /\ DOMAIN book' = Keys
    /\ \A k \in Keys : Passes(book[k], book'[k])
    /\ Reconsidered
    /\ UNCHANGED <<told, marked>>

Decide(k, d) ==
    /\ book[k] = "open"
    /\ book' = [book EXCEPT ![k] = d]
    /\ Reconsidered
    /\ UNCHANGED <<told, marked>>

Answers(K) == {<<k, book[k]>> : k \in K}

Deliver(k) ==
    /\ book[k] \in Decisions
    /\ told' = told \cup Answers({k}) /\ marked' = marked \cup {k}
    /\ UNCHANGED <<book, blocked>>

(* Answers got through, and whoever was to note it is gone.                 *)
Slip(K) ==
    /\ \A k \in K : book[k] \in Decisions
    /\ told' = told \cup Answers(K)
    /\ UNCHANGED <<book, marked, blocked>>

Next ==
    \/ Change
    \/ \E k \in Keys : Deliver(k) \/ \E d \in Decisions : Decide(k, d)
    \/ \E K \in SUBSET Keys : Slip(K)

Spec == Init /\ [][Next]_vars
=============================================================================
