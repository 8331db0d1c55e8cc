---------------------------- MODULE MCEventFeed ----------------------------
(* An instance of EventFeed for TLC: one observer, prose and one other kind *)
(* of event.                                                               *)
EXTENDS EventFeed

MCKinds == {"assistant.delta", "turn.end"}
=============================================================================
