--------------------------- MODULE MCAskRoundTrip ---------------------------
(* Instances of AskRoundTrip for TLC; the configurations say what operators, *)
(* harness and system do in each of them.                                    *)
EXTENDS AskRoundTrip, TLC

Renamed == Permutations(Reqs) \cup Permutations(Decisions)
=============================================================================
