--------------------------- MODULE MC_ThreadPool ---------------------------
(* An instance of ThreadPool for TLC. *)
EXTENDS ThreadPool

TwoClients == {"c1", "c2"}
TwoWorkers == {"w1", "w2"}
OneInitial == {"w1"}
\* A client with a second frame and one with a single frame.
TwoAndOne == [c \in TwoClients |-> IF c = "c1" THEN 2 ELSE 1]
=============================================================================
