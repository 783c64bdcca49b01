------------------------------ MODULE MCSweep -------------------------------
(* Instances of Sweep for TLC.                                             *)
EXTENDS Sweep

(* Two events with one timestamp, and services that interleave. *)
FourEvents == {[id |-> 1, ts |-> 1, fields |-> "transfer"], [id |-> 2, ts |-> 2, fields |-> "login"],
               [id |-> 3, ts |-> 2, fields |-> "transfer"], [id |-> 4, ts |-> 3, fields |-> "login"]}

ThreeEvents == {e \in FourEvents : e.id <= 3}

TwoWindows == {[from |-> 0, to |-> 0], [from |-> 2, to |-> 3]}
=============================================================================
