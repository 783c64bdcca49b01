----------------------------- MODULE MCExports ------------------------------
(* Instances of Exports for TLC.                                           *)
EXTENDS Exports, MCSweep

Select(from, to, fields) == [valid |-> TRUE, from |-> from, to |-> to, fields |-> fields]

(* Everything, a window, one service, and a query that is no JSON object.  *)
AllFilters == {Select(0, 0, AnyFields), Select(2, 3, AnyFields), Select(0, 0, "transfer"),
               [Select(0, 0, AnyFields) EXCEPT !.valid = FALSE]}
=============================================================================
