---------------------------- MODULE MCRetention -----------------------------
(* Instances of Retention for TLC.                                         *)
EXTENDS Retention, MCIngest

OneEvent == {Env(1, 1, "plain")}
=============================================================================
