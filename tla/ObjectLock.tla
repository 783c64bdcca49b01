----------------------------- MODULE ObjectLock ------------------------------
(***************************************************************************)
(* What protects an object of the payload and export buckets from being    *)
(* replaced or deleted: a legal hold, or a retention that is not over.  An *)
(* object put without either is simply overwritten by the next put.        *)
(***************************************************************************)
EXTENDS Integers

(* The first number of days a Duration cannot hold: 2^63 nanoseconds and   *)
(* a few minutes more.                                                     *)
DurationDays == 106752

(* How long a retention of n days lasts: the expiry is computed in a       *)
(* Duration, which wraps round.                                            *)
Lasting(n) == ((n + DurationDays) % (2 * DurationDays)) - DurationDays

(* Whether an object put with a retention of this many days, under hold or *)
(* not, is protected from then on.                                         *)
Locks(days, hold) == hold \/ (days > 0 /\ Lasting(days) > 0)
=============================================================================
