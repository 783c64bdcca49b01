------------------------------ MODULE LinearLog ------------------------------
(***************************************************************************)
(* The log as its readers picture it: a sequence of events that only grows *)
(* at its end, where each new event records the hash of the one before it. *)
(***************************************************************************)
EXTENDS Naturals, Sequences

CONSTANT Genesis   \* the prev hash of the first event

VARIABLE chain     \* sequence of [id, prev, this]

LastHash == IF chain = << >> THEN Genesis ELSE chain[Len(chain)].this

Init == chain = << >>

(* One event is appended: the new sequence extends the old by one element. *)
Extend ==
    /\ Len(chain') = Len(chain) + 1
    /\ SubSeq(chain', 1, Len(chain)) = chain
    /\ chain'[Len(chain')].prev = LastHash

Spec == Init /\ [][Extend]_chain
=============================================================================
