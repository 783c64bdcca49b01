---------------------------- MODULE AppendOnlyLog ----------------------------
(***************************************************************************)
(* What the rest of the system may rely on about the event store, as the   *)
(* comments of store.EventStore state it: rows are only added, one per id; *)
(* the chain-relevant columns of a row never change afterwards; of the     *)
(* flags, anchored is only ever set.  A new row links to the genesis value *)
(* or to a row that is already in the log.                                 *)
(***************************************************************************)
CONSTANTS Ids,      \* event ids
          Genesis   \* the prev_hash of the first row

VARIABLES log,      \* id -> the chain-relevant columns of its row
          anchored  \* ids of the anchored rows

vars == <<log, anchored>>

Hashes == {Genesis} \cup {log[i].thisHash : i \in DOMAIN log}

Init == DOMAIN log = {} /\ anchored = {}

(* A row for id, which has none yet. *)
Append(id) ==
    /\ id \notin DOMAIN log
    /\ DOMAIN log' = DOMAIN log \cup {id}
    /\ \A i \in DOMAIN log : log'[i] = log[i]
    /\ log'[id].prevHash \in Hashes
    /\ UNCHANGED anchored

(* Some rows of the log become anchored. *)
Anchor ==
    /\ anchored \subseteq anchored'
    /\ anchored' \subseteq DOMAIN log
    /\ UNCHANGED log

Next == Anchor \/ \E id \in Ids : Append(id)

Spec == Init /\ [][Next]_vars
=============================================================================
