------------------------------ MODULE MCIngest ------------------------------
(* Instances of Ingest for TLC: the constants the configurations choose.   *)
EXTENDS IngestLinear

(* A well-formed envelope of event id at time ts carrying body. *)
Env(id, ts, body) ==
    [valid |-> TRUE, id |-> id, ts |-> ts, fields |-> "transfer", body |-> body,
     hash |-> HashPayload(body)]

(* An event with no body: the producer supplies the hash alone. *)
HashOnly(id, ts) == [Env(id, ts, "plain") EXCEPT !.body = "none"]

(* Rejected envelopes, one for each check of the pipeline. *)
Undecodable(id) == [Env(id, 1, "plain") EXCEPT !.valid = FALSE]
Mismatched(id, ts) == [Env(id, ts, "plain") EXCEPT !.hash = HashPayload("other")]
Malformed(id, ts) == [HashOnly(id, ts) EXCEPT !.hash = <<"malformed">>]

SerialEnvelopes == {Env(2, 1, "pii"), HashOnly(1, 2), HashOnly(3, 2), Env(4, 3, "plain")}
TwoEnvelopes == {Env(1, 2, "pii"), HashOnly(2, 1)}
FleetEnvelopes == TwoEnvelopes \cup {Undecodable(3)}

(* Two events with one id, another with a payload, and one envelope for    *)
(* each check that rejects.                                                *)
MixedEnvelopes == {Env(1, 1, "pii"), Env(1, 2, "plain"), Env(2, 1, "pii"),
                   Undecodable(3), Mismatched(4, 1), Malformed(5, 1), Env(6, 1, "array")}
=============================================================================
