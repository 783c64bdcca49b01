----------------------------- MODULE MCProcess ------------------------------
(* Instances of Process for TLC.                                           *)
EXTENDS Process, TLC

Names == {"ssn", "SSN", "email", "action"}

Lower == [n \in Names |-> IF n = "SSN" THEN "ssn" ELSE n]

DocRule(service, action, fields, serviceFirst) ==
    [service |-> service, action |-> action, fields |-> fields, serviceFirst |-> serviceFirst]

(* Two rules that overlap, the first a special case of the second. *)
Layered == <<DocRule("orch", "transfer", "ssn" :> "mask", TRUE),
             DocRule("*", "*", "ssn" :> "drop" @@ "email" :> "hash", TRUE)>>

(* A rule that does not begin with its service and misspells a transform,  *)
(* and one for a field the parser takes for the action of the rule.        *)
Misread == <<DocRule("orch", "*", "email" :> "hash", TRUE),
             DocRule("*", "*", "ssn" :> "msak", FALSE),
             DocRule("*", "login", "action" :> "drop", TRUE)>>

Shouted == <<DocRule("*", "*", "SSN" :> "drop", TRUE)>>

TwoDocuments == {Layered, Misread}

CONSTANTS none, text, empty, array

Message(id, service, action, body) ==
    [id |-> id, service |-> service, action |-> action, body |-> body]

Transfer == Message(1, "orch", "transfer", "SSN" :> text @@ "email" :> text)
Login == Message(2, "orch", "login", "ssn" :> empty @@ "email" :> text)
Batch == Message(3, "orch", "transfer", array)
Bare == Message(1, "orch", "login", none)

FourMessages == {Transfer, Login, Batch, Bare}

ShoutedOnly == {Shouted}

OneMessage == {Transfer}

(* The parser understands the documents of these instances as they are     *)
(* meant: what the theorem about StoredAsDocumented starts from.           *)
ASSUME ParserAssumption == ParsedAsDocumented
=============================================================================
