------------------------------ MODULE Process -------------------------------
(***************************************************************************)
(* One process of the service with everything in memory, as it runs        *)
(* without KAFKA_BROKERS, DB_URL and PAYLOAD_BUCKET's credentials: built   *)
(* from its policy file, consuming from the in-memory feed, serving HTTP,  *)
(* and shut down gracefully.  Goroutines: the callers of Enqueue and Stop, *)
(* the consumer, the anchor loop, HTTP handlers (redaction reload, reading *)
(* an event) and the one that runs Shutdown.                               *)
(***************************************************************************)
EXTENDS Redaction, ObjectLock

CONSTANTS
    Messages,    \* what may be enqueued: [id, service, action, body]
    Documents,   \* policy documents an operator writes
    Callers,     \* goroutines that call Enqueue
    RetentionDays,    \* RETENTION_DAYS
    LegalHoldDefault, \* LEGAL_HOLD_DEFAULT
    Buffer,      \* the capacity of the feed: 256
    MaxAccepted, \* bound: messages accepted
    MaxEdits,    \* bound: edits of the policy file
    MaxReloads   \* bound: reloads

ASSUME ProcessAssumption ==
    /\ Buffer \in Nat \ {0}
    /\ RetentionDays \in Nat /\ LegalHoldDefault \in BOOLEAN
    /\ {MaxAccepted, MaxEdits, MaxReloads} \subseteq Nat

VARIABLES
    phase,       \* new, running, stopping, stopped, failed (not built), or dead:
                 \* killed by the Go runtime
    file,        \* the policy file: [state, doc, lines]
    policy,      \* the policy in force: [file, rules]; file is history
    loops,       \* background goroutines that run
    reload,      \* the reload in progress: [pc, policy]
    feed,        \* the channel
    closed,      \* whether Stop has closed it
    sending,     \* caller -> the message it is about to send; << >>: none
    accepted,    \* history: messages Enqueue has accepted, in order
    consumer,    \* select, apply, put, write, insert, or exited
    hand,        \* the message the consumer handles and what it has computed
    handled,     \* how many messages were committed
    objects,     \* bucket: id -> [body, by, of]; by, the file it was redacted under,
                 \* and of, the message it was in, are history
    index,       \* rows: id -> [redacted, payloadRef]
    deadLetters, \* ids in dead_letter
    edits,       \* edits so far
    reloads      \* reloads so far

serverVars == <<phase, loops, reload, reloads>>
policyVars == <<file, policy, edits>>
feedVars == <<feed, closed, sending, accepted>>
workVars == <<consumer, hand, handled, objects, index, deadLetters>>
vars == <<serverVars, policyVars, feedVars, workVars>>

NoHand == << >>

(* The states of the file: gone, unreadable, or the first lines of a       *)
(* document.                                                               *)
Absent == [state |-> "absent", doc |-> << >>, lines |-> 0]
Unreadable == [state |-> "unreadable", doc |-> << >>, lines |-> 0]
Written(doc, n) == [state |-> "written", doc |-> doc, lines |-> n]
Complete(doc) == Written(doc, Len(Render(doc)))

(* LoadFile: an absent file is a policy without rules, and whatever part   *)
(* of a document is there is parsed without complaint.                     *)
Load(f) == [file |-> f, rules |-> Parse(SubSeq(Render(f.doc), 1, f.lines))]

NoReload == [pc |-> "idle", policy |-> Load(Absent)]

Alive == phase \in {"running", "stopping"}

(* Whether an object is protected once it is put; retention, when there is *)
(* one, outlasts the process (in module Retention it ends).                *)
RetainedAtPut == Locks(RetentionDays, LegalHoldDefault)

-----------------------------------------------------------------------------
Init ==
    /\ phase = "new"
    /\ file \in {Absent, Unreadable} \cup {Complete(d) : d \in Documents}
    /\ policy = Load(Absent)
    /\ loops = {}
    /\ reload = NoReload
    /\ feed = << >> /\ closed = FALSE
    /\ sending = [c \in Callers |-> << >>]
    /\ accepted = << >>
    /\ consumer = "select" /\ hand = NoHand /\ handled = 0
    /\ objects = [i \in {} |-> {}] /\ index = [i \in {} |-> {}] /\ deadLetters = {}
    /\ edits = 0 /\ reloads = 0

(* Build and Run: the process does not start on a policy it cannot read.   *)
Start ==
    /\ phase = "new"
    /\ IF file = Unreadable
       THEN phase' = "failed" /\ UNCHANGED <<policy, loops>>
       ELSE phase' = "running" /\ policy' = Load(file) /\ loops' = {"consumer", "anchor"}
    /\ UNCHANGED <<reload, reloads, file, edits, feedVars, workVars>>

(* The operator writes a document, or some more of it, while the process   *)
(* serves: a reader may see it before it is all there.                     *)
EditPolicy(doc) ==
    /\ phase = "running"
    /\ edits < MaxEdits
    /\ edits' = edits + 1
    /\ \E n \in 0..Len(Render(doc)) : file' = Written(doc, n)
    /\ UNCHANGED <<policy, serverVars, feedVars, workVars>>

(* POST /v1/admin/redaction/reload: the file is read, then the policy      *)
(* swapped under the lock.  An unreadable file changes nothing.            *)
ReloadRead ==
    /\ phase = "running"
    /\ reload.pc = "idle"
    /\ reloads < MaxReloads
    /\ file # Unreadable
    /\ reload' = [pc |-> "read", policy |-> Load(file)]
    /\ reloads' = reloads + 1
    /\ UNCHANGED <<phase, loops, policyVars, feedVars, workVars>>

(* Mutant of ReloadSwap: the rules in force before stay in front. *)
ReloadAppends ==
    /\ Alive
    /\ reload.pc = "read"
    /\ policy' = [reload.policy EXCEPT !.rules = policy.rules \o @]
    /\ reload' = NoReload
    /\ UNCHANGED <<phase, loops, reloads, file, edits, feedVars, workVars>>

ReloadSwap ==
    /\ Alive
    /\ reload.pc = "read"
    /\ policy' = reload.policy
    /\ reload' = NoReload
    /\ UNCHANGED <<phase, loops, reloads, file, edits, feedVars, workVars>>

(* GET /v1/events/{id} of a row with a payload looks its key up in the     *)
(* bucket's map, which has no lock: when the consumer writes the map at    *)
(* that moment, the runtime may notice and end the process.                *)
ReadDuringWrite ==
    /\ Alive
    /\ consumer = "write"
    /\ DOMAIN index \cap DOMAIN objects # {}
    /\ phase' = "dead"
    /\ UNCHANGED <<loops, reload, reloads, policyVars, feedVars, workVars>>

-----------------------------------------------------------------------------
(* The feed.  Enqueue looks at the stopped flag under the lock and sends   *)
(* after it has let go of it.                                              *)

EnqueueCheck(c, m) ==
    /\ Alive
    /\ sending[c] = << >>
    /\ Len(accepted) < MaxAccepted
    /\ ~closed
    /\ sending' = [sending EXCEPT ![c] = <<m>>]
    /\ UNCHANGED <<feed, closed, accepted, serverVars, policyVars, workVars>>

(* The message is accepted, or the feed is full and an error returned. *)
EnqueueSend(c) ==
    /\ Alive
    /\ sending[c] # << >>
    /\ ~closed
    /\ IF Len(feed) < Buffer
       THEN feed' = feed \o sending[c] /\ accepted' = accepted \o sending[c]
       ELSE UNCHANGED <<feed, accepted>>
    /\ sending' = [sending EXCEPT ![c] = << >>]
    /\ UNCHANGED <<closed, serverVars, policyVars, workVars>>

(* The channel was closed in between: the send panics. *)
EnqueuePanics(c) ==
    /\ Alive
    /\ sending[c] # << >>
    /\ closed
    /\ phase' = "dead"
    /\ UNCHANGED <<loops, reload, reloads, policyVars, feedVars, workVars>>

Stop ==
    /\ Alive
    /\ ~closed
    /\ closed' = TRUE
    /\ UNCHANGED <<feed, sending, accepted, serverVars, policyVars, workVars>>

-----------------------------------------------------------------------------
(* The consumer. *)

At(l) == Alive /\ "consumer" \in loops /\ consumer = l

(* The select of Run chooses at random among what is ready.                *)
Receive ==
    /\ At("select")
    /\ feed # << >>
    /\ feed' = Tail(feed)
    /\ hand' = <<[msg |-> Head(feed)]>>
    /\ consumer' = "apply"
    /\ UNCHANGED <<closed, sending, accepted, handled, objects, index, deadLetters,
                   serverVars, policyVars>>

Exit ==
    /\ loops' = loops \ {"consumer"}
    /\ consumer' = "exited"
    /\ UNCHANGED <<phase, reload, reloads, hand, handled, objects, index, deadLetters,
                   policyVars, feedVars>>

(* Mutant of ExitOnCancel: Run only ends when the feed is closed. *)
ExitWhenClosed == At("select") /\ phase # "running" /\ closed /\ Exit

ExitOnCancel == At("select") /\ phase # "running" /\ Exit

(* Mutant of ExitOnClose: what the feed still holds is left there. *)
ExitUndrained == At("select") /\ closed /\ Exit

ExitOnClose == At("select") /\ closed /\ feed = << >> /\ Exit

(* The handler has returned nil: the message is committed. *)
Commit ==
    /\ consumer' = "select"
    /\ hand' = NoHand
    /\ handled' = handled + 1

(* The policy in force is taken once and applied to the whole body.        *)
ApplyPolicy ==
    /\ At("apply")
    /\ LET m == hand[1].msg
           out == Apply(policy.rules, m.service, m.action, m.body)
       IN  IF out.ok
           THEN /\ hand' = <<[msg |-> m, body |-> out.body, redacted |-> out.changed,
                              by |-> policy.file]>>
                /\ consumer' = IF m.body = NoPayload THEN "insert" ELSE "put"
                /\ UNCHANGED <<handled, deadLetters>>
           ELSE Commit /\ deadLetters' = deadLetters \cup {m.id}
    /\ UNCHANGED <<objects, index, serverVars, policyVars, feedVars>>

(* Mutant of Put: the lock of the object that is there is not heeded. *)
PutAgain ==
    /\ At("put")
    /\ consumer' = "write" /\ UNCHANGED <<hand, handled>>
    /\ UNCHANGED <<objects, index, deadLetters, serverVars, policyVars, feedVars>>

(* The object there is replaced unless it is retained: then the pipeline   *)
(* gives up on the message.                                                *)
Put ==
    /\ At("put")
    /\ IF hand[1].msg.id \in DOMAIN objects /\ RetainedAtPut
       THEN Commit
       ELSE consumer' = "write" /\ UNCHANGED <<hand, handled>>
    /\ UNCHANGED <<objects, index, deadLetters, serverVars, policyVars, feedVars>>

Write ==
    /\ At("write")
    /\ objects' = [i \in DOMAIN objects \cup {hand[1].msg.id} |->
          IF i = hand[1].msg.id
          THEN [body |-> hand[1].body, by |-> hand[1].by, of |-> hand[1].msg]
          ELSE objects[i]]
    /\ consumer' = "insert"
    /\ UNCHANGED <<hand, handled, index, deadLetters, serverVars, policyVars, feedVars>>

InsertRow ==
    /\ At("insert")
    /\ LET m == hand[1].msg IN
          index' = [i \in DOMAIN index \cup {m.id} |->
              IF i \in DOMAIN index THEN index[i]
              ELSE [redacted |-> hand[1].redacted, payloadRef |-> m.body # NoPayload]]
    /\ Commit
    /\ UNCHANGED <<objects, deadLetters, serverVars, policyVars, feedVars>>

ConsumerStep ==
    Receive \/ ExitOnCancel \/ ExitOnClose \/ ApplyPolicy \/ Put \/ Write \/ InsertRow

-----------------------------------------------------------------------------
(* Shutdown: the context is cancelled, the HTTP server waits for its       *)
(* handlers (for five seconds), then the goroutines are waited for.        *)

ShutdownCancel ==
    /\ phase = "running"
    /\ phase' = "stopping"
    /\ UNCHANGED <<loops, reload, reloads, policyVars, feedVars, workVars>>

AnchorLoopEnds ==
    /\ phase = "stopping"
    /\ "anchor" \in loops
    /\ loops' = loops \ {"anchor"}
    /\ UNCHANGED <<phase, reload, reloads, policyVars, feedVars, workVars>>

(* Mutant of ShutdownReturns: the goroutines are not waited for. *)
ReturnsAtOnce ==
    /\ phase = "stopping"
    /\ phase' = "stopped"
    /\ UNCHANGED <<loops, reload, reloads, policyVars, feedVars, workVars>>

(* HTTP handlers may still be running: they are waited for no longer than  *)
(* five seconds.                                                           *)
ShutdownReturns ==
    /\ phase = "stopping"
    /\ loops = {}
    /\ phase' = "stopped"
    /\ UNCHANGED <<loops, reload, reloads, policyVars, feedVars, workVars>>

Shutdown == AnchorLoopEnds \/ ShutdownReturns

Next ==
    \/ Start \/ ReloadRead \/ ReloadSwap
    \/ ReadDuringWrite \/ Stop
    \/ \E doc \in Documents : EditPolicy(doc)
    \/ \E c \in Callers : EnqueueSend(c) \/ EnqueuePanics(c) \/ \E m \in Messages : EnqueueCheck(c, m)
    \/ ConsumerStep \/ ShutdownCancel \/ Shutdown

ProcessSpec == Init /\ [][Next]_vars

(* The goroutines that can go on do, and the random choice of select does  *)
(* not pass over a cancelled context for ever.                             *)
ProcessFairness ==
    /\ WF_vars(ConsumerStep)
    /\ SF_vars(ExitOnCancel)
    /\ WF_vars(Shutdown)

ProcessFairSpec == ProcessSpec /\ ProcessFairness

-----------------------------------------------------------------------------
(* What a document asks to be stored for message m. *)
Documented(doc, m) ==
    LET asked == [k \in DOMAIN m.body |-> Asked(doc, m.service, m.action, k)]
    IN  [k \in {n \in DOMAIN m.body : asked[n] # "drop"} |-> Transformed(asked[k], m.body[k])]

(* What the parser makes of a whole document it understands stores every   *)
(* message as the document asks.                                           *)
ParsedAsDocumented ==
    \A doc \in Documents, m \in Messages :
        LET out == Apply(Load(Complete(doc)).rules, m.service, m.action, m.body)
        IN  Understood(doc) /\ m.body # NoPayload /\ out.ok => out.body = Documented(doc, m)

(* Whatever is edited and reloaded meanwhile, a stored payload is exactly  *)
(* what one document asked for, when a document the parser understands was *)
(* all in the file.                                                        *)
StoredAsDocumented ==
    \A i \in DOMAIN objects :
        LET o == objects[i] IN
        o.by = Complete(o.by.doc) /\ Understood(o.by.doc) => o.body = Documented(o.by.doc, o.of)

(* A row with a payload says redacted exactly when the payload in the      *)
(* bucket is not the one that was sent, although row and payload may come  *)
(* from deliveries of one id that met different policies.  This rests on   *)
(* RetainedAtPut: an object that is not protected is replaced under a row  *)
(* that stays.                                                             *)
RedactedTells ==
    \A i \in DOMAIN index :
        index[i].payloadRef =>
            /\ i \in DOMAIN objects
            /\ index[i].redacted <=> objects[i].body # objects[i].of.body

(* A field the document in force asks to hash or to drop is never stored   *)
(* as it was sent: names match in any case.                                *)
NoNamedFieldInClear ==
    \A i \in DOMAIN objects :
        LET o == objects[i] IN
        o.by = Complete(o.by.doc) =>
            \A k \in DOMAIN o.body :
                Asked(o.by.doc, o.of.service, o.of.action, k) \in {"hash", "drop"}
                    => o.body[k] # o.of.body[k]

(* Every message the feed has accepted is in the index or in dead_letter,  *)
(* or still in the feed; a process that was shut down leaves none half     *)
(* handled, whenever the shutdown came.                                    *)
Accounted ==
    \A n \in 1..Len(accepted) :
        \/ n <= handled /\ accepted[n].id \in DOMAIN index \cup deadLetters
        \/ n > Len(accepted) - Len(feed)
        \/ n = handled + 1 /\ hand # NoHand /\ phase # "stopped"

(* Every accepted message is in the end handled, after Stop too, as long   *)
(* as the process is not shut down and no race kills it.                   *)
AcceptedIsHandled ==
    \A n \in 1..MaxAccepted : Len(accepted) >= n ~> handled >= n \/ phase # "running"

(* A shutdown comes to its end. *)
ShutdownEnds == phase = "stopping" ~> phase \in {"stopped", "dead"}
=============================================================================
