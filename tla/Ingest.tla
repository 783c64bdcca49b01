------------------------------- MODULE Ingest -------------------------------
(***************************************************************************)
(* The write path of the audit event log: producers append envelopes to    *)
(* the partitions of topic audit.v1; each instance of the service (a       *)
(* worker) runs one consumer goroutine of the consumer group, which reads  *)
(* a message, takes it through the ingest pipeline (decode, payload hash,  *)
(* redaction, chain head, payload to S3, row to the index) and commits its *)
(* offset.  The index, the payload bucket and the dead-letter table are    *)
(* shared by all workers; a worker's steps between two calls to them       *)
(* interleave freely with the steps of the others.                         *)
(***************************************************************************)
EXTENDS HashChain, ObjectLock, Sequences, FiniteSets

CONSTANTS
    Workers,           \* instances of the service
    Partitions,        \* partitions of the topic
    Envelopes,         \* what producers may send: [valid, id, ts, fields, body, hash]
    NoBody,            \* the body of an envelope without payload
    Sensitive,         \* bodies a matching redaction rule changes
    Opaque,            \* bodies that are JSON but not an object
    Policies,          \* redaction policies: the sets of fields their rules match
    RetentionDays,     \* RETENTION_DAYS
    LegalHoldDefault,  \* LEGAL_HOLD_DEFAULT
    TsResolution,      \* what the ts column keeps: a multiple of this many units
    Ordered,           \* producers publish in (ts, id) order within a partition
    MaxMessages,       \* bound: messages per partition
    MaxFaults          \* bound: crashes and failed calls

ASSUME IngestAssumption ==
    /\ Workers # {} /\ Partitions # {}
    /\ \A m \in Envelopes : m.valid \in BOOLEAN /\ m.id \in Nat /\ m.ts \in Nat
    /\ RetentionDays \in Nat /\ LegalHoldDefault \in BOOLEAN
    /\ TsResolution \in Nat \ {0}
    /\ Ordered \in BOOLEAN
    /\ MaxMessages \in Nat /\ MaxFaults \in Nat
    /\ Policies # {}

VARIABLES
    \* Kafka
    topic,        \* partition -> sequence of envelopes
    committed,    \* partition -> committed offset (the number of messages before it)
    owner,        \* partition -> worker it is assigned to
    position,     \* partition -> offset its owner reads next
    \* each worker: its consumer goroutine and its redaction policy
    pc,           \* idle, decode, head, put, insert, ack, stopped or down
    job,          \* the message it handles and what the pipeline has computed
    policy,       \* the redaction policy it has loaded
    \* stores
    index,        \* audit_events
    objects,      \* payload bucket: key (event id) -> body, whether redacted, and
                  \* whether it is under retention or legal hold
    deadLetters,  \* dead_letter rows
    \* environment
    faults        \* faults so far

kafkaVars == <<topic, committed, owner, position>>
workerVars == <<pc, job>>
storeVars == <<index, objects, deadLetters>>
vars == <<kafkaVars, workerVars, policy, storeVars, faults>>

-----------------------------------------------------------------------------
(* The message a worker handles.  off is one-based here: the message at    *)
(* offset off - 1; 0 when the worker handles none.                         *)

NoJob == [part |-> CHOOSE p \in Partitions : TRUE, off |-> 0,
          redacted |-> FALSE, prev |-> ZeroHash]

Msg(w) == topic[job[w].part][job[w].off]

Running(w) == pc[w] \notin {"stopped", "down"}

Handling(w) == pc[w] \in {"decode", "head", "put", "insert", "ack"}

(* The column keeps ts to TsResolution: a microsecond in Postgres, while   *)
(* the hash covers nanoseconds.                                            *)
StoredTS(ts) == ts - (ts % TsResolution)

(* Why the pipeline rejects m under policy pol, in the order it checks;    *)
(* "none" when it does not.                                                *)
Rejection(m, pol) ==
    IF ~m.valid THEN "decode"
    ELSE IF m.body # NoBody /\ m.hash # HashPayload(m.body) THEN "payload_hash mismatch"
    ELSE IF m.fields \in pol /\ m.body \in Opaque THEN "redaction"
    ELSE IF m.hash[1] # "sha256" THEN "payload_hash format"
    ELSE "none"

(* Whether redaction changes the body of m under policy pol. *)
Redacts(m, pol) == m.fields \in pol /\ m.body \in Sensitive

(* Mutant of RetainedAtPut: only a legal hold protects an object. *)
HoldOnly == LegalHoldDefault

(* Whether an object may not be replaced once it is put.  Here retention,  *)
(* when there is one, outlasts every behaviour; in Retention it ends.      *)
RetainedAtPut == Locks(RetentionDays, LegalHoldDefault)

(* The row the pipeline builds for message m, read back from the store. *)
NewRow(m, redacted, prev) ==
    [ts |-> StoredTS(m.ts), fields |-> m.fields, payloadHash |-> m.hash,
     payloadRef |-> m.body # NoBody, prevHash |-> prev,
     thisHash |-> CanonicalHash(m.id, m.ts, m.fields, m.hash, prev),
     anchored |-> FALSE, legalHold |-> LegalHoldDefault, redacted |-> redacted]

(* Mutant of HeadHash: the genesis value for the second row as well. *)
HeadHashOffByOne ==
    IF Cardinality(DOMAIN index) <= 1 THEN ZeroHash ELSE index[ChainHead(index)].thisHash

HeadHash == IF DOMAIN index = {} THEN ZeroHash ELSE index[ChainHead(index)].thisHash

(* A call to a store fails: one more fault. *)
Fault == faults < MaxFaults /\ faults' = faults + 1

Goto(w, l) == pc' = [pc EXCEPT ![w] = l]

-----------------------------------------------------------------------------
Init ==
    /\ topic = [p \in Partitions |-> << >>]
    /\ committed = [p \in Partitions |-> 0]
    /\ position = [p \in Partitions |-> 0]
    /\ owner \in [Partitions -> Workers]
    /\ pc = [w \in Workers |-> "idle"]
    /\ job = [w \in Workers |-> NoJob]
    /\ policy \in [Workers -> Policies]
    /\ index = EmptyIndex
    /\ objects = [k \in {} |-> {}]
    /\ deadLetters = {}
    /\ faults = 0

(* A producer publishes m, for the first time or again.  Ordered producers *)
(* publish no event listed before one already in the partition.            *)
Produce(p, m) ==
    /\ Len(topic[p]) < MaxMessages
    /\ Ordered /\ m.valid =>
          \A o \in 1..Len(topic[p]) :
              topic[p][o].valid => NotLater(topic[p][o].ts, topic[p][o].id, m.ts, m.id)
    /\ topic' = [topic EXCEPT ![p] = Append(@, m)]
    /\ UNCHANGED <<committed, owner, position, workerVars, policy, storeVars, faults>>

(* Mutant of Rebalance: the new owner resumes at the end of the partition. *)
RebalanceToLatest(p, w) ==
    /\ owner[p] # w
    /\ pc[w] # "down"
    /\ owner' = [owner EXCEPT ![p] = w]
    /\ position' = [position EXCEPT ![p] = Len(topic[p])]
    /\ UNCHANGED <<topic, committed, workerVars, policy, storeVars, faults>>

(* The group reassigns p; its new owner resumes at the committed offset.   *)
(* The old owner may still be handling a message of p.                     *)
Rebalance(p, w) ==
    /\ owner[p] # w
    /\ pc[w] # "down"
    /\ owner' = [owner EXCEPT ![p] = w]
    /\ position' = [position EXCEPT ![p] = committed[p]]
    /\ UNCHANGED <<topic, committed, workerVars, policy, storeVars, faults>>

(* ReadMessage: in a consumer group it commits the offset of the message   *)
(* before it returns it.                                                   *)
ReadMessage(w, p) ==
    /\ pc[w] = "idle"
    /\ owner[p] = w
    /\ position[p] < Len(topic[p])
    /\ position' = [position EXCEPT ![p] = @ + 1]
    /\ committed' = [committed EXCEPT ![p] = position[p] + 1]
    /\ job' = [job EXCEPT ![w] =
          [part |-> p, off |-> position[p] + 1, redacted |-> FALSE, prev |-> ZeroHash]]
    /\ Goto(w, "decode")
    /\ UNCHANGED <<topic, owner, policy, storeVars, faults>>

(* ReadMessage returns an error: reading, or committing what was read,     *)
(* failed, and the commit may have reached the broker all the same.  Run   *)
(* returns and the goroutine ends for good; the reader stays in the group. *)
ReadFails(w, p) ==
    /\ pc[w] = "idle"
    /\ owner[p] = w
    /\ Fault
    /\ \/ UNCHANGED committed
       \/ /\ position[p] < Len(topic[p])
          /\ committed' = [committed EXCEPT ![p] = position[p] + 1]
    /\ Goto(w, "stopped")
    /\ UNCHANGED <<topic, owner, position, job, policy, storeVars>>

(* Mutant of Reject: nothing is recorded. *)
RejectSilently(w) ==
    /\ pc[w] = "decode"
    /\ Rejection(Msg(w), policy[w]) # "none"
    /\ Goto(w, "ack")
    /\ UNCHANGED <<kafkaVars, job, policy, storeVars, faults>>

(* The message is rejected and recorded in the dead-letter table. *)
Reject(w) ==
    /\ pc[w] = "decode"
    /\ Rejection(Msg(w), policy[w]) # "none"
    /\ deadLetters' = deadLetters \cup
          {[part |-> job[w].part, off |-> job[w].off, reason |-> Rejection(Msg(w), policy[w])]}
    /\ Goto(w, "ack")
    /\ UNCHANGED <<kafkaVars, job, policy, index, objects, faults>>

(* Append fails; deadLetter ignores the error. *)
RejectUnrecorded(w) ==
    /\ pc[w] = "decode"
    /\ Rejection(Msg(w), policy[w]) # "none"
    /\ Fault
    /\ Goto(w, "ack")
    /\ UNCHANGED <<kafkaVars, job, policy, storeVars>>

(* The message is decoded, its payload hash checked and its body redacted. *)
Accept(w) ==
    /\ pc[w] = "decode"
    /\ Rejection(Msg(w), policy[w]) = "none"
    /\ job' = [job EXCEPT ![w].redacted = Redacts(Msg(w), policy[w])]
    /\ Goto(w, "head")
    /\ UNCHANGED <<kafkaVars, policy, storeVars, faults>>

ReadHead(w) ==
    /\ pc[w] = "head"
    /\ job' = [job EXCEPT ![w].prev = HeadHash]
    /\ Goto(w, IF Msg(w).body # NoBody THEN "put" ELSE "insert")
    /\ UNCHANGED <<kafkaVars, policy, storeVars, faults>>

(* ChainHead fails: the pipeline gives up, and nothing records the event. *)
ReadHeadFails(w) ==
    /\ pc[w] = "head"
    /\ Fault
    /\ Goto(w, "ack")
    /\ UNCHANGED <<kafkaVars, job, policy, storeVars>>

Store(w) ==
    objects' = [k \in DOMAIN objects \cup {Msg(w).id} |->
                   IF k = Msg(w).id THEN [body |-> Msg(w).body, redacted |-> job[w].redacted,
                                          retained |-> RetainedAtPut]
                                    ELSE objects[k]]

PutRefused(w) == Msg(w).id \in DOMAIN objects /\ objects[Msg(w).id].retained

(* The payload is written under the event id, before the index row. *)
PutPayload(w) ==
    /\ pc[w] = "put"
    /\ ~PutRefused(w)
    /\ Store(w)
    /\ Goto(w, "insert")
    /\ UNCHANGED <<kafkaVars, job, policy, index, deadLetters, faults>>

(* Mutant of PutIsRefused: the put is retried until it succeeds. *)
PutIsRetried(w) ==
    /\ pc[w] = "put"
    /\ PutRefused(w)
    /\ UNCHANGED vars

(* ErrRetentionActive: the pipeline gives up on the event. *)
PutIsRefused(w) ==
    /\ pc[w] = "put"
    /\ PutRefused(w)
    /\ Goto(w, "ack")
    /\ UNCHANGED <<kafkaVars, job, policy, storeVars, faults>>

(* Put fails, before or after the bucket stored the object. *)
PutFails(w) ==
    /\ pc[w] = "put"
    /\ Fault
    /\ \/ UNCHANGED objects
       \/ ~PutRefused(w) /\ Store(w)
    /\ Goto(w, "ack")
    /\ UNCHANGED <<kafkaVars, job, policy, index, deadLetters>>

Index(w) ==
    index' = Insert(index, Msg(w).id, NewRow(Msg(w), job[w].redacted, job[w].prev))

(* The row is inserted, or the id is already there. *)
InsertRow(w) ==
    /\ pc[w] = "insert"
    /\ Index(w)
    /\ Goto(w, "ack")
    /\ UNCHANGED <<kafkaVars, job, policy, objects, deadLetters, faults>>

(* Insert fails, before or after the database committed the row. *)
InsertFails(w) ==
    /\ pc[w] = "insert"
    /\ Fault
    /\ UNCHANGED index \/ Index(w)
    /\ Goto(w, "ack")
    /\ UNCHANGED <<kafkaVars, job, policy, objects, deadLetters>>

(* Mutant of Ack: the offset of the next message is committed, as a client *)
(* must that commits offsets and not messages.                             *)
AckOffByOne(w) ==
    /\ pc[w] = "ack"
    /\ \/ committed' = [committed EXCEPT ![job[w].part] = job[w].off + 1]
       \/ UNCHANGED committed
    /\ job' = [job EXCEPT ![w] = NoJob]
    /\ Goto(w, "idle")
    /\ UNCHANGED <<topic, owner, position, policy, storeVars, faults>>

(* The handler has returned nil whatever happened; CommitMessages commits  *)
(* the offset of this message once more.  The broker may refuse (a new     *)
(* generation); it does not check that the offset goes forward.            *)
Ack(w) ==
    /\ pc[w] = "ack"
    /\ \/ committed' = [committed EXCEPT ![job[w].part] = job[w].off]
       \/ UNCHANGED committed
    /\ job' = [job EXCEPT ![w] = NoJob]
    /\ Goto(w, "idle")
    /\ UNCHANGED <<topic, owner, position, policy, storeVars, faults>>

(* The process dies: what it was handling is forgotten. *)
Crash(w) ==
    /\ pc[w] # "down"
    /\ Fault
    /\ Goto(w, "down")
    /\ job' = [job EXCEPT ![w] = NoJob]
    /\ UNCHANGED <<kafkaVars, policy, storeVars>>

(* A new process takes its place, loads the policy file as it is now and   *)
(* joins the group again.                                                  *)
Restart(w) ==
    /\ pc[w] = "down"
    /\ Goto(w, "idle")
    /\ \E pol \in Policies : policy' = [policy EXCEPT ![w] = pol]
    /\ position' = [p \in Partitions |-> IF owner[p] = w THEN committed[p] ELSE position[p]]
    /\ UNCHANGED <<topic, committed, owner, job, storeVars, faults>>

(* POST /v1/admin/redaction/reload, at one instance. *)
ReloadPolicy(w) ==
    /\ pc[w] # "down"
    /\ \E pol \in Policies \ {policy[w]} : policy' = [policy EXCEPT ![w] = pol]
    /\ UNCHANGED <<kafkaVars, workerVars, storeVars, faults>>

(* What the goroutine of w does by itself while every call succeeds. *)
Work(w) ==
    \/ Reject(w) \/ Accept(w) \/ ReadHead(w) \/ PutPayload(w) \/ PutIsRefused(w)
    \/ InsertRow(w) \/ Ack(w)

Fail(w) ==
    \/ RejectUnrecorded(w) \/ ReadHeadFails(w) \/ PutFails(w) \/ InsertFails(w)

(* Every step but a crash, which takes down all that runs in the process. *)
Step ==
    \/ \E p \in Partitions, m \in Envelopes : Produce(p, m)
    \/ \E p \in Partitions, w \in Workers : Rebalance(p, w) \/ ReadMessage(w, p) \/ ReadFails(w, p)
    \/ \E w \in Workers : Work(w) \/ Fail(w) \/ Restart(w) \/ ReloadPolicy(w)

Next == Step \/ \E w \in Workers : Crash(w)

Spec == Init /\ [][Next]_vars

(* A goroutine that can go on does, and a partition with a message to read *)
(* and a consumer waiting for it is read.  Nothing obliges producers to    *)
(* send, calls to fail, a dead process to come back or the group to        *)
(* rebalance.                                                              *)
Fairness ==
    /\ \A w \in Workers : WF_vars(Work(w))
    /\ \A p \in Partitions : WF_vars(\E w \in Workers : ReadMessage(w, p))

FairSpec == Spec /\ Fairness

-----------------------------------------------------------------------------
(* Types.  The sets of hashes are those a state holds: SHA-256 values have *)
(* no type of their own in the model.                                      *)

KnownHashes == {ZeroHash} \cup {index[i].thisHash : i \in DOMAIN index}

HeldHashes == KnownHashes \cup {index[i].prevHash : i \in DOMAIN index}
                          \cup {job[w].prev : w \in Workers}

Ids == {m.id : m \in Envelopes}

Row(hashes) ==
    [ts : Nat, fields : {m.fields : m \in Envelopes},
     payloadHash : {m.hash : m \in Envelopes}, payloadRef : BOOLEAN,
     prevHash : hashes, thisHash : hashes,
     anchored : BOOLEAN, legalHold : BOOLEAN, redacted : BOOLEAN]

KafkaTypes ==
    /\ topic \in [Partitions -> Seq(Envelopes)]
    /\ owner \in [Partitions -> Workers]
    /\ committed \in [Partitions -> Nat]
    /\ position \in [Partitions -> Nat]
    /\ \A p \in Partitions : committed[p] <= Len(topic[p]) /\ position[p] <= Len(topic[p])

WorkerTypes(hashes) ==
    /\ pc \in [Workers -> {"idle", "decode", "head", "put", "insert", "ack", "stopped", "down"}]
    /\ job \in [Workers -> [part : Partitions, off : Nat, redacted : BOOLEAN, prev : hashes]]
    /\ \A w \in Workers :
          /\ job[w].off <= Len(topic[job[w].part])
          /\ Handling(w) <=> job[w].off # 0
    /\ policy \in [Workers -> Policies]

IndexTypes(hashes) ==
    /\ DOMAIN index \subseteq Ids
    /\ index \in [DOMAIN index -> Row(hashes)]

StoreTypes ==
    /\ DOMAIN objects \subseteq Ids
    /\ objects \in [DOMAIN objects -> [body : {m.body : m \in Envelopes},
                                       redacted : BOOLEAN, retained : BOOLEAN]]
    /\ deadLetters \subseteq [part : Partitions, off : Nat,
                              reason : {"decode", "payload_hash mismatch", "redaction",
                                        "payload_hash format"}]
    /\ faults \in 0..MaxFaults

TypeInv(hashes) ==
    KafkaTypes /\ WorkerTypes(hashes) /\ IndexTypes(hashes) /\ StoreTypes

(* Every variable has its type; offsets stay within their partition and a  *)
(* worker has a message exactly while it handles one.                      *)
TypeOK == TypeInv(HeldHashes)

-----------------------------------------------------------------------------
(* Properties.                                                             *)

(* A full walk of the index in (ts, id) order recomputes every this_hash   *)
(* and finds each row linked to the one before it (chain.VerifyChain would *)
(* report ok): what an untampered log looks like.                          *)
ChainIntact == Linked(index)

(* Every stored this_hash can be recomputed from the row as it is stored.  *)
HashesRecompute == \A i \in DOMAIN index : EventHash(i, index[i]) = index[i].thisHash

(* However the workers interleave and fail, every row links to the genesis *)
(* value or to a row the index holds.                                      *)
NoDanglingPrev == \A i \in DOMAIN index : index[i].prevHash \in KnownHashes

(* The columns of a row that never change after insert. *)
Columns(row) ==
    [ts |-> row.ts, fields |-> row.fields, payloadHash |-> row.payloadHash,
     payloadRef |-> row.payloadRef, prevHash |-> row.prevHash, thisHash |-> row.thisHash,
     redacted |-> row.redacted]

Log == INSTANCE AppendOnlyLog
           WITH Genesis <- ZeroHash,
                log <- [i \in DOMAIN index |-> Columns(index[i])],
                anchored <- {i \in DOMAIN index : index[i].anchored}

(* The index implements the append-only log store.EventStore promises,     *)
(* whatever the workers interleave, redeliver and lose.                    *)
ImplementsLog == Log!Spec

(* The events whose offset is committed, that no worker is handling any    *)
(* more and that are neither in the index nor in the dead-letter table.    *)
LostIds ==
    (UNION {{topic[p][o].id : o \in {n \in 1..committed[p] :
                ~\E d \in deadLetters : d.part = p /\ d.off = n}} : p \in Partitions})
      \ (DOMAIN index \cup {Msg(w).id : w \in {v \in Workers : Handling(v)}})

(* The pipeline itself drops nothing: each event lost is lost to a fault   *)
(* of its own (a crash, or a failed call), whatever the workers interleave.*)
NoSilentLoss == Cardinality(LostIds) <= faults

(* At-least-once delivery: no committed event is ever missing.             *)
NothingLost == LostIds = {}

(* The payload row i refers to is in the bucket, it is the body whose hash *)
(* the row and the chain hold, and it is redacted exactly when the row     *)
(* says so.                                                                *)
Provable(i) ==
    index[i].payloadRef =>
        /\ i \in DOMAIN objects
        /\ index[i].payloadHash = HashPayload(objects[i].body)
        /\ index[i].redacted = objects[i].redacted

(* A redelivery the payload store turns away was already in the index: the *)
(* pipeline never gives up on an event because it tried it before.         *)
RefusedOnlyIfIndexed ==
    [][\A w \in Workers : PutIsRefused(w) => Msg(w).id \in DOMAIN index]_vars

InFlight(p, o) == \E w \in Workers : Handling(w) /\ job[w].part = p /\ job[w].off = o

(* Every message published is in the end read and handled to the end, or   *)
(* the consumer its partition is assigned to has stopped or died.          *)
EventuallyHandled ==
    \A p \in Partitions : \A o \in 1..MaxMessages :
        Len(topic[p]) >= o ~>
            \/ position[p] >= o /\ ~InFlight(p, o)
            \/ ~Running(owner[p])
=============================================================================
