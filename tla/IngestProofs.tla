---------------------------- MODULE IngestProofs -----------------------------
(***************************************************************************)
(* What holds of Ingest for every number of workers, partitions, messages  *)
(* and faults, and every set of envelopes.                                 *)
(***************************************************************************)
EXTENDS Ingest, TLAPS

(***************************************************************************)
(* The order of rows is total, and inserting a row leaves the others alone *)
(***************************************************************************)

(* (ts, id) orders rows totally. *)
LEMMA OrderTotal ==
    ASSUME NEW t \in Nat, NEW i \in Nat, NEW u \in Nat, NEW j \in Nat
    PROVE  /\ NotLater(t, i, t, i)
           /\ NotLater(t, i, u, j) \/ NotLater(u, j, t, i)
           /\ NotLater(t, i, u, j) /\ NotLater(u, j, t, i) => t = u /\ i = j
BY DEF NotLater

(* (ts, id) orders rows transitively. *)
LEMMA OrderTransitive ==
    ASSUME NEW t \in Nat, NEW i \in Nat, NEW u \in Nat, NEW j \in Nat, NEW v \in Nat, NEW k \in Nat,
           NotLater(t, i, u, j), NotLater(u, j, v, k)
    PROVE  NotLater(t, i, v, k)
BY DEF NotLater

(* The column holds a timestamp whatever its resolution. *)
LEMMA StoredTSType ==
    ASSUME NEW ts \in Nat
    PROVE  StoredTS(ts) \in Nat
BY IngestAssumption DEF StoredTS

(* Insert adds at most one id and keeps every row there was. *)
LEMMA InsertKeeps ==
    ASSUME NEW ix, NEW id, NEW row
    PROVE  /\ DOMAIN Insert(ix, id, row) = DOMAIN ix \cup {id}
           /\ \A i \in DOMAIN ix : Insert(ix, id, row)[i] = ix[i]
           /\ id \notin DOMAIN ix => Insert(ix, id, row)[id] = row
BY DEF Insert

(***************************************************************************)
(* The inductive invariant.  Types alone are not inductive: that ChainHead *)
(* is a row needs HasHead (the rows have a last one), and that a worker    *)
(* carries a hash of the index, read at some earlier moment, needs that    *)
(* rows stay.                                                              *)
(***************************************************************************)
HasHead == DOMAIN index # {} => \E h \in DOMAIN index : IsHead(index, h)

IndInv == TypeInv(KnownHashes) /\ HasHead

USE IngestAssumption

(* An idle worker's job is well typed. *)
LEMMA NoJobType ==
    ASSUME NEW hashes, ZeroHash \in hashes
    PROVE  /\ NoJob \in [part : Partitions, off : Nat, redacted : BOOLEAN, prev : hashes]
           /\ NoJob.off = 0
           /\ NoJob.part \in Partitions
<1>1. (CHOOSE p \in Partitions : TRUE) \in Partitions
  BY DEF IngestAssumption
<1>. QED  BY <1>1 DEF NoJob

(* The initial states satisfy the invariant. *)
LEMMA InitIndInv == Init => IndInv
<1>. SUFFICES ASSUME Init PROVE IndInv
  OBVIOUS
<1>1. DOMAIN index = {}
  BY DEF Init, EmptyIndex
<1>2. KafkaTypes
  BY DEF Init, KafkaTypes
<1>3. WorkerTypes(KnownHashes)
  <2>1. \A w \in Workers : job[w] = NoJob /\ pc[w] = "idle"
    BY DEF Init
  <2>2. ZeroHash \in KnownHashes
    BY DEF KnownHashes
  <2>3. job \in [Workers -> [part : Partitions, off : Nat, redacted : BOOLEAN, prev : KnownHashes]]
    BY NoJobType, <2>2 DEF Init
  <2>4. \A w \in Workers : job[w].off = 0 /\ topic[job[w].part] = << >>
    BY NoJobType, <2>1, <2>2 DEF Init
  <2>. QED  BY <2>1, <2>3, <2>4 DEF Init, WorkerTypes, Handling
<1>4. IndexTypes(KnownHashes)
  BY <1>1 DEF Init, IndexTypes, EmptyIndex
<1>5. StoreTypes
  BY DEF Init, StoreTypes, IngestAssumption
<1>. QED  BY <1>1, <1>2, <1>3, <1>4, <1>5 DEF IndInv, TypeInv, HasHead

(* Steps that leave the index alone keep what it says. *)
LEMMA IndexUnchanged ==
    ASSUME UNCHANGED index, IndexTypes(KnownHashes), HasHead
    PROVE  KnownHashes' = KnownHashes /\ IndexTypes(KnownHashes)' /\ HasHead'
BY DEF KnownHashes, IndexTypes, HasHead, Row

(* Producing a message keeps the invariant. *)
LEMMA ProduceInv ==
    ASSUME IndInv, NEW p \in Partitions, NEW m \in Envelopes, Produce(p, m)
    PROVE  IndInv'
<1>. USE DEF IndInv, TypeInv
<1>1. KafkaTypes'
  BY DEF Produce, KafkaTypes
<1>2. KnownHashes' = KnownHashes /\ IndexTypes(KnownHashes)' /\ HasHead'
  BY IndexUnchanged DEF Produce, storeVars
<1>3. WorkerTypes(KnownHashes)'
  <2>1. \A q \in Partitions : Len(topic[q]) <= Len(topic'[q])
    BY DEF Produce, KafkaTypes
  <2>2. \A w \in Workers : job[w].part \in Partitions /\ job[w].off \in Nat
    BY DEF WorkerTypes
  <2>3. ASSUME NEW w \in Workers
        PROVE  job'[w].off <= Len(topic'[job'[w].part])
    <3>1. job' = job
      BY DEF Produce, workerVars
    <3>2. job[w].off <= Len(topic[job[w].part]) /\ Len(topic[job[w].part]) <= Len(topic'[job[w].part])
      BY <2>1, <2>2 DEF WorkerTypes
    <3>3. topic[job[w].part] \in Seq(Envelopes) /\ topic'[job[w].part] \in Seq(Envelopes)
      BY <2>2, <1>1 DEF KafkaTypes
    <3>4. Len(topic[job[w].part]) \in Nat /\ Len(topic'[job[w].part]) \in Nat
      BY <3>3
    <3>. QED  BY <2>2, <3>1, <3>2, <3>4
  <2>. QED  BY <2>3, <1>2 DEF WorkerTypes, Produce, workerVars, Handling
<1>4. StoreTypes'
  BY DEF Produce, StoreTypes, storeVars
<1>. QED  BY <1>1, <1>2, <1>3, <1>4

(***************************************************************************)
(* Steps of a worker.                                                      *)
(***************************************************************************)

(* The message a worker handles is an envelope of its partition. *)
LEMMA MsgType ==
    ASSUME KafkaTypes, WorkerTypes(KnownHashes), NEW w \in Workers, Handling(w)
    PROVE  /\ job[w].part \in Partitions
           /\ job[w].off \in 1..Len(topic[job[w].part])
           /\ Msg(w) \in Envelopes
<1>1. job[w].part \in Partitions /\ job[w].off \in Nat
  BY DEF WorkerTypes
<1>2. job[w].off # 0 /\ job[w].off <= Len(topic[job[w].part])
  BY DEF WorkerTypes
<1>3. topic[job[w].part] \in Seq(Envelopes)
  BY <1>1 DEF KafkaTypes
<1>4. job[w].off \in 1..Len(topic[job[w].part])
  BY <1>1, <1>2, <1>3
<1>. QED  BY <1>1, <1>3, <1>4 DEF Msg

(* A worker that goes on with its message stays well typed, when the index *)
(* loses no hash.                                                          *)
LEMMA StayHandling ==
    ASSUME WorkerTypes(KnownHashes), KnownHashes \subseteq KnownHashes',
           NEW w \in Workers, Handling(w),
           NEW l \in {"decode", "head", "put", "insert", "ack"}, Goto(w, l),
           UNCHANGED <<topic, job, policy>>
    PROVE  WorkerTypes(KnownHashes)'
<1>1. job' \in [Workers -> [part : Partitions, off : Nat, redacted : BOOLEAN, prev : KnownHashes']]
  <2>1. \A v \in Workers : job[v] \in [part : Partitions, off : Nat, redacted : BOOLEAN, prev : KnownHashes']
    BY DEF WorkerTypes
  <2>. QED  BY <2>1 DEF WorkerTypes
<1>2. \A v \in Workers : Handling(v)' <=> Handling(v)
  BY DEF WorkerTypes, Handling, Goto
<1>. QED  BY <1>1, <1>2 DEF WorkerTypes, Goto

(* A worker that drops its message, or has none, stays well typed. *)
LEMMA StopHandling ==
    ASSUME WorkerTypes(KnownHashes), KafkaTypes, KafkaTypes', KnownHashes' = KnownHashes,
           NEW w \in Workers, NEW l \in {"idle", "stopped", "down"}, Goto(w, l),
           UNCHANGED topic, policy' \in [Workers -> Policies],
           job' = [job EXCEPT ![w] = NoJob] \/ (job' = job /\ ~Handling(w))
    PROVE  WorkerTypes(KnownHashes)'
<1>1. ZeroHash \in KnownHashes
  BY DEF KnownHashes
<1>2. job' \in [Workers -> [part : Partitions, off : Nat, redacted : BOOLEAN, prev : KnownHashes]]
  BY <1>1, NoJobType DEF WorkerTypes
<1>3. job'[w].off = 0 /\ ~Handling(w)'
  BY <1>1, NoJobType DEF WorkerTypes, Handling, Goto
<1>4. \A v \in Workers \ {w} : job'[v] = job[v] /\ (Handling(v)' <=> Handling(v))
  BY DEF WorkerTypes, Handling, Goto
<1>5. Len(topic'[job'[w].part]) \in Nat
  <2>1. topic'[job'[w].part] \in Seq(Envelopes)
    BY <1>2 DEF KafkaTypes
  <2>. QED  BY <2>1
<1>6. \A v \in Workers : /\ job'[v].off <= Len(topic'[job'[v].part])
                         /\ Handling(v)' <=> job'[v].off # 0
  BY <1>3, <1>4, <1>5 DEF WorkerTypes
<1>7. pc' \in [Workers -> {"idle", "decode", "head", "put", "insert", "ack", "stopped", "down"}]
  BY DEF WorkerTypes, Goto
<1>. QED  BY <1>2, <1>6, <1>7 DEF WorkerTypes

(* A fault stays within the bound. *)
LEMMA FaultType ==
    ASSUME faults \in 0..MaxFaults, Fault
    PROVE  faults' \in 0..MaxFaults
<1>1. MaxFaults \in Nat
  BY DEF IngestAssumption
<1>. QED  BY <1>1 DEF Fault

(* Steps of Kafka: a rebalance moves a partition and rewinds it. *)
LEMMA RebalanceInv ==
    ASSUME IndInv, NEW p \in Partitions, NEW w \in Workers, Rebalance(p, w)
    PROVE  IndInv'
<1>. USE DEF IndInv, TypeInv
<1>1. KafkaTypes'
  BY DEF Rebalance, KafkaTypes
<1>2. KnownHashes' = KnownHashes /\ IndexTypes(KnownHashes)' /\ HasHead'
  BY IndexUnchanged DEF Rebalance, storeVars
<1>3. WorkerTypes(KnownHashes)'
  BY <1>2 DEF Rebalance, WorkerTypes, workerVars, Handling
<1>4. StoreTypes'
  BY DEF Rebalance, StoreTypes, storeVars
<1>. QED  BY <1>1, <1>2, <1>3, <1>4

(* Reading a message gives it to the worker and keeps the invariant. *)
LEMMA ReadMessageInv ==
    ASSUME IndInv, NEW w \in Workers, NEW p \in Partitions, ReadMessage(w, p)
    PROVE  IndInv'
<1>. USE DEF IndInv, TypeInv
<1>1. position[p] \in Nat /\ position[p] + 1 <= Len(topic[p])
  <2>1. topic[p] \in Seq(Envelopes)
    BY DEF KafkaTypes
  <2>. QED  BY <2>1 DEF KafkaTypes, ReadMessage
<1>2. KafkaTypes'
  BY <1>1 DEF ReadMessage, KafkaTypes
<1>3. KnownHashes' = KnownHashes /\ IndexTypes(KnownHashes)' /\ HasHead'
  BY IndexUnchanged DEF ReadMessage, storeVars
<1>4. WorkerTypes(KnownHashes)'
  <2>1. ZeroHash \in KnownHashes
    BY DEF KnownHashes
  <2>2. [part |-> p, off |-> position[p] + 1, redacted |-> FALSE, prev |-> ZeroHash]
           \in [part : Partitions, off : Nat, redacted : BOOLEAN, prev : KnownHashes]
    BY <1>1, <2>1
  <2>3. job' \in [Workers -> [part : Partitions, off : Nat, redacted : BOOLEAN, prev : KnownHashes]]
    BY <2>2 DEF ReadMessage, WorkerTypes
  <2>4. /\ job'[w].part = p /\ job'[w].off = position[p] + 1
        /\ pc'[w] = "decode"
    BY DEF ReadMessage, WorkerTypes, Goto
  <2>5. \A v \in Workers \ {w} : job'[v] = job[v] /\ pc'[v] = pc[v]
    BY DEF ReadMessage, WorkerTypes, Goto
  <2>6. topic' = topic /\ policy' = policy
    BY DEF ReadMessage
  <2>7. \A v \in Workers : /\ job'[v].off <= Len(topic'[job'[v].part])
                           /\ Handling(v)' <=> job'[v].off # 0
    BY <1>1, <2>4, <2>5, <2>6 DEF WorkerTypes, Handling
  <2>8. pc' \in [Workers -> {"idle", "decode", "head", "put", "insert", "ack", "stopped", "down"}]
    BY DEF WorkerTypes, Goto, ReadMessage
  <2>. QED  BY <1>3, <2>3, <2>6, <2>7, <2>8 DEF WorkerTypes
<1>5. StoreTypes'
  BY DEF ReadMessage, StoreTypes, storeVars
<1>. QED  BY <1>2, <1>3, <1>4, <1>5

(* A consumer that stops keeps the invariant. *)
LEMMA ReadFailsInv ==
    ASSUME IndInv, NEW w \in Workers, NEW p \in Partitions, ReadFails(w, p)
    PROVE  IndInv'
<1>. USE DEF IndInv, TypeInv
<1>1. topic[p] \in Seq(Envelopes) /\ position[p] \in Nat
  BY DEF KafkaTypes
<1>2. KafkaTypes'
  BY <1>1 DEF ReadFails, KafkaTypes
<1>3. KnownHashes' = KnownHashes /\ IndexTypes(KnownHashes)' /\ HasHead'
  BY IndexUnchanged DEF ReadFails, storeVars
<1>4. WorkerTypes(KnownHashes)'
  BY <1>2, <1>3, StopHandling DEF ReadFails, Handling, WorkerTypes
<1>5. StoreTypes'
  BY FaultType DEF ReadFails, StoreTypes, storeVars
<1>. QED  BY <1>2, <1>3, <1>4, <1>5

(* A rejected message keeps the invariant. *)
LEMMA RejectInv ==
    ASSUME IndInv, NEW w \in Workers, Reject(w)
    PROVE  IndInv'
<1>. USE DEF IndInv, TypeInv
<1>1. Handling(w)
  BY DEF Reject, Handling
<1>2. KafkaTypes'
  BY DEF Reject, KafkaTypes, kafkaVars
<1>3. KnownHashes' = KnownHashes /\ IndexTypes(KnownHashes)' /\ HasHead'
  BY IndexUnchanged DEF Reject, storeVars
<1>4. WorkerTypes(KnownHashes)'
  BY <1>1, <1>3, StayHandling DEF Reject, kafkaVars
<1>5. StoreTypes'
  <2>1. [part |-> job[w].part, off |-> job[w].off, reason |-> Rejection(Msg(w), policy[w])]
           \in [part : Partitions, off : Nat,
               reason : {"decode", "payload_hash mismatch", "redaction", "payload_hash format"}]
    BY <1>1, MsgType DEF Rejection, WorkerTypes, Reject
  <2>. QED  BY <2>1 DEF Reject, StoreTypes, storeVars
<1>. QED  BY <1>2, <1>3, <1>4, <1>5

(* A rejected message that is not recorded keeps the invariant. *)
LEMMA RejectUnrecordedInv ==
    ASSUME IndInv, NEW w \in Workers, RejectUnrecorded(w)
    PROVE  IndInv'
<1>. USE DEF IndInv, TypeInv
<1>1. Handling(w)
  BY DEF RejectUnrecorded, Handling
<1>2. KafkaTypes'
  BY DEF RejectUnrecorded, KafkaTypes, kafkaVars
<1>3. KnownHashes' = KnownHashes /\ IndexTypes(KnownHashes)' /\ HasHead'
  BY IndexUnchanged DEF RejectUnrecorded, storeVars
<1>4. WorkerTypes(KnownHashes)'
  BY <1>1, <1>3, StayHandling DEF RejectUnrecorded, kafkaVars
<1>5. StoreTypes'
  BY FaultType DEF RejectUnrecorded, StoreTypes, storeVars
<1>. QED  BY <1>2, <1>3, <1>4, <1>5

(* A failed head lookup keeps the invariant. *)
LEMMA ReadHeadFailsInv ==
    ASSUME IndInv, NEW w \in Workers, ReadHeadFails(w)
    PROVE  IndInv'
<1>. USE DEF IndInv, TypeInv
<1>1. Handling(w)
  BY DEF ReadHeadFails, Handling
<1>2. KafkaTypes'
  BY DEF ReadHeadFails, KafkaTypes, kafkaVars
<1>3. KnownHashes' = KnownHashes /\ IndexTypes(KnownHashes)' /\ HasHead'
  BY IndexUnchanged DEF ReadHeadFails, storeVars
<1>4. WorkerTypes(KnownHashes)'
  BY <1>1, <1>3, StayHandling DEF ReadHeadFails, kafkaVars
<1>5. StoreTypes'
  BY FaultType DEF ReadHeadFails, StoreTypes, storeVars
<1>. QED  BY <1>2, <1>3, <1>4, <1>5

(* A refused put keeps the invariant. *)
LEMMA PutIsRefusedInv ==
    ASSUME IndInv, NEW w \in Workers, PutIsRefused(w)
    PROVE  IndInv'
<1>. USE DEF IndInv, TypeInv
<1>1. Handling(w)
  BY DEF PutIsRefused, Handling
<1>2. KafkaTypes'
  BY DEF PutIsRefused, KafkaTypes, kafkaVars
<1>3. KnownHashes' = KnownHashes /\ IndexTypes(KnownHashes)' /\ HasHead'
  BY IndexUnchanged DEF PutIsRefused, storeVars
<1>4. WorkerTypes(KnownHashes)'
  BY <1>1, <1>3, StayHandling DEF PutIsRefused, kafkaVars
<1>5. StoreTypes'
  BY FaultType DEF PutIsRefused, StoreTypes, storeVars
<1>. QED  BY <1>2, <1>3, <1>4, <1>5

(* A worker that fills in its job and goes on stays well typed. *)
LEMMA FillJob ==
    ASSUME WorkerTypes(KnownHashes), KnownHashes' = KnownHashes,
           NEW w \in Workers, Handling(w),
           NEW l \in {"decode", "head", "put", "insert", "ack"}, Goto(w, l),
           UNCHANGED <<topic, policy>>,
           \/ \E r \in BOOLEAN : job' = [job EXCEPT ![w].redacted = r]
           \/ \E h \in KnownHashes : job' = [job EXCEPT ![w].prev = h]
    PROVE  WorkerTypes(KnownHashes)'
<1>1. \A v \in Workers :
         job[v] \in [part : Partitions, off : Nat, redacted : BOOLEAN, prev : KnownHashes]
  BY DEF WorkerTypes
<1>2. /\ \A v \in Workers \ {w} : job'[v] = job[v]
      /\ job' \in [Workers -> {job'[v] : v \in Workers}]
      /\ \/ \E r \in BOOLEAN : job'[w] = [job[w] EXCEPT !.redacted = r]
         \/ \E h \in KnownHashes : job'[w] = [job[w] EXCEPT !.prev = h]
  BY DEF WorkerTypes
<1>3. /\ job'[w] \in [part : Partitions, off : Nat, redacted : BOOLEAN, prev : KnownHashes]
      /\ job'[w].off = job[w].off /\ job'[w].part = job[w].part
  <2>1. CASE \E r \in BOOLEAN : job'[w] = [job[w] EXCEPT !.redacted = r]
    BY <1>1, <2>1
  <2>2. CASE \E h \in KnownHashes : job'[w] = [job[w] EXCEPT !.prev = h]
    BY <1>1, <2>2
  <2>. QED  BY <1>2, <2>1, <2>2
<1>4. job' \in [Workers -> [part : Partitions, off : Nat, redacted : BOOLEAN, prev : KnownHashes]]
  BY <1>1, <1>2, <1>3
<1>5. \A v \in Workers : Handling(v)' <=> Handling(v)
  BY DEF WorkerTypes, Handling, Goto
<1>6. pc' \in [Workers -> {"idle", "decode", "head", "put", "insert", "ack", "stopped", "down"}]
  BY DEF WorkerTypes, Goto
<1>. QED  BY <1>2, <1>3, <1>4, <1>5, <1>6 DEF WorkerTypes

(* The head of the index is one of its rows, and its hash is known. *)
LEMMA HeadHashKnown ==
    ASSUME HasHead
    PROVE  /\ HeadHash \in KnownHashes
           /\ DOMAIN index # {} => IsHead(index, ChainHead(index))
<1>1. CASE DOMAIN index = {}
  BY <1>1 DEF HeadHash, KnownHashes
<1>2. CASE DOMAIN index # {}
  <2>1. \E h \in DOMAIN index : IsHead(index, h)
    BY <1>2 DEF HasHead
  <2>2. ChainHead(index) \in DOMAIN index /\ IsHead(index, ChainHead(index))
    BY <2>1 DEF ChainHead
  <2>. QED  BY <1>2, <2>2 DEF HeadHash, KnownHashes
<1>. QED  BY <1>1, <1>2

(* Accepting a message keeps the invariant. *)
LEMMA AcceptInv ==
    ASSUME IndInv, NEW w \in Workers, Accept(w)
    PROVE  IndInv'
<1>. USE DEF IndInv, TypeInv
<1>1. Handling(w)
  BY DEF Accept, Handling
<1>2. KafkaTypes'
  BY DEF Accept, KafkaTypes, kafkaVars
<1>3. KnownHashes' = KnownHashes /\ IndexTypes(KnownHashes)' /\ HasHead'
  BY IndexUnchanged DEF Accept, storeVars
<1>4. WorkerTypes(KnownHashes)'
  <2>1. Redacts(Msg(w), policy[w]) \in BOOLEAN
    BY DEF Redacts
  <2>2. \E r \in BOOLEAN : job' = [job EXCEPT ![w].redacted = r]
    BY <2>1 DEF Accept
  <2>. QED  BY <1>1, <1>3, <2>2, FillJob DEF Accept, kafkaVars
<1>5. StoreTypes'
  BY DEF Accept, StoreTypes, storeVars
<1>. QED  BY <1>2, <1>3, <1>4, <1>5

(* The worker takes a hash of the index with it, and keeps the invariant. *)
LEMMA ReadHeadInv ==
    ASSUME IndInv, NEW w \in Workers, ReadHead(w)
    PROVE  IndInv'
<1>. USE DEF IndInv, TypeInv
<1>1. Handling(w)
  BY DEF ReadHead, Handling
<1>2. KafkaTypes'
  BY DEF ReadHead, KafkaTypes, kafkaVars
<1>3. KnownHashes' = KnownHashes /\ IndexTypes(KnownHashes)' /\ HasHead'
  BY IndexUnchanged DEF ReadHead, storeVars
<1>4. WorkerTypes(KnownHashes)'
  <2>1. \E h \in KnownHashes : job' = [job EXCEPT ![w].prev = h]
    BY HeadHashKnown DEF ReadHead
  <2>. QED  BY <1>1, <1>3, <2>1, FillJob DEF ReadHead, kafkaVars
<1>5. StoreTypes'
  BY DEF ReadHead, StoreTypes, storeVars
<1>. QED  BY <1>2, <1>3, <1>4, <1>5

(* Writing a payload keeps the bucket well typed. *)
LEMMA StoreType ==
    ASSUME IndInv, NEW w \in Workers, Handling(w), Store(w)
    PROVE  /\ DOMAIN objects' \subseteq Ids
           /\ objects' \in [DOMAIN objects' -> [body : {m.body : m \in Envelopes},
                                                redacted : BOOLEAN, retained : BOOLEAN]]
<1>1. Msg(w) \in Envelopes /\ job[w].redacted \in BOOLEAN
  BY MsgType DEF IndInv, TypeInv, WorkerTypes
<1>2. Msg(w).id \in Ids /\ Msg(w).body \in {m.body : m \in Envelopes}
  BY <1>1 DEF Ids
<1>3. RetainedAtPut \in BOOLEAN
  BY IngestAssumption DEF RetainedAtPut, Locks
<1>. QED  BY <1>1, <1>2, <1>3 DEF Store, IndInv, TypeInv, StoreTypes

(* Writing the payload keeps the invariant. *)
LEMMA PutPayloadInv ==
    ASSUME IndInv, NEW w \in Workers, PutPayload(w)
    PROVE  IndInv'
<1>. USE DEF IndInv, TypeInv
<1>1. Handling(w)
  BY DEF PutPayload, Handling
<1>2. KafkaTypes'
  BY DEF PutPayload, KafkaTypes, kafkaVars
<1>3. KnownHashes' = KnownHashes /\ IndexTypes(KnownHashes)' /\ HasHead'
  BY IndexUnchanged DEF PutPayload
<1>4. WorkerTypes(KnownHashes)'
  BY <1>1, <1>3, StayHandling DEF PutPayload, kafkaVars
<1>5. StoreTypes'
  BY <1>1, StoreType DEF PutPayload, StoreTypes
<1>. QED  BY <1>2, <1>3, <1>4, <1>5

(* A failed put keeps the invariant. *)
LEMMA PutFailsInv ==
    ASSUME IndInv, NEW w \in Workers, PutFails(w)
    PROVE  IndInv'
<1>. USE DEF IndInv, TypeInv
<1>1. Handling(w)
  BY DEF PutFails, Handling
<1>2. KafkaTypes'
  BY DEF PutFails, KafkaTypes, kafkaVars
<1>3. KnownHashes' = KnownHashes /\ IndexTypes(KnownHashes)' /\ HasHead'
  BY IndexUnchanged DEF PutFails
<1>4. WorkerTypes(KnownHashes)'
  BY <1>1, <1>3, StayHandling DEF PutFails, kafkaVars
<1>5. StoreTypes'
  <2>1. faults' \in 0..MaxFaults /\ deadLetters' = deadLetters
    BY FaultType DEF PutFails, StoreTypes
  <2>2. CASE UNCHANGED objects
    BY <2>1, <2>2 DEF StoreTypes
  <2>3. CASE Store(w)
    BY <1>1, <2>1, <2>3, StoreType DEF StoreTypes
  <2>. QED  BY <2>2, <2>3 DEF PutFails
<1>. QED  BY <1>2, <1>3, <1>4, <1>5

(* Inserting a row, or finding its id there, keeps every hash of the index *)
(* and its types, and there still is a last row: the old one or the new.   *)
LEMMA IndexStep ==
    ASSUME IndInv, NEW w \in Workers, Handling(w), Index(w)
    PROVE  KnownHashes \subseteq KnownHashes' /\ IndexTypes(KnownHashes)' /\ HasHead'
<1>. DEFINE id == Msg(w).id
            row == NewRow(Msg(w), job[w].redacted, job[w].prev)
<1>1. Msg(w) \in Envelopes /\ job[w].redacted \in BOOLEAN /\ job[w].prev \in KnownHashes
  BY MsgType DEF IndInv, TypeInv, WorkerTypes
<1>2. id \in Ids /\ id \in Nat /\ Msg(w).ts \in Nat
  BY <1>1 DEF Ids, IngestAssumption
<1>3. /\ DOMAIN index' = DOMAIN index \cup {id}
      /\ \A i \in DOMAIN index : index'[i] = index[i]
      /\ id \notin DOMAIN index => index'[id] = row
      /\ index' = [i \in DOMAIN index' |-> index'[i]]
  BY InsertKeeps DEF Index, Insert
<1>. HIDE DEF id, row
<1>4. KnownHashes \subseteq KnownHashes'
  BY <1>3 DEF KnownHashes
<1>5. \A i \in DOMAIN index : index[i] \in Row(KnownHashes) /\ i \in Nat
  BY DEF IndInv, TypeInv, IndexTypes, Ids, IngestAssumption
<1>6. \A i \in DOMAIN index : index'[i] \in Row(KnownHashes')
  BY <1>3, <1>4, <1>5 DEF Row
<1>7. id \notin DOMAIN index => index'[id] \in Row(KnownHashes')
  <2>. SUFFICES ASSUME id \notin DOMAIN index PROVE row \in Row(KnownHashes')
    BY <1>3
  <2>1. row.thisHash \in KnownHashes'
    BY <1>3 DEF KnownHashes
  <2>2. row.thisHash = CanonicalHash(Msg(w).id, Msg(w).ts, Msg(w).fields, Msg(w).hash, job[w].prev)
    BY DEF row, NewRow
  <2>3. StoredTS(Msg(w).ts) \in Nat
    BY <1>2, StoredTSType
  <2>4. LegalHoldDefault \in BOOLEAN
    BY DEF IngestAssumption
  <2>. QED  BY <1>1, <1>4, <2>1, <2>2, <2>3, <2>4 DEF row, NewRow, Row
<1>8. IndexTypes(KnownHashes)'
  <2>1. \A i \in DOMAIN index' : index'[i] \in Row(KnownHashes')
    BY <1>3, <1>6, <1>7
  <2>2. Row(KnownHashes)' = Row(KnownHashes')
    BY DEF Row
  <2>3. DOMAIN index' \subseteq Ids
    BY <1>2, <1>3 DEF IndInv, TypeInv, IndexTypes
  <2>. QED  BY <1>3, <2>1, <2>2, <2>3 DEF IndexTypes
<1>9. \A i \in DOMAIN index' : i \in Nat /\ index'[i].ts \in Nat
  BY <1>2, <1>3, <1>5, <1>7 DEF Row
<1>10. HasHead'
  <2>1. CASE id \in DOMAIN index
    BY <1>3, <2>1 DEF IndInv, HasHead, IsHead, RowNotLater
  <2>2. CASE DOMAIN index = {}
    <3>1. IsHead(index', id)
      BY <1>2, <1>3, <1>9, <2>2, OrderTotal DEF IsHead, RowNotLater
    <3>. QED  BY <1>3, <3>1 DEF HasHead
  <2>3. CASE id \notin DOMAIN index /\ DOMAIN index # {}
    <3>1. PICK h \in DOMAIN index : IsHead(index, h)
      BY <2>3 DEF IndInv, HasHead
    <3>2. CASE RowNotLater(index', id, h)
      <4>1. IsHead(index', h)
        BY <1>3, <3>1, <3>2 DEF IsHead, RowNotLater
      <4>. QED  BY <1>3, <3>1, <4>1 DEF HasHead
    <3>3. CASE ~RowNotLater(index', id, h)
      <4>1. RowNotLater(index', h, id)
        BY <1>3, <1>9, <3>1, <3>3, OrderTotal DEF RowNotLater
      <4>2. ASSUME NEW i \in DOMAIN index'
            PROVE  RowNotLater(index', i, id)
        <5>1. CASE i = id
          BY <1>9, <5>1, OrderTotal DEF RowNotLater
        <5>2. CASE i \in DOMAIN index
          <6>1. NotLater(index'[i].ts, i, index'[h].ts, h)
            BY <1>3, <3>1, <5>2 DEF IsHead, RowNotLater
          <6>2. NotLater(index'[h].ts, h, index'[id].ts, id)
            BY <4>1 DEF RowNotLater
          <6>3. h \in DOMAIN index' /\ id \in DOMAIN index'
            BY <1>3, <3>1
          <6>. QED  BY <1>9, <6>1, <6>2, <6>3, OrderTransitive DEF RowNotLater
        <5>. QED  BY <1>3, <5>1, <5>2
      <4>3. IsHead(index', id)
        BY <1>3, <4>2 DEF IsHead
      <4>. QED  BY <1>3, <4>3 DEF HasHead
    <3>. QED  BY <3>2, <3>3
  <2>. QED  BY <2>1, <2>2, <2>3
<1>. QED  BY <1>4, <1>8, <1>10

(* Inserting the row keeps the invariant. *)
LEMMA InsertRowInv ==
    ASSUME IndInv, NEW w \in Workers, InsertRow(w)
    PROVE  IndInv'
<1>. USE DEF IndInv, TypeInv
<1>1. Handling(w)
  BY DEF InsertRow, Handling
<1>2. KafkaTypes'
  BY DEF InsertRow, KafkaTypes, kafkaVars
<1>3. KnownHashes \subseteq KnownHashes' /\ IndexTypes(KnownHashes)' /\ HasHead'
  BY <1>1, IndexStep DEF InsertRow
<1>4. WorkerTypes(KnownHashes)'
  BY <1>1, <1>3, StayHandling DEF InsertRow, kafkaVars
<1>5. StoreTypes'
  BY DEF InsertRow, StoreTypes
<1>. QED  BY <1>2, <1>3, <1>4, <1>5

(* A failed insert keeps the invariant. *)
LEMMA InsertFailsInv ==
    ASSUME IndInv, NEW w \in Workers, InsertFails(w)
    PROVE  IndInv'
<1>. USE DEF IndInv, TypeInv
<1>1. Handling(w)
  BY DEF InsertFails, Handling
<1>2. KafkaTypes'
  BY DEF InsertFails, KafkaTypes, kafkaVars
<1>3. KnownHashes \subseteq KnownHashes' /\ IndexTypes(KnownHashes)' /\ HasHead'
  BY <1>1, IndexStep, IndexUnchanged DEF InsertFails
<1>4. WorkerTypes(KnownHashes)'
  BY <1>1, <1>3, StayHandling DEF InsertFails, kafkaVars
<1>5. StoreTypes'
  BY FaultType DEF InsertFails, StoreTypes
<1>. QED  BY <1>2, <1>3, <1>4, <1>5

(* Committing an offset again keeps the invariant. *)
LEMMA AckInv ==
    ASSUME IndInv, NEW w \in Workers, Ack(w)
    PROVE  IndInv'
<1>. USE DEF IndInv, TypeInv
<1>1. KafkaTypes'
  <2>1. job[w].part \in Partitions /\ job[w].off \in 1..Len(topic[job[w].part])
    BY MsgType DEF Ack, Handling
  <2>2. topic[job[w].part] \in Seq(Envelopes)
    BY <2>1 DEF KafkaTypes
  <2>3. job[w].off \in Nat /\ job[w].off <= Len(topic[job[w].part])
    BY <2>1, <2>2
  <2>4. UNCHANGED <<topic, owner, position>>
    BY DEF Ack
  <2>5. CASE committed' = [committed EXCEPT ![job[w].part] = job[w].off]
    BY <2>1, <2>3, <2>4, <2>5 DEF KafkaTypes
  <2>6. CASE UNCHANGED committed
    BY <2>4, <2>6 DEF KafkaTypes
  <2>. QED  BY <2>5, <2>6 DEF Ack
<1>2. KnownHashes' = KnownHashes /\ IndexTypes(KnownHashes)' /\ HasHead'
  BY IndexUnchanged DEF Ack, storeVars
<1>3. WorkerTypes(KnownHashes)'
  BY <1>1, <1>2, StopHandling DEF Ack, WorkerTypes
<1>4. StoreTypes'
  BY DEF Ack, StoreTypes, storeVars
<1>. QED  BY <1>1, <1>2, <1>3, <1>4

(* A crash keeps the invariant. *)
LEMMA CrashInv ==
    ASSUME IndInv, NEW w \in Workers, Crash(w)
    PROVE  IndInv'
<1>. USE DEF IndInv, TypeInv
<1>1. KafkaTypes'
  BY DEF Crash, KafkaTypes, kafkaVars
<1>2. KnownHashes' = KnownHashes /\ IndexTypes(KnownHashes)' /\ HasHead'
  BY IndexUnchanged DEF Crash, storeVars
<1>3. WorkerTypes(KnownHashes)'
  BY <1>1, <1>2, StopHandling DEF Crash, kafkaVars, WorkerTypes
<1>4. StoreTypes'
  BY FaultType DEF Crash, StoreTypes, storeVars
<1>. QED  BY <1>1, <1>2, <1>3, <1>4

(* A restart keeps the invariant. *)
LEMMA RestartInv ==
    ASSUME IndInv, NEW w \in Workers, Restart(w)
    PROVE  IndInv'
<1>. USE DEF IndInv, TypeInv
<1>1. KafkaTypes'
  BY DEF Restart, KafkaTypes
<1>2. KnownHashes' = KnownHashes /\ IndexTypes(KnownHashes)' /\ HasHead'
  BY IndexUnchanged DEF Restart, storeVars
<1>3. WorkerTypes(KnownHashes)'
  <2>1. policy' \in [Workers -> Policies]
    BY DEF Restart, WorkerTypes
  <2>2. ~Handling(w)
    BY DEF Restart, Handling
  <2>. QED  BY <1>1, <1>2, <2>1, <2>2, StopHandling DEF Restart
<1>4. StoreTypes'
  BY DEF Restart, StoreTypes, storeVars
<1>. QED  BY <1>1, <1>2, <1>3, <1>4

(* A reload keeps the invariant. *)
LEMMA ReloadPolicyInv ==
    ASSUME IndInv, NEW w \in Workers, ReloadPolicy(w)
    PROVE  IndInv'
<1>. USE DEF IndInv, TypeInv
<1>1. KafkaTypes'
  BY DEF ReloadPolicy, KafkaTypes, kafkaVars
<1>2. KnownHashes' = KnownHashes /\ IndexTypes(KnownHashes)' /\ HasHead'
  BY IndexUnchanged DEF ReloadPolicy, storeVars
<1>3. WorkerTypes(KnownHashes)'
  BY <1>2 DEF ReloadPolicy, WorkerTypes, kafkaVars, workerVars, Handling
<1>4. StoreTypes'
  BY DEF ReloadPolicy, StoreTypes, storeVars
<1>. QED  BY <1>1, <1>2, <1>3, <1>4

(* Every step keeps the invariant. *)
LEMMA NextIndInv ==
    IndInv /\ [Next]_vars => IndInv'
<1>. SUFFICES ASSUME IndInv, [Next]_vars PROVE IndInv'
  OBVIOUS
<1>1. CASE UNCHANGED vars
  <2>. USE <1>1 DEF vars, kafkaVars, workerVars, storeVars
  <2>1. KnownHashes' = KnownHashes /\ IndexTypes(KnownHashes)' /\ HasHead'
    BY IndexUnchanged DEF IndInv, TypeInv
  <2>2. KafkaTypes'
    BY DEF IndInv, TypeInv, KafkaTypes
  <2>3. WorkerTypes(KnownHashes)'
    BY <2>1 DEF IndInv, TypeInv, WorkerTypes, Handling
  <2>4. StoreTypes'
    BY DEF IndInv, TypeInv, StoreTypes
  <2>. QED  BY <2>1, <2>2, <2>3, <2>4 DEF IndInv, TypeInv
<1>2. ASSUME NEW p \in Partitions, NEW m \in Envelopes, Produce(p, m) PROVE IndInv'
  BY <1>2, ProduceInv
<1>3. ASSUME NEW p \in Partitions, NEW w \in Workers,
             Rebalance(p, w) \/ ReadMessage(w, p) \/ ReadFails(w, p)
      PROVE  IndInv'
  BY <1>3, RebalanceInv, ReadMessageInv, ReadFailsInv
<1>4. ASSUME NEW w \in Workers, Work(w) PROVE IndInv'
  BY <1>4, RejectInv, AcceptInv, ReadHeadInv, PutPayloadInv, PutIsRefusedInv, InsertRowInv, AckInv
     DEF Work
<1>5. ASSUME NEW w \in Workers, Fail(w) PROVE IndInv'
  BY <1>5, RejectUnrecordedInv, ReadHeadFailsInv, PutFailsInv, InsertFailsInv DEF Fail
<1>6. ASSUME NEW w \in Workers, Restart(w) \/ ReloadPolicy(w) \/ Crash(w) PROVE IndInv'
  BY <1>6, RestartInv, ReloadPolicyInv, CrashInv
<1>. QED  BY <1>1, <1>2, <1>3, <1>4, <1>5, <1>6 DEF Next, Step

(* The invariant holds in every reachable state. *)
THEOREM Invariance == Spec => []IndInv
BY InitIndInv, NextIndInv, PTL DEF Spec

(* Every variable keeps its type, offsets stay within their partition and  *)
(* a worker has a message exactly while it handles one.                    *)
THEOREM TypeCorrect == Spec => []TypeOK
<1>1. IndInv => TypeOK
  BY DEF IndInv, TypeInv, TypeOK, HeldHashes, WorkerTypes, IndexTypes, Row
<1>. QED  BY <1>1, Invariance, PTL

(* However the workers interleave, fail and repeat messages, every row     *)
(* links to the genesis value or to a row of the index.                    *)
THEOREM PrevKnown == Spec => []NoDanglingPrev
<1>1. IndInv => NoDanglingPrev
  BY DEF IndInv, TypeInv, NoDanglingPrev, IndexTypes, Row
<1>. QED  BY <1>1, Invariance, PTL

(***************************************************************************)
(* Refinement.                                                             *)
(***************************************************************************)

(* Only the insert of a message in hand changes the index. *)
LEMMA OnlyInsertWrites ==
    ASSUME [Next]_vars
    PROVE  UNCHANGED index \/ \E w \in Workers : Handling(w) /\ Index(w)
<1>1. ASSUME NEW p \in Partitions, NEW w \in Workers,
             \/ \E m \in Envelopes : Produce(p, m)
             \/ Rebalance(p, w) \/ ReadMessage(w, p) \/ ReadFails(w, p)
      PROVE  UNCHANGED index
  BY <1>1 DEF Produce, Rebalance, ReadMessage, ReadFails, storeVars
<1>2. ASSUME NEW w \in Workers,
             Reject(w) \/ Accept(w) \/ ReadHead(w) \/ PutPayload(w) \/ PutIsRefused(w) \/ Ack(w)
      PROVE  UNCHANGED index
  BY <1>2 DEF Reject, Accept, ReadHead, PutPayload, PutIsRefused, Ack, storeVars
<1>3. ASSUME NEW w \in Workers,
             \/ RejectUnrecorded(w) \/ ReadHeadFails(w) \/ PutFails(w)
             \/ Restart(w) \/ ReloadPolicy(w) \/ Crash(w)
      PROVE  UNCHANGED index
  BY <1>3 DEF RejectUnrecorded, ReadHeadFails, PutFails, Restart, ReloadPolicy, Crash, storeVars
<1>4. ASSUME NEW w \in Workers, InsertRow(w) \/ InsertFails(w)
      PROVE  UNCHANGED index \/ (Handling(w) /\ Index(w))
  BY <1>4 DEF InsertRow, InsertFails, Handling
<1>5. CASE UNCHANGED vars
  BY <1>5 DEF vars, storeVars
<1>6. Workers # {}
  BY DEF IngestAssumption
<1>7. CASE \E p \in Partitions, m \in Envelopes : Produce(p, m)
  BY <1>1, <1>6, <1>7
<1>8. CASE \E p \in Partitions, w \in Workers :
             Rebalance(p, w) \/ ReadMessage(w, p) \/ ReadFails(w, p)
  BY <1>1, <1>8
<1>9. CASE \E w \in Workers : Work(w)
  BY <1>2, <1>4, <1>9 DEF Work
<1>10. CASE \E w \in Workers : Fail(w)
  BY <1>3, <1>4, <1>10 DEF Fail
<1>11. CASE \E w \in Workers : Restart(w) \/ ReloadPolicy(w) \/ Crash(w)
  BY <1>3, <1>11
<1>. QED  BY <1>5, <1>7, <1>8, <1>9, <1>10, <1>11 DEF Next, Step

(* Every step is a step of the log, or leaves it alone.                    *)
LEMMA NextRefines == IndInv /\ [Next]_vars => [Log!Next]_Log!vars
<1>. SUFFICES ASSUME IndInv, [Next]_vars PROVE [Log!Next]_Log!vars
  OBVIOUS
<1>1. CASE UNCHANGED index
  BY <1>1 DEF Log!vars
<1>2. ASSUME NEW w \in Workers, Handling(w), Index(w)
      PROVE  [Log!Next]_Log!vars
  <2>. DEFINE id == Msg(w).id
              row == NewRow(Msg(w), job[w].redacted, job[w].prev)
  <2>1. Msg(w) \in Envelopes /\ job[w].prev \in KnownHashes
    BY <1>2, MsgType DEF IndInv, TypeInv, WorkerTypes
  <2>2. /\ DOMAIN index' = DOMAIN index \cup {id}
        /\ \A i \in DOMAIN index : index'[i] = index[i]
        /\ id \notin DOMAIN index => index'[id] = row
        /\ index' = [i \in DOMAIN index' |-> index'[i]]
    BY <1>2, InsertKeeps DEF Index, Insert
  <2>3. id \in Ids
    BY <2>1 DEF Ids
  <2>4. row.prevHash = job[w].prev /\ row.anchored = FALSE
    BY DEF NewRow
  <2>. HIDE DEF id, row
  <2>5. CASE id \in DOMAIN index
    <3>1. index' = index
      BY <2>2, <2>5 DEF IndInv, TypeInv, IndexTypes
    <3>. QED  BY <3>1 DEF Log!vars
  <2>6. CASE id \notin DOMAIN index
    <3>1. Columns(row).prevHash \in Log!Hashes
      BY <2>1, <2>4 DEF Columns, Log!Hashes, KnownHashes
    <3>2. {i \in DOMAIN index' : index'[i].anchored} = {i \in DOMAIN index : index[i].anchored}
      BY <2>2, <2>4, <2>6
    <3>3. Log!Append(id)
      BY <2>2, <2>6, <3>1, <3>2 DEF Log!Append
    <3>. QED  BY <2>3, <3>3 DEF Log!Next
  <2>. QED  BY <2>5, <2>6
<1>. QED  BY <1>1, <1>2, OnlyInsertWrites

(* The index is an append-only log: rows are only added, one per id, their *)
(* chain columns never change, and each links to a hash that was there.    *)
THEOREM AppendOnly == Spec => ImplementsLog
<1>1. Init => Log!Init
  BY DEF Init, EmptyIndex, Log!Init
<1>. QED  BY <1>1, NextRefines, Invariance, PTL DEF Spec, ImplementsLog, Log!Spec

(***************************************************************************)
(* What a step leaves alone.                                               *)
(***************************************************************************)

(* A worker goes on with the message it handles. *)
Moves(w) ==
    \/ Reject(w) \/ RejectUnrecorded(w) \/ Accept(w) \/ ReadHead(w) \/ ReadHeadFails(w)
    \/ PutPayload(w) \/ PutIsRefused(w) \/ PutFails(w) \/ InsertRow(w) \/ InsertFails(w)

(* Every step is one of these. *)
LEMMA StepCases ==
    ASSUME [Next]_vars
    PROVE  \/ UNCHANGED vars
           \/ \E p \in Partitions, m \in Envelopes : Produce(p, m)
           \/ \E p \in Partitions, w \in Workers :
                 Rebalance(p, w) \/ ReadMessage(w, p) \/ ReadFails(w, p)
           \/ \E w \in Workers :
                 Moves(w) \/ Ack(w) \/ Crash(w) \/ Restart(w) \/ ReloadPolicy(w)
BY DEF Next, Step, Work, Fail, Moves

(* Going on leaves Kafka, the other workers and the message alone. *)
LEMMA MovesEffect ==
    ASSUME IndInv, NEW w \in Workers, Moves(w)
    PROVE  /\ Handling(w) /\ Handling(w)'
           /\ UNCHANGED kafkaVars
           /\ \A v \in Workers : job'[v].off = job[v].off /\ job'[v].part = job[v].part
           /\ \A v \in Workers \ {w} : pc'[v] = pc[v] /\ job'[v] = job[v]
<1>1. pc \in [Workers -> {"idle", "decode", "head", "put", "insert", "ack", "stopped", "down"}]
  BY DEF IndInv, TypeInv, WorkerTypes
<1>2. \A v \in Workers :
         job[v] \in [part : Partitions, off : Nat, redacted : BOOLEAN, prev : KnownHashes]
  BY DEF IndInv, TypeInv, WorkerTypes
<1>3. job \in [Workers -> [part : Partitions, off : Nat, redacted : BOOLEAN, prev : KnownHashes]]
  BY DEF IndInv, TypeInv, WorkerTypes
<1>4. UNCHANGED kafkaVars
  BY DEF Moves, Reject, RejectUnrecorded, Accept, ReadHead, ReadHeadFails, PutPayload,
         PutIsRefused, PutFails, InsertRow, InsertFails
<1>5. /\ Handling(w)
      /\ \E l \in {"head", "put", "insert", "ack"} : Goto(w, l)
  BY DEF Moves, Reject, RejectUnrecorded, Accept, ReadHead, ReadHeadFails, PutPayload,
         PutIsRefused, PutFails, InsertRow, InsertFails, Handling
<1>6. \/ job' = job
      \/ \E r : job' = [job EXCEPT ![w].redacted = r]
      \/ \E h : job' = [job EXCEPT ![w].prev = h]
  BY DEF Moves, Reject, RejectUnrecorded, Accept, ReadHead, ReadHeadFails, PutPayload,
         PutIsRefused, PutFails, InsertRow, InsertFails
<1>7. Handling(w)' /\ \A v \in Workers \ {w} : pc'[v] = pc[v]
  BY <1>1, <1>5 DEF Goto, Handling
<1>8. /\ \A v \in Workers \ {w} : job'[v] = job[v]
      /\ job'[w].off = job[w].off /\ job'[w].part = job[w].part
  <2>1. CASE job' = job
    BY <2>1
  <2>2. CASE \E r : job' = [job EXCEPT ![w].redacted = r]
    <3>1. PICK r : job' = [job EXCEPT ![w].redacted = r]
      BY <2>2
    <3>2. job'[w] = [job[w] EXCEPT !.redacted = r] /\ \A v \in Workers \ {w} : job'[v] = job[v]
      BY <1>3, <3>1
    <3>. QED  BY <1>2, <3>2
  <2>3. CASE \E h : job' = [job EXCEPT ![w].prev = h]
    <3>1. PICK h : job' = [job EXCEPT ![w].prev = h]
      BY <2>3
    <3>2. job'[w] = [job[w] EXCEPT !.prev = h] /\ \A v \in Workers \ {w} : job'[v] = job[v]
      BY <1>3, <3>1
    <3>. QED  BY <1>2, <3>2
  <2>. QED  BY <1>6, <2>1, <2>2, <2>3
<1>. QED  BY <1>4, <1>5, <1>7, <1>8

(* Only producers touch the topic. *)
LEMMA OnlyProduceWrites ==
    ASSUME [Next]_vars
    PROVE  UNCHANGED topic \/ \E p \in Partitions, m \in Envelopes : Produce(p, m)
<1>1. CASE UNCHANGED vars
  BY <1>1 DEF vars, kafkaVars
<1>2. ASSUME NEW p \in Partitions, NEW w \in Workers, ReadMessage(w, p) \/ ReadFails(w, p) \/ Rebalance(p, w)
      PROVE  UNCHANGED topic
  BY <1>2 DEF ReadMessage, ReadFails, Rebalance
<1>3. ASSUME NEW w \in Workers, Moves(w) PROVE UNCHANGED topic
  BY <1>3 DEF Moves, Reject, RejectUnrecorded, Accept, ReadHead, ReadHeadFails, PutPayload,
              PutIsRefused, PutFails, InsertRow, InsertFails, kafkaVars
<1>4. ASSUME NEW w \in Workers, Ack(w) \/ Crash(w) \/ Restart(w) \/ ReloadPolicy(w)
      PROVE  UNCHANGED topic
  BY <1>4 DEF Ack, Crash, Restart, ReloadPolicy, kafkaVars
<1>. QED  BY StepCases, <1>1, <1>2, <1>3, <1>4

(* What is in the topic stays where it is. *)
LEMMA TopicGrows ==
    ASSUME IndInv, [Next]_vars, NEW p \in Partitions, NEW o \in 1..Len(topic[p])
    PROVE  o \in 1..Len(topic'[p]) /\ topic'[p][o] = topic[p][o]
<1>1. topic[p] \in Seq(Envelopes) /\ topic \in [Partitions -> Seq(Envelopes)]
  BY DEF IndInv, TypeInv, KafkaTypes
<1>2. CASE UNCHANGED topic
  BY <1>2
<1>3. ASSUME NEW q \in Partitions, NEW m \in Envelopes, Produce(q, m)
      PROVE  o \in 1..Len(topic'[p]) /\ topic'[p][o] = topic[p][o]
  <2>1. topic'[p] = topic[p] \/ topic'[p] = Append(topic[p], m)
    BY <1>1, <1>3 DEF Produce
  <2>2. Len(Append(topic[p], m)) = Len(topic[p]) + 1 /\ Append(topic[p], m)[o] = topic[p][o]
    BY <1>1
  <2>3. Len(topic[p]) \in Nat
    BY <1>1
  <2>. QED  BY <2>1, <2>2, <2>3
<1>. QED  BY OnlyProduceWrites, <1>2, <1>3

(* The message of a worker that keeps its offset is what it was. *)
LEMMA MessageStays ==
    ASSUME IndInv, [Next]_vars, NEW v \in Workers, Handling(v),
           job'[v].part = job[v].part, job'[v].off = job[v].off
    PROVE  Msg(v)' = Msg(v)
<1>1. job[v].part \in Partitions /\ job[v].off \in 1..Len(topic[job[v].part])
  BY MsgType DEF IndInv, TypeInv
<1>2. topic'[job[v].part][job[v].off] = topic[job[v].part][job[v].off]
  BY <1>1, TopicGrows
<1>. QED  BY <1>2 DEF Msg

(***************************************************************************)
(* The flags of a row, which the rest of the system sets.                  *)
(***************************************************************************)

(* Rows stay where they are in the order, under their hash. *)
RowsStay ==
    \A i \in DOMAIN index :
        /\ i \in DOMAIN index'
        /\ index'[i].ts = index[i].ts
        /\ index'[i].thisHash = index[i].thisHash

(* A step that changes nothing of a row but its flags. *)
OnlyFlags ==
    /\ DOMAIN index' = DOMAIN index
    /\ index' = [i \in DOMAIN index' |-> index'[i]]
    /\ \A i \in DOMAIN index :
          index'[i] \in Row(KnownHashes) /\ Columns(index'[i]) = Columns(index[i])

(* Such a step keeps types, hashes and order of the index. *)
LEMMA FlagsKeepIndex ==
    ASSUME IndInv, OnlyFlags
    PROVE  KnownHashes' = KnownHashes /\ IndexTypes(KnownHashes)' /\ HasHead' /\ RowsStay
<1>1. \A i \in DOMAIN index :
         index'[i].ts = index[i].ts /\ index'[i].thisHash = index[i].thisHash
  BY DEF OnlyFlags, Columns
<1>2. KnownHashes' = KnownHashes
  BY <1>1 DEF OnlyFlags, KnownHashes
<1>3. IndexTypes(KnownHashes)'
  BY <1>2 DEF IndInv, TypeInv, IndexTypes, OnlyFlags, Row
<1>4. HasHead'
  BY <1>1 DEF IndInv, HasHead, OnlyFlags, IsHead, RowNotLater
<1>5. RowsStay
  BY <1>1 DEF RowsStay, OnlyFlags
<1>. QED  BY <1>2, <1>3, <1>4, <1>5

(* A legal hold leaves the anchored flag of every row alone. *)
LEMMA HoldIsFlags ==
    ASSUME IndInv, NEW id \in DOMAIN index, NEW hold \in BOOLEAN,
           index' = SetLegalHold(index, id, hold)
    PROVE  OnlyFlags /\ \A i \in DOMAIN index : index'[i].anchored = index[i].anchored
<1>1. \A i \in DOMAIN index : index[i] \in Row(KnownHashes)
  BY DEF IndInv, TypeInv, IndexTypes
<1>2. /\ index'[id] = [index[id] EXCEPT !.legalHold = hold]
      /\ \A i \in DOMAIN index \ {id} : index'[i] = index[i]
  BY DEF SetLegalHold
<1>3. ASSUME NEW i \in DOMAIN index
      PROVE  /\ index'[i] \in Row(KnownHashes) /\ Columns(index'[i]) = Columns(index[i])
             /\ index'[i].anchored = index[i].anchored
  BY <1>1, <1>2 DEF Row, Columns
<1>. QED  BY <1>3 DEF OnlyFlags, SetLegalHold

(* What sets flags only, and counts its failures, keeps the invariant. *)
LEMMA FlagsKeepIndInv ==
    ASSUME IndInv, UNCHANGED index \/ OnlyFlags,
           UNCHANGED <<kafkaVars, workerVars, policy, objects, deadLetters>>,
           UNCHANGED faults \/ Fault
    PROVE  IndInv' /\ RowsStay
<1>. USE DEF IndInv, TypeInv
<1>1. KnownHashes' = KnownHashes /\ IndexTypes(KnownHashes)' /\ HasHead' /\ RowsStay
  BY FlagsKeepIndex, IndexUnchanged DEF RowsStay
<1>2. KafkaTypes'
  BY DEF KafkaTypes, kafkaVars
<1>3. WorkerTypes(KnownHashes)'
  BY <1>1 DEF WorkerTypes, Handling, workerVars, kafkaVars
<1>4. StoreTypes'
  BY FaultType DEF StoreTypes
<1>. QED  BY <1>1, <1>2, <1>3, <1>4
=============================================================================
