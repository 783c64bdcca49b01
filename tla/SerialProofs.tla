---------------------------- MODULE SerialProofs -----------------------------
(***************************************************************************)
(* The deployment under which the hash chain is what its readers expect:   *)
(* one worker, one partition, producers that publish in (ts, id) order and *)
(* a column that keeps ts exactly.  Crashes, restarts, failed calls and    *)
(* repeated messages are all allowed.  None of the four can be dropped:    *)
(* the runs IngestRace and IngestPrecision show two of them.  The same is  *)
(* shown of the composed system, where a root the anchor loop has signed   *)
(* covers every row that says anchored.                                    *)
(***************************************************************************)
EXTENDS AuditProofs, ListingProofs, IngestLinear, SequenceTheorems

SerialDeployment ==
    /\ \A v, w \in Workers : v = w
    /\ \A p, q \in Partitions : p = q
    /\ Ordered
    /\ TsResolution = 1

(***************************************************************************)
(* The invariant.  A worker inserts the message at the committed offset;   *)
(* every row comes from a valid message before it, so is listed before it; *)
(* and the hash it carries is still that of the head, because nobody else  *)
(* inserts.                                                                *)
(***************************************************************************)

OffsetsInv ==
    /\ \A p \in Partitions :
          /\ position[p] <= committed[p]
          /\ \A w \in Workers : Running(w) => position[p] = committed[p]
    /\ \A w \in Workers : Handling(w) => job[w].off = committed[job[w].part]

SortedTopic ==
    \A p \in Partitions : \A o1, o2 \in 1..Len(topic[p]) :
        o1 < o2 /\ topic[p][o1].valid /\ topic[p][o2].valid =>
            NotLater(topic[p][o1].ts, topic[p][o1].id, topic[p][o2].ts, topic[p][o2].id)

(* A valid message for (ts, i) is among the first n messages. *)
ComesFrom(messages, n, i, ts) ==
    \E o \in 1..n : messages[o].valid /\ messages[o].id = i /\ messages[o].ts = ts

RowsInv ==
    /\ \A i \in DOMAIN index, p \in Partitions : ComesFrom(topic[p], committed[p], i, index[i].ts)
    /\ \A w \in Workers, i \in DOMAIN index :
          pc[w] \in {"decode", "head", "put", "insert"} =>
              ComesFrom(topic[job[w].part], job[w].off - 1, i, index[i].ts)
    /\ \A w \in Workers : pc[w] \in {"head", "put", "insert"} => Msg(w).valid

LinkInv ==
    /\ \A w \in Workers : pc[w] \in {"put", "insert"} => job[w].prev = HeadHash
    /\ ChainIntact

SerialInv == OffsetsInv /\ SortedTopic /\ RowsInv /\ LinkInv

(***************************************************************************)
(* A row added after all others keeps the chain intact.                    *)
(***************************************************************************)

(* A whole unit is what the column keeps. *)
LEMMA ExactTS ==
    ASSUME TsResolution = 1, NEW ts \in Nat
    PROVE  StoredTS(ts) = ts
BY DEF StoredTS

(* Linked is kept by a new last row that links to the head. *)
LEMMA LinkLast ==
    ASSUME NEW ix, NEW jx, NEW n \in Nat,
           \A i \in DOMAIN ix : i \in Nat /\ ix[i].ts \in Nat,
           n \notin DOMAIN ix,
           DOMAIN jx = DOMAIN ix \cup {n},
           \A i \in DOMAIN ix : jx[i] = ix[i],
           jx[n].ts \in Nat,
           \A i \in DOMAIN ix : NotLater(ix[i].ts, i, jx[n].ts, n),
           EventHash(n, jx[n]) = jx[n].thisHash,
           DOMAIN ix = {} => jx[n].prevHash = ZeroHash,
           NEW h, DOMAIN ix # {} => IsHead(ix, h) /\ jx[n].prevHash = ix[h].thisHash,
           Linked(ix)
    PROVE  Linked(jx)
<1>1. \A i \in DOMAIN ix : ~RowNotLater(jx, n, i)
  <2>. SUFFICES ASSUME NEW i \in DOMAIN ix, RowNotLater(jx, n, i) PROVE FALSE
    OBVIOUS
  <2>1. NotLater(jx[n].ts, n, ix[i].ts, i) /\ NotLater(ix[i].ts, i, jx[n].ts, n)
    BY DEF RowNotLater
  <2>. QED  BY <2>1, OrderTotal
<1>2. ASSUME NEW i \in DOMAIN ix, NEW prev
      PROVE  VerifyEvent(jx, i, prev) = VerifyEvent(ix, i, prev)
  BY DEF VerifyEvent, VerifyRow
<1>3. ASSUME NEW i \in DOMAIN ix, IsFirst(jx, i)
      PROVE  VerifyEvent(jx, i, ZeroHash) = "ok"
  <2>1. IsFirst(ix, i)
    BY <1>3 DEF IsFirst, RowNotLater
  <2>. QED  BY <1>2, <2>1 DEF Linked
<1>4. ASSUME NEW i \in DOMAIN ix, NEW p \in DOMAIN jx, IsPredecessor(jx, p, i)
      PROVE  VerifyEvent(jx, i, jx[p].thisHash) = "ok"
  <2>1. p \in DOMAIN ix
    BY <1>1, <1>4 DEF IsPredecessor
  <2>2. IsPredecessor(ix, p, i)
    BY <1>4, <2>1 DEF IsPredecessor, RowNotLater
  <2>. QED  BY <1>2, <2>1, <2>2 DEF Linked
<1>5. ASSUME IsFirst(jx, n)
      PROVE  VerifyEvent(jx, n, ZeroHash) = "ok"
  <2>1. DOMAIN ix = {}
    BY <1>1, <1>5 DEF IsFirst
  <2>. QED  BY <2>1 DEF VerifyEvent, VerifyRow
<1>6. ASSUME NEW p \in DOMAIN jx, IsPredecessor(jx, p, n)
      PROVE  VerifyEvent(jx, n, jx[p].thisHash) = "ok"
  <2>1. p \in DOMAIN ix
    BY <1>6 DEF IsPredecessor
  <2>2. IsHead(ix, h) /\ h \in DOMAIN ix
    BY <2>1 DEF IsHead
  <2>3. RowNotLater(ix, p, h)
    BY <2>1, <2>2 DEF IsHead
  <2>4. RowNotLater(ix, h, p)
    BY <1>6, <2>1, <2>2 DEF IsPredecessor, RowNotLater
  <2>5. p = h
    BY <2>1, <2>2, <2>3, <2>4, OrderTotal DEF RowNotLater
  <2>. QED  BY <2>1, <2>5 DEF VerifyEvent, VerifyRow
<1>. QED  BY <1>3, <1>4, <1>5, <1>6 DEF Linked

(***************************************************************************)
(* The steps, grouped by what they do to the offsets.                      *)
(***************************************************************************)

(* With one worker nothing is ever rebalanced. *)
LEMMA NoRebalance ==
    ASSUME SerialDeployment, IndInv, NEW p \in Partitions, NEW w \in Workers
    PROVE  ~Rebalance(p, w)
BY DEF SerialDeployment, IndInv, TypeInv, KafkaTypes, Rebalance

(* The initial states satisfy the invariant. *)
LEMMA SerialInit == Init => SerialInv
<1>. SUFFICES ASSUME Init PROVE SerialInv
  OBVIOUS
<1>1. DOMAIN index = {} /\ \A w \in Workers : pc[w] = "idle"
  BY DEF Init, EmptyIndex
<1>2. OffsetsInv
  BY <1>1 DEF Init, OffsetsInv, Handling
<1>3. SortedTopic
  BY DEF Init, SortedTopic
<1>4. RowsInv
  BY <1>1 DEF RowsInv
<1>5. LinkInv
  BY <1>1 DEF LinkInv, ChainIntact, Linked
<1>. QED  BY <1>2, <1>3, <1>4, <1>5 DEF SerialInv

(* Every step keeps the offsets in step. *)
LEMMA OffsetsKept ==
    ASSUME SerialDeployment, IndInv, SerialInv, [Next]_vars
    PROVE  OffsetsInv'
<1>. USE DEF SerialInv
<1>1. \A p \in Partitions : committed[p] \in Nat /\ position[p] \in Nat
  BY DEF IndInv, TypeInv, KafkaTypes
<1>2. CASE UNCHANGED vars
  BY <1>2 DEF vars, kafkaVars, workerVars, OffsetsInv, Running, Handling
<1>3. ASSUME NEW p \in Partitions, NEW m \in Envelopes, Produce(p, m) PROVE OffsetsInv'
  BY <1>3 DEF Produce, workerVars, OffsetsInv, Running, Handling
<1>4. ASSUME NEW p \in Partitions, NEW w \in Workers, ReadMessage(w, p) PROVE OffsetsInv'
  <2>1. Running(w)
    BY <1>4 DEF ReadMessage, Running
  <2>2. position[p] = committed[p]
    BY <2>1 DEF OffsetsInv
  <2>3. position'[p] = position[p] + 1 /\ committed'[p] = position[p] + 1
    BY <1>4 DEF ReadMessage, IndInv, TypeInv, KafkaTypes
  <2>4. job'[w].off = position[p] + 1 /\ job'[w].part = p
    BY <1>4 DEF ReadMessage, IndInv, TypeInv, WorkerTypes
  <2>5. \A q \in Partitions, v \in Workers : q = p /\ v = w
    BY DEF SerialDeployment
  <2>. QED  BY <1>1, <2>3, <2>4, <2>5 DEF OffsetsInv
<1>5. ASSUME NEW p \in Partitions, NEW w \in Workers, ReadFails(w, p) PROVE OffsetsInv'
  <2>1. pc'[w] = "stopped" /\ position' = position
    BY <1>5 DEF ReadFails, Goto, IndInv, TypeInv, WorkerTypes
  <2>2. committed'[p] = committed[p] \/ committed'[p] = position[p] + 1
    BY <1>5 DEF ReadFails, IndInv, TypeInv, KafkaTypes
  <2>3. position[p] <= committed[p]
    BY DEF OffsetsInv
  <2>4. \A q \in Partitions, v \in Workers : q = p /\ v = w
    BY DEF SerialDeployment
  <2>5. position[p] <= committed'[p]
    BY <1>1, <2>2, <2>3
  <2>. QED  BY <2>1, <2>4, <2>5 DEF OffsetsInv, Running, Handling
<1>6. ASSUME NEW w \in Workers, Moves(w) PROVE OffsetsInv'
  <2>1. \A v \in Workers : Running(v) \/ ~(Running(v)')
    BY <1>6, MovesEffect DEF Running, Handling
  <2>2. \A v \in Workers : Handling(v) <=> Handling(v)'
    BY <1>6, MovesEffect DEF Handling
  <2>. QED  BY <1>6, <2>1, <2>2, MovesEffect DEF OffsetsInv, kafkaVars
<1>7. ASSUME NEW w \in Workers, Ack(w) PROVE OffsetsInv'
  <2>1. Running(w) /\ Handling(w) /\ Running(w)' /\ ~(Handling(w)')
    BY <1>7 DEF Ack, Goto, Running, Handling, IndInv, TypeInv, WorkerTypes
  <2>2. job[w].off = committed[job[w].part]
    BY <2>1 DEF OffsetsInv
  <2>3. committed' = committed /\ position' = position
    BY <1>7, <2>2 DEF Ack, IndInv, TypeInv, KafkaTypes
  <2>4. \A v \in Workers : v = w
    BY DEF SerialDeployment
  <2>. QED  BY <2>1, <2>3, <2>4 DEF OffsetsInv
<1>8. ASSUME NEW w \in Workers, Crash(w) PROVE OffsetsInv'
  <2>1. pc'[w] = "down"
    BY <1>8 DEF Crash, Goto, IndInv, TypeInv, WorkerTypes
  <2>2. \A v \in Workers : v = w
    BY DEF SerialDeployment
  <2>. QED  BY <1>8, <2>1, <2>2 DEF Crash, OffsetsInv, Running, Handling, kafkaVars
<1>9. ASSUME NEW w \in Workers, Restart(w) PROVE OffsetsInv'
  <2>1. \A v \in Workers : v = w
    BY DEF SerialDeployment
  <2>2. \A p \in Partitions : owner[p] = w
    BY <2>1 DEF IndInv, TypeInv, KafkaTypes
  <2>3. \A p \in Partitions : position'[p] = committed[p] /\ committed'[p] = committed[p]
    BY <1>9, <2>2 DEF Restart
  <2>4. pc'[w] = "idle"
    BY <1>9 DEF Restart, Goto, IndInv, TypeInv, WorkerTypes
  <2>. QED  BY <1>1, <2>1, <2>3, <2>4 DEF OffsetsInv, Handling
<1>10. ASSUME NEW w \in Workers, ReloadPolicy(w) PROVE OffsetsInv'
  BY <1>10 DEF ReloadPolicy, kafkaVars, workerVars, OffsetsInv, Running, Handling
<1>. QED  BY StepCases, NoRebalance, <1>2, <1>3, <1>4, <1>5, <1>6, <1>7, <1>8, <1>9, <1>10

(***************************************************************************)
(* The topic only grows, in order, and so do the committed offsets.        *)
(***************************************************************************)

(* An ordered producer keeps its partition sorted. *)
LEMMA SortedKept ==
    ASSUME SerialDeployment, IndInv, SerialInv, [Next]_vars
    PROVE  SortedTopic'
<1>1. CASE UNCHANGED topic
  BY <1>1 DEF SerialInv, SortedTopic
<1>2. ASSUME NEW p \in Partitions, NEW m \in Envelopes, Produce(p, m) PROVE SortedTopic'
  <2>. SUFFICES ASSUME NEW q \in Partitions,
                       NEW o1 \in 1..Len(topic'[q]), NEW o2 \in 1..Len(topic'[q]),
                       o1 < o2, topic'[q][o1].valid, topic'[q][o2].valid
                PROVE  NotLater(topic'[q][o1].ts, topic'[q][o1].id,
                                topic'[q][o2].ts, topic'[q][o2].id)
    BY DEF SortedTopic
  <2>1. q = p /\ Ordered
    BY DEF SerialDeployment
  <2>2. topic[q] \in Seq(Envelopes)
    BY DEF IndInv, TypeInv, KafkaTypes
  <2>3. topic'[q] = Append(topic[q], m)
    BY <1>2, <2>1 DEF Produce, IndInv, TypeInv, KafkaTypes
  <2>4. /\ Len(topic[q]) \in Nat
        /\ Len(topic'[q]) = Len(topic[q]) + 1
        /\ topic'[q][Len(topic[q]) + 1] = m
        /\ \A o \in 1..Len(topic[q]) : topic'[q][o] = topic[q][o]
    BY <2>2, <2>3
  <2>5. o1 \in 1..Len(topic[q])
    BY <2>4
  <2>6. CASE o2 \in 1..Len(topic[q])
    BY <2>4, <2>5, <2>6 DEF SerialInv, SortedTopic
  <2>7. CASE o2 = Len(topic[q]) + 1
    <3>1. topic'[q][o2] = m /\ topic'[q][o1] = topic[q][o1]
      BY <2>4, <2>5, <2>7
    <3>. QED  BY <1>2, <2>1, <2>5, <3>1 DEF Produce
  <2>. QED  BY <2>4, <2>6, <2>7
<1>. QED  BY OnlyProduceWrites, <1>1, <1>2

(* With one worker no offset is committed twice but in order. *)
LEMMA CommittedGrows ==
    ASSUME SerialDeployment, IndInv, SerialInv, [Next]_vars, NEW p \in Partitions
    PROVE  committed[p] <= committed'[p]
<1>. USE DEF SerialInv
<1>1. committed[p] \in Nat /\ position[p] \in Nat /\ committed \in [Partitions -> Nat]
  BY DEF IndInv, TypeInv, KafkaTypes
<1>2. CASE UNCHANGED committed
  BY <1>1, <1>2
<1>3. ASSUME NEW q \in Partitions, NEW w \in Workers, ReadMessage(w, q) \/ ReadFails(w, q)
      PROVE  committed[p] <= committed'[p]
  <2>1. position[p] = committed[p]
    BY <1>3 DEF OffsetsInv, Running, ReadMessage, ReadFails
  <2>2. committed'[p] = committed[p] \/ committed'[p] = position[p] + 1
    BY <1>1, <1>3 DEF ReadMessage, ReadFails, SerialDeployment
  <2>. QED  BY <1>1, <2>1, <2>2
<1>4. ASSUME NEW w \in Workers, Ack(w) PROVE committed[p] <= committed'[p]
  <2>1. job[w].off = committed[job[w].part]
    BY <1>4 DEF Ack, OffsetsInv, Handling
  <2>2. committed' = committed
    BY <1>1, <1>4, <2>1 DEF Ack
  <2>. QED  BY <1>1, <2>2
<1>5. ASSUME NEW w \in Workers, Moves(w) \/ Crash(w) \/ Restart(w) \/ ReloadPolicy(w)
      PROVE  UNCHANGED committed
  BY <1>5, MovesEffect DEF Crash, Restart, ReloadPolicy, kafkaVars
<1>6. ASSUME NEW q \in Partitions, NEW m \in Envelopes, Produce(q, m) PROVE UNCHANGED committed
  BY <1>6 DEF Produce
<1>7. CASE UNCHANGED vars
  BY <1>2, <1>7 DEF vars, kafkaVars
<1>. QED  BY StepCases, NoRebalance, <1>2, <1>3, <1>4, <1>5, <1>6, <1>7

(***************************************************************************)
(* Rows come from the messages before the committed offset.                *)
(***************************************************************************)

(* A worker inside the pipeline was there before, with the same message,   *)
(* or has just read it; past decode it was there before, or has just       *)
(* accepted it.                                                            *)
LEMMA Progress ==
    ASSUME SerialDeployment, IndInv, [Next]_vars, NEW w \in Workers,
           pc'[w] \in {"decode", "head", "put", "insert"}
    PROVE  \/ \E p \in Partitions : ReadMessage(w, p)
           \/ /\ pc[w] \in {"decode", "head", "put", "insert"}
              /\ job'[w].off = job[w].off /\ job'[w].part = job[w].part
              /\ pc'[w] # "decode" => pc[w] # "decode" \/ Accept(w)
<1>1. pc \in [Workers -> {"idle", "decode", "head", "put", "insert", "ack", "stopped", "down"}]
  BY DEF IndInv, TypeInv, WorkerTypes
<1>2. \A v \in Workers : v = w
  BY DEF SerialDeployment
<1>3. CASE UNCHANGED <<pc, job>>
  BY <1>3
<1>4. CASE Moves(w)
  <2>1. job'[w].off = job[w].off /\ job'[w].part = job[w].part
    BY <1>4, MovesEffect
  <2>2. pc'[w] # "ack"
    OBVIOUS
  <2>3. \/ Accept(w)
        \/ pc[w] \in {"head", "put", "insert"} /\ pc'[w] \in {"head", "put", "insert"}
    BY <1>1, <1>4, <2>2 DEF Moves, Goto, Reject, RejectUnrecorded, ReadHead, ReadHeadFails,
           PutPayload, PutIsRefused, PutFails, InsertRow, InsertFails
  <2>4. Accept(w) => pc[w] = "decode"
    BY DEF Accept
  <2>. QED  BY <2>1, <2>3, <2>4
<1>5. CASE \E p \in Partitions : ReadFails(w, p)
  BY <1>1, <1>5 DEF ReadFails, Goto
<1>6. CASE Ack(w) \/ Crash(w) \/ Restart(w)
  BY <1>1, <1>6 DEF Ack, Crash, Restart, Goto
<1>7. CASE UNCHANGED vars \/ (\E p \in Partitions, m \in Envelopes : Produce(p, m)) \/ ReloadPolicy(w)
  <2>1. UNCHANGED <<pc, job>>
    BY <1>7 DEF vars, Produce, ReloadPolicy, workerVars
  <2>. QED  BY <1>3, <2>1
<1>. QED  BY StepCases, NoRebalance, <1>2, <1>4, <1>5, <1>6, <1>7

(* A row keeps the message it comes from. *)
LEMMA StillComesFrom ==
    ASSUME IndInv, [Next]_vars, NEW i, NEW p \in Partitions, NEW n \in Nat, NEW m \in Nat,
           ComesFrom(topic[p], n, i, index[i].ts), n <= m, n <= Len(topic[p]), index'[i].ts = index[i].ts
    PROVE  ComesFrom(topic'[p], m, i, index'[i].ts)
<1>1. PICK o \in 1..n : topic[p][o].valid /\ topic[p][o].id = i /\ topic[p][o].ts = index[i].ts
  BY DEF ComesFrom
<1>2. topic[p] \in Seq(Envelopes)
  BY DEF IndInv, TypeInv, KafkaTypes
<1>3. Len(topic[p]) \in Nat
  BY <1>2
<1>4. o \in 1..Len(topic[p]) /\ o \in 1..m
  BY <1>1, <1>3
<1>. QED  BY <1>1, <1>4, TopicGrows DEF ComesFrom

(* Where the new row comes from and what it holds. *)
LEMMA NewRowIs ==
    ASSUME SerialDeployment, IndInv, SerialInv, NEW w \in Workers, pc[w] = "insert", Index(w)
    PROVE  /\ Msg(w).id \in Nat /\ Msg(w).ts \in Nat
           /\ DOMAIN index' = DOMAIN index \cup {Msg(w).id}
           /\ \A i \in DOMAIN index : index'[i] = index[i]
           /\ Msg(w).id \notin DOMAIN index =>
                 /\ index'[Msg(w).id].ts = Msg(w).ts
                 /\ index'[Msg(w).id].prevHash = HeadHash
                 /\ EventHash(Msg(w).id, index'[Msg(w).id]) = index'[Msg(w).id].thisHash
<1>1. Handling(w) /\ job[w].prev = HeadHash
  BY DEF Handling, SerialInv, LinkInv
<1>2. Msg(w) \in Envelopes
  BY <1>1, MsgType DEF IndInv, TypeInv
<1>3. Msg(w).id \in Nat /\ Msg(w).ts \in Nat
  BY <1>2, IngestAssumption
<1>4. /\ DOMAIN index' = DOMAIN index \cup {Msg(w).id}
      /\ \A i \in DOMAIN index : index'[i] = index[i]
      /\ Msg(w).id \notin DOMAIN index =>
            index'[Msg(w).id] = NewRow(Msg(w), job[w].redacted, job[w].prev)
  <2>1. index' = Insert(index, Msg(w).id, NewRow(Msg(w), job[w].redacted, job[w].prev))
    BY DEF Index
  <2>. QED  BY <2>1 DEF Insert
<1>5. StoredTS(Msg(w).ts) = Msg(w).ts
  BY <1>3, ExactTS DEF SerialDeployment
<1>6. LET row == NewRow(Msg(w), job[w].redacted, job[w].prev)
      IN  row.ts = Msg(w).ts /\ row.prevHash = HeadHash /\ EventHash(Msg(w).id, row) = row.thisHash
  BY <1>1, <1>5 DEF NewRow, EventHash
<1>. QED  BY <1>3, <1>4, <1>6

(* The index changes only when the worker goes from insert to ack. *)
LEMMA InsertsOnly ==
    ASSUME IndInv, [Next]_vars
    PROVE  \/ UNCHANGED index
           \/ \E w \in Workers : pc[w] = "insert" /\ Index(w) /\ pc'[w] = "ack"
<1>1. pc \in [Workers -> {"idle", "decode", "head", "put", "insert", "ack", "stopped", "down"}]
  BY DEF IndInv, TypeInv, WorkerTypes
<1>2. CASE UNCHANGED vars
  BY <1>2 DEF vars, storeVars
<1>3. CASE \E p \in Partitions, m \in Envelopes : Produce(p, m)
  BY <1>3 DEF Produce, storeVars
<1>4. ASSUME NEW p \in Partitions, NEW w \in Workers,
             Rebalance(p, w) \/ ReadMessage(w, p) \/ ReadFails(w, p)
      PROVE  UNCHANGED index
  BY <1>4 DEF Rebalance, ReadMessage, ReadFails, storeVars
<1>5. ASSUME NEW w \in Workers, Moves(w)
      PROVE  UNCHANGED index \/ (pc[w] = "insert" /\ Index(w) /\ pc'[w] = "ack")
  BY <1>1, <1>5 DEF Moves, Reject, RejectUnrecorded, Accept, ReadHead, ReadHeadFails, PutPayload,
         PutIsRefused, PutFails, InsertRow, InsertFails, Goto, storeVars
<1>6. ASSUME NEW w \in Workers, Ack(w) \/ Crash(w) \/ Restart(w) \/ ReloadPolicy(w)
      PROVE  UNCHANGED index
  BY <1>6 DEF Ack, Crash, Restart, ReloadPolicy, storeVars
<1>. QED  BY StepCases, <1>2, <1>3, <1>4, <1>5, <1>6

(* Every step keeps the rows behind the offsets. *)
LEMMA RowsKept ==
    ASSUME SerialDeployment, IndInv, SerialInv, [Next]_vars
    PROVE  RowsInv'
<1>. USE DEF SerialInv
<1>1. \A p \in Partitions : /\ committed[p] \in Nat /\ committed'[p] \in Nat
                            /\ committed[p] <= Len(topic[p])
                            /\ committed[p] <= committed'[p]
  BY CommittedGrows, NextIndInv DEF IndInv, TypeInv, KafkaTypes
<1>2. CASE UNCHANGED index
  <2>1. ASSUME NEW i \in DOMAIN index', NEW p \in Partitions
        PROVE  ComesFrom(topic'[p], committed'[p], i, index'[i].ts)
    <3>1. ComesFrom(topic[p], committed[p], i, index[i].ts)
      BY <1>2 DEF RowsInv
    <3>. QED  BY <1>1, <1>2, <3>1, StillComesFrom
  <2>2. ASSUME NEW w \in Workers, NEW i \in DOMAIN index',
               pc'[w] \in {"decode", "head", "put", "insert"}
        PROVE  ComesFrom(topic'[job'[w].part], job'[w].off - 1, i, index'[i].ts)
    <3>1. ASSUME NEW p \in Partitions, ReadMessage(w, p)
          PROVE  ComesFrom(topic'[job'[w].part], job'[w].off - 1, i, index'[i].ts)
      <4>1. job'[w].part = p /\ job'[w].off = position[p] + 1
        BY <3>1 DEF ReadMessage, IndInv, TypeInv, WorkerTypes
      <4>2. position[p] = committed[p]
        BY <3>1 DEF ReadMessage, OffsetsInv, Running
      <4>3. ComesFrom(topic[p], committed[p], i, index[i].ts)
        BY <1>2 DEF RowsInv
      <4>4. job'[w].off - 1 = committed[p]
        BY <1>1, <4>1, <4>2
      <4>. QED  BY <1>1, <1>2, <4>1, <4>3, <4>4, StillComesFrom
    <3>2. CASE /\ pc[w] \in {"decode", "head", "put", "insert"}
               /\ job'[w].off = job[w].off /\ job'[w].part = job[w].part
      <4>1. ComesFrom(topic[job[w].part], job[w].off - 1, i, index[i].ts)
        BY <1>2, <3>2 DEF RowsInv
      <4>2. /\ job[w].part \in Partitions /\ job[w].off \in 1..Len(topic[job[w].part])
        BY <3>2, MsgType DEF Handling, IndInv, TypeInv
      <4>3. topic[job[w].part] \in Seq(Envelopes)
        BY <4>2 DEF IndInv, TypeInv, KafkaTypes
      <4>4. job[w].off - 1 \in Nat /\ job[w].off - 1 <= Len(topic[job[w].part])
        BY <4>2, <4>3
      <4>. QED  BY <1>2, <3>2, <4>1, <4>2, <4>4, StillComesFrom
    <3>. QED  BY <2>2, <3>1, <3>2, Progress
  <2>3. ASSUME NEW w \in Workers, pc'[w] \in {"head", "put", "insert"}
        PROVE  Msg(w)'.valid
    <3>1. /\ pc[w] \in {"decode", "head", "put", "insert"}
          /\ job'[w].off = job[w].off /\ job'[w].part = job[w].part
          /\ pc[w] # "decode" \/ Accept(w)
      <4>1. \A p \in Partitions : ~ReadMessage(w, p)
        BY <2>3 DEF ReadMessage, Goto, IndInv, TypeInv, WorkerTypes
      <4>. QED  BY <2>3, <4>1, Progress
    <3>2. Msg(w).valid
      BY <3>1 DEF RowsInv, Accept, Rejection
    <3>3. /\ job[w].part \in Partitions /\ job[w].off \in 1..Len(topic[job[w].part])
      BY <3>1, MsgType DEF Handling, IndInv, TypeInv
    <3>4. topic'[job[w].part][job[w].off] = topic[job[w].part][job[w].off]
      BY <3>3, TopicGrows
    <3>. QED  BY <3>1, <3>2, <3>4 DEF Msg
  <2>. QED  BY <2>1, <2>2, <2>3 DEF RowsInv
<1>3. ASSUME NEW w \in Workers, pc[w] = "insert", Index(w), pc'[w] = "ack"
      PROVE  RowsInv'
  <2>1. \A v \in Workers : pc'[v] = "ack"
    BY <1>3 DEF SerialDeployment
  <2>2. ASSUME NEW i \in DOMAIN index', NEW p \in Partitions
        PROVE  ComesFrom(topic'[p], committed'[p], i, index'[i].ts)
    <3>1. CASE i \in DOMAIN index
      <4>1. ComesFrom(topic[p], committed[p], i, index[i].ts)
        BY <3>1 DEF RowsInv
      <4>. QED  BY <1>1, <1>3, <3>1, <4>1, NewRowIs, StillComesFrom
    <3>2. CASE i \notin DOMAIN index
      <4>1. i = Msg(w).id /\ index'[i].ts = Msg(w).ts
        BY <1>3, <3>2, NewRowIs
      <4>2. p = job[w].part /\ job[w].off \in 1..Len(topic[p])
        BY <1>3, MsgType DEF Handling, IndInv, TypeInv, SerialDeployment
      <4>3. job[w].off = committed[p] /\ Msg(w).valid
        BY <1>3, <4>2 DEF OffsetsInv, RowsInv, Handling
      <4>4. topic'[p][job[w].off] = topic[p][job[w].off]
        BY <4>2, TopicGrows
      <4>5. job[w].off \in 1..committed'[p]
        BY <1>1, <4>2, <4>3
      <4>. QED  BY <4>1, <4>2, <4>3, <4>4, <4>5 DEF Msg, ComesFrom
    <3>. QED  BY <3>1, <3>2
  <2>. QED  BY <2>1, <2>2 DEF RowsInv
<1>. QED  BY <1>2, <1>3, InsertsOnly

(***************************************************************************)
(* The chain.                                                              *)
(***************************************************************************)

(* Every row is listed before the message being inserted. *)
LEMMA RowsBefore ==
    ASSUME SerialDeployment, IndInv, SerialInv, NEW w \in Workers, pc[w] = "insert",
           NEW i \in DOMAIN index
    PROVE  NotLater(index[i].ts, i, Msg(w).ts, Msg(w).id)
<1>. USE DEF SerialInv
<1>1. ComesFrom(topic[job[w].part], job[w].off - 1, i, index[i].ts)
  BY DEF RowsInv
<1>2. /\ job[w].part \in Partitions /\ job[w].off \in 1..Len(topic[job[w].part])
  BY MsgType DEF Handling, IndInv, TypeInv
<1>3. topic[job[w].part] \in Seq(Envelopes)
  BY <1>2 DEF IndInv, TypeInv, KafkaTypes
<1>4. PICK o \in 1..(job[w].off - 1) : /\ topic[job[w].part][o].valid
                                      /\ topic[job[w].part][o].id = i
                                      /\ topic[job[w].part][o].ts = index[i].ts
  BY <1>1 DEF ComesFrom
<1>5. Len(topic[job[w].part]) \in Nat
  BY <1>3
<1>6. o \in 1..Len(topic[job[w].part]) /\ o < job[w].off
  BY <1>2, <1>4, <1>5
<1>7. Msg(w).valid
  BY DEF RowsInv
<1>. QED  BY <1>2, <1>4, <1>6, <1>7 DEF SortedTopic, Msg

(* Inserting the message in hand keeps the chain intact. *)
LEMMA InsertKeepsChain ==
    ASSUME SerialDeployment, IndInv, SerialInv, NEW w \in Workers, pc[w] = "insert", Index(w)
    PROVE  ChainIntact'
<1>. DEFINE id == Msg(w).id
            h  == ChainHead(index)
<1>1. Linked(index)
  BY DEF SerialInv, LinkInv, ChainIntact
<1>2. /\ id \in Nat /\ Msg(w).ts \in Nat
      /\ DOMAIN index' = DOMAIN index \cup {id}
      /\ \A i \in DOMAIN index : index'[i] = index[i]
      /\ id \notin DOMAIN index =>
            /\ index'[id].ts = Msg(w).ts
            /\ index'[id].prevHash = HeadHash
            /\ EventHash(id, index'[id]) = index'[id].thisHash
  BY NewRowIs
<1>3. \A i \in DOMAIN index : NotLater(index[i].ts, i, Msg(w).ts, id)
  BY RowsBefore
<1>4. \A i \in DOMAIN index : i \in Nat /\ index[i].ts \in Nat
  BY IngestAssumption DEF IndInv, TypeInv, IndexTypes, Ids, Row
<1>5. /\ DOMAIN index # {} => IsHead(index, h) /\ HeadHash = index[h].thisHash
      /\ DOMAIN index = {} => HeadHash = ZeroHash
  BY HeadHashKnown DEF IndInv, HeadHash
<1>. HIDE DEF id, h
<1>6. CASE id \in DOMAIN index
  <2>1. index' = [i \in DOMAIN index' |-> index'[i]] /\ index = [i \in DOMAIN index |-> index[i]]
    BY DEF Index, Insert, IndInv, TypeInv, IndexTypes
  <2>2. DOMAIN index' = DOMAIN index
    BY <1>2, <1>6
  <2>3. index' = index
    BY <1>2, <2>1, <2>2
  <2>. QED  BY <1>1, <2>3 DEF ChainIntact
<1>7. CASE id \notin DOMAIN index
  <2>1. Linked(index')
    BY <1>1, <1>2, <1>3, <1>4, <1>5, <1>7, LinkLast
  <2>. QED  BY <2>1 DEF ChainIntact
<1>. QED  BY <1>6, <1>7

(* A worker past the head lookup carries what it carried, or has just      *)
(* looked.                                                                 *)
LEMMA CarriesPrev ==
    ASSUME SerialDeployment, IndInv, [Next]_vars, NEW w \in Workers, pc'[w] \in {"put", "insert"}
    PROVE  \/ ReadHead(w)
           \/ pc[w] \in {"put", "insert"} /\ job'[w].prev = job[w].prev
<1>1. pc \in [Workers -> {"idle", "decode", "head", "put", "insert", "ack", "stopped", "down"}]
  BY DEF IndInv, TypeInv, WorkerTypes
<1>2. \A v \in Workers : v = w
  BY DEF SerialDeployment
<1>3. CASE UNCHANGED <<pc, job>>
  BY <1>3
<1>4. CASE Moves(w)
  BY <1>1, <1>4 DEF Moves, Goto, Reject, RejectUnrecorded, Accept, ReadHeadFails,
         PutPayload, PutIsRefused, PutFails, InsertRow, InsertFails
<1>5. CASE \E p \in Partitions : ReadFails(w, p) \/ ReadMessage(w, p)
  BY <1>1, <1>5 DEF ReadFails, ReadMessage, Goto
<1>6. CASE Ack(w) \/ Crash(w) \/ Restart(w)
  BY <1>1, <1>6 DEF Ack, Crash, Restart, Goto
<1>7. CASE UNCHANGED vars \/ (\E p \in Partitions, m \in Envelopes : Produce(p, m)) \/ ReloadPolicy(w)
  <2>1. UNCHANGED <<pc, job>>
    BY <1>7 DEF vars, Produce, ReloadPolicy, workerVars
  <2>. QED  BY <1>3, <2>1
<1>. QED  BY StepCases, NoRebalance, <1>2, <1>4, <1>5, <1>6, <1>7

(* Every step keeps the chain linked. *)
LEMMA LinkKept ==
    ASSUME SerialDeployment, IndInv, SerialInv, [Next]_vars
    PROVE  LinkInv'
<1>. USE DEF SerialInv
<1>1. CASE UNCHANGED index
  <2>1. ChainIntact' /\ HeadHash' = HeadHash
    BY <1>1 DEF LinkInv, ChainIntact, HeadHash
  <2>2. ASSUME NEW w \in Workers, pc'[w] \in {"put", "insert"}
        PROVE  job'[w].prev = HeadHash
    <3>1. CASE ReadHead(w)
      BY <3>1 DEF ReadHead, IndInv, TypeInv, WorkerTypes
    <3>2. CASE pc[w] \in {"put", "insert"} /\ job'[w].prev = job[w].prev
      BY <3>2 DEF LinkInv
    <3>. QED  BY <2>2, <3>1, <3>2, CarriesPrev
  <2>. QED  BY <2>1, <2>2 DEF LinkInv
<1>2. ASSUME NEW w \in Workers, pc[w] = "insert", Index(w), pc'[w] = "ack"
      PROVE  LinkInv'
  <2>1. \A v \in Workers : pc'[v] = "ack"
    BY <1>2 DEF SerialDeployment
  <2>. QED  BY <1>2, <2>1, InsertKeepsChain DEF LinkInv
<1>. QED  BY <1>1, <1>2, InsertsOnly

(* The invariant of a serial deployment is inductive. *)
LEMMA SerialNext ==
    ASSUME SerialDeployment
    PROVE  IndInv /\ SerialInv /\ [Next]_vars => SerialInv'
BY OffsetsKept, SortedKept, RowsKept, LinkKept DEF SerialInv

(* With one worker, one partition, ordered producers and an exact ts       *)
(* column, a full walk of the index finds an intact chain in every state,  *)
(* whatever crashes, fails and is sent or delivered twice.                 *)
THEOREM SerialChainIntact ==
    ASSUME SerialDeployment
    PROVE  Spec => []ChainIntact
<1>1. SerialInv => ChainIntact
  BY DEF SerialInv, LinkInv
<1>2. IndInv /\ SerialInv /\ [Next]_vars => SerialInv'
  BY SerialNext
<1>. QED  BY <1>1, <1>2, SerialInit, Invariance, PTL DEF Spec

(***************************************************************************)
(* The composed system.  An anchor loop reads no more than the hash of the *)
(* head and marks every row before it: that the root covers those rows is  *)
(* a matter of the chain alone.                                            *)
(***************************************************************************)

(* S holds the row before each of its rows. *)
ClosedUnderPrev(S) ==
    \A j \in S : \A k \in DOMAIN index : index[k].thisHash = index[j].prevHash => k \in S

(* From every row, following prev_hash leads to all rows before it. *)
ReachInv ==
    \A i, j \in DOMAIN index :
        RowNotLater(index, i, j) =>
            \A S \in SUBSET DOMAIN index : ClosedUnderPrev(S) /\ j \in S => i \in S

SerialAuditInv == AuditInv /\ SerialInv /\ ReachInv

(* A row added after all others leads to the head, and so to all of them. *)
LEMMA InsertReaches ==
    ASSUME SerialDeployment, IndInv, SerialInv, ReachInv,
           NEW w \in Workers, pc[w] = "insert", Index(w)
    PROVE  ReachInv'
<1>. DEFINE id == Msg(w).id
            h  == ChainHead(index)
<1>1. /\ id \in Nat /\ Msg(w).ts \in Nat
      /\ DOMAIN index' = DOMAIN index \cup {id}
      /\ \A i \in DOMAIN index : index'[i] = index[i]
      /\ id \notin DOMAIN index =>
            index'[id].ts = Msg(w).ts /\ index'[id].prevHash = HeadHash
  BY NewRowIs
<1>2. \A i \in DOMAIN index : NotLater(index[i].ts, i, Msg(w).ts, id)
  BY RowsBefore
<1>3. \A i \in DOMAIN index : i \in Nat /\ index[i].ts \in Nat
  BY IngestAssumption DEF IndInv, TypeInv, IndexTypes, Ids, Row
<1>4. DOMAIN index # {} => IsHead(index, h) /\ HeadHash = index[h].thisHash
  BY HeadHashKnown DEF IndInv, HeadHash
<1>. HIDE DEF id, h
<1>. SUFFICES ASSUME NEW i \in DOMAIN index', NEW j \in DOMAIN index', RowNotLater(index', i, j),
                     NEW S \in SUBSET DOMAIN index', ClosedUnderPrev(S)', j \in S
              PROVE  i \in S
  BY DEF ReachInv
<1>. DEFINE T == S \cap DOMAIN index
<1>5. T \in SUBSET DOMAIN index /\ ClosedUnderPrev(T)
  BY <1>1 DEF ClosedUnderPrev
<1>6. ASSUME NEW k \in T, i \in DOMAIN index, RowNotLater(index, i, k)
      PROVE  i \in S
  <2>1. k \in DOMAIN index
    OBVIOUS
  <2>. HIDE DEF T
  <2>2. i \in T
    BY <1>5, <1>6, <2>1 DEF ReachInv
  <2>. QED  BY <2>2 DEF T
<1>7. CASE j \in DOMAIN index
  <2>1. i \in DOMAIN index
    <3>. SUFFICES ASSUME i = id, id \notin DOMAIN index PROVE FALSE
      BY <1>1
    <3>1. NotLater(Msg(w).ts, id, index[j].ts, j) /\ NotLater(index[j].ts, j, Msg(w).ts, id)
      BY <1>1, <1>2, <1>7 DEF RowNotLater
    <3>. QED  BY <1>1, <1>3, <1>7, <3>1, OrderTotal
  <2>2. RowNotLater(index, i, j)
    BY <1>1, <1>7, <2>1 DEF RowNotLater
  <2>. QED  BY <1>6, <1>7, <2>1, <2>2
<1>8. CASE j \notin DOMAIN index /\ i \in DOMAIN index
  <2>1. j = id /\ index'[j].prevHash = HeadHash
    BY <1>1, <1>8
  <2>2. h \in DOMAIN index /\ RowNotLater(index, i, h) /\ HeadHash = index[h].thisHash
    BY <1>4, <1>8 DEF IsHead
  <2>3. index'[h].thisHash = index'[j].prevHash /\ h \in DOMAIN index'
    BY <1>1, <2>1, <2>2
  <2>4. h \in S
    BY <2>3 DEF ClosedUnderPrev
  <2>. QED  BY <1>6, <1>8, <2>2, <2>4
<1>9. CASE j \notin DOMAIN index /\ i \notin DOMAIN index
  BY <1>1, <1>9
<1>. QED  BY <1>7, <1>8, <1>9

(* An ingest step keeps what prev_hash leads to. *)
LEMMA ReachKept ==
    ASSUME SerialDeployment, IndInv, SerialInv, ReachInv, [Next]_vars
    PROVE  ReachInv'
<1>1. CASE UNCHANGED index
  BY <1>1 DEF ReachInv, ClosedUnderPrev
<1>. QED  BY <1>1, InsertsOnly, InsertReaches

(* A change of flags leaves order and hashes of the rows alone. *)
LEMMA FlagsKeepSerial ==
    ASSUME IndInv, SerialInv, ReachInv, UNCHANGED index \/ OnlyFlags,
           UNCHANGED <<kafkaVars, workerVars>>
    PROVE  SerialInv' /\ ReachInv'
<1>. USE DEF SerialInv
<1>1. DOMAIN index' = DOMAIN index
  BY DEF OnlyFlags
<1>2. ASSUME NEW i \in DOMAIN index
      PROVE  /\ index'[i].ts = index[i].ts
             /\ index'[i].fields = index[i].fields
             /\ index'[i].payloadHash = index[i].payloadHash
             /\ index'[i].prevHash = index[i].prevHash
             /\ index'[i].thisHash = index[i].thisHash
  <2>1. CASE UNCHANGED index
    BY <2>1
  <2>2. CASE OnlyFlags
    <3>1. Columns(index'[i]) = Columns(index[i])
      BY <2>2 DEF OnlyFlags
    <3>. QED  BY <3>1 DEF Columns
  <2>. QED  BY <2>1, <2>2
<1>3. OffsetsInv' /\ SortedTopic'
  BY DEF OffsetsInv, SortedTopic, Running, Handling, kafkaVars, workerVars
<1>4. RowsInv'
  <2>1. ASSUME NEW i \in DOMAIN index, NEW p, NEW n
        PROVE  ComesFrom(topic'[p], n, i, index'[i].ts) = ComesFrom(topic[p], n, i, index[i].ts)
    BY <1>2 DEF kafkaVars
  <2>2. UNCHANGED <<committed, pc, job, topic>>
    BY DEF kafkaVars, workerVars
  <2>3. \A w \in Workers : Msg(w)' = Msg(w)
    BY <2>2 DEF Msg
  <2>. HIDE DEF SerialInv
  <2>4. ASSUME NEW i \in DOMAIN index', NEW p \in Partitions
        PROVE  ComesFrom(topic'[p], committed'[p], i, index'[i].ts)
    BY <1>1, <2>1, <2>2 DEF RowsInv, SerialInv
  <2>5. ASSUME NEW w \in Workers, NEW i \in DOMAIN index',
               pc'[w] \in {"decode", "head", "put", "insert"}
        PROVE  ComesFrom(topic'[job'[w].part], job'[w].off - 1, i, index'[i].ts)
    BY <1>1, <2>1, <2>2, <2>5 DEF RowsInv, SerialInv
  <2>6. ASSUME NEW w \in Workers, pc'[w] \in {"head", "put", "insert"}
        PROVE  Msg(w)'.valid
    BY <2>2, <2>3, <2>6 DEF RowsInv, SerialInv
  <2>. QED  BY <2>4, <2>5, <2>6 DEF RowsInv
<1>5. \A i, j \in DOMAIN index : RowNotLater(index', i, j) <=> RowNotLater(index, i, j)
  BY <1>2 DEF RowNotLater
<1>6. HeadHash' = HeadHash
  <2>1. CASE DOMAIN index = {}
    BY <1>1, <2>1 DEF HeadHash
  <2>2. CASE DOMAIN index # {}
    <3>. DEFINE h == ChainHead(index)
                g == ChainHead(index')
    <3>1. IsHead(index, h)
      BY <2>2, HeadHashKnown DEF IndInv
    <3>2. IsHead(index', h)
      BY <1>1, <1>5, <3>1 DEF IsHead
    <3>3. g \in DOMAIN index' /\ IsHead(index', g)
      BY <3>2 DEF ChainHead, IsHead
    <3>. HIDE DEF h, g
    <3>4. h \in DOMAIN index /\ g \in DOMAIN index /\ RowNotLater(index, h, g) /\ RowNotLater(index, g, h)
      BY <1>1, <1>5, <3>1, <3>3 DEF IsHead
    <3>5. h \in Nat /\ g \in Nat /\ index[h].ts \in Nat /\ index[g].ts \in Nat
      BY <3>4, IngestAssumption DEF IndInv, TypeInv, IndexTypes, Ids, Row
    <3>6. g = h
      BY <3>4, <3>5, OrderTotal DEF RowNotLater
    <3>. QED  BY <1>1, <1>2, <2>2, <3>4, <3>6 DEF HeadHash, h, g
  <2>. QED  BY <2>1, <2>2
<1>7. LinkInv'
  <2>1. \A i \in DOMAIN index : \A prev : VerifyEvent(index', i, prev) = VerifyEvent(index, i, prev)
    BY <1>2 DEF VerifyEvent, VerifyRow, EventHash
  <2>2. \A i, p \in DOMAIN index : IsPredecessor(index', p, i) <=> IsPredecessor(index, p, i)
    BY <1>1, <1>5 DEF IsPredecessor
  <2>3. \A i \in DOMAIN index : IsFirst(index', i) <=> IsFirst(index, i)
    BY <1>1, <1>5 DEF IsFirst
  <2>4. Linked(index) => Linked(index')
    BY <1>1, <1>2, <2>1, <2>2, <2>3 DEF Linked
  <2>. QED  BY <1>6, <2>4 DEF LinkInv, ChainIntact, workerVars
<1>8. ReachInv'
  <2>1. \A S \in SUBSET DOMAIN index : ClosedUnderPrev(S)' => ClosedUnderPrev(S)
    BY <1>1, <1>2 DEF ClosedUnderPrev
  <2>. QED  BY <1>1, <1>5, <2>1 DEF ReachInv
<1>. QED  BY <1>3, <1>4, <1>7, <1>8

(* What a step of the composed system is to the chain. *)
LEMMA ChainStep ==
    ASSUME AuditInv, [AuditNext]_allVars
    PROVE  \/ [Next]_vars
           \/ (UNCHANGED index \/ OnlyFlags) /\ UNCHANGED <<kafkaVars, workerVars>>
<1>. USE DEF ingestRest, AuditInv
<1>1. ASSUME NEW w \in Workers, AnchorMark(w) \/ AnchorMarkFails(w)
      PROVE  (UNCHANGED index \/ OnlyFlags) /\ UNCHANGED <<kafkaVars, workerVars>>
  BY <1>1, MarkIsFlags DEF AnchorMark, AnchorMarkFails
<1>2. ASSUME NEW w \in Workers, AnchorReadHead(w) \/ AnchorInsert(w) \/ AnchorInsertFails(w)
      PROVE  UNCHANGED index /\ UNCHANGED <<kafkaVars, workerVars>>
  BY <1>2 DEF AnchorReadHead, AnchorInsert, AnchorInsertFails
<1>3. ASSUME NEW id \in Ids, NEW hold \in BOOLEAN, LegalHold(id, hold)
      PROVE  OnlyFlags /\ UNCHANGED <<kafkaVars, workerVars>>
  BY <1>3, HoldIsFlags DEF LegalHold
<1>4. (Step /\ UNCHANGED anchorVars) \/ UNCHANGED allVars
      \/ (\E w \in Workers : ProcessCrash(w)) => [Next]_vars
  BY DEF Next, ProcessCrash, allVars
<1>. QED  BY <1>1, <1>2, <1>3, <1>4 DEF AuditNext, AnchorStep

(* The invariant of the composed serial deployment. *)
LEMMA SerialAuditInvariance ==
    ASSUME SerialDeployment
    PROVE  AuditSpec => []SerialAuditInv
<1>1. AuditInit => SerialAuditInv
  BY AuditInitInv, SerialInit DEF AuditInit, Init, EmptyIndex, SerialAuditInv, ReachInv
<1>2. SerialAuditInv /\ [AuditNext]_allVars => SerialAuditInv'
  <2>. SUFFICES ASSUME SerialAuditInv, [AuditNext]_allVars PROVE SerialAuditInv'
    OBVIOUS
  <2>1. AuditInv'
    BY AuditNextInv DEF SerialAuditInv
  <2>2. CASE [Next]_vars
    BY <2>1, <2>2, SerialNext, ReachKept DEF SerialAuditInv, AuditInv
  <2>3. CASE (UNCHANGED index \/ OnlyFlags) /\ UNCHANGED <<kafkaVars, workerVars>>
    BY <2>1, <2>3, FlagsKeepSerial DEF SerialAuditInv, AuditInv
  <2>. QED  BY <2>2, <2>3, ChainStep DEF SerialAuditInv
<1>. QED  BY <1>1, <1>2, PTL DEF AuditSpec

(* The chain verifies while rows are anchored and put under legal hold.    *)
THEOREM ChainIntactWhileAnchored ==
    ASSUME SerialDeployment
    PROVE  AuditSpec => []ChainIntact
<1>1. SerialAuditInv => ChainIntact
  BY DEF SerialAuditInv, SerialInv, LinkInv
<1>. QED  BY <1>1, SerialAuditInvariance, PTL

(* A row that says anchored is included in a root that was signed: its     *)
(* hash is reached from the root, even when it was inserted while the      *)
(* anchor loop was between its calls, or the run failed half way.          *)
THEOREM AnchoredInRootHolds ==
    ASSUME SerialDeployment
    PROVE  AuditSpec => []AnchoredInRoot
<1>1. ASSUME SerialAuditInv, NEW i \in DOMAIN index, index[i].anchored
      PROVE  \E a \in anchors : CoveredBy(a, i)
  <2>1. PICK a \in anchors : NotLater(index[i].ts, i, a.ts, a.id)
    BY <1>1 DEF SerialAuditInv, AuditInv, AnchoredAfterAnchor
  <2>2. a.id \in DOMAIN index /\ index[a.id].ts = a.ts /\ index[a.id].thisHash = a.root
    BY <1>1 DEF SerialAuditInv, AuditInv, LoopInv, Names
  <2>3. RowNotLater(index, i, a.id)
    BY <2>1, <2>2 DEF RowNotLater
  <2>4. ASSUME NEW S \in SUBSET DOMAIN index,
               \A j \in DOMAIN index : index[j].thisHash = a.root => j \in S,
               ClosedUnderPrev(S)
        PROVE  i \in S
    <3>1. a.id \in S
      BY <2>2, <2>4
    <3>. QED  BY <1>1, <2>2, <2>3, <2>4, <3>1 DEF SerialAuditInv, ReachInv
  <2>. QED  BY <2>4 DEF CoveredBy, ClosedUnderPrev
<1>2. SerialAuditInv => AnchoredInRoot
  BY <1>1 DEF AnchoredInRoot
<1>. QED  BY <1>2, SerialAuditInvariance, PTL

(***************************************************************************)
(* Refinement: the listing is a sequence that grows at its end.            *)
(***************************************************************************)

(* What is listed of a row. *)
Entry(ix, i) == [id |-> i, prev |-> ix[i].prevHash, this |-> ix[i].thisHash]

(* The listing holds each row at its rank, and nothing else. *)
LEMMA ListAllIs ==
    ASSUME NEW ix, Placed(ix)
    PROVE  LET D == DOMAIN ix
               n == Cardinality(D)
           IN  /\ n \in Nat /\ Len(ListAll(ix)) = n /\ DOMAIN ListAll(ix) = 1..n
               /\ \E R : ListAll(ix) \in Seq(R)
               /\ \A k \in 1..n : \E i \in D : Rank(ix, D, i) = k
               /\ \A i \in D : /\ Rank(ix, D, i) \in 1..n
                               /\ ListAll(ix)[Rank(ix, D, i)] = Entry(ix, i)
<1>. DEFINE D == DOMAIN ix
            n == Cardinality(D)
            At(k) == CHOOSE j \in D : Rank(ix, D, j) = k
            R == {Entry(ix, i) : i \in D}
            L == ListAll(ix)
<1>1. n \in Nat
  BY FS_CardinalityType DEF Placed
<1>2. \A k \in 1..n : \E i \in D : Rank(ix, D, i) = k
  BY RankTaken
<1>3. \A i \in D : Rank(ix, D, i) \in 1..n
  BY RankRange
<1>4. ASSUME NEW k \in 1..n PROVE At(k) \in D /\ Rank(ix, D, At(k)) = k
  <2>1. \E i \in D : Rank(ix, D, i) = k
    BY <1>2
  <2>. HIDE DEF D
  <2>. QED  BY <2>1
<1>5. ASSUME NEW i \in D, NEW j \in D, Rank(ix, D, i) = Rank(ix, D, j) PROVE i = j
  <2>1. Rank(ix, D, i) \in Nat /\ Rank(ix, D, j) \in Nat
    BY <1>1, <1>3
  <2>2. RowNotLater(ix, i, j) /\ RowNotLater(ix, j, i)
    BY <1>5, <2>1, RankOrder
  <2>. QED  BY <2>2, TotalOrder
<1>6. L = [k \in 1..n |-> Entry(ix, At(k))]
  BY DEF ListAll, Entry
<1>. HIDE DEF L, n, At, D
<1>7. L \in [1..n -> R]
  BY <1>4, <1>6
<1>8. L \in Seq(R) /\ Len(L) = n /\ DOMAIN L = 1..n
  BY <1>1, <1>7
<1>9. \E T : L \in Seq(T)
  <2>. HIDE DEF R
  <2>. QED  BY <1>8
<1>10. ASSUME NEW i \in D PROVE L[Rank(ix, D, i)] = Entry(ix, i)
  <2>1. Rank(ix, D, i) \in 1..n
    BY <1>3
  <2>2. At(Rank(ix, D, i)) = i
    BY <1>4, <1>5, <2>1
  <2>. QED  BY <1>6, <2>1, <2>2
<1>. QED  BY <1>1, <1>2, <1>3, <1>8, <1>9, <1>10 DEF L, n, D

(* Rows of the same order and hashes are listed alike. *)
LEMMA SameListing ==
    ASSUME NEW ix, Placed(ix), NEW jx, DOMAIN jx = DOMAIN ix,
           \A i \in DOMAIN ix : /\ jx[i].ts = ix[i].ts
                                /\ jx[i].prevHash = ix[i].prevHash
                                /\ jx[i].thisHash = ix[i].thisHash
    PROVE  ListAll(jx) = ListAll(ix)
<1>. DEFINE D == DOMAIN ix
            n == Cardinality(D)
<1>1. Placed(jx)
  BY DEF Placed
<1>2. ASSUME NEW i \in D PROVE Rank(jx, D, i) = Rank(ix, D, i) /\ Entry(jx, i) = Entry(ix, i)
  <2>1. {j \in D : RowNotLater(jx, j, i)} = {j \in D : RowNotLater(ix, j, i)}
    BY DEF RowNotLater
  <2>. QED  BY <2>1 DEF Rank, Entry
<1>3. ASSUME NEW k \in 1..n PROVE ListAll(jx)[k] = ListAll(ix)[k]
  <2>1. PICK i \in D : Rank(ix, D, i) = k
    BY ListAllIs
  <2>2. ListAll(ix)[k] = Entry(ix, i)
    BY <2>1, ListAllIs
  <2>3. ListAll(jx)[k] = Entry(jx, i)
    BY <1>1, <1>2, <2>1, ListAllIs
  <2>. QED  BY <1>2, <2>2, <2>3
<1>4. /\ ListAll(ix) = [k \in 1..n |-> ListAll(ix)[k]]
      /\ ListAll(jx) = [k \in 1..n |-> ListAll(jx)[k]]
  BY DEF ListAll
<1>. QED  BY <1>3, <1>4

(* A row added after all others is listed last. *)
LEMMA ListedLast ==
    ASSUME NEW ix, Placed(ix), NEW jx, Placed(jx), NEW id, id \notin DOMAIN ix,
           DOMAIN jx = DOMAIN ix \cup {id},
           \A i \in DOMAIN ix : jx[i] = ix[i],
           \A i \in DOMAIN ix : RowNotLater(jx, i, id)
    PROVE  LET n == Cardinality(DOMAIN ix)
           IN  /\ n \in Nat
               /\ Len(ListAll(ix)) = n /\ Len(ListAll(jx)) = n + 1
               /\ \A k \in 1..n : ListAll(jx)[k] = ListAll(ix)[k]
               /\ ListAll(jx)[n + 1] = Entry(jx, id)
<1>. DEFINE D == DOMAIN ix
            E == DOMAIN jx
            n == Cardinality(D)
<1>1. n \in Nat /\ Len(ListAll(ix)) = n
  BY ListAllIs
<1>2. Cardinality(E) = n + 1
  BY FS_AddElement DEF Placed
<1>3. Len(ListAll(jx)) = n + 1
  BY <1>2, ListAllIs
<1>4. \A i \in E : RowNotLater(jx, i, id)
  BY TotalOrder
<1>5. Rank(jx, E, id) = n + 1
  <2>1. {j \in E : RowNotLater(jx, j, id)} = E
    BY <1>4
  <2>. QED  BY <1>2, <2>1 DEF Rank
<1>6. ListAll(jx)[n + 1] = Entry(jx, id)
  <2>1. id \in E
    OBVIOUS
  <2>. QED  BY <1>5, <2>1, ListAllIs
<1>7. ASSUME NEW i \in D PROVE Rank(jx, E, i) = Rank(ix, D, i)
  <2>1. ~RowNotLater(jx, id, i)
    BY <1>4, TotalOrder
  <2>2. {j \in E : RowNotLater(jx, j, i)} = {j \in D : RowNotLater(ix, j, i)}
    BY <2>1 DEF RowNotLater
  <2>. QED  BY <2>2 DEF Rank
<1>8. ASSUME NEW k \in 1..n PROVE ListAll(jx)[k] = ListAll(ix)[k]
  <2>1. PICK i \in D : Rank(ix, D, i) = k
    BY ListAllIs
  <2>2. ListAll(ix)[k] = Entry(ix, i)
    BY <2>1, ListAllIs
  <2>3. i \in E /\ Rank(jx, E, i) = k
    BY <1>7, <2>1
  <2>4. ListAll(jx)[k] = Entry(jx, i)
    BY <2>3, ListAllIs
  <2>. QED  BY <2>2, <2>4 DEF Entry
<1>. QED  BY <1>1, <1>3, <1>6, <1>8

(* The last row listed is the head. *)
LEMMA LastListed ==
    ASSUME IndInv, Placed(index)
    PROVE  Linear!LastHash = HeadHash
<1>. DEFINE D == DOMAIN index
            n == Cardinality(D)
            L == ListAll(index)
            h == ChainHead(index)
<1>1. n \in Nat /\ Len(L) = n /\ DOMAIN L = 1..n
  BY ListAllIs
<1>2. CASE D = {}
  <2>1. n = 0
    BY <1>2, FS_EmptySet
  <2>2. L = << >>
    BY <2>1 DEF ListAll
  <2>. QED  BY <1>2, <2>2 DEF Linear!LastHash, HeadHash
<1>3. CASE D # {}
  <2>1. h \in D /\ \A i \in D : RowNotLater(index, i, h)
    BY <1>3, HeadHashKnown DEF IndInv, IsHead
  <2>. HIDE DEF h
  <2>2. {j \in D : RowNotLater(index, j, h)} = D
    BY <2>1
  <2>3. Rank(index, D, h) = n
    BY <2>2 DEF Rank
  <2>4. L[n] = Entry(index, h) /\ n \in 1..n
    BY <2>1, <2>3, ListAllIs
  <2>5. L # << >>
    BY <1>1, <2>4
  <2>6. Linear!LastHash = L[n].this
    BY <1>1, <2>5 DEF Linear!LastHash
  <2>. QED  BY <1>3, <2>4, <2>6 DEF Entry, HeadHash, h
<1>. QED  BY <1>2, <1>3

(* A step keeps the index finite. *)
LEMMA PlacedKept ==
    ASSUME AuditInv, Placed(index), [AuditNext]_allVars
    PROVE  Placed(index')
<1>1. IndInv'
  BY AuditNextInv DEF AuditInv
<1>2. \A i \in DOMAIN index' : i \in Nat /\ index'[i].ts \in Nat
  BY <1>1, IngestAssumption DEF IndInv, TypeInv, IndexTypes, Ids, Row
<1>3. CASE UNCHANGED index \/ OnlyFlags
  BY <1>2, <1>3 DEF Placed, OnlyFlags
<1>4. ASSUME NEW w \in Workers, Index(w) PROVE Placed(index')
  <2>1. DOMAIN index' = DOMAIN index \cup {Msg(w).id}
    BY <1>4 DEF Index, Insert
  <2>. QED  BY <1>2, <2>1, FS_AddElement DEF Placed
<1>. QED  BY <1>3, <1>4, ChainStep, OnlyInsertWrites

(* An insertion extends the listing by one entry, which holds the hash of  *)
(* the last; inserting an id that is there changes nothing.                *)
LEMMA InsertExtends ==
    ASSUME SerialDeployment, IndInv, SerialInv, Placed(index), Placed(index'),
           NEW w \in Workers, pc[w] = "insert", Index(w)
    PROVE  Linear!Extend \/ ListAll(index') = ListAll(index)
<1>. DEFINE id == Msg(w).id
            L == ListAll(index)
            M == ListAll(index')
            n == Cardinality(DOMAIN index)
<1>1. /\ id \in Nat
      /\ DOMAIN index' = DOMAIN index \cup {id}
      /\ \A i \in DOMAIN index : index'[i] = index[i]
      /\ id \notin DOMAIN index => index'[id].ts = Msg(w).ts /\ index'[id].prevHash = HeadHash
  BY NewRowIs
<1>2. \A i \in DOMAIN index : NotLater(index[i].ts, i, Msg(w).ts, id)
  BY RowsBefore
<1>. HIDE DEF id
<1>3. CASE id \in DOMAIN index
  <2>1. DOMAIN index' = DOMAIN index
    BY <1>1, <1>3
  <2>. QED  BY <1>1, <2>1, SameListing
<1>4. CASE id \notin DOMAIN index
  <2>1. \A i \in DOMAIN index : RowNotLater(index', i, id)
    BY <1>1, <1>2, <1>4 DEF RowNotLater
  <2>2. /\ n \in Nat /\ Len(L) = n /\ Len(M) = n + 1
        /\ \A k \in 1..n : M[k] = L[k]
        /\ M[n + 1] = Entry(index', id)
    BY <1>1, <1>4, <2>1, ListedLast
  <2>3. PICK S : L \in Seq(S)
    BY ListAllIs
  <2>. HIDE DEF L, M, n
  <2>4. SubSeq(M, 1, n) = L
    <3>1. \A k \in 1..n : M[k] \in S
      BY <2>2, <2>3
    <3>2. /\ SubSeq(M, 1, n) \in Seq(S)
          /\ Len(SubSeq(M, 1, n)) = n
          /\ \A k \in 1..n : SubSeq(M, 1, n)[k] = M[k]
      BY <2>2, <3>1, SubSeqProperties
    <3>. QED  BY <2>2, <2>3, <3>2, SeqEqual
  <2>5. M[n + 1].prev = HeadHash
    BY <1>1, <1>4, <2>2 DEF Entry
  <2>6. M[n + 1].prev = Linear!LastHash
    BY <2>5, LastListed
  <2>. QED  BY <2>2, <2>4, <2>6 DEF Linear!Extend, L, M
<1>. QED  BY <1>3, <1>4

(* With one worker, one partition, ordered producers and an exact ts       *)
(* column, the system implements the log its readers picture: no event     *)
(* ever lands between two others, and each links to the one listed before. *)
THEOREM LinearWhileAnchored ==
    ASSUME SerialDeployment
    PROVE  AuditSpec => ImplementsLinearLog
<1>1. AuditInit => Placed(index) /\ Linear!Init
  <2>. SUFFICES ASSUME AuditInit PROVE Placed(index) /\ Linear!Init
    OBVIOUS
  <2>1. DOMAIN index = {}
    BY DEF AuditInit, Init, EmptyIndex
  <2>2. Cardinality(DOMAIN index) = 0 /\ IsFiniteSet(DOMAIN index)
    BY <2>1, FS_EmptySet
  <2>. QED  BY <2>1, <2>2 DEF Placed, Linear!Init, ListAll
<1>2. SerialAuditInv /\ Placed(index) /\ [AuditNext]_allVars => Placed(index)'
  BY PlacedKept DEF SerialAuditInv
<1>3. SerialAuditInv /\ Placed(index) /\ Placed(index)' /\ [AuditNext]_allVars
          => [Linear!Extend]_(ListAll(index))
  <2>. SUFFICES ASSUME SerialAuditInv, Placed(index), Placed(index'), [AuditNext]_allVars
                PROVE  Linear!Extend \/ ListAll(index') = ListAll(index)
    OBVIOUS
  <2>. USE DEF SerialAuditInv, AuditInv
  <2>1. CASE UNCHANGED index
    BY <2>1
  <2>2. CASE OnlyFlags
    <3>1. DOMAIN index' = DOMAIN index
      BY <2>2 DEF OnlyFlags
    <3>2. ASSUME NEW i \in DOMAIN index
          PROVE  /\ index'[i].ts = index[i].ts
                 /\ index'[i].prevHash = index[i].prevHash
                 /\ index'[i].thisHash = index[i].thisHash
      <4>1. Columns(index'[i]) = Columns(index[i])
        BY <2>2 DEF OnlyFlags
      <4>. QED  BY <4>1 DEF Columns
    <3>. QED  BY <3>1, <3>2, SameListing
  <2>3. CASE [Next]_vars
    BY <2>1, <2>3, InsertsOnly, InsertExtends
  <2>. QED  BY <2>1, <2>2, <2>3, ChainStep
<1>. QED  BY <1>1, <1>2, <1>3, SerialAuditInvariance, PTL DEF AuditSpec, ImplementsLinearLog, Linear!Spec
=============================================================================
