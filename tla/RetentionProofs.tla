-------------------------- MODULE RetentionProofs ---------------------------
(***************************************************************************)
(* Nothing is lost, for every number of workers, partitions, messages and  *)
(* faults and every set of envelopes, events that share an id included.    *)
(* First, the pipeline itself drops nothing: each event that is missing is *)
(* missing by a fault of its own, objects that expire or not.  Then, while *)
(* an object is under retention, what the index says about it stays true.  *)
(***************************************************************************)
EXTENDS Retention, IngestProofs, FiniteSetTheorems

(* Message o of p has been read, or its offset committed.  The highest     *)
(* offset seen may fall when a worker dies or the partition is reassigned, *)
(* and rise again, but it rises by one message at a time.                  *)
Seen(p, o) ==
    \/ o <= committed[p] \/ o <= position[p]
    \/ \E w \in Workers : job[w].part = p /\ o <= job[w].off

Recorded(p, o) == \E d \in deadLetters : d.part = p /\ d.off = o

Before == {"decode", "head", "put"}

(* A worker still has message o of p on its way to the payload bucket.     *)
InHand(p, o) == \E w \in Workers : job[w].part = p /\ job[w].off = o /\ pc[w] \in Before

(* The message was given up, and nothing records it.                       *)
Given(p, o) == Seen(p, o) /\ ~Recorded(p, o) /\ ~InHand(p, o)

Missed(i) ==
    \E p \in Partitions : \E o \in 1..Len(topic[p]) : topic[p][o].id = i /\ Given(p, o)

Inserting(i) == \E w \in Workers : pc[w] = "insert" /\ Msg(w).id = i

(* The events a fault has been charged for: they are not in the index and  *)
(* no worker is about to insert them, but a message was given up, or their *)
(* payload is in the bucket and turns away whoever brings them again.      *)
Charged ==
    {i \in Ids \ DOMAIN index : ~Inserting(i) /\ (i \in DOMAIN objects \/ Missed(i))}

LossInv == IsFiniteSet(Charged) /\ Cardinality(Charged) <= faults

USE IngestAssumption

-----------------------------------------------------------------------------
(* A step charges the events of X at most, when it takes no row away, each *)
(* event about to be inserted still is or is in the index, a payload is    *)
(* put by whoever inserts next, and a message that is given up is one that *)
(* was, or whose event is on its way or has its payload in the bucket.     *)
LEMMA ChargesOnly ==
    ASSUME IndInv, [Next]_vars, NEW X,
           DOMAIN index \subseteq DOMAIN index',
           \A i : Inserting(i) => Inserting(i)' \/ i \in DOMAIN index' \/ i \in X,
           \A i \in DOMAIN objects' : i \in DOMAIN objects \/ Inserting(i)' \/ i \in X,
           \A p \in Partitions : \A o \in 1..Len(topic'[p]) : \A i :
               Given(p, o)' /\ topic'[p][o].id = i =>
                  Given(p, o) \/ Inserting(i)' \/ i \in DOMAIN objects \cup X
    PROVE  Charged' \subseteq Charged \cup X
<1>. SUFFICES ASSUME NEW i \in Charged', i \notin X PROVE i \in Charged
  OBVIOUS
<1>1. i \in Ids /\ i \notin DOMAIN index' /\ ~Inserting(i)' /\ (i \in DOMAIN objects' \/ Missed(i)')
  BY DEF Charged, Ids
<1>2. i \notin DOMAIN index /\ ~Inserting(i)
  BY <1>1
<1>3. CASE Missed(i)' /\ i \notin DOMAIN objects
  <2>0. PICK p \in Partitions : \E o \in 1..Len(topic'[p]) : topic'[p][o].id = i /\ Given(p, o)'
    BY <1>3 DEF Missed
  <2>1. PICK o \in 1..Len(topic'[p]) : topic'[p][o].id = i /\ Given(p, o)'
    BY <2>0
  <2>2. Given(p, o)
    BY <1>1, <1>3, <2>1
  <2>3. o \in 1..Len(topic[p])
    <3>1. /\ topic'[p] \in Seq(Envelopes) /\ topic[p] \in Seq(Envelopes)
          /\ committed[p] <= Len(topic[p]) /\ position[p] <= Len(topic[p])
          /\ committed[p] \in Nat /\ position[p] \in Nat
      BY NextIndInv DEF IndInv, TypeInv, KafkaTypes
    <3>2. \A w \in Workers : job[w].off \in Nat /\ job[w].off <= Len(topic[job[w].part])
      BY DEF IndInv, TypeInv, WorkerTypes
    <3>3. o \in Nat \ {0} /\ Len(topic[p]) \in Nat
      BY <3>1
    <3>. QED  BY <2>2, <3>1, <3>2, <3>3 DEF Given, Seen
  <2>4. topic[p][o].id = i
    BY <2>1, <2>3, TopicGrows
  <2>. QED  BY <1>1, <1>2, <2>2, <2>3, <2>4 DEF Charged, Missed
<1>. QED  BY <1>1, <1>2, <1>3 DEF Charged

(* Every worker at the insert stays there, or its event is in X. *)
StayAtInsert(X) ==
    \A v \in Workers : pc[v] = "insert" =>
        (pc'[v] = "insert" /\ job'[v] = job[v]) \/ Msg(v).id \in X

(* Workers that stay at the insert insert the same events. *)
LEMMA InsertersStay ==
    ASSUME IndInv, [Next]_vars, NEW X, StayAtInsert(X)
    PROVE  \A i : Inserting(i) => Inserting(i)' \/ i \in X
<1>. SUFFICES ASSUME NEW i, Inserting(i), i \notin X PROVE Inserting(i)'
  OBVIOUS
<1>1. PICK v \in Workers : pc[v] = "insert" /\ Msg(v).id = i
  BY DEF Inserting
<1>2. pc'[v] = "insert" /\ job'[v] = job[v]
  BY <1>1 DEF StayAtInsert
<1>3. Msg(v)' = Msg(v)
  BY <1>1, <1>2, MessageStays DEF Handling
<1>. QED  BY <1>1, <1>2, <1>3 DEF Inserting

(* A worker idle, stopped or down has no message: an offset of 0. *)
LEMMA NoMessage ==
    ASSUME IndInv
    PROVE  /\ \A w \in Workers : ~Handling(w) => job[w].off = 0
           /\ NoJob.off = 0
           /\ \A w \in Workers : job[w].off \in Nat /\ job[w].part \in Partitions
           /\ DOMAIN pc = Workers /\ DOMAIN job = Workers
           /\ DOMAIN committed = Partitions /\ DOMAIN position = Partitions
           /\ \A p \in Partitions : committed[p] \in Nat /\ position[p] \in Nat
BY DEF IndInv, TypeInv, WorkerTypes, KafkaTypes, NoJob

-----------------------------------------------------------------------------
(* Steps that are not on a message.                                        *)

(* What leaves workers and stores alone and shows no new message.          *)
LEMMA BrokerCharges ==
    ASSUME IndInv, [Next]_vars, UNCHANGED <<pc, job, storeVars>>,
           \A p \in Partitions : /\ committed'[p] \in {committed[p], position[p]}
                                 /\ position'[p] \in {committed[p], position[p]}
    PROVE  Charged' \subseteq Charged
<1>0. \A v \in Workers : pc'[v] = pc[v] /\ job'[v] = job[v]
  OBVIOUS
<1>1. \A i : Inserting(i) => Inserting(i)' \/ i \in {}
  <2>1. StayAtInsert({})
    BY <1>0 DEF StayAtInsert
  <2>. QED  BY <2>1, InsertersStay
<1>2. \A p \in Partitions, o \in Nat : Seen(p, o)' => Seen(p, o)
  BY DEF Seen
<1>3. \A p \in Partitions, o \in Nat : Given(p, o)' => Given(p, o)
  BY <1>2 DEF Given, Recorded, InHand, storeVars
<1>4. Charged' \subseteq Charged \cup {}
  BY <1>1, <1>3, ChargesOnly DEF storeVars
<1>. QED  BY <1>4

(* The message read is in the hands of its reader. *)
LEMMA ReadCharges ==
    ASSUME IndInv, [Next]_vars, NEW w \in Workers, NEW p \in Partitions, ReadMessage(w, p)
    PROVE  Charged' \subseteq Charged
<1>. USE NoMessage
<1>1. pc[w] = "idle" /\ pc'[w] = "decode" /\ \A v \in Workers \ {w} : pc'[v] = pc[v]
  BY DEF ReadMessage, Goto
<1>2. /\ job'[w].part = p /\ job'[w].off = position[p] + 1
      /\ \A v \in Workers \ {w} : job'[v] = job[v]
  BY DEF ReadMessage
<1>3. \A i : Inserting(i) => Inserting(i)' \/ i \in {}
  <2>1. StayAtInsert({})
    BY <1>1, <1>2 DEF StayAtInsert
  <2>. QED  BY <2>1, InsertersStay
<1>4. \A q \in Partitions, o \in Nat : Seen(q, o)' => Seen(q, o) \/ InHand(q, o)'
  <2>. SUFFICES ASSUME NEW q \in Partitions, NEW o \in Nat, Seen(q, o)', ~Seen(q, o)
                PROVE  InHand(q, o)'
    OBVIOUS
  <2>1. o > committed[q] /\ o > position[q]
    BY DEF Seen
  <2>2. /\ committed'[q] = IF q = p THEN position[p] + 1 ELSE committed[q]
        /\ position'[q] = IF q = p THEN position[p] + 1 ELSE position[q]
    BY DEF ReadMessage
  <2>3. \A v \in Workers \ {w} : ~(job'[v].part = q /\ o <= job'[v].off)
    BY <1>2 DEF Seen
  <2>4. q = p /\ o = position[p] + 1
    BY <1>2, <2>1, <2>2, <2>3 DEF Seen
  <2>. QED  BY <1>1, <1>2, <2>4 DEF InHand, Before
<1>5. \A q \in Partitions, o \in Nat : InHand(q, o) => InHand(q, o)'
  BY <1>1, <1>2 DEF InHand, Before
<1>6. UNCHANGED storeVars
  BY DEF ReadMessage
<1>7. \A q \in Partitions, o \in Nat : Given(q, o)' => Given(q, o)
  BY <1>4, <1>5, <1>6 DEF Given, Recorded, storeVars
<1>8. Charged' \subseteq Charged \cup {}
  BY <1>3, <1>6, <1>7, ChargesOnly DEF storeVars
<1>. QED  BY <1>8

(* A failed read is charged for the message it may have committed. *)
LEMMA ReadFailsCharges ==
    ASSUME IndInv, [Next]_vars, NEW w \in Workers, NEW p \in Partitions, ReadFails(w, p)
    PROVE  Charged' \subseteq Charged \cup {topic'[p][position[p] + 1].id}
<1>. USE NoMessage
<1>1. pc[w] = "idle" /\ pc'[w] = "stopped" /\ \A v \in Workers \ {w} : pc'[v] = pc[v]
  BY DEF ReadFails, Goto
<1>2. job' = job /\ position' = position /\ UNCHANGED storeVars
  BY DEF ReadFails
<1>3. \A i : Inserting(i) => Inserting(i)' \/ i \in {}
  <2>1. StayAtInsert({})
    BY <1>1, <1>2 DEF StayAtInsert
  <2>. QED  BY <2>1, InsertersStay
<1>4. \A q \in Partitions, o \in Nat :
         Seen(q, o)' => Seen(q, o) \/ (q = p /\ o = position[p] + 1)
  <2>1. \A q \in Partitions :
           committed'[q] = committed[q] \/ (q = p /\ committed'[q] = position[p] + 1)
    BY DEF ReadFails
  <2>. QED  BY <1>2, <2>1 DEF Seen
<1>5. \A q \in Partitions, o \in Nat : InHand(q, o) => InHand(q, o)'
  BY <1>1, <1>2 DEF InHand, Before
<1>6. \A q \in Partitions, o \in Nat :
         Given(q, o)' => Given(q, o) \/ (q = p /\ o = position[p] + 1)
  BY <1>2, <1>4, <1>5 DEF Given, Recorded, storeVars
<1>7. \A q \in Partitions : \A o \in 1..Len(topic'[q]) : \A i :
         Given(q, o)' /\ topic'[q][o].id = i => Given(q, o) \/ i \in {topic'[p][position[p] + 1].id}
  BY <1>6
<1>. QED  BY <1>2, <1>3, <1>7, ChargesOnly DEF storeVars

(* The offset acknowledged is that of a message its worker has had. *)
LEMMA AckCharges ==
    ASSUME IndInv, [Next]_vars, NEW w \in Workers, Ack(w)
    PROVE  Charged' \subseteq Charged
<1>. USE NoMessage
<1>1. pc[w] = "ack" /\ pc'[w] = "idle" /\ \A v \in Workers \ {w} : pc'[v] = pc[v]
  BY DEF Ack, Goto
<1>2. job'[w].off = 0 /\ \A v \in Workers \ {w} : job'[v] = job[v]
  BY DEF Ack
<1>3. \A i : Inserting(i) => Inserting(i)' \/ i \in {}
  <2>1. StayAtInsert({})
    BY <1>1, <1>2 DEF StayAtInsert
  <2>. QED  BY <2>1, InsertersStay
<1>4. \A q \in Partitions, o \in Nat \ {0} : Seen(q, o)' => Seen(q, o)
  <2>1. position' = position
    BY DEF Ack
  <2>2. \A q \in Partitions :
           committed'[q] = committed[q] \/ (q = job[w].part /\ committed'[q] = job[w].off)
    BY DEF Ack
  <2>. QED  BY <1>2, <2>1, <2>2 DEF Seen
<1>5. \A q \in Partitions, o \in Nat : InHand(q, o) => InHand(q, o)'
  BY <1>1, <1>2 DEF InHand, Before
<1>6. UNCHANGED storeVars
  BY DEF Ack
<1>7. \A q \in Partitions, o \in Nat \ {0} : Given(q, o)' => Given(q, o)
  BY <1>4, <1>5, <1>6 DEF Given, Recorded, storeVars
<1>8. Charged' \subseteq Charged \cup {}
  BY <1>3, <1>6, <1>7, ChargesOnly DEF storeVars
<1>. QED  BY <1>8

(* A death is charged for the message the process had in hand. *)
LEMMA CrashCharges ==
    ASSUME IndInv, [Next]_vars, NEW w \in Workers, Crash(w)
    PROVE  Charged' \subseteq Charged \cup {Msg(w).id}
<1>. USE NoMessage
<1>1. pc'[w] = "down" /\ \A v \in Workers \ {w} : pc'[v] = pc[v]
  BY DEF Crash, Goto
<1>2. job'[w].off = 0 /\ \A v \in Workers \ {w} : job'[v] = job[v]
  BY DEF Crash
<1>3. UNCHANGED <<kafkaVars, storeVars>>
  BY DEF Crash
<1>4. \A i : Inserting(i) => Inserting(i)' \/ i \in {Msg(w).id}
  <2>1. StayAtInsert({Msg(w).id})
    BY <1>1, <1>2 DEF StayAtInsert
  <2>. QED  BY <2>1, InsertersStay
<1>5. \A q \in Partitions, o \in Nat \ {0} : Seen(q, o)' => Seen(q, o)
  BY <1>2, <1>3 DEF Seen, kafkaVars
<1>6. \A q \in Partitions, o \in Nat :
         InHand(q, o) => InHand(q, o)' \/ (q = job[w].part /\ o = job[w].off)
  BY <1>1, <1>2 DEF InHand
<1>7. \A q \in Partitions, o \in Nat \ {0} :
         Given(q, o)' => Given(q, o) \/ (q = job[w].part /\ o = job[w].off)
  BY <1>3, <1>5, <1>6 DEF Given, Recorded, storeVars
<1>8. topic'[job[w].part][job[w].off].id = Msg(w).id
  BY <1>3 DEF Msg, kafkaVars
<1>9. \A q \in Partitions : \A o \in 1..Len(topic'[q]) : \A i :
         Given(q, o)' /\ topic'[q][o].id = i => Given(q, o) \/ i \in {Msg(w).id}
  <2>0. SUFFICES ASSUME NEW q \in Partitions, NEW o \in 1..Len(topic'[q]), Given(q, o)',
                        ~Given(q, o)
                 PROVE  topic'[q][o].id = Msg(w).id
    OBVIOUS
  <2>1. o \in Nat \ {0}
    OBVIOUS
  <2>2. q = job[w].part /\ o = job[w].off
    BY ONLY <1>7, <2>0, <2>1
  <2>. QED  BY ONLY <1>8, <2>2
<1>. QED  BY <1>3, <1>4, <1>9, ChargesOnly DEF storeVars

(* A new process reads on from what was committed. *)
LEMMA RestartCharges ==
    ASSUME IndInv, [Next]_vars, NEW w \in Workers, Restart(w)
    PROVE  Charged' \subseteq Charged
<1>. USE NoMessage
<1>1. pc[w] = "down" /\ pc'[w] = "idle" /\ \A v \in Workers \ {w} : pc'[v] = pc[v]
  BY DEF Restart, Goto
<1>2. job' = job /\ committed' = committed /\ UNCHANGED storeVars
  BY DEF Restart
<1>3. \A i : Inserting(i) => Inserting(i)' \/ i \in {}
  <2>1. StayAtInsert({})
    BY <1>1, <1>2 DEF StayAtInsert
  <2>. QED  BY <2>1, InsertersStay
<1>4. \A q \in Partitions, o \in Nat : Seen(q, o)' => Seen(q, o)
  <2>1. \A q \in Partitions : position'[q] \in {committed[q], position[q]}
    BY DEF Restart
  <2>. QED  BY <1>2, <2>1 DEF Seen
<1>5. \A q \in Partitions, o \in Nat : InHand(q, o) => InHand(q, o)'
  BY <1>1, <1>2 DEF InHand, Before
<1>6. \A q \in Partitions, o \in Nat : Given(q, o)' => Given(q, o)
  BY <1>2, <1>4, <1>5 DEF Given, Recorded, storeVars
<1>7. Charged' \subseteq Charged \cup {}
  BY <1>2, <1>3, <1>6, ChargesOnly DEF storeVars
<1>. QED  BY <1>7

-----------------------------------------------------------------------------
(* Steps on a message.                                                     *)

(* What going on with a message does: it is given up only when its worker  *)
(* leaves the way to the bucket and records nothing.                       *)
LEMMA MovesGiven ==
    ASSUME IndInv, NEW w \in Workers, Moves(w), deadLetters \subseteq deadLetters'
    PROVE  \A q \in Partitions : \A o \in 1..Len(topic'[q]) :
              Given(q, o)' =>
                 \/ Given(q, o)
                 \/ /\ q = job[w].part /\ o = job[w].off /\ topic'[q][o].id = Msg(w).id
                    /\ pc[w] \in Before /\ pc'[w] \notin Before
                    /\ ~Recorded(q, o)'
<1>. SUFFICES ASSUME NEW q \in Partitions, NEW o \in 1..Len(topic'[q]), Given(q, o)',
                     ~Given(q, o)
              PROVE  /\ q = job[w].part /\ o = job[w].off /\ topic'[q][o].id = Msg(w).id
                     /\ pc[w] \in Before /\ pc'[w] \notin Before
                     /\ ~Recorded(q, o)'
  OBVIOUS
<1>1. Seen(q, o)
  BY MovesEffect DEF Given, Seen, kafkaVars
<1>2. ~Recorded(q, o)
  BY DEF Given, Recorded
<1>3. PICK v \in Workers : job[v].part = q /\ job[v].off = o /\ pc[v] \in Before
  BY <1>1, <1>2 DEF Given, InHand
<1>4. pc'[v] \notin Before
  BY <1>3, MovesEffect DEF Given, InHand
<1>5. v = w
  BY <1>3, <1>4, MovesEffect
<1>. QED  BY <1>3, <1>4, <1>5, MovesEffect DEF Given, Msg, kafkaVars

(* The events other workers are about to insert stay so. *)
LEMMA OthersInsert ==
    ASSUME IndInv, [Next]_vars, NEW w \in Workers, Moves(w)
    PROVE  \A i : Inserting(i) => Inserting(i)' \/ (pc[w] = "insert" /\ i = Msg(w).id)
<1>1. CASE pc[w] = "insert"
  <2>1. \A i : Inserting(i) => Inserting(i)' \/ i \in {Msg(w).id}
    <3>1. StayAtInsert({Msg(w).id})
      BY MovesEffect DEF StayAtInsert
    <3>. QED  BY <3>1, InsertersStay
  <2>. QED  BY <1>1, <2>1
<1>2. CASE pc[w] # "insert"
  <2>1. \A i : Inserting(i) => Inserting(i)' \/ i \in {}
    <3>1. StayAtInsert({})
      BY <1>2, MovesEffect DEF StayAtInsert
    <3>. QED  BY <3>1, InsertersStay
  <2>. QED  BY <2>1
<1>. QED  BY <1>1, <1>2

(* A worker that comes to insert has the event it had. *)
LEMMA ComesToInsert ==
    ASSUME IndInv, [Next]_vars, NEW w \in Workers, Moves(w), pc'[w] = "insert"
    PROVE  \A i : i = Msg(w).id => Inserting(i)'
<1>1. Msg(w)' = Msg(w)
  BY MovesEffect, MessageStays
<1>. QED  BY <1>1 DEF Inserting

(* A step that succeeds charges nothing: who is turned away at the bucket  *)
(* finds the payload there, so the event is in the index, about to be      *)
(* inserted or charged for already.                                        *)
LEMMA MovesOnCharges ==
    ASSUME IndInv, [Next]_vars, NEW w \in Workers,
           \/ Reject(w) \/ Accept(w) \/ ReadHead(w)
           \/ PutPayload(w) \/ PutIsRefused(w) \/ InsertRow(w)
    PROVE  Charged' \subseteq Charged
<1>. USE NoMessage
<1>0. Moves(w)
  BY DEF Moves
<1>1. CASE Reject(w)
  <2>1. pc[w] = "decode" /\ UNCHANGED <<index, objects>>
    BY <1>1 DEF Reject
  <2>2. /\ deadLetters \subseteq deadLetters'
        /\ \A q, o : q = job[w].part /\ o = job[w].off => Recorded(q, o)'
    <3>1. PICK r : deadLetters' = deadLetters \cup {[part |-> job[w].part, off |-> job[w].off,
                                                     reason |-> r]}
      BY <1>1 DEF Reject
    <3>. QED  BY <3>1 DEF Recorded
  <2>3. Charged' \subseteq Charged \cup {}
    BY <1>0, <2>1, <2>2, MovesGiven, OthersInsert, ChargesOnly
  <2>. QED  BY <2>3
<1>2. CASE Accept(w) \/ ReadHead(w) \/ PutPayload(w)
  <2>1. pc[w] \in Before /\ UNCHANGED <<index, deadLetters>>
    BY <1>2 DEF Accept, ReadHead, PutPayload, Before, storeVars
  <2>2. pc'[w] \in Before \/ pc'[w] = "insert"
    BY <1>2 DEF Accept, ReadHead, PutPayload, Before, Goto
  <2>3. \A i \in DOMAIN objects' : i \in DOMAIN objects \/ (i = Msg(w).id /\ pc'[w] = "insert")
    BY <1>2 DEF Accept, ReadHead, PutPayload, Store, Goto, storeVars
  <2>4. Charged' \subseteq Charged \cup {}
    BY <1>0, <2>1, <2>2, <2>3, MovesGiven, OthersInsert, ComesToInsert, ChargesOnly DEF Before
  <2>. QED  BY <2>4
<1>3. CASE PutIsRefused(w)
  <2>1. pc[w] = "put" /\ UNCHANGED storeVars /\ Msg(w).id \in DOMAIN objects
    BY <1>3 DEF PutIsRefused, PutRefused
  <2>2. \A q \in Partitions : \A o \in 1..Len(topic'[q]) : \A i :
           Given(q, o)' /\ topic'[q][o].id = i => Given(q, o) \/ i \in DOMAIN objects
    BY <1>0, <2>1, MovesGiven DEF storeVars
  <2>3. \A i : Inserting(i) => Inserting(i)'
    BY <1>0, <2>1, OthersInsert
  <2>4. Charged' \subseteq Charged \cup {}
    BY <2>1, <2>2, <2>3, ChargesOnly DEF storeVars
  <2>. QED  BY <2>4
<1>4. CASE InsertRow(w)
  <2>1. pc[w] = "insert" /\ UNCHANGED <<objects, deadLetters>>
    BY <1>4 DEF InsertRow
  <2>2. DOMAIN index' = DOMAIN index \cup {Msg(w).id}
    BY <1>4, InsertKeeps DEF InsertRow, Index
  <2>3. Charged' \subseteq Charged \cup {}
    BY <1>0, <2>1, <2>2, MovesGiven, OthersInsert, ChargesOnly DEF Before
  <2>. QED  BY <2>3
<1>. QED  BY <1>1, <1>2, <1>3, <1>4

(* A call that fails is charged for the event of its message. *)
LEMMA FailCharges ==
    ASSUME IndInv, [Next]_vars, NEW w \in Workers, Fail(w)
    PROVE  Charged' \subseteq Charged \cup {Msg(w).id}
<1>1. Moves(w)
  BY DEF Fail, Moves
<1>2. UNCHANGED deadLetters
  BY DEF Fail, RejectUnrecorded, ReadHeadFails, PutFails, InsertFails, storeVars
<1>3. DOMAIN index \subseteq DOMAIN index'
  <2>1. UNCHANGED index \/ Index(w)
    BY DEF Fail, RejectUnrecorded, ReadHeadFails, PutFails, InsertFails, storeVars
  <2>2. CASE Index(w)
    <3>1. PICK row : index' = Insert(index, Msg(w).id, row)
      BY <2>2 DEF Index
    <3>. QED  BY <3>1 DEF Insert
  <2>. QED  BY <2>1, <2>2
<1>4. \A i \in DOMAIN objects' : i \in DOMAIN objects \/ i = Msg(w).id
  BY DEF Fail, RejectUnrecorded, ReadHeadFails, PutFails, InsertFails, Store, storeVars
<1>5. \A q \in Partitions : \A o \in 1..Len(topic'[q]) : \A i :
         Given(q, o)' /\ topic'[q][o].id = i => Given(q, o) \/ i \in {Msg(w).id}
  BY <1>1, <1>2, MovesGiven
<1>6. \A i : Inserting(i) => Inserting(i)' \/ i \in {Msg(w).id}
  BY <1>1, OthersInsert
<1>. QED  BY <1>3, <1>4, <1>5, <1>6, ChargesOnly

-----------------------------------------------------------------------------
(* Every step charges no more events than faults.                          *)
LEMMA NextCharges ==
    ASSUME IndInv, [Next]_vars
    PROVE  \/ Charged' \subseteq Charged /\ UNCHANGED faults
           \/ faults' = faults + 1 /\ \E x : Charged' \subseteq Charged \cup {x}
<1>1. CASE UNCHANGED vars
  <2>1. Charged' \subseteq Charged
    BY <1>1, BrokerCharges DEF vars, kafkaVars, workerVars, storeVars
  <2>. QED  BY <1>1, <2>1 DEF vars
<1>2. ASSUME NEW p \in Partitions, NEW m \in Envelopes, Produce(p, m)
      PROVE  Charged' \subseteq Charged /\ UNCHANGED faults
  BY <1>2, BrokerCharges DEF Produce, workerVars, storeVars
<1>3. ASSUME NEW p \in Partitions, NEW w \in Workers, Rebalance(p, w)
      PROVE  Charged' \subseteq Charged /\ UNCHANGED faults
  BY <1>3, BrokerCharges, NoMessage DEF Rebalance, workerVars, storeVars
<1>4. ASSUME NEW w \in Workers, ReloadPolicy(w)
      PROVE  Charged' \subseteq Charged /\ UNCHANGED faults
  BY <1>4, BrokerCharges DEF ReloadPolicy, kafkaVars, workerVars, storeVars
<1>5. ASSUME NEW p \in Partitions, NEW w \in Workers, ReadMessage(w, p) \/ Restart(w) \/ Ack(w)
      PROVE  Charged' \subseteq Charged /\ UNCHANGED faults
  BY <1>5, ReadCharges, RestartCharges, AckCharges DEF ReadMessage, Restart, Ack
<1>6. ASSUME NEW p \in Partitions, NEW w \in Workers, ReadFails(w, p) \/ Crash(w) \/ Fail(w)
      PROVE  faults' = faults + 1 /\ \E x : Charged' \subseteq Charged \cup {x}
  <2>1. \E x : Charged' \subseteq Charged \cup {x}
    BY <1>6, ReadFailsCharges, CrashCharges, FailCharges
  <2>2. Fault
    BY <1>6 DEF ReadFails, Crash, Fail, RejectUnrecorded, ReadHeadFails, PutFails, InsertFails
  <2>. QED  BY <2>1, <2>2 DEF Fault
<1>7. ASSUME NEW w \in Workers, Work(w)
      PROVE  Charged' \subseteq Charged /\ UNCHANGED faults
  <2>1. CASE Ack(w)
    BY <2>1, AckCharges DEF Ack
  <2>2. CASE ~Ack(w)
    BY <1>7, <2>2, MovesOnCharges 
       DEF Work, Reject, Accept, ReadHead, PutPayload, PutIsRefused, InsertRow
  <2>. QED  BY <2>1, <2>2
<1>8. PICK p \in Partitions : TRUE
  BY DEF IngestAssumption
<1>. QED  BY <1>1, <1>2, <1>3, <1>4, <1>5, <1>6, <1>7, <1>8 DEF Next, Step

LEMMA FaultsNat == ASSUME IndInv PROVE faults \in Nat
<1>1. faults \in 0..MaxFaults /\ MaxFaults \in Nat
  BY DEF IndInv, TypeInv, StoreTypes, IngestAssumption
<1>. QED  BY <1>1

LEMMA NextLossInv == IndInv /\ LossInv /\ [Next]_vars => LossInv'
<1>. SUFFICES ASSUME IndInv, LossInv, [Next]_vars PROVE LossInv'
  OBVIOUS
<1>1. faults \in Nat
  BY FaultsNat
<1>2. Cardinality(Charged) \in Nat /\ IsFiniteSet(Charged)
  BY FS_CardinalityType DEF LossInv
<1>3. CASE Charged' \subseteq Charged /\ UNCHANGED faults
  <2>1. IsFiniteSet(Charged') /\ Cardinality(Charged') <= Cardinality(Charged)
    BY <1>2, <1>3, FS_Subset
  <2>2. Cardinality(Charged') \in Nat
    BY <2>1, FS_CardinalityType
  <2>. QED  BY <1>1, <1>2, <1>3, <2>1, <2>2 DEF LossInv
<1>4. CASE faults' = faults + 1 /\ \E x : Charged' \subseteq Charged \cup {x}
  <2>1. PICK x : Charged' \subseteq Charged \cup {x}
    BY <1>4
  <2>2. /\ IsFiniteSet(Charged \cup {x})
        /\ Cardinality(Charged \cup {x}) <= Cardinality(Charged) + 1
        /\ Cardinality(Charged \cup {x}) \in Nat
    <3>1. /\ IsFiniteSet(Charged \cup {x})
          /\ Cardinality(Charged \cup {x}) =
                IF x \in Charged THEN Cardinality(Charged) ELSE Cardinality(Charged) + 1
      BY <1>2, FS_AddElement
    <3>. QED  BY <1>2, <3>1
  <2>3. IsFiniteSet(Charged') /\ Cardinality(Charged') <= Cardinality(Charged \cup {x})
    BY <2>1, <2>2, FS_Subset
  <2>4. Cardinality(Charged') \in Nat
    BY <2>3, FS_CardinalityType
  <2>. QED  BY <1>1, <1>2, <1>4, <2>2, <2>3, <2>4 DEF LossInv
<1>. QED  BY <1>3, <1>4, NextCharges

(* Nothing is charged at the start: no message is in the topic. *)
LEMMA InitLossInv == Init => LossInv
<1>. SUFFICES ASSUME Init PROVE LossInv
  OBVIOUS
<1>1. DOMAIN objects = {} /\ \A p \in Partitions : 1..Len(topic[p]) = {}
  BY DEF Init
<1>2. Charged = {}
  BY <1>1 DEF Charged, Missed
<1>. QED  BY <1>2, FS_EmptySet DEF LossInv, Init

(* The events missing are among those charged for.                         *)
LEMMA LostIsCharged == ASSUME IndInv PROVE LostIds \subseteq Charged
<1>. SUFFICES ASSUME NEW i \in LostIds PROVE i \in Charged
  OBVIOUS
<1>. DEFINE Unrecorded(p) ==
         {n \in 1..committed[p] : ~\E d \in deadLetters : d.part = p /\ d.off = n}
<1>. DEFINE Missing(p) == {topic[p][o].id : o \in Unrecorded(p)}
<1>1. LostIds = (UNION {Missing(p) : p \in Partitions})
                   \ (DOMAIN index \cup {Msg(w).id : w \in {v \in Workers : Handling(v)}})
  BY Zenon DEF LostIds
<1>2. PICK p \in Partitions : i \in Missing(p)
  <2>. HIDE DEF Missing
  <2>. QED  BY <1>1
<1>3. PICK o \in 1..committed[p] :
         i = topic[p][o].id /\ ~\E d \in deadLetters : d.part = p /\ d.off = o
  BY <1>2
<1>4. i \notin DOMAIN index /\ \A w \in Workers : Handling(w) => Msg(w).id # i
  <2>. HIDE DEF Missing
  <2>1. i \notin DOMAIN index /\ i \notin {Msg(w).id : w \in {v \in Workers : Handling(v)}}
    BY <1>1, Zenon
  <2>2. \A w \in {v \in Workers : Handling(v)} : Msg(w).id # i
    BY <2>1, Zenon
  <2>. QED  BY <2>1, <2>2
<1>5. topic[p] \in Seq(Envelopes) /\ committed[p] \in Nat /\ committed[p] <= Len(topic[p])
  BY DEF IndInv, TypeInv, KafkaTypes
<1>6. o \in 1..Len(topic[p]) /\ o <= committed[p] /\ i \in Ids
  BY <1>3, <1>5 DEF Ids
<1>7. ~Inserting(i)
  BY <1>4 DEF Inserting, Handling
<1>8. ~InHand(p, o)
  BY <1>3, <1>4 DEF InHand, Before, Handling, Msg
<1>. QED  BY <1>3, <1>4, <1>6, <1>7, <1>8 DEF Charged, Missed, Given, Seen, Recorded

(* The events missing are no more than the faults. *)
LEMMA LossBound == ASSUME IndInv, LossInv PROVE NoSilentLoss
<1>1. faults \in Nat
  BY FaultsNat
<1>2. IsFiniteSet(Charged) /\ Cardinality(Charged) \in Nat /\ Cardinality(Charged) <= faults
  BY FS_CardinalityType DEF LossInv
<1>3. IsFiniteSet(LostIds) /\ Cardinality(LostIds) <= Cardinality(Charged)
  BY <1>2, LostIsCharged, FS_Subset
<1>4. Cardinality(LostIds) \in Nat
  BY <1>3, FS_CardinalityType
<1>. QED  BY <1>1, <1>2, <1>3, <1>4 DEF NoSilentLoss

(* The pipeline itself drops nothing: of the events whose offsets were     *)
(* committed, those that are neither in the index nor among the dead       *)
(* letters nor in hand are no more than the crashes and failed calls.      *)
THEOREM NoSilentLossHolds == Spec => []NoSilentLoss
<1>1. Init => IndInv /\ LossInv
  BY InitIndInv, InitLossInv
<1>2. (IndInv /\ LossInv) /\ [Next]_vars => (IndInv /\ LossInv)'
  BY NextIndInv, NextLossInv
<1>3. IndInv /\ LossInv => NoSilentLoss
  BY LossBound
<1>. QED  BY <1>1, <1>2, <1>3, PTL DEF Spec

-----------------------------------------------------------------------------
(* The payloads.                                                           *)

(* Between decoding and inserting. *)
Accepted(w) == pc[w] \in {"head", "put", "insert"}

(* The payload of event i is in the bucket as body, redacted or not. *)
Holds(i, body, redacted) ==
    i \in DOMAIN objects /\ objects[i].body = body /\ objects[i].redacted = redacted

(* An object that is not retained is one whose retention has ended. *)
RetainedInv == \A k \in DOMAIN objects : objects[k].retained \/ k \in lapsed

(* A message that was accepted carries the hash of its body. *)
CheckedInv ==
    \A w \in Workers :
        Accepted(w) /\ Msg(w).body # NoBody => Msg(w).hash = HashPayload(Msg(w).body)

(* Its payload is in the bucket when the worker comes to insert the row:   *)
(* the put it made succeeded, and nobody could replace the object since.   *)
PutInv ==
    \A w \in Workers :
        pc[w] = "insert" /\ Msg(w).body # NoBody /\ Msg(w).id \notin lapsed =>
            Holds(Msg(w).id, Msg(w).body, job[w].redacted)

RetentionInv == IndInv /\ RetainedInv /\ CheckedInv /\ PutInv /\ ProvableWhileRetained

-----------------------------------------------------------------------------
(* What a step does to the workers, the bucket and the index.              *)

(* A worker that is not moved by a step is where it was, with the message  *)
(* it had.                                                                 *)
Stays(v) == pc'[v] = pc[v] /\ job'[v] = job[v]

(* Steps other than those on a message leave index and bucket alone, and   *)
(* bring no worker past the decoding.                                      *)
LEMMA OtherSteps ==
    ASSUME IndInv,
           \/ UNCHANGED vars
           \/ \E p \in Partitions, m \in Envelopes : Produce(p, m)
           \/ \E p \in Partitions, w \in Workers :
                 Rebalance(p, w) \/ ReadMessage(w, p) \/ ReadFails(w, p)
           \/ \E w \in Workers : Ack(w) \/ Crash(w) \/ Restart(w) \/ ReloadPolicy(w)
    PROVE  /\ UNCHANGED <<index, objects>>
           /\ \A v \in Workers : Accepted(v)' => Stays(v)
<1>1. DOMAIN pc = Workers /\ DOMAIN job = Workers
  BY DEF IndInv, TypeInv, WorkerTypes
<1>2. CASE UNCHANGED vars \/ \E p \in Partitions, m \in Envelopes : Produce(p, m)
  BY <1>2 DEF vars, Produce, workerVars, storeVars, Stays
<1>3. ASSUME NEW p \in Partitions, NEW w \in Workers, Rebalance(p, w) \/ ReloadPolicy(w)
      PROVE  UNCHANGED <<index, objects, pc, job>>
  BY <1>3 DEF Rebalance, ReloadPolicy, workerVars, storeVars
<1>4. ASSUME NEW p \in Partitions, NEW w \in Workers,
             ReadMessage(w, p) \/ ReadFails(w, p) \/ Ack(w) \/ Crash(w) \/ Restart(w)
      PROVE  /\ UNCHANGED <<index, objects>>
             /\ \E l \in {"decode", "stopped", "idle", "down"} : Goto(w, l)
             /\ \/ UNCHANGED job
                \/ \E j : job' = [job EXCEPT ![w] = j]
  BY <1>4 DEF ReadMessage, ReadFails, Ack, Crash, Restart, storeVars
<1>5. ASSUME NEW p \in Partitions, NEW w \in Workers,
             ReadMessage(w, p) \/ ReadFails(w, p) \/ Ack(w) \/ Crash(w) \/ Restart(w),
             NEW v \in Workers, Accepted(v)'
      PROVE  Stays(v)
  BY <1>1, <1>4, <1>5 DEF Goto, Accepted, Stays
<1>6. PICK p \in Partitions : TRUE
  BY DEF IngestAssumption
<1>. QED  BY <1>2, <1>3, <1>4, <1>5, <1>6 DEF Stays

(* An object under retention stays, and what is put is under retention.    *)
ObjectsKept ==
    /\ \A k \in DOMAIN objects :
          objects[k].retained => k \in DOMAIN objects' /\ objects'[k] = objects[k]
    /\ \A k \in DOMAIN objects' :
          objects'[k].retained \/ (k \in DOMAIN objects /\ objects'[k] = objects[k])

(* A step on a message changes the bucket by a put that was not refused,   *)
(* or the index by a row for the message.                                  *)
LEMMA MessageSteps ==
    ASSUME RetainedAtPut, NEW w \in Workers, Moves(w)
    PROVE  /\ ObjectsKept
           /\ \/ UNCHANGED index
              \/ pc[w] = "insert" /\ Index(w) /\ UNCHANGED objects
<1>1. CASE UNCHANGED objects
  <2>1. ObjectsKept
    BY <1>1 DEF ObjectsKept
  <2>2. UNCHANGED index \/ (pc[w] = "insert" /\ Index(w))
    BY DEF Moves, Reject, RejectUnrecorded, Accept, ReadHead, ReadHeadFails, PutPayload,
           PutIsRefused, PutFails, InsertRow, InsertFails, storeVars
  <2>. QED  BY <1>1, <2>1, <2>2
<1>2. CASE ~PutRefused(w) /\ Store(w) /\ UNCHANGED index
  BY <1>2 DEF ObjectsKept, Store, PutRefused
<1>3. UNCHANGED objects \/ (~PutRefused(w) /\ Store(w) /\ UNCHANGED index)
  BY DEF Moves, Reject, RejectUnrecorded, Accept, ReadHead, ReadHeadFails, PutPayload,
         PutIsRefused, PutFails, InsertRow, InsertFails, storeVars
<1>. QED  BY <1>1, <1>2, <1>3

(* How a worker comes to be past the decoding: it was there, or it has     *)
(* just accepted the message; and to the insert: with no payload to put,   *)
(* or from a put that stored it.                                           *)
LEMMA HowAccepted ==
    ASSUME IndInv, NEW w \in Workers, Moves(w), Accepted(w)'
    PROVE  /\ Accepted(w) \/ Rejection(Msg(w), policy[w]) = "none"
           /\ pc'[w] = "insert" =>
                 \/ Msg(w).body = NoBody
                 \/ Store(w) /\ UNCHANGED job
<1>1. DOMAIN pc = Workers
  BY DEF IndInv, TypeInv, WorkerTypes
<1>2. Accept(w) \/ ReadHead(w) \/ PutPayload(w)
  BY <1>1 DEF Moves, Reject, RejectUnrecorded, ReadHeadFails, PutIsRefused, PutFails, InsertRow,
              InsertFails, Goto, Accepted
<1>. QED  BY <1>1, <1>2 DEF Accept, ReadHead, PutPayload, Goto, Accepted

(* Every step falls in one of three kinds for a worker past the decoding.  *)
LEMMA WorkerSteps ==
    ASSUME IndInv, [Next]_vars, NEW v \in Workers, Accepted(v)'
    PROVE  /\ Handling(v) /\ Msg(v)' = Msg(v)
           /\ Stays(v) \/ Moves(v)
<1>1. CASE \E w \in Workers : Moves(w)
  <2>1. PICK w \in Workers : Moves(w)
    BY <1>1
  <2>2. v # w => Stays(v) /\ Handling(v)
    BY <2>1, MovesEffect DEF Stays, Accepted, Handling
  <2>3. v = w => Handling(v)
    BY <2>1, MovesEffect
  <2>4. job'[v].part = job[v].part /\ job'[v].off = job[v].off
    BY <2>1, MovesEffect
  <2>. QED  BY <2>1, <2>2, <2>3, <2>4, MessageStays
<1>2. CASE ~\E w \in Workers : Moves(w)
  <2>1. Stays(v)
    BY <1>2, StepCases, OtherSteps
  <2>2. Handling(v)
    BY <2>1 DEF Stays, Accepted, Handling
  <2>. QED  BY <2>1, <2>2, MessageStays DEF Stays
<1>. QED  BY <1>1, <1>2

(* What a step of Ingest does to the stores.                               *)
LEMMA StoreSteps ==
    ASSUME RetainedAtPut, IndInv, [Next]_vars
    PROVE  /\ ObjectsKept
           /\ \/ UNCHANGED index
              \/ \E w \in Workers : pc[w] = "insert" /\ Index(w) /\ UNCHANGED objects
<1>1. CASE \E w \in Workers : Moves(w)
  BY <1>1, MessageSteps
<1>2. CASE ~\E w \in Workers : Moves(w)
  <2>1. UNCHANGED <<index, objects>>
    BY <1>2, StepCases, OtherSteps
  <2>. QED  BY <2>1 DEF ObjectsKept
<1>. QED  BY <1>1, <1>2

-----------------------------------------------------------------------------
(* Ingest keeps the invariant.                                             *)

(* A message is accepted only when its hash is that of its body. *)
LEMMA CheckedKept ==
    ASSUME IndInv, CheckedInv, [Next]_vars
    PROVE  CheckedInv'
<1>. SUFFICES ASSUME NEW v \in Workers, Accepted(v)', Msg(v)'.body # NoBody
              PROVE  Msg(v)'.hash = HashPayload(Msg(v)'.body)
  BY DEF CheckedInv
<1>1. Handling(v) /\ Msg(v)' = Msg(v) /\ (Stays(v) \/ Moves(v))
  BY WorkerSteps
<1>2. CASE Accepted(v)
  BY <1>1, <1>2 DEF CheckedInv
<1>3. CASE Rejection(Msg(v), policy[v]) = "none"
  BY <1>1, <1>3 DEF Rejection
<1>. QED  BY <1>1, <1>2, <1>3, HowAccepted DEF Stays, Accepted

(* What is retained and stays in the bucket is still held. *)
LEMMA HoldsStays ==
    ASSUME RetainedInv, ObjectsKept, UNCHANGED lapsed, NEW i, i \notin lapsed,
           NEW body, NEW redacted, Holds(i, body, redacted)
    PROVE  Holds(i, body, redacted)'
BY DEF RetainedInv, ObjectsKept, Holds

(* A payload that was put is there when the worker comes to insert.        *)
LEMMA PutKept ==
    ASSUME RetainedAtPut, IndInv, RetainedInv, PutInv, [Next]_vars, UNCHANGED lapsed
    PROVE  PutInv'
<1>. SUFFICES ASSUME NEW v \in Workers, pc'[v] = "insert", Msg(v)'.body # NoBody,
                     Msg(v)'.id \notin lapsed
              PROVE  Holds(Msg(v).id, Msg(v).body, job[v].redacted)'
  BY DEF PutInv
<1>1. Handling(v) /\ Msg(v)' = Msg(v) /\ (Stays(v) \/ Moves(v))
  BY WorkerSteps DEF Accepted
<1>2. CASE Stays(v)
  <2>1. pc[v] = "insert" /\ job'[v] = job[v]
    BY <1>2 DEF Stays
  <2>2. PICK m, r : m = Msg(v) /\ r = job[v].redacted
    OBVIOUS
  <2>3. Holds(m.id, m.body, r)
    BY <1>1, <2>1, <2>2 DEF PutInv
  <2>4. Holds(m.id, m.body, r)'
    BY <1>1, <2>2, <2>3, HoldsStays, StoreSteps
  <2>. QED  BY <1>1, <2>1, <2>2, <2>4 DEF Holds
<1>3. CASE Moves(v)
  <2>1. Store(v) /\ UNCHANGED job
    BY <1>1, <1>3, HowAccepted DEF Accepted
  <2>. QED  BY <1>1, <2>1 DEF Store, Holds
<1>. QED  BY <1>1, <1>2, <1>3

(* A row refers to the payload that was put for its own message, whichever *)
(* of two deliveries inserts it.                                           *)
LEMMA ProvableKept ==
    ASSUME RetainedAtPut, RetentionInv, [Next]_vars, UNCHANGED lapsed
    PROVE  ProvableWhileRetained'
<1>. USE DEF RetentionInv
<1>. SUFFICES ASSUME NEW i \in DOMAIN index' \ lapsed, index'[i].payloadRef
              PROVE  \E body, redacted :
                        /\ Holds(i, body, redacted)'
                        /\ index'[i].payloadHash = HashPayload(body)
                        /\ index'[i].redacted = redacted
  BY DEF ProvableWhileRetained, Provable, Holds
<1>1. CASE i \in DOMAIN index /\ index'[i] = index[i]
  <2>1. PICK body, redacted : body = objects[i].body /\ redacted = objects[i].redacted
    OBVIOUS
  <2>2. Holds(i, body, redacted) /\ index[i].payloadHash = HashPayload(body) /\ index[i].redacted = redacted
    BY <1>1, <2>1 DEF ProvableWhileRetained, Provable, Holds
  <2>3. Holds(i, body, redacted)'
    BY <2>2, HoldsStays, StoreSteps
  <2>. QED  BY <1>1, <2>2, <2>3
<1>2. CASE ~(i \in DOMAIN index /\ index'[i] = index[i])
  <2>1. PICK w \in Workers : pc[w] = "insert" /\ Index(w) /\ UNCHANGED objects
    BY <1>2, StoreSteps
  <2>2. i = Msg(w).id /\ index'[i] = NewRow(Msg(w), job[w].redacted, job[w].prev)
    BY <1>2, <2>1, InsertKeeps DEF Index, Insert
  <2>3. PICK body, redacted : body = Msg(w).body /\ redacted = job[w].redacted
    OBVIOUS
  <2>4. body # NoBody /\ index'[i].payloadHash = Msg(w).hash /\ index'[i].redacted = redacted
    <3>1. Msg(w).body # NoBody
      <4>1. ASSUME NEW m, NEW r, NEW h PROVE NewRow(m, r, h).payloadRef <=> m.body # NoBody
        BY DEF NewRow
      <4>. QED  BY <2>2, <4>1, Zenon
    <3>2. index'[i].payloadHash = Msg(w).hash /\ index'[i].redacted = job[w].redacted
      BY <2>2 DEF NewRow
    <3>. QED  BY <2>3, <3>1, <3>2
  <2>5. Msg(w).hash = HashPayload(body)
    BY <2>1, <2>3, <2>4 DEF CheckedInv, Accepted
  <2>6. Holds(i, body, redacted)
    BY <2>1, <2>2, <2>3, <2>4 DEF PutInv
  <2>7. Holds(i, body, redacted)'
    BY <2>1, <2>6 DEF Holds
  <2>. QED  BY <2>4, <2>5, <2>7
<1>. QED  BY <1>1, <1>2

(* A step of Ingest keeps the invariant. *)
LEMMA IngestKeeps ==
    ASSUME RetainedAtPut, RetentionInv, [Next]_vars, UNCHANGED lapsed
    PROVE  RetentionInv'
<1>1. IndInv'
  BY NextIndInv DEF RetentionInv
<1>2. RetainedInv'
  BY StoreSteps DEF RetentionInv, RetainedInv, ObjectsKept
<1>. QED  BY <1>1, <1>2, CheckedKept, PutKept, ProvableKept DEF RetentionInv

-----------------------------------------------------------------------------
(* Retentions that end, deletes and holds.                                 *)

(* Steps that leave Kafka and the workers alone leave what is known of the *)
(* messages at hand, when they leave what is held of the keys that have    *)
(* not lapsed.                                                             *)
LEMMA WorkersStill ==
    ASSUME UNCHANGED <<kafkaVars, workerVars>>, CheckedInv, PutInv, lapsed \subseteq lapsed',
           \A k \in DOMAIN objects \ lapsed' : k \in DOMAIN objects' /\ objects'[k] = objects[k]
    PROVE  CheckedInv' /\ PutInv'
<1>1. \A w \in Workers : Msg(w)' = Msg(w)
  BY DEF kafkaVars, workerVars, Msg
<1>2. pc' = pc /\ job' = job
  BY DEF workerVars
<1>3. CheckedInv'
  <2>. SUFFICES ASSUME NEW w \in Workers, Accepted(w)', Msg(w)'.body # NoBody
                PROVE  Msg(w)'.hash = HashPayload(Msg(w)'.body)
    BY DEF CheckedInv
  <2>1. Accepted(w)
    BY <1>2 DEF Accepted
  <2>. QED  BY <1>1, <2>1 DEF CheckedInv
<1>4. PutInv'
  <2>. SUFFICES ASSUME NEW w \in Workers, pc'[w] = "insert", Msg(w)'.body # NoBody,
                       Msg(w)'.id \notin lapsed'
                PROVE  Holds(Msg(w).id, Msg(w).body, job[w].redacted)'
    BY DEF PutInv
  <2>1. Holds(Msg(w).id, Msg(w).body, job[w].redacted)
    BY <1>1, <1>2 DEF PutInv
  <2>. QED  BY <1>1, <1>2, <2>1 DEF Holds
<1>. QED  BY <1>3, <1>4

(* They keep the types when what is left of the bucket keeps its own.      *)
LEMMA BucketInv ==
    ASSUME IndInv, UNCHANGED <<kafkaVars, workerVars, policy, index, deadLetters, faults>>,
           DOMAIN objects' \subseteq DOMAIN objects,
           objects' = [k \in DOMAIN objects' |-> objects'[k]],
           \A k \in DOMAIN objects' :
               objects'[k] = objects[k] \/ objects'[k] = [objects[k] EXCEPT !.retained = FALSE]
    PROVE  IndInv'
<1>. USE DEF IndInv, TypeInv
<1>1. KnownHashes' = KnownHashes /\ IndexTypes(KnownHashes)' /\ HasHead'
  BY IndexUnchanged
<1>2. KafkaTypes'
  BY DEF KafkaTypes, kafkaVars
<1>3. WorkerTypes(KnownHashes)'
  BY <1>1 DEF WorkerTypes, Handling, workerVars, kafkaVars
<1>4. StoreTypes'
  <2>. DEFINE O == [body : {m.body : m \in Envelopes}, redacted : BOOLEAN, retained : BOOLEAN]
  <2>1. \A k \in DOMAIN objects : objects[k] \in O
    BY DEF StoreTypes
  <2>2. \A k \in DOMAIN objects' : objects'[k] \in O
    BY <2>1
  <2>. QED  BY <2>2 DEF StoreTypes
<1>. QED  BY <1>1, <1>2, <1>3, <1>4

(* The end of a retention puts its key among the lapsed. *)
LEMMA EndsKeeps ==
    ASSUME RetentionInv, NEW k, RetentionEnds(k)
    PROVE  RetentionInv'
<1>. USE DEF RetentionInv, RetentionEnds
<1>1. IndInv'
  BY BucketInv
<1>2. RetainedInv'
  BY DEF RetainedInv
<1>3. \A j \in DOMAIN objects \ lapsed' : j \in DOMAIN objects' /\ objects'[j] = objects[j]
  OBVIOUS
<1>4. CheckedInv' /\ PutInv'
  BY <1>3, WorkersStill
<1>5. ProvableWhileRetained'
  BY <1>3 DEF ProvableWhileRetained, Provable
<1>. QED  BY <1>1, <1>2, <1>4, <1>5

(* Only an object whose retention has ended can be deleted. *)
LEMMA DeleteKeeps ==
    ASSUME RetentionInv, NEW k, Delete(k)
    PROVE  RetentionInv'
<1>. USE DEF RetentionInv, Delete
<1>1. IndInv'
  BY BucketInv
<1>2. RetainedInv'
  BY DEF RetainedInv
<1>3. \A j \in DOMAIN objects \ lapsed' : j \in DOMAIN objects' /\ objects'[j] = objects[j]
  BY DEF RetainedInv
<1>4. CheckedInv' /\ PutInv'
  BY <1>3, WorkersStill
<1>5. ProvableWhileRetained'
  BY <1>3 DEF ProvableWhileRetained, Provable
<1>. QED  BY <1>1, <1>2, <1>4, <1>5

(* A hold changes a column that no payload depends on. *)
LEMMA HoldKeeps ==
    ASSUME RetentionInv, NEW id, NEW hold \in BOOLEAN, Hold(id, hold)
    PROVE  RetentionInv'
<1>. USE DEF RetentionInv, Hold
<1>1. OnlyFlags
  BY HoldIsFlags
<1>2. IndInv'
  BY <1>1, FlagsKeepIndInv
<1>3. RetainedInv' /\ CheckedInv' /\ PutInv'
  BY WorkersStill DEF RetainedInv
<1>4. ProvableWhileRetained'
  <2>. SUFFICES ASSUME NEW i \in DOMAIN index' \ lapsed' PROVE Provable(i)'
    BY DEF ProvableWhileRetained
  <2>1. i \in DOMAIN index \ lapsed /\ Columns(index'[i]) = Columns(index[i])
    BY <1>1 DEF OnlyFlags
  <2>2. /\ index'[i].payloadRef = index[i].payloadRef
        /\ index'[i].payloadHash = index[i].payloadHash
        /\ index'[i].redacted = index[i].redacted
    BY <2>1 DEF Columns
  <2>3. Provable(i)
    BY <2>1 DEF ProvableWhileRetained
  <2>. QED  BY <2>2, <2>3 DEF Provable
<1>. QED  BY <1>2, <1>3, <1>4

(* Every step keeps the invariant. *)
LEMMA RetentionNextInv ==
    RetainedAtPut /\ RetentionInv /\ [RetentionNext]_retentionVars => RetentionInv'
<1>. SUFFICES ASSUME RetainedAtPut, RetentionInv, [RetentionNext]_retentionVars PROVE RetentionInv'
  OBVIOUS
<1>1. CASE [Next]_vars /\ UNCHANGED lapsed
  BY <1>1, IngestKeeps
<1>2. CASE \E k \in Ids : RetentionEnds(k) \/ Delete(k)
  BY <1>2, EndsKeeps, DeleteKeeps
<1>3. CASE \E id \in Ids, hold \in BOOLEAN : Hold(id, hold)
  BY <1>3, HoldKeeps
<1>. QED  BY <1>1, <1>2, <1>3 DEF RetentionNext, retentionVars

(* The initial states satisfy it. *)
LEMMA RetentionInitInv == RetentionInit => RetentionInv
<1>. SUFFICES ASSUME RetentionInit PROVE RetentionInv
  OBVIOUS
<1>1. IndInv
  BY InitIndInv DEF RetentionInit
<1>. QED  BY <1>1 DEF RetentionInit, Init, EmptyIndex, RetentionInv, RetainedInv, CheckedInv,
                      Accepted,
                      PutInv, ProvableWhileRetained

(* Where a put is protected (a retention a Duration can hold, or the legal *)
(* hold default), payload, flag and hash of every row agree until a        *)
(* retention of its key has ended, however deliveries overlap, fail, are   *)
(* repeated under another policy or share an id.                           *)
THEOREM PayloadsProvable ==
    ASSUME RetainedAtPut
    PROVE  RetentionSpec => []ProvableWhileRetained
<1>1. RetentionInv /\ [RetentionNext]_retentionVars => RetentionInv'
  BY RetentionNextInv
<1>2. RetentionInv => ProvableWhileRetained
  BY DEF RetentionInv
<1>. QED  BY <1>1, <1>2, RetentionInitInv, PTL DEF RetentionSpec

-----------------------------------------------------------------------------
(* The same bound with a bucket that forgets.                              *)

(* What ends a retention, deletes an object or sets a hold charges nothing.*)
LEMMA BucketCharges ==
    ASSUME IndInv, LossInv, UNCHANGED <<kafkaVars, workerVars, deadLetters, faults>>,
           DOMAIN index' = DOMAIN index, DOMAIN objects' \subseteq DOMAIN objects
    PROVE  LossInv'
<1>1. /\ topic' = topic /\ committed' = committed /\ position' = position
      /\ pc' = pc /\ job' = job
  BY DEF kafkaVars, workerVars
<1>2. \A i : Inserting(i)' <=> Inserting(i)
  BY <1>1 DEF Inserting, Msg
<1>3. \A i : Missed(i)' <=> Missed(i)
  BY <1>1 DEF Missed, Given, Seen, Recorded, InHand
<1>4. Charged' \subseteq Charged
  <2>1. Ids' = Ids
    BY DEF Ids
  <2>. QED  BY <1>2, <1>3, <2>1 DEF Charged
<1>5. faults \in Nat /\ IsFiniteSet(Charged) /\ Cardinality(Charged) \in Nat
  BY FaultsNat, FS_CardinalityType DEF LossInv
<1>6. IsFiniteSet(Charged') /\ Cardinality(Charged') <= Cardinality(Charged)
  BY <1>4, <1>5, FS_Subset
<1>7. Cardinality(Charged') \in Nat
  BY <1>6, FS_CardinalityType
<1>. QED  BY <1>5, <1>6, <1>7 DEF LossInv

(* Events are lost by faults only, also when retentions end, objects are   *)
(* deleted and holds are set, whether or not a put is protected.           *)
THEOREM NoLossWhenDeleted == RetentionSpec => []NoSilentLoss
<1>1. RetentionInit => IndInv /\ LossInv
  BY InitIndInv, InitLossInv DEF RetentionInit
<1>2. (IndInv /\ LossInv) /\ [RetentionNext]_retentionVars => (IndInv /\ LossInv)'
  <2>. SUFFICES ASSUME IndInv, LossInv, [RetentionNext]_retentionVars PROVE IndInv' /\ LossInv'
    OBVIOUS
  <2>1. CASE [Next]_vars
    BY <2>1, NextIndInv, NextLossInv
  <2>2. ASSUME NEW k \in Ids, RetentionEnds(k) PROVE IndInv' /\ LossInv'
    <3>1. IndInv'
      BY <2>2, BucketInv DEF RetentionEnds
    <3>2. LossInv'
      BY <2>2, BucketCharges DEF RetentionEnds
    <3>. QED  BY <3>1, <3>2
  <2>3. ASSUME NEW k \in Ids, Delete(k) PROVE IndInv' /\ LossInv'
    <3>1. IndInv'
      BY <2>3, BucketInv DEF Delete
    <3>2. LossInv'
      BY <2>3, BucketCharges DEF Delete
    <3>. QED  BY <3>1, <3>2
  <2>4. ASSUME NEW id \in Ids, NEW hold \in BOOLEAN, Hold(id, hold) PROVE IndInv' /\ LossInv'
    <3>1. OnlyFlags
      BY <2>4, HoldIsFlags DEF Hold
    <3>2. IndInv'
      BY <2>4, <3>1, FlagsKeepIndInv DEF Hold
    <3>3. DOMAIN index' = DOMAIN index
      BY <3>1 DEF OnlyFlags
    <3>4. LossInv'
      BY <2>4, <3>3, BucketCharges DEF Hold
    <3>. QED  BY <3>2, <3>4
  <2>. QED  BY <2>1, <2>2, <2>3, <2>4 DEF RetentionNext, retentionVars
<1>3. IndInv /\ LossInv => NoSilentLoss
  BY LossBound
<1>. QED  BY <1>1, <1>2, <1>3, PTL DEF RetentionSpec
=============================================================================
