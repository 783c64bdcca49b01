--------------------------- MODULE ProcessProofs ----------------------------
(***************************************************************************)
(* Theorems about Process for every buffer, every set of messages,         *)
(* documents and callers and every bound.                                  *)
(***************************************************************************)
EXTENDS Process, TLAPS

Busy == IF hand = NoHand THEN 0 ELSE 1

Handling == {"apply", "put", "write", "insert"}

TypeInv ==
    /\ accepted \in Seq(Messages)
    /\ feed \in Seq(Messages)
    /\ sending \in [Callers -> {<< >>} \cup {<<m>> : m \in Messages}]
    /\ handled \in Nat
    /\ consumer \in Handling \cup {"select", "exited"}

(* The accepted messages are those handled, then the one in hand, then     *)
(* those in the feed, in this order.                                       *)
OrderInv ==
    /\ Len(accepted) = handled + Busy + Len(feed)
    /\ \A k \in 1..Len(feed) : feed[k] = accepted[handled + Busy + k]
    /\ hand # NoHand => hand[1].msg = accepted[handled + 1]

(* Who handles a message has it in hand, and a consumer that has gone has  *)
(* none.                                                                   *)
HandInv ==
    /\ hand = NoHand <=> consumer \notin Handling
    /\ "consumer" \notin loops => hand = NoHand
    /\ phase = "stopped" => loops = {}

(* A handled message has left its row or its dead letter. *)
DoneInv == \A n \in 1..handled : accepted[n].id \in DOMAIN index \cup deadLetters

(* An object belongs to a row or is about to: a key already there needs no *)
(* row of its own.                                                         *)
ObjectInv ==
    \A i \in DOMAIN objects :
        i \in DOMAIN index \/ (consumer = "insert" /\ i = hand[1].msg.id)

AccountInv == TypeInv /\ OrderInv /\ HandInv /\ DoneInv /\ ObjectInv

-----------------------------------------------------------------------------
(* The message in hand is among those accepted. *)
LEMMA HandAccepted ==
    ASSUME TypeInv, OrderInv, hand # NoHand
    PROVE  /\ handled + 1 \in 1..Len(accepted) /\ Len(accepted) = handled + 1 + Len(feed)
           /\ \A k \in 1..Len(feed) : feed[k] = accepted[handled + 1 + k]
           /\ hand[1].msg = accepted[handled + 1]
BY DEF TypeInv, OrderInv, Busy

(* What a step that accepts and handles nothing keeps. *)
LEMMA OrderStays ==
    ASSUME OrderInv, UNCHANGED <<accepted, feed, handled>>, hand = NoHand <=> hand' = NoHand,
           hand # NoHand => hand'[1].msg = hand[1].msg
    PROVE  OrderInv'
BY DEF OrderInv, Busy

(* The commit of the message in hand. *)
LEMMA CommitInv ==
    ASSUME AccountInv, Commit, consumer \in Handling, UNCHANGED <<accepted, feed, sending, phase, loops>>,
           DOMAIN index \subseteq DOMAIN index', deadLetters \subseteq deadLetters',
           DOMAIN objects' = DOMAIN objects,
           hand[1].msg.id \in DOMAIN index' \cup deadLetters',
           consumer = "insert" => hand[1].msg.id \in DOMAIN index'
    PROVE  AccountInv'
<1>1. /\ TypeInv /\ OrderInv /\ HandInv /\ DoneInv /\ ObjectInv /\ hand # NoHand
  BY DEF AccountInv, HandInv
<1>2. /\ handled + 1 \in 1..Len(accepted) /\ Len(accepted) = handled + 1 + Len(feed)
      /\ \A k \in 1..Len(feed) : feed[k] = accepted[handled + 1 + k]
      /\ hand[1].msg = accepted[handled + 1]
  BY <1>1, HandAccepted
<1>3. hand' = NoHand /\ handled' = handled + 1 /\ consumer' = "select"
  BY DEF Commit
<1>4. TypeInv'
  BY <1>1, <1>3 DEF TypeInv
<1>5. OrderInv'
  BY <1>1, <1>2, <1>3 DEF OrderInv, Busy, TypeInv
<1>6. HandInv'
  BY <1>1, <1>3 DEF HandInv, Handling
<1>7. DoneInv'
  <2>. SUFFICES ASSUME NEW n \in 1..handled' PROVE accepted[n].id \in DOMAIN index' \cup deadLetters'
    BY DEF DoneInv
  <2>1. n \in 1..handled \/ n = handled + 1
    BY <1>1, <1>3 DEF TypeInv
  <2>. QED  BY <1>1, <1>2, <2>1 DEF DoneInv
<1>8. ObjectInv'
  BY <1>1, <1>3 DEF ObjectInv
<1>. QED  BY <1>4, <1>5, <1>6, <1>7, <1>8 DEF AccountInv

(* The steps of the consumer. *)
LEMMA ConsumerInv == AccountInv /\ ConsumerStep => AccountInv'
<1>. SUFFICES ASSUME AccountInv, ConsumerStep PROVE AccountInv'
  OBVIOUS
<1>0. TypeInv /\ OrderInv /\ HandInv /\ DoneInv /\ ObjectInv
  BY DEF AccountInv
<1>1. CASE Receive
  <2>1. hand = NoHand /\ "consumer" \in loops
    BY <1>0, <1>1 DEF HandInv, Receive, At, Handling
  <2>2. /\ feed # << >> /\ feed' = Tail(feed) /\ hand' = <<[msg |-> Head(feed)]>>
        /\ consumer' = "apply" /\ consumer = "select"
        /\ UNCHANGED <<accepted, sending, handled, objects, index, deadLetters, loops, phase>>
    BY <1>1 DEF Receive, At, feedVars, serverVars
  <2>3. hand' # NoHand /\ hand'[1].msg = feed[1]
    BY <1>0, <2>2 DEF NoHand, TypeInv
  <2>4. /\ Len(feed) \in Nat \ {0} /\ Len(Tail(feed)) = Len(feed) - 1 /\ Tail(feed) \in Seq(Messages)
        /\ \A k \in 1..(Len(feed) - 1) : Tail(feed)[k] = feed[k + 1]
    BY <1>0, <2>2 DEF TypeInv
  <2>5. TypeInv'
    BY <1>0, <2>2, <2>4 DEF TypeInv, Handling
  <2>6. OrderInv'
    <3>1. /\ Len(accepted) = handled + Len(feed) /\ \A k \in 1..Len(feed) : feed[k] = accepted[handled + k]
          /\ handled \in Nat
      BY <1>0, <2>1 DEF OrderInv, Busy, TypeInv
    <3>2. Len(accepted) = handled + 1 + Len(Tail(feed))
      BY <2>4, <3>1
    <3>3. \A k \in 1..Len(Tail(feed)) : Tail(feed)[k] = accepted[handled + 1 + k]
      BY <2>4, <3>1
    <3>4. feed[1] = accepted[handled + 1]
      BY <2>4, <3>1
    <3>. QED  BY <2>2, <2>3, <3>2, <3>3, <3>4 DEF OrderInv, Busy
  <2>7. HandInv'
    BY <1>0, <2>1, <2>2, <2>3 DEF HandInv, Handling
  <2>8. DoneInv'
    BY <1>0, <2>2 DEF DoneInv
  <2>9. ObjectInv'
    BY <1>0, <2>2 DEF ObjectInv
  <2>. QED  BY <2>5, <2>6, <2>7, <2>8, <2>9 DEF AccountInv
<1>2. CASE ExitOnCancel \/ ExitOnClose
  <2>1. /\ consumer = "select" /\ consumer' = "exited" /\ loops' = loops \ {"consumer"}
        /\ UNCHANGED <<phase, hand, handled, objects, index, deadLetters, accepted, feed, sending>>
    BY <1>2 DEF ExitOnCancel, ExitOnClose, Exit, At, feedVars
  <2>2. TypeInv' /\ OrderInv' /\ DoneInv' /\ ObjectInv'
    BY <1>0, <2>1 DEF TypeInv, OrderInv, Busy, DoneInv, ObjectInv
  <2>3. HandInv'
    BY <1>0, <2>1 DEF HandInv, Handling
  <2>. QED  BY <2>2, <2>3 DEF AccountInv
<1>3. CASE ApplyPolicy
  <2>. DEFINE m == hand[1].msg
              out == Apply(policy.rules, m.service, m.action, m.body)
  <2>1. /\ consumer = "apply" /\ "consumer" \in loops
        /\ UNCHANGED <<objects, index, accepted, feed, sending, phase, loops>>
    BY <1>3 DEF ApplyPolicy, At, feedVars, serverVars
  <2>2. CASE out.ok
    <3>1. /\ hand' = <<[msg |-> m, body |-> out.body, redacted |-> out.changed, by |-> policy.file]>>
          /\ consumer' = (IF m.body = NoPayload THEN "insert" ELSE "put")
          /\ UNCHANGED <<handled, deadLetters>>
      BY <1>3, <2>2 DEF ApplyPolicy
    <3>2. hand' # NoHand /\ hand # NoHand /\ hand'[1].msg = hand[1].msg /\ consumer' \in {"insert", "put"}
      BY <1>0, <2>1, <3>1 DEF NoHand, HandInv, Handling
    <3>3. TypeInv' /\ DoneInv' /\ ObjectInv'
      BY <1>0, <2>1, <3>1, <3>2 DEF TypeInv, DoneInv, ObjectInv, Handling
    <3>4. OrderInv'
      BY <1>0, <2>1, <3>1, <3>2, OrderStays
    <3>5. HandInv'
      BY <1>0, <2>1, <3>2 DEF HandInv, Handling
    <3>. QED  BY <3>3, <3>4, <3>5 DEF AccountInv
  <2>3. CASE ~out.ok
    <3>1. Commit /\ deadLetters' = deadLetters \cup {m.id}
      BY <1>3, <2>3 DEF ApplyPolicy
    <3>. QED  BY <2>1, <3>1, CommitInv DEF Handling
  <2>. QED  BY <2>2, <2>3
<1>4. CASE Put
  <2>1. /\ consumer = "put" /\ "consumer" \in loops
        /\ UNCHANGED <<objects, index, deadLetters, accepted, feed, sending, phase, loops>>
    BY <1>4 DEF Put, At, feedVars, serverVars
  <2>2. CASE hand[1].msg.id \in DOMAIN objects /\ RetainedAtPut
    <3>1. Commit /\ hand[1].msg.id \in DOMAIN index
      BY <1>0, <1>4, <2>1, <2>2 DEF Put, ObjectInv
    <3>. QED  BY <2>1, <3>1, CommitInv DEF Handling
  <2>3. CASE ~(hand[1].msg.id \in DOMAIN objects /\ RetainedAtPut)
    <3>1. consumer' = "write" /\ UNCHANGED <<hand, handled>>
      BY <1>4, <2>3 DEF Put
    <3>2. TypeInv' /\ OrderInv' /\ DoneInv' /\ ObjectInv' /\ HandInv'
      BY <1>0, <2>1, <3>1 DEF TypeInv, OrderInv, Busy, DoneInv, ObjectInv, HandInv, Handling
    <3>. QED  BY <3>2 DEF AccountInv
  <2>. QED  BY <2>2, <2>3
<1>5. CASE Write
  <2>1. /\ consumer = "write" /\ consumer' = "insert" /\ "consumer" \in loops
        /\ DOMAIN objects' = DOMAIN objects \cup {hand[1].msg.id}
        /\ UNCHANGED <<hand, handled, index, deadLetters, accepted, feed, sending, phase, loops>>
    BY <1>5 DEF Write, At, feedVars, serverVars
  <2>2. TypeInv' /\ OrderInv' /\ DoneInv' /\ HandInv'
    BY <1>0, <2>1 DEF TypeInv, OrderInv, Busy, DoneInv, HandInv, Handling
  <2>3. ObjectInv'
    BY <1>0, <2>1 DEF ObjectInv
  <2>. QED  BY <2>2, <2>3 DEF AccountInv
<1>6. CASE InsertRow
  <2>1. /\ consumer = "insert" /\ Commit /\ DOMAIN index' = DOMAIN index \cup {hand[1].msg.id}
        /\ UNCHANGED <<objects, deadLetters, accepted, feed, sending, phase, loops>>
    BY <1>6 DEF InsertRow, At, feedVars, serverVars
  <2>. QED  BY <2>1, CommitInv DEF Handling
<1>. QED  BY <1>1, <1>2, <1>3, <1>4, <1>5, <1>6 DEF ConsumerStep

(* A message sent goes to the end of the feed. *)
LEMMA SendInv ==
    ASSUME AccountInv, NEW c \in Callers, EnqueueSend(c)
    PROVE  AccountInv'
<1>0. TypeInv /\ OrderInv /\ HandInv /\ DoneInv /\ ObjectInv
  BY DEF AccountInv
<1>1. PICK m \in Messages : sending[c] = <<m>>
  BY <1>0 DEF EnqueueSend, TypeInv
<1>2. UNCHANGED <<hand, handled, consumer, objects, index, deadLetters, phase, loops>>
  BY DEF EnqueueSend, workVars, serverVars
<1>3. CASE feed' = feed \o <<m>> /\ accepted' = accepted \o <<m>>
  <2>1. /\ feed' \in Seq(Messages) /\ accepted' \in Seq(Messages)
        /\ Len(feed') = Len(feed) + 1 /\ Len(accepted') = Len(accepted) + 1
        /\ \A k \in 1..Len(feed) : feed'[k] = feed[k]
        /\ \A k \in 1..Len(accepted) : accepted'[k] = accepted[k]
        /\ feed'[Len(feed) + 1] = m /\ accepted'[Len(accepted) + 1] = m
        /\ Len(feed) \in Nat /\ Len(accepted) \in Nat
    BY <1>0, <1>3 DEF TypeInv
  <2>2. /\ Len(accepted) = handled + Busy + Len(feed) /\ handled \in Nat /\ Busy \in {0, 1}
        /\ Busy' = Busy
        /\ \A k \in 1..Len(feed) : feed[k] = accepted[handled + Busy + k]
    BY <1>0, <1>2 DEF OrderInv, TypeInv, Busy
  <2>3. TypeInv'
    BY <1>0, <1>2, <2>1 DEF TypeInv, EnqueueSend
  <2>4. OrderInv'
    <3>1. Len(accepted') = handled + Busy + Len(feed')
      <4>1. Busy \in Nat /\ Len(accepted) = handled + Busy + Len(feed)
        BY <2>2
      <4>2. Len(feed') = Len(feed) + 1 /\ Len(accepted') = Len(accepted) + 1
        BY <2>1
      <4>. QED  BY ONLY <2>1, <2>2, <4>1, <4>2
    <3>2. ASSUME NEW k \in 1..Len(feed') PROVE feed'[k] = accepted'[handled + Busy + k]
      <4>1. CASE k = Len(feed) + 1
        <5>1. handled + Busy + k = Len(accepted) + 1
          BY <2>1, <2>2, <4>1
        <5>. QED  BY ONLY <2>1, <4>1, <5>1
      <4>2. CASE k \in 1..Len(feed)
        <5>1. handled + Busy + k \in 1..Len(accepted)
          BY <2>1, <2>2, <4>2
        <5>. QED  BY <2>1, <2>2, <4>2, <5>1
      <4>. QED  BY <2>1, <4>1, <4>2
    <3>3. hand # NoHand => hand[1].msg = accepted'[handled + 1]
      BY <1>0, <2>1, HandAccepted
    <3>. QED  BY <1>2, <2>2, <3>1, <3>2, <3>3 DEF OrderInv
  <2>5. DoneInv'
    <3>1. \A n \in 1..handled : n \in 1..Len(accepted)
      BY <2>1, <2>2
    <3>. QED  BY <1>0, <1>2, <2>1, <3>1 DEF DoneInv
  <2>6. HandInv' /\ ObjectInv'
    BY <1>0, <1>2 DEF HandInv, ObjectInv
  <2>. QED  BY <2>3, <2>4, <2>5, <2>6 DEF AccountInv
<1>4. CASE UNCHANGED <<feed, accepted>>
  <2>1. TypeInv'
    BY <1>0, <1>2, <1>4 DEF TypeInv, EnqueueSend
  <2>2. OrderInv' /\ DoneInv' /\ HandInv' /\ ObjectInv'
    BY <1>0, <1>2, <1>4 DEF OrderInv, Busy, DoneInv, HandInv, ObjectInv
  <2>. QED  BY <2>1, <2>2 DEF AccountInv
<1>. QED  BY <1>1, <1>3, <1>4 DEF EnqueueSend

(* What is not of the consumer or the feed. *)
LEMMA OtherInv ==
    ASSUME AccountInv, UNCHANGED <<workVars, feed, accepted>>,
           sending' \in [Callers -> {<< >>} \cup {<<m>> : m \in Messages}],
           loops \cap {"consumer"} \subseteq loops', phase' = "stopped" => loops' = {}
    PROVE  AccountInv'
BY DEF AccountInv, TypeInv, OrderInv, Busy, HandInv, DoneInv, ObjectInv, workVars

(* Every step keeps the invariant. *)
LEMMA AccountNext == AccountInv /\ [Next]_vars => AccountInv'
<1>. SUFFICES ASSUME AccountInv, [Next]_vars PROVE AccountInv'
  OBVIOUS
<1>0. sending \in [Callers -> {<< >>} \cup {<<m>> : m \in Messages}] /\ (phase = "stopped" => loops = {})
  BY DEF AccountInv, TypeInv, HandInv
<1>1. CASE Start
  BY <1>0, <1>1, OtherInv DEF Start, feedVars
<1>2. CASE ReloadRead \/ ReloadSwap
  BY <1>0, <1>2, OtherInv DEF ReloadRead, ReloadSwap, feedVars
<1>3. CASE ReadDuringWrite
  BY <1>0, <1>3, OtherInv DEF ReadDuringWrite, feedVars
<1>4. CASE Stop
  BY <1>0, <1>4, OtherInv DEF Stop, serverVars
<1>5. ASSUME NEW doc \in Documents, EditPolicy(doc) PROVE AccountInv'
  BY <1>0, <1>5, OtherInv DEF EditPolicy, serverVars, feedVars
<1>6. ASSUME NEW c \in Callers, EnqueueSend(c) PROVE AccountInv'
  BY <1>6, SendInv
<1>7. ASSUME NEW c \in Callers, EnqueuePanics(c) PROVE AccountInv'
  BY <1>0, <1>7, OtherInv DEF EnqueuePanics, feedVars
<1>8. ASSUME NEW c \in Callers, NEW m \in Messages, EnqueueCheck(c, m) PROVE AccountInv'
  BY <1>0, <1>8, OtherInv DEF EnqueueCheck, serverVars
<1>9. CASE ConsumerStep
  BY <1>9, ConsumerInv
<1>10. CASE ShutdownCancel
  BY <1>0, <1>10, OtherInv DEF ShutdownCancel, feedVars
<1>11. CASE AnchorLoopEnds
  BY <1>0, <1>11, OtherInv DEF AnchorLoopEnds, feedVars
<1>12. CASE ShutdownReturns
  BY <1>0, <1>12, OtherInv DEF ShutdownReturns, feedVars
<1>13. CASE UNCHANGED vars
  BY <1>0, <1>13, OtherInv DEF vars, serverVars, feedVars
<1>. QED  BY <1>1, <1>2, <1>3, <1>4, <1>5, <1>6, <1>7, <1>8, <1>9, <1>10, <1>11, <1>12, <1>13
          DEF Next, Shutdown

(* Every message the feed accepts is in the index or in dead_letter once   *)
(* it was handled, in the feed before, or in the hands of the consumer,    *)
(* which a process that was shut down has let finish: for every buffer,    *)
(* any number of callers and whenever Stop, a reload, a panic or the       *)
(* shutdown comes.                                                         *)
THEOREM AccountedHolds == ProcessSpec => []Accounted
<1>1. Init => AccountInv
  BY DEF Init, AccountInv, TypeInv, OrderInv, Busy, HandInv, DoneInv, ObjectInv, Handling, NoHand
<1>2. AccountInv => Accounted
  <2>. SUFFICES ASSUME AccountInv, NEW n \in 1..Len(accepted)
                PROVE  \/ n <= handled /\ accepted[n].id \in DOMAIN index \cup deadLetters
                       \/ n > Len(accepted) - Len(feed)
                       \/ n = handled + 1 /\ hand # NoHand /\ phase # "stopped"
    BY DEF Accounted
  <2>1. /\ Len(accepted) = handled + Busy + Len(feed) /\ handled \in Nat /\ Len(feed) \in Nat
        /\ Len(accepted) \in Nat
    BY DEF AccountInv, OrderInv, TypeInv
  <2>2. CASE n <= handled
    BY <2>1, <2>2 DEF AccountInv, DoneInv
  <2>3. CASE n > handled /\ hand = NoHand
    BY <2>1, <2>3 DEF Busy
  <2>4. CASE n > handled /\ hand # NoHand
    <3>1. phase # "stopped"
      BY <2>4 DEF AccountInv, HandInv
    <3>. QED  BY <2>1, <2>4, <3>1 DEF Busy
  <2>. QED  BY <2>1, <2>2, <2>3, <2>4
<1>. QED  BY <1>1, <1>2, AccountNext, PTL DEF ProcessSpec

-----------------------------------------------------------------------------
(* Redaction.  Parse and Apply work through sequences by recursion, so     *)
(* what the parser makes of a document is left to TLC; that the text of    *)
(* one file decides over all of a payload, however edits, reloads and      *)
(* deliveries fall together, is shown here.                                *)

(* What the rules read from a version of the file make of a message. *)
Outcome(f, m) == Apply(Load(f).rules, m.service, m.action, m.body)

FromDocument(f) == f.state = "written" => f.doc \in Documents

(* A policy is what was read from one version of the file. *)
PolicyInv ==
    /\ FromDocument(file)
    /\ policy = Load(policy.file) /\ FromDocument(policy.file)
    /\ reload.policy = Load(reload.policy.file) /\ FromDocument(reload.policy.file)

(* A body that was redacted under one file, and whether that changed it. *)
RedactedUnder(body, f, m) ==
    /\ FromDocument(f) /\ m \in Messages
    /\ Outcome(f, m).ok /\ body = Outcome(f, m).body

(* What the consumer takes from one step to the next. *)
CarryInv ==
    /\ consumer \in {"put", "write", "insert"} =>
          /\ RedactedUnder(hand[1].body, hand[1].by, hand[1].msg)
          /\ hand[1].redacted <=> hand[1].body # hand[1].msg.body
    /\ consumer \in {"put", "write"} => hand[1].msg.body # NoPayload
    /\ consumer = "insert" /\ hand[1].msg.body # NoPayload =>
          /\ hand[1].msg.id \in DOMAIN objects
          /\ objects[hand[1].msg.id].body = hand[1].body
          /\ objects[hand[1].msg.id].of = hand[1].msg

(* Whatever is stored was redacted under one version of the file. *)
StoredInv ==
    \A i \in DOMAIN objects :
        RedactedUnder(objects[i].body, objects[i].by, objects[i].of) /\ objects[i].of.body # NoPayload

(* What holds besides where an object that was put stays as it is. *)
FlagInv ==
    /\ RedactedTells
    /\ consumer = "write" => hand[1].msg.id \notin DOMAIN objects

RedactInv == PolicyInv /\ CarryInv /\ StoredInv /\ (RetainedAtPut => FlagInv)

(* Redaction says that it changed a body exactly when it did. *)
LEMMA ChangedTells ==
    ASSUME NEW rules, NEW service, NEW action, NEW body
    PROVE  LET out == Apply(rules, service, action, body)
           IN  out.changed <=> out.body # body
<1>. DEFINE matching == SelectSeq(rules, LAMBDA r : RuleMatches(r, service, action))
            new == [k \in {n \in DOMAIN body : KeyTransform(matching, n) # "drop"}
                       |-> Transformed(KeyTransform(matching, k), body[k])]
            out == Apply(rules, service, action, body)
<1>1. CASE body = NoPayload \/ matching = << >>
  <2>1. out = [ok |-> TRUE, body |-> body, changed |-> FALSE]
    BY <1>1 DEF Apply
  <2>. QED  BY <2>1
<1>2. CASE ~(body = NoPayload \/ matching = << >>) /\ body \in Opaque
  <2>1. out = [ok |-> FALSE, body |-> body, changed |-> FALSE]
    BY <1>2 DEF Apply
  <2>. QED  BY <2>1
<1>3. CASE ~(body = NoPayload \/ matching = << >>) /\ body \notin Opaque
  <2>1. out = [ok |-> TRUE, body |-> new, changed |-> new # body]
    BY <1>3 DEF Apply
  <2>. HIDE DEF out, new
  <2>2. out.body = new /\ out.changed = (new # body)
    BY <2>1
  <2>. QED  BY <2>2 DEF out
<1>. QED  BY <1>1, <1>2, <1>3

(* What the file holds, or what is read from it, comes from one document. *)
LEMMA LoadsOne ==
    ASSUME NEW f, FromDocument(f)
    PROVE  Load(f).file = f /\ Load(f) = Load(Load(f).file)
BY DEF Load

(* Steps that leave payloads, rows and the message in hand alone. *)
LEMMA CarryStays ==
    ASSUME CarryInv, StoredInv, RetainedAtPut => FlagInv, UNCHANGED workVars
    PROVE  CarryInv' /\ StoredInv' /\ (RetainedAtPut => FlagInv')
BY DEF CarryInv, StoredInv, FlagInv, RedactedTells, workVars

(* The policy is swapped, the file edited or neither. *)
LEMMA PolicyNext ==
    ASSUME PolicyInv, [Next]_vars
    PROVE  PolicyInv'
<1>. USE DEF PolicyInv
<1>1. CASE Start
  <2>1. UNCHANGED <<file, reload>> /\ (policy' = policy \/ policy' = Load(file))
    BY <1>1 DEF Start
  <2>. QED  BY <2>1, LoadsOne
<1>2. CASE ReloadRead
  <2>1. UNCHANGED <<file, policy>> /\ reload'.policy = Load(file)
    BY <1>2 DEF ReloadRead, policyVars
  <2>. QED  BY <2>1, LoadsOne
<1>3. CASE ReloadSwap
  <2>1. UNCHANGED file /\ policy' = reload.policy /\ reload'.policy = Load(Absent)
    BY <1>3 DEF ReloadSwap, NoReload
  <2>2. FromDocument(Absent)
    BY DEF FromDocument, Absent
  <2>. QED  BY <2>1, <2>2, LoadsOne
<1>4. ASSUME NEW doc \in Documents, EditPolicy(doc) PROVE PolicyInv'
  <2>1. UNCHANGED <<policy, reload>> /\ \E n \in 0..Len(Render(doc)) : file' = Written(doc, n)
    BY <1>4 DEF EditPolicy, serverVars
  <2>2. FromDocument(file')
    BY <2>1 DEF FromDocument, Written
  <2>. QED  BY <2>1, <2>2
<1>5. CASE UNCHANGED <<file, policy, reload>>
  BY <1>5
<1>6. CASE ConsumerStep
  <2>1. UNCHANGED <<file, policy, reload>>
    BY <1>6 DEF ConsumerStep, Receive, ExitOnCancel, ExitOnClose, Exit, ApplyPolicy, Put, Write,
                InsertRow, serverVars, policyVars
  <2>. QED  BY <1>5, <2>1
<1>7. ASSUME NEW c \in Callers,
             EnqueueSend(c) \/ EnqueuePanics(c) \/ \E m \in Messages : EnqueueCheck(c, m)
      PROVE  UNCHANGED <<file, policy, reload>>
  BY <1>7 DEF EnqueueSend, EnqueuePanics, EnqueueCheck, serverVars, policyVars
<1>8. CASE ReadDuringWrite \/ Stop \/ ShutdownCancel \/ Shutdown \/ UNCHANGED vars
  BY <1>8 DEF ReadDuringWrite, Stop, ShutdownCancel, Shutdown, AnchorLoopEnds, ShutdownReturns,
              vars, serverVars, policyVars
<1>. QED  BY <1>1, <1>2, <1>3, <1>4, <1>5, <1>6, <1>7, <1>8 DEF Next

(* The consumer. *)
LEMMA CarryNext ==
    ASSUME AccountInv, RedactInv, ConsumerStep
    PROVE  CarryInv' /\ StoredInv' /\ (RetainedAtPut => FlagInv')
<1>. USE DEF RedactInv
<1>. DEFINE m == hand[1].msg
<1>1. consumer \in Handling => m \in Messages
  <2>. SUFFICES ASSUME consumer \in Handling PROVE m \in Messages
    OBVIOUS
  <2>1. TypeInv /\ OrderInv /\ hand # NoHand
    BY DEF AccountInv, HandInv
  <2>2. handled + 1 \in 1..Len(accepted) /\ m = accepted[handled + 1]
    BY <2>1, HandAccepted
  <2>. QED  BY <2>1, <2>2 DEF TypeInv
<1>2. CASE Receive \/ ExitOnCancel \/ ExitOnClose
  <2>1. UNCHANGED <<objects, index>> /\ consumer' \in {"apply", "exited"}
    BY <1>2 DEF Receive, ExitOnCancel, ExitOnClose, Exit
  <2>. QED  BY <2>1 DEF CarryInv, StoredInv, FlagInv, RedactedTells
<1>3. CASE ApplyPolicy
  <2>. DEFINE out == Apply(policy.rules, m.service, m.action, m.body)
  <2>1. UNCHANGED <<objects, index>> /\ consumer = "apply"
    BY <1>3 DEF ApplyPolicy, At
  <2>2. CASE out.ok
    <3>1. /\ hand' = <<[msg |-> m, body |-> out.body, redacted |-> out.changed, by |-> policy.file]>>
          /\ consumer' = (IF m.body = NoPayload THEN "insert" ELSE "put")
      BY <1>3, <2>2 DEF ApplyPolicy
    <3>2. out = Outcome(policy.file, m)
      BY DEF Outcome, PolicyInv
    <3>3. out.changed <=> out.body # m.body
      BY ChangedTells
    <3>. HIDE DEF out, m
    <3>4. /\ hand'[1].msg = m /\ hand'[1].body = out.body /\ hand'[1].redacted = out.changed
          /\ hand'[1].by = policy.file
      BY <3>1
    <3>5. RedactedUnder(hand'[1].body, hand'[1].by, hand'[1].msg)
      BY <1>1, <2>1, <2>2, <3>2, <3>4 DEF RedactedUnder, PolicyInv, Handling
    <3>6. CarryInv'
      BY <3>1, <3>3, <3>4, <3>5 DEF CarryInv
    <3>7. consumer' # "write"
      BY <3>1
    <3>. QED  BY <2>1, <3>6, <3>7 DEF StoredInv, FlagInv, RedactedTells
  <2>3. CASE ~out.ok
    <3>1. consumer' = "select"
      BY <1>3, <2>3 DEF ApplyPolicy, Commit
    <3>. QED  BY <2>1, <3>1 DEF CarryInv, StoredInv, FlagInv, RedactedTells
  <2>. QED  BY <2>2, <2>3
<1>4. CASE Put
  <2>1. UNCHANGED <<objects, index>> /\ consumer = "put"
    BY <1>4 DEF Put, At
  <2>2. \/ consumer' = "select"
        \/ /\ consumer' = "write" /\ UNCHANGED hand
           /\ RetainedAtPut => m.id \notin DOMAIN objects
    BY <1>4 DEF Put, Commit
  <2>. QED  BY <2>1, <2>2 DEF CarryInv, StoredInv, FlagInv, RedactedTells
<1>5. CASE Write
  <2>1. /\ consumer = "write" /\ consumer' = "insert" /\ UNCHANGED <<hand, index>>
        /\ DOMAIN objects' = DOMAIN objects \cup {m.id}
        /\ objects'[m.id] = [body |-> hand[1].body, by |-> hand[1].by, of |-> m]
        /\ \A i \in DOMAIN objects : i # m.id => objects'[i] = objects[i]
    BY <1>5 DEF Write, At
  <2>2. /\ RedactedUnder(hand[1].body, hand[1].by, m) /\ m.body # NoPayload
        /\ hand[1].redacted <=> hand[1].body # m.body
    BY <2>1 DEF CarryInv
  <2>. HIDE DEF m
  <2>3. objects'[m.id].body = hand[1].body /\ objects'[m.id].by = hand[1].by /\ objects'[m.id].of = m
    BY <2>1
  <2>4. StoredInv'
    BY <2>1, <2>2, <2>3 DEF StoredInv
  <2>5. RetainedAtPut => FlagInv'
    BY <2>1, <2>2 DEF FlagInv, RedactedTells, m
  <2>6. CarryInv'
    BY <2>1, <2>2, <2>3 DEF CarryInv, m
  <2>. QED  BY <2>4, <2>5, <2>6
<1>6. CASE InsertRow
  <2>1. /\ consumer = "insert" /\ consumer' = "select" /\ UNCHANGED objects
        /\ DOMAIN index' = DOMAIN index \cup {m.id}
        /\ \A i \in DOMAIN index : index'[i] = index[i]
        /\ m.id \notin DOMAIN index =>
              index'[m.id] = [redacted |-> hand[1].redacted, payloadRef |-> m.body # NoPayload]
    BY <1>6 DEF InsertRow, Commit, At
  <2>2. /\ hand[1].redacted <=> hand[1].body # m.body
        /\ m.body # NoPayload => /\ m.id \in DOMAIN objects
                                 /\ objects[m.id].body = hand[1].body /\ objects[m.id].of = m
    BY <2>1 DEF CarryInv
  <2>. HIDE DEF m
  <2>3. ASSUME RetainedAtPut, NEW i \in DOMAIN index', index'[i].payloadRef
        PROVE  /\ i \in DOMAIN objects
               /\ index'[i].redacted <=> objects[i].body # objects[i].of.body
    <3>1. CASE i \in DOMAIN index
      BY <2>1, <2>3, <3>1 DEF FlagInv, RedactedTells
    <3>2. CASE i \notin DOMAIN index
      <4>1. i = m.id /\ index'[i] = [redacted |-> hand[1].redacted, payloadRef |-> m.body # NoPayload]
        BY <2>1, <3>2
      <4>2. index'[i].payloadRef = (m.body # NoPayload) /\ index'[i].redacted = hand[1].redacted
        BY ONLY <4>1
      <4>. QED  BY <2>2, <2>3, <4>1, <4>2
    <3>. QED  BY <3>1, <3>2
  <2>4. RetainedAtPut => FlagInv'
    BY <2>1, <2>3 DEF FlagInv, RedactedTells
  <2>. QED  BY <2>1, <2>4 DEF CarryInv, StoredInv
<1>. QED  BY <1>2, <1>3, <1>4, <1>5, <1>6 DEF ConsumerStep

(* Every step keeps the invariant. *)
LEMMA RedactNext == AccountInv /\ RedactInv /\ [Next]_vars => RedactInv'
<1>. SUFFICES ASSUME AccountInv, RedactInv, [Next]_vars PROVE RedactInv'
  OBVIOUS
<1>1. PolicyInv'
  BY PolicyNext DEF RedactInv
<1>2. CASE ConsumerStep
  BY <1>1, <1>2, CarryNext DEF RedactInv
<1>3. CASE UNCHANGED workVars
  BY <1>1, <1>3, CarryStays DEF RedactInv
<1>4. ASSUME NEW c \in Callers,
             EnqueueSend(c) \/ EnqueuePanics(c) \/ \E m \in Messages : EnqueueCheck(c, m)
      PROVE  UNCHANGED workVars
  BY <1>4 DEF EnqueueSend, EnqueuePanics, EnqueueCheck
<1>5. ASSUME NEW doc \in Documents, EditPolicy(doc) PROVE UNCHANGED workVars
  BY <1>5 DEF EditPolicy
<1>6. Start \/ ReloadRead \/ ReloadSwap \/ ReadDuringWrite \/ Stop => UNCHANGED workVars
  BY DEF Start, ReloadRead, ReloadSwap, ReadDuringWrite, Stop
<1>7. ShutdownCancel \/ Shutdown => UNCHANGED workVars
  BY DEF ShutdownCancel, Shutdown, AnchorLoopEnds, ShutdownReturns
<1>8. UNCHANGED vars => UNCHANGED workVars
  BY DEF vars
<1>. QED  BY <1>2, <1>3, <1>4, <1>5, <1>6, <1>7, <1>8 DEF Next

(* Both invariants hold in every reachable state. *)
LEMMA RedactInvariance == ProcessSpec => [](AccountInv /\ RedactInv)
<1>1. Init => AccountInv
  BY DEF Init, AccountInv, TypeInv, OrderInv, Busy, HandInv, DoneInv, ObjectInv, Handling, NoHand
<1>2. Init => RedactInv
  <2>. SUFFICES ASSUME Init PROVE RedactInv
    OBVIOUS
  <2>1. FromDocument(file) /\ FromDocument(Absent)
    BY DEF Init, FromDocument, Absent, Unreadable, Complete, Written
  <2>2. policy = Load(Absent) /\ reload.policy = Load(Absent)
    BY DEF Init, NoReload
  <2>3. PolicyInv
    BY <2>1, <2>2, LoadsOne DEF PolicyInv
  <2>4. CarryInv /\ StoredInv /\ FlagInv
    BY DEF Init, CarryInv, StoredInv, FlagInv, RedactedTells
  <2>. QED  BY <2>3, <2>4 DEF RedactInv
<1>. QED  BY <1>1, <1>2, AccountNext, RedactNext, PTL DEF ProcessSpec

(* Where objects are protected once they are put, a row with a payload     *)
(* says redacted exactly when the payload in the bucket is not the one     *)
(* that was sent, whichever deliveries of one id and reloads of the policy *)
(* fall together.                                                          *)
THEOREM RedactedTellsHolds ==
    ASSUME RetainedAtPut
    PROVE  ProcessSpec => []RedactedTells
<1>1. RedactInv => RedactedTells
  BY DEF RedactInv, FlagInv
<1>. QED  BY <1>1, RedactInvariance, PTL

(* If the parser makes of each document, by itself, what the document says *)
(* (TLC evaluates that for the documents of the runs), then what is stored *)
(* while the file is edited and reloaded is what one document asked for,   *)
(* never a mixture.                                                        *)
THEOREM StoredAsDocumentedHolds ==
    ASSUME ParsedAsDocumented
    PROVE  ProcessSpec => []StoredAsDocumented
<1>1. ASSUME RedactInv PROVE StoredAsDocumented
  <2>. SUFFICES ASSUME NEW i \in DOMAIN objects,
                       objects[i].by = Complete(objects[i].by.doc), Understood(objects[i].by.doc)
                PROVE  objects[i].body = Documented(objects[i].by.doc, objects[i].of)
    BY DEF StoredAsDocumented
  <2>. DEFINE f == objects[i].by
              m == objects[i].of
  <2>1. RedactedUnder(objects[i].body, f, m) /\ m.body # NoPayload
    BY <1>1 DEF RedactInv, StoredInv
  <2>2. f.doc \in Documents
    <3>1. f.state = "written"
      BY DEF Complete, Written
    <3>. QED  BY <2>1, <3>1 DEF RedactedUnder, FromDocument
  <2>3. Outcome(f, m) = Apply(Load(Complete(f.doc)).rules, m.service, m.action, m.body)
    BY DEF Outcome
  <2>. HIDE DEF f, m
  <2>. QED  BY <2>1, <2>2, <2>3 DEF ParsedAsDocumented, RedactedUnder, f, m
<1>. QED  BY <1>1, RedactInvariance, PTL
=============================================================================
