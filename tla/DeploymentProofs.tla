-------------------------- MODULE DeploymentProofs --------------------------
(***************************************************************************)
(* Theorems about Deployment for every number of instances, commands,      *)
(* versions, events, faults, deaths and runs.                              *)
(***************************************************************************)
EXTENDS Deployment, TLAPS

Places == {"off", "create", "query", "apply", "record", "revert", "erase", "serving"}

RunStates == [pc : Places, up : BOOLEAN, at : Nat]

TypeInv ==
    /\ run \in [Processes -> RunStates]
    /\ stores \in [Instances -> {"postgres", "memory"}]
    /\ memory \in [Instances -> SUBSET consumed]
    /\ tables \subseteq 1..Versions
    /\ faults \in Nat

(* Where a process may stand in Up, and where in Down. *)
PlaceInv ==
    \A p \in Processes :
        /\ run[p].pc \in {"create", "apply", "record"} => run[p].up
        /\ run[p].pc \in {"revert", "erase"} => ~run[p].up
        /\ run[p].pc \notin {"off", "serving"} => run[p].at \in 1..Versions
        /\ run[p].pc = "create" => run[p].at = 1
        /\ run[p].pc = "serving" => p \in Instances

Served ==
    \A i \in Instances : Serving(i) /\ stores[i] = "postgres" => tables = 1..Versions

(* Without a Down, tables only come, and a process in Up has seen the      *)
(* tables of the versions it has passed.                                   *)
Passed ==
    \A p \in Processes :
        /\ Migrating(p) => run[p].up /\ 1..(run[p].at - 1) \subseteq tables
        /\ run[p].pc = "record" => run[p].at \in tables

UpInv == ~reverted => recorded \subseteq tables /\ Passed /\ Served

(* While Ups and Downs keep apart, a version that none has left between    *)
(* its statements is in one of record and tables only while a process is   *)
(* between its two statements.                                             *)
SameDirection ==
    \A p, q \in Processes : Migrating(p) /\ Migrating(q) => run[p].up = run[q].up

RecordedBehind ==
    \A v \in (recorded \ tables) \ torn : \E p \in Processes : run[p].pc = "erase" /\ run[p].at = v

TablesAhead ==
    \A v \in (tables \ recorded) \ torn : \E p \in Processes : run[p].pc = "record" /\ run[p].at = v

HalfDone ==
    \A p \in Processes :
        /\ run[p].pc = "record" => run[p].at \in tables
        /\ run[p].pc = "erase" => run[p].at \notin tables

RecordInv == ~mixed => SameDirection /\ RecordedBehind /\ TablesAhead /\ HalfDone

(* Nothing makes an instance give up Postgres, so the one log is there.    *)
LogInv ==
    faults = 0 /\ ~collided /\ ~reverted =>
        /\ \A p \in Processes : run[p].pc \in {"query", "apply", "record"} => schema
        /\ \A i \in Instances : Serving(i) => stores[i] = "postgres"
        /\ rows = consumed

DeploymentInv == TypeInv /\ PlaceInv /\ UpInv /\ RecordInv /\ LogInv

-----------------------------------------------------------------------------
(* The initial state. *)
LEMMA InitInv == Init => DeploymentInv
<1> SUFFICES ASSUME Init PROVE DeploymentInv
  OBVIOUS
<1> USE DeploymentAssumption DEF Init, Processes, Off, Migrating, Serving
<1>1. TypeInv
  BY DEF TypeInv, RunStates, Places
<1>2. PlaceInv
  BY DEF PlaceInv
<1>3. UpInv
  BY DEF UpInv, Passed, Served
<1>4. RecordInv
  BY DEF RecordInv, SameDirection, RecordedBehind, TablesAhead, HalfDone
<1>5. LogInv
  BY DEF LogInv
<1> QED
  BY <1>1, <1>2, <1>3, <1>4, <1>5 DEF DeploymentInv

(* The state of a process whose Up or Down has ended. *)
LEMMA AfterState ==
  ASSUME NEW p \in Processes
  PROVE /\ After(p) \in RunStates
        /\ After(p).pc \in {"off", "serving"}
        /\ After(p).pc = "serving" => p \in Instances
BY DEF After, Off, RunStates, Places

(* Up and Down end behind the last version or go on with the next one. *)
LEMMA NextVersionCases ==
  ASSUME TypeInv, PlaceInv, NEW p \in Processes, Migrating(p), NextVersion(p)
  PROVE \/ /\ run' = [run EXCEPT ![p] = After(p)]
           /\ stores' = Wired(p, "postgres")
           /\ run[p].up => run[p].at = Versions
        \/ /\ \E s \in RunStates :
                 /\ run' = [run EXCEPT ![p] = s]
                 /\ s.pc = "query" /\ s.up = run[p].up
                 /\ s.at \in 1..Versions
                 /\ s.up => s.at = run[p].at + 1
           /\ stores' = stores
<1> USE DeploymentAssumption DEF NextVersion, TypeInv, PlaceInv, Migrating
<1>1. CASE run[p].at = (IF run[p].up THEN Versions ELSE 1)
  BY <1>1 DEF Return
<1>2. CASE run[p].at # (IF run[p].up THEN Versions ELSE 1)
  <2> DEFINE s == [run[p] EXCEPT !.pc = "query", !.at = IF run[p].up THEN @ + 1 ELSE @ - 1]
  <2>1. run[p].at \in 1..Versions /\ run[p] \in RunStates
    OBVIOUS
  <2>2. s.at \in 1..Versions /\ (s.up => s.at = run[p].at + 1) /\ s.pc = "query" /\ s.up = run[p].up
    BY <1>2, <2>1
  <2>3. s \in RunStates
    BY <2>1, <2>2 DEF RunStates
  <2>4. run' = [run EXCEPT ![p] = s] /\ stores' = stores
    BY <1>2, <2>1 DEF RunStates
  <2> QED
    BY <2>2, <2>3, <2>4
<1> QED
  BY <1>1, <1>2

(* A process begins Up or Down. *)
LEMMA BeginInv ==
  ASSUME DeploymentInv, NEW p \in Processes, NEW up \in BOOLEAN, Begin(p, up),
         p \in Instances => up
  PROVE DeploymentInv'
<1> USE DeploymentAssumption
    DEF Begin, databaseVars, eventVars, Migrating, Serving, Processes
<1>1. TypeInv'
  <2>1. [pc |-> IF up THEN "create" ELSE "query", up |-> up, at |-> IF up THEN 1 ELSE Versions]
          \in RunStates
    BY DEF RunStates, Places
  <2>2. run' \in [Processes -> RunStates]
    BY <2>1 DEF DeploymentInv, TypeInv
  <2> QED
    BY <2>2 DEF DeploymentInv, TypeInv
<1>2. PlaceInv'
  BY DEF DeploymentInv, TypeInv, PlaceInv
<1>3. UpInv'
  <2> SUFFICES ASSUME ~reverted' PROVE (recorded \subseteq tables /\ Passed /\ Served)'
    BY DEF UpInv
  <2>1. (recorded \subseteq tables)'
    BY DEF DeploymentInv, TypeInv, UpInv
  <2>2. Passed'
    <3>1. \A q \in Processes \ {p} : run'[q] = run[q]
      BY DEF DeploymentInv, TypeInv
    <3>2. run'[p] = [pc |-> "create", up |-> TRUE, at |-> 1]
      BY DEF DeploymentInv, TypeInv
    <3>3. Passed /\ tables' = tables
      BY DEF DeploymentInv, UpInv
    <3> QED
      BY <3>1, <3>2, <3>3 DEF Passed
  <2>3. Served'
    BY DEF DeploymentInv, TypeInv, UpInv, Passed, Served
  <2> QED
    BY <2>1, <2>2, <2>3
<1>4. RecordInv'
  <2> SUFFICES ASSUME ~mixed' PROVE (SameDirection /\ RecordedBehind /\ TablesAhead /\ HalfDone)'
    BY DEF RecordInv
  <2>1. SameDirection'
    BY DEF DeploymentInv, TypeInv, RecordInv, SameDirection
  <2>2. RecordedBehind'
    BY DEF DeploymentInv, TypeInv, RecordInv, SameDirection, RecordedBehind
  <2>3. TablesAhead'
    BY DEF DeploymentInv, TypeInv, RecordInv, RecordedBehind, TablesAhead
  <2>4. HalfDone'
    BY DEF DeploymentInv, TypeInv, RecordInv, TablesAhead, HalfDone
  <2> QED
    BY <2>1, <2>2, <2>3, <2>4
<1>5. LogInv'
  BY DEF DeploymentInv, TypeInv, LogInv
<1> QED
  BY <1>1, <1>2, <1>3, <1>4, <1>5 DEF DeploymentInv

(* A process creates schema_migrations. *)
LEMMA CreateInv ==
  ASSUME DeploymentInv, NEW p \in Processes, Create(p)
  PROVE DeploymentInv'
<1> USE DeploymentAssumption
    DEF Create, Goto, eventVars, boundVars, historyVars, Migrating, Serving, Processes
<1>1. TypeInv'
  <2>1. run' \in [Processes -> RunStates]
    BY DEF DeploymentInv, TypeInv, RunStates, Places
  <2> QED
    BY <2>1 DEF DeploymentInv, TypeInv
<1>2. PlaceInv'
  BY DEF DeploymentInv, TypeInv, PlaceInv
<1>3. UpInv'
  <2> SUFFICES ASSUME ~reverted' PROVE (recorded \subseteq tables /\ Passed /\ Served)'
    BY DEF UpInv
  <2>1. (recorded \subseteq tables)'
    BY DEF DeploymentInv, TypeInv, UpInv
  <2>2. Passed'
    BY DEF DeploymentInv, TypeInv, UpInv, Passed
  <2>3. Served'
    BY DEF DeploymentInv, TypeInv, UpInv, Passed, Served
  <2> QED
    BY <2>1, <2>2, <2>3
<1>4. RecordInv'
  <2> SUFFICES ASSUME ~mixed' PROVE (SameDirection /\ RecordedBehind /\ TablesAhead /\ HalfDone)'
    BY DEF RecordInv
  <2>1. SameDirection'
    BY DEF DeploymentInv, TypeInv, RecordInv, SameDirection
  <2>2. RecordedBehind'
    BY DEF DeploymentInv, TypeInv, RecordInv, SameDirection, RecordedBehind
  <2>3. TablesAhead'
    BY DEF DeploymentInv, TypeInv, RecordInv, RecordedBehind, TablesAhead
  <2>4. HalfDone'
    BY DEF DeploymentInv, TypeInv, RecordInv, TablesAhead, HalfDone
  <2> QED
    BY <2>1, <2>2, <2>3, <2>4
<1>5. LogInv'
  BY DEF DeploymentInv, TypeInv, LogInv
<1> QED
  BY <1>1, <1>2, <1>3, <1>4, <1>5 DEF DeploymentInv

(* A process dies. *)
LEMMA CrashInv ==
  ASSUME DeploymentInv, NEW p \in Processes, Crash(p)
  PROVE DeploymentInv'
<1> USE DeploymentAssumption
    DEF Crash, Tear, Off, databaseVars, AtStatement, AtFirst, Between, Statements, Migrating, Serving,
        Processes
<1>1. TypeInv'
  <2>1. run' \in [Processes -> RunStates]
    BY DEF DeploymentInv, TypeInv, RunStates, Places
  <2> QED
    BY <2>1 DEF DeploymentInv, TypeInv
<1>2. PlaceInv'
  BY DEF DeploymentInv, TypeInv, PlaceInv
<1>3. UpInv'
  <2> SUFFICES ASSUME ~reverted' PROVE (recorded \subseteq tables /\ Passed /\ Served)'
    BY DEF UpInv
  <2>1. (recorded \subseteq tables)'
    BY DEF DeploymentInv, TypeInv, UpInv
  <2>2. Passed'
    BY DEF DeploymentInv, TypeInv, UpInv, Passed
  <2>3. Served'
    BY DEF DeploymentInv, TypeInv, UpInv, Passed, Served
  <2> QED
    BY <2>1, <2>2, <2>3
<1>4. RecordInv'
  <2> SUFFICES ASSUME ~mixed' PROVE (SameDirection /\ RecordedBehind /\ TablesAhead /\ HalfDone)'
    BY DEF RecordInv
  <2>1. SameDirection'
    BY DEF DeploymentInv, TypeInv, RecordInv, SameDirection
  <2>2. RecordedBehind'
    BY DEF DeploymentInv, TypeInv, RecordInv, SameDirection, RecordedBehind
  <2>3. TablesAhead'
    BY DEF DeploymentInv, TypeInv, RecordInv, RecordedBehind, TablesAhead
  <2>4. HalfDone'
    BY DEF DeploymentInv, TypeInv, RecordInv, TablesAhead, HalfDone
  <2> QED
    BY <2>1, <2>2, <2>3, <2>4
<1>5. LogInv'
  BY DEF DeploymentInv, TypeInv, LogInv
<1> QED
  BY <1>1, <1>2, <1>3, <1>4, <1>5 DEF DeploymentInv

(* A call fails. *)
LEMMA CallFailsInv ==
  ASSUME DeploymentInv, NEW p \in Processes, CallFails(p)
  PROVE DeploymentInv'
<1> USE DeploymentAssumption
    DEF CallFails, Tear, Fault, AfterError, GiveUp, After, Wired, Off, databaseVars, eventVars,
        AtStatement,
        AtFirst, Between, Statements, Migrating, Serving, Processes
<1>1. TypeInv'
  <2>1. run' \in [Processes -> RunStates]
    BY DEF DeploymentInv, TypeInv, RunStates, Places
  <2> QED
    BY <2>1 DEF DeploymentInv, TypeInv
<1>2. PlaceInv'
  BY DEF DeploymentInv, TypeInv, PlaceInv
<1>3. UpInv'
  <2> SUFFICES ASSUME ~reverted' PROVE (recorded \subseteq tables /\ Passed /\ Served)'
    BY DEF UpInv
  <2>1. (recorded \subseteq tables)'
    BY DEF DeploymentInv, TypeInv, UpInv
  <2>2. Passed'
    BY DEF DeploymentInv, TypeInv, UpInv, Passed
  <2>3. Served'
    BY DEF DeploymentInv, TypeInv, UpInv, Passed, Served
  <2> QED
    BY <2>1, <2>2, <2>3
<1>4. RecordInv'
  <2> SUFFICES ASSUME ~mixed' PROVE (SameDirection /\ RecordedBehind /\ TablesAhead /\ HalfDone)'
    BY DEF RecordInv
  <2>1. SameDirection'
    BY DEF DeploymentInv, TypeInv, RecordInv, SameDirection
  <2>2. RecordedBehind'
    BY DEF DeploymentInv, TypeInv, RecordInv, SameDirection, RecordedBehind
  <2>3. TablesAhead'
    BY DEF DeploymentInv, TypeInv, RecordInv, RecordedBehind, TablesAhead, RunStates, Places
  <2>4. HalfDone'
    BY DEF DeploymentInv, TypeInv, RecordInv, TablesAhead, HalfDone, RunStates, Places
  <2> QED
    BY <2>1, <2>2, <2>3, <2>4
<1>5. LogInv'
  BY DEF DeploymentInv, TypeInv, LogInv
<1> QED
  BY <1>1, <1>2, <1>3, <1>4, <1>5 DEF DeploymentInv

(* A reply is lost. *)
LEMMA ReplyLostInv ==
  ASSUME DeploymentInv, NEW p \in Processes, ReplyLost(p)
  PROVE DeploymentInv'
<1> USE DeploymentAssumption
    DEF ReplyLost, Tear, Mend, Between, Fault, AfterError, GiveUp, After, Wired, Off, eventVars, Effect, Recording,
        AtStatement, AtFirst, Statements, Migrating, Serving, Processes
<1>1. TypeInv'
  <2>1. run' \in [Processes -> RunStates]
    BY DEF DeploymentInv, TypeInv, RunStates, Places
  <2>2. tables' \subseteq 1..Versions
    BY DEF DeploymentInv, TypeInv, PlaceInv
  <2>3. stores' \in [Instances -> {"postgres", "memory"}]
    BY DEF DeploymentInv, TypeInv
  <2> QED
    BY <2>1, <2>2, <2>3 DEF DeploymentInv, TypeInv
<1>2. PlaceInv'
  BY DEF DeploymentInv, TypeInv, PlaceInv
<1>3. UpInv'
  <2> SUFFICES ASSUME ~reverted' PROVE (recorded \subseteq tables /\ Passed /\ Served)'
    BY DEF UpInv
  <2>1. (recorded \subseteq tables)'
    BY DEF DeploymentInv, TypeInv, PlaceInv, UpInv, Passed
  <2>2. Passed'
    BY DEF DeploymentInv, TypeInv, PlaceInv, UpInv, Passed
  <2>3. Served'
    BY DEF DeploymentInv, TypeInv, PlaceInv, UpInv, Passed, Served
  <2> QED
    BY <2>1, <2>2, <2>3
<1>f. /\ run[p].pc \in {"create", "apply", "record", "revert", "erase"}
      /\ torn' = CASE run[p].pc \in {"apply", "revert"} -> torn \cup {run[p].at}
                   [] run[p].pc \in {"record", "erase"} -> torn \ {run[p].at}
                   [] OTHER -> torn
      /\ tables' = CASE run[p].pc = "apply" -> tables \cup {run[p].at}
                     [] run[p].pc = "revert" -> tables \ {run[p].at}
                     [] OTHER -> tables
      /\ recorded' = CASE run[p].pc = "record" -> recorded \cup {run[p].at}
                       [] run[p].pc = "erase" -> recorded \ {run[p].at}
                       [] OTHER -> recorded
      /\ mixed' = mixed
  BY DEF DeploymentInv, PlaceInv
<1>4. RecordInv'
  <2> SUFFICES ASSUME ~mixed' PROVE (SameDirection /\ RecordedBehind /\ TablesAhead /\ HalfDone)'
    BY DEF RecordInv
  <2>1. SameDirection'
    BY DEF DeploymentInv, TypeInv, RecordInv, SameDirection
  <2>2. RecordedBehind'
    <3> SUFFICES ASSUME NEW v \in (recorded' \ tables') \ torn'
                 PROVE \E q \in Processes : run'[q].pc = "erase" /\ run'[q].at = v
      BY DEF RecordedBehind
    <3>1. v \in (recorded \ tables) \ torn /\ ~(run[p].pc = "erase" /\ run[p].at = v)
      BY <1>f DEF DeploymentInv, RecordInv, HalfDone
    <3>2. PICK q \in Processes : run[q].pc = "erase" /\ run[q].at = v
      BY <3>1 DEF DeploymentInv, RecordInv, RecordedBehind
    <3>3. q # p
      BY <3>1, <3>2
    <3>4. run'[q] = run[q]
      BY <3>3 DEF DeploymentInv, TypeInv
    <3> QED
      BY <3>2, <3>4
  <2>3. TablesAhead'
    <3> SUFFICES ASSUME NEW v \in (tables' \ recorded') \ torn'
                 PROVE \E q \in Processes : run'[q].pc = "record" /\ run'[q].at = v
      BY DEF TablesAhead
    <3>1. v \in (tables \ recorded) \ torn /\ ~(run[p].pc = "record" /\ run[p].at = v)
      BY <1>f DEF DeploymentInv, RecordInv, HalfDone
    <3>2. PICK q \in Processes : run[q].pc = "record" /\ run[q].at = v
      BY <3>1 DEF DeploymentInv, RecordInv, TablesAhead
    <3>3. q # p
      BY <3>1, <3>2
    <3>4. run'[q] = run[q]
      BY <3>3 DEF DeploymentInv, TypeInv
    <3> QED
      BY <3>2, <3>4
  <2>4. HalfDone'
    <3>1. /\ SameDirection /\ HalfDone /\ PlaceInv /\ Migrating(p)
          /\ \A q \in Processes : run'[q].pc \in {"record", "erase"} => q # p /\ run'[q] = run[q]
      BY <1>f DEF DeploymentInv, TypeInv, RecordInv
    <3>2. ASSUME NEW q \in Processes, run'[q].pc = "record" PROVE run'[q].at \in tables'
      <4>1. run'[q] = run[q] /\ run[q].pc = "record" /\ run[q].up /\ run[p].up
        BY <3>1, <3>2 DEF SameDirection, PlaceInv
      <4> QED
        BY <1>f, <3>1, <4>1 DEF HalfDone, PlaceInv
    <3>3. ASSUME NEW q \in Processes, run'[q].pc = "erase" PROVE run'[q].at \notin tables'
      <4>1. run'[q] = run[q] /\ run[q].pc = "erase" /\ ~run[q].up /\ ~run[p].up
        BY <3>1, <3>3 DEF SameDirection, PlaceInv
      <4> QED
        BY <1>f, <3>1, <4>1 DEF HalfDone, PlaceInv
    <3> QED
      BY <3>2, <3>3 DEF HalfDone
  <2> QED
    BY <2>1, <2>2, <2>3, <2>4
<1>5. LogInv'
  BY DEF DeploymentInv, TypeInv, LogInv
<1> QED
  BY <1>1, <1>2, <1>3, <1>4, <1>5 DEF DeploymentInv

(* Two processes create one table. *)
LEMMA CollideInv ==
  ASSUME DeploymentInv, NEW p \in Processes, NEW q \in Processes, p # q, Collide(p, q)
  PROVE DeploymentInv'
<1> USE DeploymentAssumption
    DEF Collide, After, Wired, Off, eventVars, boundVars, Migrating, Serving, Processes
<1>1. TypeInv'
  <2>1. run' \in [Processes -> RunStates]
    <3>1. After(q) \in RunStates
      BY AfterState DEF Processes
    <3>2. [run[p] EXCEPT !.pc = IF @ = "create" THEN "query" ELSE "record"] \in RunStates
      BY DEF DeploymentInv, TypeInv, RunStates, Places
    <3>3. run' = [run EXCEPT ![p] = [run[p] EXCEPT !.pc = IF @ = "create" THEN "query" ELSE "record"],
                            ![q] = After(q)]
      BY DEF DeploymentInv, TypeInv, RunStates
    <3> QED
      BY <3>1, <3>2, <3>3 DEF DeploymentInv, TypeInv
  <2>2. tables' \subseteq 1..Versions
    BY DEF DeploymentInv, TypeInv, PlaceInv
  <2>3. stores' \in [Instances -> {"postgres", "memory"}]
    BY DEF DeploymentInv, TypeInv
  <2> QED
    BY <2>1, <2>2, <2>3 DEF DeploymentInv, TypeInv
<1>2. PlaceInv'
  BY DEF DeploymentInv, TypeInv, PlaceInv, RunStates
<1>3. UpInv'
  <2> SUFFICES ASSUME ~reverted' PROVE (recorded \subseteq tables /\ Passed /\ Served)'
    BY DEF UpInv
  <2>1. (recorded \subseteq tables)'
    BY DEF DeploymentInv, TypeInv, UpInv
  <2>2. Passed'
    <3>1. Passed /\ tables \subseteq tables' /\ After(q).pc \in {"off", "serving"}
      BY AfterState DEF DeploymentInv, UpInv
    <3>2. /\ \A r \in Processes \ {p, q} : run'[r] = run[r]
          /\ run'[q] = After(q)
          /\ run'[p].up = run[p].up /\ run'[p].at = run[p].at
          /\ run[p].pc = "create" => run'[p].pc = "query"
          /\ run[p].pc = "apply" => run'[p].pc = "record" /\ run[p].at \in tables'
          /\ run[p].pc \in {"create", "apply"}
      BY DEF DeploymentInv, TypeInv, RunStates
    <3> HIDE DEF Collide, After
    <3>3. ASSUME NEW r \in Processes
          PROVE /\ Migrating(r)' => run'[r].up /\ 1..(run'[r].at - 1) \subseteq tables'
                /\ run'[r].pc = "record" => run'[r].at \in tables'
      <4>1. CASE r = p
        BY ONLY <3>1, <3>2, <4>1, r \in Processes DEF Passed, Migrating
      <4>2. CASE r = q
        BY ONLY <3>1, <3>2, <4>2 DEF Migrating
      <4>3. CASE r \notin {p, q}
        BY ONLY <3>1, <3>2, <4>3, r \in Processes DEF Passed, Migrating
      <4> QED
        BY <4>1, <4>2, <4>3
    <3> QED
      BY <3>3 DEF Passed
  <2>3. Served'
    BY DEF DeploymentInv, TypeInv, PlaceInv, UpInv, Passed, Served, RunStates
  <2> QED
    BY <2>1, <2>2, <2>3
<1>4. RecordInv'
  <2> SUFFICES ASSUME ~mixed' PROVE (SameDirection /\ RecordedBehind /\ TablesAhead /\ HalfDone)'
    BY DEF RecordInv
  <2>1. SameDirection'
    <3>1. ASSUME NEW r \in Processes, Migrating(r)'
          PROVE Migrating(r) /\ run'[r].up = run[r].up
      <4>1. r # q
        BY <3>1 DEF DeploymentInv, TypeInv
      <4>2. CASE r = p
        BY <4>1, <4>2 DEF DeploymentInv, TypeInv, RunStates
      <4>3. CASE r # p
        BY <3>1, <4>1, <4>3 DEF DeploymentInv, TypeInv
      <4> QED
        BY <4>2, <4>3
    <3>2. SameDirection
      BY DEF DeploymentInv, RecordInv
    <3> SUFFICES ASSUME NEW r \in Processes, NEW s \in Processes, Migrating(r)', Migrating(s)'
                 PROVE run'[r].up = run'[s].up
      BY DEF SameDirection
    <3>3. Migrating(r) /\ run'[r].up = run[r].up
      BY <3>1
    <3>4. Migrating(s) /\ run'[s].up = run[s].up
      BY <3>1
    <3> QED
      BY <3>2, <3>3, <3>4 DEF SameDirection
  <2>2. RecordedBehind'
    BY DEF DeploymentInv, TypeInv, RecordInv, SameDirection, RecordedBehind
  <2>3. TablesAhead'
    BY DEF DeploymentInv, TypeInv, PlaceInv, RecordInv, RecordedBehind, TablesAhead, RunStates
  <2>4. HalfDone'
    BY DEF DeploymentInv, TypeInv, PlaceInv, RecordInv, SameDirection, RecordedBehind,
           TablesAhead, HalfDone, RunStates, Places
  <2> QED
    BY <2>1, <2>2, <2>3, <2>4
<1>5. LogInv'
  BY DEF DeploymentInv, TypeInv, LogInv
<1> QED
  BY <1>1, <1>2, <1>3, <1>4, <1>5 DEF DeploymentInv

(* When one process moves, the others stay where they are. *)
LEMMA OneMoves ==
  ASSUME TypeInv, NEW p \in Processes, NEW s \in RunStates, run' = [run EXCEPT ![p] = s]
  PROVE /\ run'[p] = s
        /\ \A q \in Processes \ {p} : run'[q] = run[q]
        /\ run' \in [Processes -> RunStates]
BY DEF TypeInv

(* Where Query leads: out of the migration, to the next version or to the  *)
(* first statement of this one.                                            *)
LEMMA QueryMoves ==
  ASSUME TypeInv, PlaceInv, NEW p \in Processes, Query(p)
  PROVE \E s \in RunStates :
          /\ run' = [run EXCEPT ![p] = s]
          /\ s.pc \in {"off", "serving", "query", "apply", "revert"}
          /\ s.pc = "serving" => p \in Instances
          /\ s.pc \notin {"off", "serving"} =>
                /\ schema /\ s.up = run[p].up /\ s.at \in 1..Versions
                /\ s.pc = "apply" => s.up
                /\ s.pc = "revert" => ~s.up
                /\ s.up => \/ s.at = run[p].at
                           \/ s.at = run[p].at + 1 /\ run[p].at \in recorded
                /\ stores' = stores
          /\ s.pc \in {"off", "serving"} =>
                \/ ~schema /\ stores' = Wired(p, "memory")
                \/ /\ schema /\ stores' = Wired(p, "postgres")
                   /\ run[p].up => run[p].at = Versions /\ run[p].at \in recorded
<1>1. After(p) \in RunStates /\ After(p).pc \in {"off", "serving"} /\ (After(p).pc = "serving" => p \in Instances)
  BY AfterState
<1>2. run[p] \in RunStates /\ run[p].pc = "query" /\ run[p].at \in 1..Versions
  BY DEF TypeInv, PlaceInv, Query
<1>3. Migrating(p)
  BY <1>2 DEF Migrating
<1>4. CASE ~schema
  BY <1>1, <1>4 DEF Query, GiveUp
<1>5. CASE schema /\ run[p].up = (run[p].at \in recorded)
  <2>1. NextVersion(p)
    BY <1>5 DEF Query
  <2>2. run[p].up => run[p].at \in recorded
    BY <1>5
  <2>3. CASE /\ run' = [run EXCEPT ![p] = After(p)] /\ stores' = Wired(p, "postgres")
             /\ run[p].up => run[p].at = Versions
    BY ONLY <1>1, <1>5, <2>2, <2>3
  <2>4. CASE stores' = stores /\ \E s \in RunStates :
               /\ run' = [run EXCEPT ![p] = s]
               /\ s.pc = "query" /\ s.up = run[p].up
               /\ s.at \in 1..Versions
               /\ s.up => s.at = run[p].at + 1
    BY ONLY <1>5, <2>2, <2>4
  <2> QED
    BY <1>3, <2>1, <2>3, <2>4, NextVersionCases
<1>6. CASE schema /\ run[p].up # (run[p].at \in recorded)
  <2> DEFINE s == [run[p] EXCEPT !.pc = IF run[p].up THEN "apply" ELSE "revert"]
  <2>1. run' = [run EXCEPT ![p] = s] /\ stores' = stores
    BY <1>2, <1>6 DEF Query, Goto, Statements, TypeInv, RunStates
  <2>2. s \in RunStates /\ s.up = run[p].up /\ s.at = run[p].at
    BY <1>2 DEF RunStates, Places
  <2>3. s.pc = IF run[p].up THEN "apply" ELSE "revert"
    BY <1>2 DEF RunStates
  <2> HIDE DEF s
  <2> QED
    BY <1>2, <1>6, <2>1, <2>2, <2>3
<1> QED
  BY <1>4, <1>5, <1>6

(* Where Execute leads: to the other statement, to the next version or     *)
(* out of the migration.                                                   *)
LEMMA ExecuteMoves ==
  ASSUME TypeInv, PlaceInv, NEW p \in Processes, Execute(p)
  PROVE \E s \in RunStates :
          /\ run' = [run EXCEPT ![p] = s]
          /\ s.pc \in {"off", "serving", "query", "record", "erase"}
          /\ s.pc = "serving" => p \in Instances
          /\ s.pc \in {"record", "erase"} =>
                /\ run[p].pc = (IF s.pc = "record" THEN "apply" ELSE "revert")
                /\ s.up = run[p].up /\ s.at = run[p].at
                /\ stores' = stores
          /\ s.pc = "query" =>
                /\ run[p].pc \in {"record", "erase"}
                /\ s.up = run[p].up /\ s.at \in 1..Versions
                /\ s.up => s.at = run[p].at + 1
                /\ stores' = stores
          /\ s.pc \in {"off", "serving"} =>
                /\ run[p].pc \in {"record", "erase"}
                /\ stores' = Wired(p, "postgres")
                /\ run[p].up => run[p].at = Versions
<1>1. run[p] \in RunStates /\ AtStatement(p) /\ Migrating(p)
  BY DEF TypeInv, Execute, AtStatement, Migrating
<1>2. run[p].pc \in {"apply", "record"} => run[p].up
  BY DEF PlaceInv
<1>3. run[p].pc \in {"revert", "erase"} => ~run[p].up
  BY DEF PlaceInv
<1>4. CASE run[p].pc \in {"apply", "revert"}
  <2> DEFINE s == [run[p] EXCEPT !.pc = IF run[p].up THEN "record" ELSE "erase"]
  <2>1. AtFirst(p)
    BY <1>1, <1>2, <1>3, <1>4 DEF AtFirst, Statements
  <2>2. run' = [run EXCEPT ![p] = s] /\ stores' = stores
    BY <1>1, <2>1 DEF Execute, Goto, Statements, TypeInv, RunStates
  <2>3. s \in RunStates /\ s.up = run[p].up /\ s.at = run[p].at
    BY <1>1 DEF RunStates, Places
  <2>4. s.pc = IF run[p].up THEN "record" ELSE "erase"
    BY <1>1 DEF RunStates
  <2> HIDE DEF s
  <2> QED
    BY <1>2, <1>3, <1>4, <2>2, <2>3, <2>4
<1>5. CASE run[p].pc \in {"record", "erase"}
  <2>1. ~AtFirst(p)
    BY <1>1, <1>2, <1>3, <1>5 DEF AtFirst, Statements
  <2>2. NextVersion(p)
    BY <2>1 DEF Execute
  <2>3. After(p) \in RunStates /\ After(p).pc \in {"off", "serving"} /\ (After(p).pc = "serving" => p \in Instances)
    BY AfterState
  <2>4. CASE /\ run' = [run EXCEPT ![p] = After(p)] /\ stores' = Wired(p, "postgres")
             /\ run[p].up => run[p].at = Versions
    BY ONLY <1>5, <2>3, <2>4
  <2>5. CASE stores' = stores /\ \E s \in RunStates :
               /\ run' = [run EXCEPT ![p] = s]
               /\ s.pc = "query" /\ s.up = run[p].up
               /\ s.at \in 1..Versions
               /\ s.up => s.at = run[p].at + 1
    BY ONLY <1>5, <2>5
  <2> QED
    BY <1>1, <2>2, <2>4, <2>5, NextVersionCases
<1> QED
  BY <1>1, <1>4, <1>5 DEF AtStatement

(* A version's tables are there when an Up has passed the last of them. *)
LEMMA LastPassed ==
  ASSUME TypeInv, NEW p \in Processes, 1..(run[p].at - 1) \subseteq tables,
         run[p].at \in tables, run[p].at = Versions
  PROVE tables = 1..Versions
<1>1. \A n \in 1..Versions : n = Versions \/ n \in 1..(Versions - 1)
  BY DeploymentAssumption
<1>2. tables \subseteq 1..Versions
  BY DEF TypeInv
<1> QED
  BY <1>1, <1>2

(* A process asks whether a version is recorded. *)
LEMMA QueryInv ==
  ASSUME DeploymentInv, NEW p \in Processes, Query(p)
  PROVE DeploymentInv'
<1>0. TypeInv /\ PlaceInv /\ run[p].pc = "query"
  BY DEF DeploymentInv, Query
<1>a. UNCHANGED <<schema, recorded, tables, rows, memory, consumed, faults, collided, reverted, torn, mixed>>
  BY DEF Query, databaseVars, eventVars, boundVars, historyVars
<1>b. PICK s \in RunStates :
          /\ run' = [run EXCEPT ![p] = s]
          /\ s.pc \in {"off", "serving", "query", "apply", "revert"}
          /\ s.pc = "serving" => p \in Instances
          /\ s.pc \notin {"off", "serving"} =>
                /\ schema /\ s.up = run[p].up /\ s.at \in 1..Versions
                /\ s.pc = "apply" => s.up
                /\ s.pc = "revert" => ~s.up
                /\ s.up => \/ s.at = run[p].at
                           \/ s.at = run[p].at + 1 /\ run[p].at \in recorded
                /\ stores' = stores
          /\ s.pc \in {"off", "serving"} =>
                \/ ~schema /\ stores' = Wired(p, "memory")
                \/ /\ schema /\ stores' = Wired(p, "postgres")
                   /\ run[p].up => run[p].at = Versions /\ run[p].at \in recorded
  BY <1>0, QueryMoves
<1>c. /\ run'[p] = s
      /\ \A q \in Processes \ {p} : run'[q] = run[q]
      /\ run' \in [Processes -> RunStates]
  BY <1>0, <1>b, OneMoves
<1>d. \A q \in Processes : Migrating(q)' => Migrating(q) /\ run'[q].up = run[q].up
  BY <1>0, <1>b, <1>c DEF Migrating
<1>1. TypeInv'
  <2>1. stores' \in [Instances -> {"postgres", "memory"}]
    BY <1>0, <1>b DEF TypeInv, Wired
  <2> QED
    BY <1>0, <1>a, <1>c, <2>1 DEF TypeInv
<1>2. PlaceInv'
  BY <1>0, <1>b, <1>c DEF PlaceInv
<1>3. UpInv'
  <2> SUFFICES ASSUME ~reverted' PROVE (recorded \subseteq tables /\ Passed /\ Served)'
    BY DEF UpInv
  <2>1. recorded \subseteq tables /\ Passed /\ Served
    BY <1>a DEF DeploymentInv, UpInv
  <2>2. Passed'
    <3>1. ASSUME NEW q \in Processes, q # p
          PROVE (Migrating(q) => run[q].up /\ 1..(run[q].at - 1) \subseteq tables)'
      BY <1>a, <1>c, <2>1, <3>1 DEF Passed, Migrating
    <3>2. ASSUME Migrating(p)' PROVE s.up /\ 1..(s.at - 1) \subseteq tables
      <4>1. Migrating(p) /\ s.up /\ run[p].up /\ 1..(run[p].at - 1) \subseteq tables
        BY <1>c, <1>d, <2>1, <3>2 DEF Passed
      <4>2. s.at = run[p].at \/ (s.at = run[p].at + 1 /\ run[p].at \in tables)
        BY <1>b, <1>c, <2>1, <3>2, <4>1 DEF Migrating
      <4>3. run[p].at \in Nat
        BY <1>0 DEF TypeInv, RunStates
      <4> QED
        BY ONLY <4>1, <4>2, <4>3
    <3>3. \A q \in Processes : run'[q].pc = "record" => run'[q].at \in tables'
      BY <1>a, <1>b, <1>c, <2>1 DEF Passed
    <3> QED
      BY <1>a, <1>c, <3>1, <3>2, <3>3 DEF Passed
  <2>3. Served'
    <3> SUFFICES ASSUME NEW i \in Instances, Serving(i)', stores'[i] = "postgres"
                 PROVE tables = 1..Versions
      BY <1>a DEF Served
    <3>1. i \in Processes
      BY DEF Processes
    <3>2. CASE i # p
      <4>1. Serving(i) /\ stores[i] = "postgres"
        BY <1>0, <1>b, <1>c, <3>1, <3>2 DEF Serving, TypeInv, Wired
      <4> QED
        BY <2>1, <4>1 DEF Served
    <3>3. CASE i = p
      <4>1. s.pc = "serving" /\ stores'[p] = "postgres"
        BY <1>c, <3>3 DEF Serving
      <4>2. stores' = Wired(p, "postgres") /\ (run[p].up => run[p].at = Versions /\ run[p].at \in recorded)
        BY <1>0, <1>b, <3>3, <4>1 DEF TypeInv, Wired
      <4>3. run[p].up /\ 1..(run[p].at - 1) \subseteq tables
        BY <1>0, <2>1 DEF Passed, Migrating
      <4> QED
        BY <1>0, <2>1, <4>2, <4>3, LastPassed
    <3> QED
      BY <3>2, <3>3
  <2> QED
    BY <1>a, <2>1, <2>2, <2>3
<1>4. RecordInv'
  <2> SUFFICES ASSUME ~mixed' PROVE (SameDirection /\ RecordedBehind /\ TablesAhead /\ HalfDone)'
    BY DEF RecordInv
  <2>1. SameDirection /\ RecordedBehind /\ TablesAhead /\ HalfDone
    BY <1>a DEF DeploymentInv, RecordInv
  <2>2. SameDirection'
    BY ONLY <1>d, <2>1 DEF SameDirection
  <2>3. \A q \in Processes : run[q].pc \in {"record", "erase"} => run'[q] = run[q]
    BY <1>0, <1>c
  <2>4. \A q \in Processes : run'[q].pc \in {"record", "erase"} => run'[q] = run[q]
    BY <1>b, <1>c
  <2>5. RecordedBehind'
    BY ONLY <1>a, <2>1, <2>3 DEF RecordedBehind
  <2>6. TablesAhead'
    BY ONLY <1>a, <2>1, <2>3 DEF TablesAhead
  <2>7. HalfDone'
    BY ONLY <1>a, <2>1, <2>4 DEF HalfDone
  <2> QED
    BY <2>2, <2>5, <2>6, <2>7
<1>5. LogInv'
  <2> SUFFICES ASSUME faults = 0, ~collided, ~reverted
               PROVE /\ \A q \in Processes : run'[q].pc \in {"query", "apply", "record"} => schema
                     /\ \A i \in Instances : Serving(i)' => stores'[i] = "postgres"
                     /\ rows = consumed
    BY <1>a DEF LogInv
  <2>1. /\ \A q \in Processes : run[q].pc \in {"query", "apply", "record"} => schema
        /\ \A i \in Instances : Serving(i) => stores[i] = "postgres"
        /\ rows = consumed
    BY DEF DeploymentInv, LogInv
  <2>2. schema
    BY <1>0, <2>1
  <2>3. ASSUME NEW i \in Instances, Serving(i)' PROVE stores'[i] = "postgres"
    <3>1. i \in Processes
      BY DEF Processes
    <3>2. CASE i = p
      BY <1>0, <1>b, <1>c, <2>2, <2>3, <3>2 DEF TypeInv, Wired, Serving
    <3>3. CASE i # p
      BY <1>0, <1>b, <1>c, <2>1, <2>3, <3>1, <3>3 DEF TypeInv, Wired, Serving
    <3> QED
      BY <3>2, <3>3
  <2> QED
    BY <2>1, <2>2, <2>3
<1> QED
  BY <1>1, <1>2, <1>3, <1>4, <1>5 DEF DeploymentInv

(* A process executes a statement of a version. *)
LEMMA ExecuteInv ==
  ASSUME DeploymentInv, NEW p \in Processes, Execute(p)
  PROVE DeploymentInv'
<1>0. /\ TypeInv /\ PlaceInv /\ run[p] \in RunStates
      /\ run[p].pc \in {"apply", "record", "revert", "erase"}
  BY DEF DeploymentInv, TypeInv, Execute, AtStatement
<1>v. run[p].at \in 1..Versions
  BY <1>0 DEF PlaceInv
<1>a. UNCHANGED <<schema, memory, consumed, faults, collided, reverted, mixed>>
  BY <1>0 DEF Execute, Effect, eventVars, boundVars, historyVars
<1>b. PICK s \in RunStates :
          /\ run' = [run EXCEPT ![p] = s]
          /\ s.pc \in {"off", "serving", "query", "record", "erase"}
          /\ s.pc = "serving" => p \in Instances
          /\ s.pc \in {"record", "erase"} =>
                /\ run[p].pc = (IF s.pc = "record" THEN "apply" ELSE "revert")
                /\ s.up = run[p].up /\ s.at = run[p].at
                /\ stores' = stores
          /\ s.pc = "query" =>
                /\ run[p].pc \in {"record", "erase"}
                /\ s.up = run[p].up /\ s.at \in 1..Versions
                /\ s.up => s.at = run[p].at + 1
                /\ stores' = stores
          /\ s.pc \in {"off", "serving"} =>
                /\ run[p].pc \in {"record", "erase"}
                /\ stores' = Wired(p, "postgres")
                /\ run[p].up => run[p].at = Versions
  BY <1>0, ExecuteMoves
<1>c. /\ run'[p] = s
      /\ \A q \in Processes \ {p} : run'[q] = run[q]
      /\ run' \in [Processes -> RunStates]
  BY <1>0, <1>b, OneMoves
<1>d. \A q \in Processes : Migrating(q)' => Migrating(q) /\ run'[q].up = run[q].up
  BY <1>0, <1>b, <1>c DEF Migrating
<1>e. /\ run[p].pc = "apply" => tables' = tables \cup {run[p].at} /\ recorded' = recorded
      /\ run[p].pc = "record" => tables' = tables /\ recorded' = recorded \cup {run[p].at}
      /\ run[p].pc = "revert" => tables' = tables \ {run[p].at} /\ recorded' = recorded
      /\ run[p].pc = "erase" => tables' = tables /\ recorded' = recorded \ {run[p].at}
      /\ run[p].pc # "revert" => rows' = rows
  BY DEF Execute, Effect, Recording
<1>f. torn' = IF run[p].pc \in {"record", "erase"} THEN torn \ {run[p].at} ELSE torn
  BY <1>0 DEF Execute, Mend, Between, AtFirst, AtStatement, Statements, PlaceInv
<1>1. TypeInv'
  <2>1. stores' \in [Instances -> {"postgres", "memory"}]
    BY <1>0, <1>b DEF TypeInv, Wired
  <2>2. tables' \subseteq 1..Versions
    BY <1>0, <1>v, <1>e DEF TypeInv
  <2> QED
    BY <1>0, <1>a, <1>c, <2>1, <2>2 DEF TypeInv
<1>2. PlaceInv'
  <2>1. /\ s.pc = "record" => s.up
        /\ s.pc = "erase" => ~s.up
        /\ s.pc \notin {"off", "serving"} => s.at \in 1..Versions
    BY <1>0, <1>b, <1>v DEF PlaceInv
  <2> QED
    BY <1>0, <1>b, <1>c, <2>1 DEF PlaceInv
<1>3. UpInv'
  <2> SUFFICES ASSUME ~reverted' PROVE (recorded \subseteq tables /\ Passed /\ Served)'
    BY DEF UpInv
  <2>1. recorded \subseteq tables /\ Passed /\ Served
    BY <1>a DEF DeploymentInv, UpInv
  <2>2. /\ run[p].pc \in {"apply", "record"} /\ run[p].up /\ 1..(run[p].at - 1) \subseteq tables
        /\ run[p].pc = "record" => run[p].at \in tables
    BY <1>0, <2>1 DEF PlaceInv, Passed, Migrating
  <2>3. tables \subseteq tables' /\ recorded' \subseteq tables'
    BY <1>e, <2>1, <2>2
  <2>4. Passed'
    <3>1. ASSUME NEW q \in Processes, q # p
          PROVE /\ Migrating(q)' => run'[q].up /\ 1..(run'[q].at - 1) \subseteq tables'
                /\ run'[q].pc = "record" => run'[q].at \in tables'
      <4>1. run'[q] = run[q]
        BY <1>c, <3>1
      <4> QED
        BY <2>1, <2>3, <4>1 DEF Passed, Migrating
    <3>2. ASSUME Migrating(p)' PROVE s.up /\ 1..(s.at - 1) \subseteq tables'
      <4>1. s.up
        BY <1>c, <1>d, <2>2, <3>2
      <4>2. s.at = run[p].at \/ (s.at = run[p].at + 1 /\ run[p].at \in tables)
        BY <1>b, <1>c, <2>2, <3>2, <4>1 DEF Migrating
      <4> QED
        BY ONLY <1>v, <2>2, <2>3, <4>1, <4>2
    <3>3. s.pc = "record" => s.at \in tables'
      BY <1>b, <1>e
    <3> QED
      BY <1>c, <3>1, <3>2, <3>3 DEF Passed
  <2>5. Served'
    <3> SUFFICES ASSUME NEW i \in Instances, Serving(i)', stores'[i] = "postgres"
                 PROVE tables' = 1..Versions
      BY DEF Served
    <3>1. i \in Processes /\ tables' \subseteq 1..Versions
      BY <1>1 DEF Processes, TypeInv
    <3>2. CASE i # p
      <4>1. Serving(i) /\ stores[i] = "postgres"
        BY <1>0, <1>b, <1>c, <3>1, <3>2 DEF Serving, TypeInv, Wired
      <4>2. tables = 1..Versions
        BY <2>1, <4>1 DEF Served
      <4> QED
        BY <2>3, <3>1, <4>2
    <3>3. CASE i = p
      <4>1. run[p].pc = "record" /\ run[p].at = Versions
        BY <1>b, <1>c, <2>2, <3>3 DEF Serving
      <4>2. tables = 1..Versions
        BY <1>0, <2>2, <4>1, LastPassed
      <4> QED
        BY <2>3, <3>1, <4>2
    <3> QED
      BY <3>2, <3>3
  <2> QED
    BY <2>3, <2>4, <2>5
<1>4. RecordInv'
  <2> SUFFICES ASSUME ~mixed' PROVE (SameDirection /\ RecordedBehind /\ TablesAhead /\ HalfDone)'
    BY DEF RecordInv
  <2>1. SameDirection /\ RecordedBehind /\ TablesAhead /\ HalfDone
    BY <1>a DEF DeploymentInv, RecordInv
  <2>2. SameDirection'
    BY ONLY <1>d, <2>1 DEF SameDirection
  <2>3. \A q \in Processes : run'[q].pc \in {"record", "erase"} =>
           run'[q] = run[q] \/ q = p
    BY <1>c
  <2>4. RecordedBehind'
    <3> SUFFICES ASSUME NEW v \in (recorded' \ tables') \ torn'
                 PROVE \E q \in Processes : run'[q].pc = "erase" /\ run'[q].at = v
      BY DEF RecordedBehind
    <3>1. CASE run[p].pc = "revert" /\ v = run[p].at
      BY <1>0, <1>b, <1>c, <3>1
    <3>2. CASE ~(run[p].pc = "revert" /\ v = run[p].at)
      <4>1. v \in (recorded \ tables) \ torn /\ ~(run[p].pc = "erase" /\ run[p].at = v)
        BY <1>0, <1>e, <1>f, <2>1, <3>2 DEF HalfDone
      <4>2. PICK q \in Processes : run[q].pc = "erase" /\ run[q].at = v
        BY <2>1, <4>1 DEF RecordedBehind
      <4>3. run'[q] = run[q]
        BY <1>c, <4>1, <4>2
      <4> QED
        BY <4>2, <4>3
    <3> QED
      BY <3>1, <3>2
  <2>5. TablesAhead'
    <3> SUFFICES ASSUME NEW v \in (tables' \ recorded') \ torn'
                 PROVE \E q \in Processes : run'[q].pc = "record" /\ run'[q].at = v
      BY DEF TablesAhead
    <3>1. CASE run[p].pc = "apply" /\ v = run[p].at
      BY <1>0, <1>b, <1>c, <3>1
    <3>2. CASE ~(run[p].pc = "apply" /\ v = run[p].at)
      <4>1. v \in (tables \ recorded) \ torn /\ ~(run[p].pc = "record" /\ run[p].at = v)
        BY <1>0, <1>e, <1>f, <2>1, <3>2 DEF HalfDone
      <4>2. PICK q \in Processes : run[q].pc = "record" /\ run[q].at = v
        BY <2>1, <4>1 DEF TablesAhead
      <4>3. run'[q] = run[q]
        BY <1>c, <4>1, <4>2
      <4> QED
        BY <4>2, <4>3
    <3> QED
      BY <3>1, <3>2
  <2>6. HalfDone'
    <3>1. ASSUME NEW q \in Processes, q # p, run[q].pc = "record"
          PROVE run[q].at \in tables'
      <4>1. Migrating(p) /\ Migrating(q) /\ run[q].up /\ run[q].at \in tables
        BY <1>0, <2>1, <3>1 DEF Migrating, PlaceInv, HalfDone
      <4>2. run[p].up
        BY <2>1, <4>1 DEF SameDirection
      <4>3. run[p].pc \in {"apply", "record"}
        BY <1>0, <4>2 DEF PlaceInv
      <4> QED
        BY <1>e, <4>1, <4>3
    <3>2. ASSUME NEW q \in Processes, q # p, run[q].pc = "erase"
          PROVE run[q].at \notin tables'
      <4>1. Migrating(p) /\ Migrating(q) /\ ~run[q].up /\ run[q].at \notin tables
        BY <1>0, <2>1, <3>2 DEF Migrating, PlaceInv, HalfDone
      <4>2. ~run[p].up
        BY <2>1, <4>1 DEF SameDirection
      <4>3. run[p].pc \in {"revert", "erase"}
        BY <1>0, <4>2 DEF PlaceInv
      <4> QED
        BY <1>e, <4>1, <4>3
    <3>3. /\ s.pc = "record" => s.at \in tables'
          /\ s.pc = "erase" => s.at \notin tables'
      BY <1>b, <1>e
    <3> QED
      BY <1>c, <3>1, <3>2, <3>3 DEF HalfDone
  <2> QED
    BY <2>2, <2>4, <2>5, <2>6
<1>5. LogInv'
  <2> SUFFICES ASSUME faults = 0, ~collided, ~reverted
               PROVE /\ \A q \in Processes : run'[q].pc \in {"query", "apply", "record"} => schema
                     /\ \A i \in Instances : Serving(i)' => stores'[i] = "postgres"
                     /\ rows' = consumed
    BY <1>a DEF LogInv
  <2>1. /\ \A q \in Processes : run[q].pc \in {"query", "apply", "record"} => schema
        /\ \A i \in Instances : Serving(i) => stores[i] = "postgres"
        /\ rows = consumed
    BY DEF DeploymentInv, LogInv
  <2>2. run[p].pc \in {"apply", "record"}
    BY <1>0 DEF DeploymentInv, UpInv, Passed, PlaceInv, Migrating
  <2>3. ASSUME NEW i \in Instances, Serving(i)' PROVE stores'[i] = "postgres"
    <3>1. i \in Processes
      BY DEF Processes
    <3>2. CASE i = p
      BY <1>0, <1>b, <1>c, <2>3, <3>2 DEF TypeInv, Wired, Serving
    <3>3. CASE i # p
      BY <1>0, <1>b, <1>c, <2>1, <2>3, <3>1, <3>3 DEF TypeInv, Wired, Serving
    <3> QED
      BY <3>2, <3>3
  <2>4. schema /\ rows' = consumed
    BY <1>e, <2>1, <2>2
  <2> QED
    BY <1>c, <2>1, <2>3, <2>4
<1> QED
  BY <1>1, <1>2, <1>3, <1>4, <1>5 DEF DeploymentInv

(* An instance ingests an event. *)
LEMMA ConsumeInv ==
  ASSUME DeploymentInv, NEW i \in Instances, NEW e \in Events, Consume(i, e)
  PROVE DeploymentInv'
<1> USE DeploymentAssumption
    DEF Consume, boundVars, historyVars, Migrating, Serving, Processes
<1>1. TypeInv'
  <2>1. run' \in [Processes -> RunStates]
    BY DEF DeploymentInv, TypeInv
  <2> QED
    BY <2>1 DEF DeploymentInv, TypeInv
<1>2. PlaceInv'
  BY DEF DeploymentInv, TypeInv, PlaceInv
<1>3. UpInv'
  <2> SUFFICES ASSUME ~reverted' PROVE (recorded \subseteq tables /\ Passed /\ Served)'
    BY DEF UpInv
  <2>1. (recorded \subseteq tables)'
    BY DEF DeploymentInv, TypeInv, UpInv
  <2>2. Passed'
    BY DEF DeploymentInv, TypeInv, UpInv, Passed
  <2>3. Served'
    BY DEF DeploymentInv, TypeInv, UpInv, Passed, Served
  <2> QED
    BY <2>1, <2>2, <2>3
<1>4. RecordInv'
  <2> SUFFICES ASSUME ~mixed' PROVE (SameDirection /\ RecordedBehind /\ TablesAhead /\ HalfDone)'
    BY DEF RecordInv
  <2>1. SameDirection'
    BY DEF DeploymentInv, TypeInv, RecordInv, SameDirection
  <2>2. RecordedBehind'
    BY DEF DeploymentInv, TypeInv, RecordInv, SameDirection, RecordedBehind
  <2>3. TablesAhead'
    BY DEF DeploymentInv, TypeInv, RecordInv, RecordedBehind, TablesAhead
  <2>4. HalfDone'
    BY DEF DeploymentInv, TypeInv, RecordInv, TablesAhead, HalfDone
  <2> QED
    BY <2>1, <2>2, <2>3, <2>4
<1>5. LogInv'
  BY DEF DeploymentInv, TypeInv, UpInv, Served, LogInv
<1> QED
  BY <1>1, <1>2, <1>3, <1>4, <1>5 DEF DeploymentInv

(* Every step keeps the invariant. *)
LEMMA NextInv == DeploymentInv /\ [Next]_vars => DeploymentInv'
<1> SUFFICES ASSUME DeploymentInv, [Next]_vars PROVE DeploymentInv'
  OBVIOUS
<1>1. ASSUME NEW i \in Instances, StartInstance(i) PROVE DeploymentInv'
  BY <1>1, BeginInv DEF StartInstance, Processes
<1>2. ASSUME NEW i \in Instances, NEW e \in Events, Consume(i, e) PROVE DeploymentInv'
  BY <1>2, ConsumeInv
<1>3. ASSUME NEW c \in Commands, NEW up \in BOOLEAN, StartCommand(c, up) PROVE DeploymentInv'
  BY <1>3, BeginInv, DeploymentAssumption DEF StartCommand, Processes
<1>4. ASSUME NEW p \in Processes, MigrateStep(p) PROVE DeploymentInv'
  BY <1>4, CreateInv, QueryInv, ExecuteInv DEF MigrateStep
<1>5. ASSUME NEW p \in Processes, CallFails(p) \/ ReplyLost(p) \/ Crash(p) PROVE DeploymentInv'
  BY <1>5, CallFailsInv, ReplyLostInv, CrashInv
<1>6. ASSUME NEW p \in Processes, NEW q \in Processes, p # q, Collide(p, q) PROVE DeploymentInv'
  BY <1>6, CollideInv
<1>7. CASE UNCHANGED vars
  BY <1>7 DEF vars, databaseVars, eventVars, boundVars, historyVars, DeploymentInv, TypeInv,
              PlaceInv,
              UpInv, Passed, Served, RecordInv, SameDirection, RecordedBehind, TablesAhead, HalfDone,
              LogInv, Migrating, Serving
<1> QED
  BY <1>1, <1>2, <1>3, <1>4, <1>5, <1>6, <1>7 DEF Next

(* The invariant holds in every reachable state. *)
LEMMA Invariance == DeploymentSpec => []DeploymentInv
BY InitInv, NextInv, PTL DEF DeploymentSpec

-----------------------------------------------------------------------------
(* Unless somebody runs Down, an instance serves from Postgres only when   *)
(* every table is there, however many instances and commands migrate at    *)
(* once, die or fail between the two statements of a version.              *)
THEOREM ServesOnSchemaHolds == DeploymentSpec => []ServesOnSchema
<1>1. DeploymentInv => ServesOnSchema
  BY DEF DeploymentInv, UpInv, Served, ServesOnSchema
<1> QED
  BY <1>1, Invariance, PTL

(* When nobody migrates, schema_migrations tells whether the tables of a   *)
(* version are there, unless its last migration was left between its two   *)
(* statements or an Up and a Down ran at once.                             *)
THEOREM SettledHolds == DeploymentSpec => []Settled
<1>1. DeploymentInv => Settled
  <2> SUFFICES ASSUME DeploymentInv, ~mixed, \A p \in Processes : ~Migrating(p),
                      NEW v \in 1..Versions \ torn
               PROVE v \in recorded <=> v \in tables
    BY DEF Settled
  <2>1. RecordedBehind /\ TablesAhead
    BY DEF DeploymentInv, RecordInv
  <2>2. \A p \in Processes : run[p].pc \notin {"record", "erase"}
    BY DEF Migrating
  <2> QED
    BY <2>1, <2>2 DEF RecordedBehind, TablesAhead
<1> QED
  BY <1>1, Invariance, PTL

(* All instances show one log with every event consumed, as long as no     *)
(* call fails, no two processes create a table at once and nobody runs     *)
(* Down, however often they die and start again.                           *)
THEOREM OneLogHolds == DeploymentSpec => []OneLog
<1>1. DeploymentInv => OneLog
  BY DEF DeploymentInv, LogInv, OneLog, Shown
<1> QED
  BY <1>1, Invariance, PTL

=============================================================================
