--------------------------- MODULE MapReduceProofs --------------------------
(***************************************************************************)
(* Proofs about the MapReduce job, for any number of workers, tasks and    *)
(* records, and whether or not workers are slow; what the outputs hold is  *)
(* proved for workers that may die but are not slow.                       *)
(***************************************************************************)
EXTENDS MapReduce, FiniteSetTheorems, TLAPS

\* How far a worker is in its task.
PositionOK ==
    \A w \in Worker :
        /\ pc[w] \in {"map", "write"} => task[w].kind = "map" /\ position[w] < NRecord
        /\ pc[w] = "reduce" => task[w].kind = "reduce" /\ position[w] <= NMap

\* A map task that is finished, or being reported, has its files, and a
\* handler that decided for a reduce task saw all map tasks finished.
FilesInv ==
    /\ finished["map"] \subseteq DOMAIN file
    /\ \A w \in Worker :
          /\ pc[w] \in {"write", "finish", "setDone"} /\ task[w].kind = "map"
                => task[w].id \in DOMAIN file
          /\ pc[w] \in {"popReduce", "reduce"} => finished["map"] = Ids("map")

\* A reduce task that is finished, or being reported, has its output, and
\* what completeTask is about to store in done is true only of a job that is
\* finished.
DoneInv ==
    /\ \A p \in finished["reduce"] : out[p] # "none"
    /\ \A w \in Worker :
          pc[w] \in {"finish", "setDone"} /\ task[w].kind = "reduce"
              => out[task[w].id] # "none"
    /\ \A w \in Worker : pc[w] = "setDone" /\ verdict[w] => JobFinished
    /\ done => JobFinished

\* TypeOK in parts.
FlagsOK ==
    /\ done \in BOOLEAN /\ exited \in BOOLEAN
    /\ alive \in [Worker -> BOOLEAN]
    /\ readAll \in [Worker -> BOOLEAN] /\ verdict \in [Worker -> BOOLEAN]

TasksOK ==
    /\ queue \in [Kind -> Seq(Nat)]
    /\ finished \in [Kind -> SUBSET Nat]
    /\ \A kind \in Kind : Range(queue[kind]) \cup finished[kind] \subseteq Ids(kind)
    /\ DOMAIN timer = Kind /\ \A kind \in Kind : timer[kind] \in [Ids(kind) -> Nat]

WorkOK ==
    /\ pc \in [Worker -> {"find", "popMap", "popReduce", "map", "write", "reduce",
                          "finish", "setDone", "exit", "down"}]
    /\ task \in [Worker -> Task]
    /\ \A w \in Worker : task[w].id \in Ids(task[w].kind)
    /\ position \in [Worker -> 0 .. NMap + NRecord]

FilesOK ==
    /\ file \in [DOMAIN file -> SUBSET (1 .. NRecord)] /\ DOMAIN file \subseteq Ids("map")
    /\ out \in [Ids("reduce") -> {"none", "partial", "complete"}]

Inv == TypeOK /\ PositionOK /\ TaskNotLost /\ FilesInv /\ DoneInv

-----------------------------------------------------------------------------
(* Sets and queues.                                                        *)

\* Comparing the number of finished tasks with the number of tasks, as
\* findTask and completeTask do, tells whether all of them are finished.
LEMMA AllOfKind ==
    ASSUME NEW n \in Nat, NEW S \in SUBSET (0 .. n - 1)
    PROVE  Cardinality(S) = n => S = 0 .. n - 1
<1>1. IsFiniteSet(0 .. n - 1) /\ Cardinality(0 .. n - 1) = n
  BY FS_Interval
<1> QED
  BY <1>1, FS_Subset, ZenonT(60)

\* popLast takes one task from the queue and leaves the others.
LEMMA FrontOfQueue ==
    ASSUME NEW q \in Seq(Nat), q # <<>>
    PROVE  /\ allButLast(q) \in Seq(Nat)
           /\ last(q) \in Range(q) /\ last(q) \in Nat
           /\ Range(allButLast(q)) \subseteq Range(q)
           /\ Range(q) \subseteq Range(allButLast(q)) \cup {last(q)}
<1>1. Len(q) \in Nat \ {0} /\ q \in [1 .. Len(q) -> Nat]
  OBVIOUS
<1>2. allButLast(q) \in Seq(Nat) /\ Len(allButLast(q)) = Len(q) - 1
      /\ \A k \in 1 .. Len(q) - 1 : allButLast(q)[k] = q[k]
  BY <1>1 DEF allButLast
<1>3. DOMAIN allButLast(q) = 1 .. Len(q) - 1 /\ DOMAIN q = 1 .. Len(q)
  BY <1>1, <1>2
<1>4. last(q) = q[Len(q)] /\ Len(q) \in 1 .. Len(q)
  BY <1>1 DEF last
<1>5. last(q) \in Range(q) /\ last(q) \in Nat
  BY <1>1, <1>3, <1>4 DEF Range
<1>6. Range(allButLast(q)) \subseteq Range(q)
  <2>1. 1 .. Len(q) - 1 \subseteq 1 .. Len(q)
    BY <1>1
  <2> QED
    BY <1>2, <1>3, <2>1, Zenon DEF Range
<1>7. Range(q) \subseteq Range(allButLast(q)) \cup {last(q)}
  <2> SUFFICES ASSUME NEW k \in 1 .. Len(q)
               PROVE  q[k] \in Range(allButLast(q)) \cup {last(q)}
    BY <1>3, Zenon DEF Range
  <2>1. CASE k = Len(q)
    BY <1>4, <2>1
  <2>2. CASE k \in 1 .. Len(q) - 1
    BY <1>2, <1>3, <2>2, Zenon DEF Range
  <2>3. \A n \in Nat : \A j \in 1 .. n : j = n \/ j \in 1 .. n - 1
    OBVIOUS
  <2> QED
    BY <1>1, <2>1, <2>2, <2>3, Zenon
<1> QED
  BY <1>2, <1>5, <1>6, <1>7, Zenon

\* resetTask adds one task to the queue.
LEMMA AppendToQueue ==
    ASSUME NEW q \in Seq(Nat), NEW x \in Nat
    PROVE  Append(q, x) \in Seq(Nat) /\ Range(Append(q, x)) = Range(q) \cup {x}
<1>1. Append(q, x) \in Seq(Nat) /\ Len(Append(q, x)) = Len(q) + 1 /\ Len(q) \in Nat
  OBVIOUS
<1>2. \A k \in 1 .. Len(q) : Append(q, x)[k] = q[k]
  OBVIOUS
<1>3. Append(q, x)[Len(q) + 1] = x
  OBVIOUS
<1>4. DOMAIN Append(q, x) = 1 .. Len(q) + 1 /\ DOMAIN q = 1 .. Len(q)
  BY <1>1
<1> QED
  BY <1>1, <1>2, <1>3, <1>4, SMTT(30) DEF Range

-----------------------------------------------------------------------------
(* The invariant.                                                          *)

\* makeRange lists the tasks of a kind.
LEMMA RangeOfTasks ==
    ASSUME NEW n \in Nat
    PROVE  makeRange(n) \in Seq(Nat) /\ Range(makeRange(n)) = 0 .. n - 1
<1>1. makeRange(n) \in [1 .. n -> Nat]
  BY DEF makeRange
<1>2. makeRange(n) \in Seq(Nat)
  BY <1>1
<1>3. DOMAIN makeRange(n) = 1 .. n /\ \A k \in 1 .. n : makeRange(n)[k] = k - 1
  BY DEF makeRange
<1>4. \A x \in 0 .. n - 1 : x + 1 \in 1 .. n /\ makeRange(n)[x + 1] = x
  BY <1>3
<1>5. \A k \in 1 .. n : k - 1 \in 0 .. n - 1
  OBVIOUS
<1>6. Range(makeRange(n)) \subseteq 0 .. n - 1
  BY <1>3, <1>5 DEF Range
<1>7. 0 .. n - 1 \subseteq Range(makeRange(n))
  BY <1>3, <1>4, ZenonT(60) DEF Range
<1> QED
  BY <1>2, <1>6, <1>7, ZenonT(60)

\* MakeCoordinator puts every task in its queue.
LEMMA InvInit == Init => Inv
<1> SUFFICES ASSUME Init PROVE Inv
  OBVIOUS
<1> USE JobAssumption DEF Init, MakeCoordinator, Kind, Ids
<1>1. /\ queue \in [Kind -> Seq(Nat)]
      /\ \A kind \in Kind : Range(queue[kind]) = Ids(kind)
  BY RangeOfTasks
<1>2. TypeOK
  <2>1. readAll \in [Worker -> BOOLEAN] /\ verdict \in [Worker -> BOOLEAN]
        /\ alive \in [Worker -> BOOLEAN] /\ done \in BOOLEAN /\ exited \in BOOLEAN
    BY Zenon
  <2>2. task \in [Worker -> Task] /\ \A w \in Worker : task[w].id \in Ids(task[w].kind)
    BY DEF Task
  <2>3. file \in [DOMAIN file -> SUBSET (1 .. NRecord)] /\ DOMAIN file \subseteq Ids("map")
    OBVIOUS
  <2>4. finished \in [Kind -> SUBSET Nat] /\ \A kind \in Kind : finished[kind] \subseteq Ids(kind)
    OBVIOUS
  <2>5. DOMAIN timer = Kind /\ \A kind \in Kind : timer[kind] \in [Ids(kind) -> Nat]
    OBVIOUS
  <2>6. position \in [Worker -> 0 .. NMap + NRecord]
    OBVIOUS
  <2>7. /\ pc \in [Worker -> {"find", "popMap", "popReduce", "map", "write", "reduce",
                               "finish", "setDone", "exit", "down"}]
        /\ out \in [Ids("reduce") -> {"none", "partial", "complete"}]
    OBVIOUS
  <2> HIDE DEF Init, MakeCoordinator, Kind, Ids
  <2> QED
    BY <1>1, <2>1, <2>2, <2>3, <2>4, <2>5, <2>6, <2>7, SMTT(60) DEF TypeOK
<1>3. PositionOK /\ FilesInv /\ DoneInv
  BY DEF PositionOK, FilesInv, DoneInv
<1>4. TaskNotLost
  BY <1>1, SMTT(60) DEF TaskNotLost
<1> QED
  BY <1>2, <1>3, <1>4 DEF Inv

\* When findTask decides for a reduce task or ends a worker, and when
\* completeTask finds the job done, the tasks counted are all the tasks.
LEMMA CountedIsAll ==
    ASSUME NEW fin \in [Kind -> SUBSET Nat], \A kind \in Kind : fin[kind] \subseteq Ids(kind)
    PROVE  /\ Cardinality(fin["map"]) = NMap => fin["map"] = Ids("map")
           /\ allFinished(fin) => \A kind \in Kind : fin[kind] = Ids(kind)
<1>1. fin["map"] \in SUBSET (0 .. NMap - 1) /\ fin["reduce"] \in SUBSET (0 .. NReduce - 1)
  BY DEF Kind, Ids
<1>2. Cardinality(fin["map"]) = NMap => fin["map"] = Ids("map")
  BY <1>1, AllOfKind, JobAssumption, SMTT(60) DEF Ids
<1>3. Cardinality(fin["reduce"]) = NReduce => fin["reduce"] = Ids("reduce")
  BY <1>1, AllOfKind, JobAssumption, SMTT(60) DEF Ids
<1> QED
  BY <1>2, <1>3, SMTT(60) DEF allFinished, Kind

\* TypeOK is the conjunction of its parts.
LEMMA TypeParts == TypeOK <=> FlagsOK /\ TasksOK /\ WorkOK /\ FilesOK
  BY SMTT(60) DEF TypeOK, FlagsOK, TasksOK, WorkOK, FilesOK

\* The flags are Boolean.
LEMMA FlagsNext == FlagsOK /\ [Next]_vars => FlagsOK'
<1> SUFFICES ASSUME FlagsOK, [Next]_vars PROVE FlagsOK'
  OBVIOUS
<1> USE DEF FlagsOK
<1>1. CASE UNCHANGED <<done, exited, alive, readAll, verdict>>
  BY <1>1, SMTT(60)
<1>2. ASSUME NEW w \in Worker, NEW kind \in Kind, popLast(w, kind) PROVE FlagsOK'
  <2>1. UNCHANGED <<done, exited, alive, verdict>>
    BY <1>2 DEF popLast, coordinatorVars
  <2>2. readAll' = readAll \/ readAll' = [readAll EXCEPT ![w] = TRUE]
    BY <1>2 DEF popLast, workVars
  <2> QED
    BY <2>1, <2>2, ZenonT(60)
<1>3. ASSUME NEW w \in Worker, completeTask(w) PROVE FlagsOK'
  <2>1. allFinished(finished') \in BOOLEAN
    BY Zenon DEF allFinished
  <2>2. verdict' = [verdict EXCEPT ![w] = allFinished(finished')]
        /\ UNCHANGED <<done, exited, alive, readAll>>
    BY <1>3 DEF completeTask, workVars
  <2> QED
    BY <2>1, <2>2
<1>4. ASSUME NEW w \in Worker, setDone(w) PROVE FlagsOK'
  BY <1>4, SMTT(60) DEF setDone, workVars
<1>5. CASE Done
  BY <1>5, SMTT(60) DEF Done, coordinatorVars, workVars
<1>6. ASSUME NEW w \in Worker, readPartition(w) PROVE FlagsOK'
  <2>1. UNCHANGED <<done, exited, verdict>>
        /\ alive' \in {alive, [alive EXCEPT ![w] = FALSE]}
    BY <1>6 DEF readPartition, coordinatorVars
  <2>2. PICK b \in BOOLEAN : readAll' \in {readAll, [readAll EXCEPT ![w] = b]}
    <3>1. (readAll[w] /\ file[position[w]] = 1 .. NRecord) \in BOOLEAN
      OBVIOUS
    <3> QED
      BY <1>6, <3>1, ZenonT(60) DEF readPartition
  <2> QED
    BY <2>1, <2>2, ZenonT(60)
<1>7. ASSUME NEW w \in Worker, Crash(w) \/ Restart(w) PROVE FlagsOK'
  BY <1>7, ZenonT(60) DEF Crash, Restart, coordinatorVars, workVars
<1>8. ASSUME NEW w \in Worker,
             findTask(w) \/ call(w) \/ mapFile(w) \/ encodeKV(w) \/ reduce(w)
      PROVE  FlagsOK'
  BY <1>8 DEF findTask, call, mapFile, encodeKV, reduce, coordinatorVars, workVars
<1>9. ASSUME NEW kind \in Kind, NEW id \in Ids(kind), resetTask(kind, id) PROVE FlagsOK'
  BY <1>9, Zenon DEF resetTask, workVars
<1> QED
  BY <1>1, <1>2, <1>3, <1>4, <1>5, <1>6, <1>7, <1>8, <1>9, SMTT(60)
     DEF Next, Step, Kind, vars, coordinatorVars, workVars

\* The coordinator's queues, sets and timers are about tasks of the job, and
\* no task that is not finished is lost.
LEMMA TasksNext == TasksOK /\ WorkOK /\ TaskNotLost /\ [Next]_vars => (TasksOK /\ TaskNotLost)'
<1> SUFFICES ASSUME TasksOK, WorkOK, TaskNotLost, [Next]_vars PROVE (TasksOK /\ TaskNotLost)'
  OBVIOUS
<1> USE DEF TasksOK, TaskNotLost
<1>1. CASE UNCHANGED <<queue, finished, timer>>
  BY <1>1
<1>2. ASSUME NEW w \in Worker, NEW kind \in Kind, popLast(w, kind), queue[kind] # <<>>
      PROVE  (TasksOK /\ TaskNotLost)'
  <2>1. /\ allButLast(queue[kind]) \in Seq(Nat)
        /\ last(queue[kind]) \in Range(queue[kind])
        /\ Range(allButLast(queue[kind])) \subseteq Range(queue[kind])
        /\ Range(queue[kind]) \subseteq Range(allButLast(queue[kind])) \cup {last(queue[kind])}
    BY <1>2, FrontOfQueue
  <2>2. last(queue[kind]) \in Ids(kind)
    BY <2>1
  <2>3. /\ queue' = [queue EXCEPT ![kind] = allButLast(@)]
        /\ timer' = [timer EXCEPT ![kind][last(queue[kind])] = @ + 1]
        /\ UNCHANGED finished
    BY <1>2, Zenon DEF popLast, startTimer
  <2> QED
    BY <2>1, <2>2, <2>3, SMTT(60)
<1>3. ASSUME NEW kind \in Kind, NEW id \in Ids(kind), resetTask(kind, id)
      PROVE  (TasksOK /\ TaskNotLost)'
  <2>1. id \in Nat /\ queue[kind] \in Seq(Nat)
    BY DEF Ids
  <2>2. /\ Append(queue[kind], id) \in Seq(Nat)
        /\ Range(Append(queue[kind], id)) = Range(queue[kind]) \cup {id}
    BY <2>1, AppendToQueue, Zenon
  <2>3. /\ timer[kind][id] > 0
        /\ timer' = [timer EXCEPT ![kind][id] = @ - 1]
        /\ UNCHANGED finished
        /\ \/ id \in finished[kind] /\ UNCHANGED queue
           \/ queue' = [queue EXCEPT ![kind] = Append(queue[kind], id)]
    BY <1>3 DEF resetTask
  <2>4. timer[kind] \in [Ids(kind) -> Nat] /\ timer[kind][id] - 1 \in Nat
    BY <2>3
  <2>5. DOMAIN timer' = Kind /\ \A k \in Kind : timer'[k] \in [Ids(k) -> Nat]
    BY <2>3, <2>4, Zenon
  <2>6. CASE UNCHANGED queue /\ id \in finished[kind]
    BY <2>3, <2>5, <2>6
  <2>7. CASE queue' = [queue EXCEPT ![kind] = Append(queue[kind], id)]
    <3>1. TasksOK'
      BY <2>2, <2>3, <2>5, <2>7, SMTT(60)
    <3>2. \A k \in Kind : Range(queue[k]) \subseteq Range(queue'[k])
      BY <2>2, <2>7, SMTT(60)
    <3>3. id \in Range(queue'[kind])
      BY <2>2, <2>7, Zenon
    <3> QED
      BY <2>3, <3>1, <3>2, <3>3, SMTT(60)
  <2> QED
    BY <2>3, <2>6, <2>7, SMTT(60)
<1>4. ASSUME NEW w \in Worker, completeTask(w) PROVE (TasksOK /\ TaskNotLost)'
  <2>1. task[w].kind \in Kind /\ task[w].id \in Ids(task[w].kind) /\ task[w].id \in Nat
    BY Zenon DEF WorkOK, Task
  <2>2. /\ finished' = [finished EXCEPT ![task[w].kind] = @ \cup {task[w].id}]
        /\ UNCHANGED <<queue, timer>>
    BY <1>4, SMTT(60) DEF completeTask
  <2>3. /\ finished' \in [Kind -> SUBSET Nat]
        /\ \A k \in Kind : finished[k] \subseteq finished'[k] /\ finished'[k] \subseteq Ids(k)
    BY <2>1, <2>2, SMTT(60)
  <2> QED
    BY <2>2, <2>3, SMTT(60)
<1>5. ASSUME NEW w \in Worker, NEW kind \in Kind, popLast(w, kind), queue[kind] = <<>>
      PROVE  UNCHANGED <<queue, finished, timer>>
  BY <1>5, SMTT(60) DEF popLast, coordinatorVars
<1>6. ASSUME NEW w \in Worker,
             \/ findTask(w) \/ setDone(w) \/ call(w) \/ mapFile(w) \/ encodeKV(w)
             \/ readPartition(w) \/ reduce(w) \/ Crash(w) \/ Restart(w)
      PROVE  UNCHANGED <<queue, finished, timer>>
  BY <1>6, ZenonT(60) DEF findTask, setDone, call, mapFile, encodeKV, readPartition, reduce,
     Crash, Restart, coordinatorVars
<1> QED
  BY <1>1, <1>2, <1>3, <1>4, <1>5, <1>6, Zenon DEF Next, Step, Kind, Done, vars, coordinatorVars

\* Workers are where the code can be, with a task of the job.
LEMMA WorkNext == Inv /\ [Next]_vars => (WorkOK /\ PositionOK)'
<1> SUFFICES ASSUME TasksOK, WorkOK, PositionOK, [Next]_vars PROVE (WorkOK /\ PositionOK)'
  BY TypeParts, SMTT(60) DEF Inv
<1> USE JobAssumption DEF WorkOK, PositionOK
<1>1. CASE UNCHANGED <<pc, task, position>>
  BY <1>1, SMTT(60)
<1>2. ASSUME NEW w \in Worker, NEW kind \in Kind, popLast(w, kind), queue[kind] # <<>>
      PROVE  (WorkOK /\ PositionOK)'
  <2>1. last(queue[kind]) \in Ids(kind) /\ last(queue[kind]) \in Nat
    BY <1>2, FrontOfQueue, Zenon DEF TasksOK
  <2>2. /\ task' = [task EXCEPT ![w] = [kind |-> kind, id |-> last(queue[kind])]]
        /\ position' = [position EXCEPT ![w] = 0]
        /\ pc' = [pc EXCEPT ![w] = IF alive[w] THEN kind ELSE "down"]
    BY <1>2, Zenon DEF popLast, Goto, Answer
  <2> QED
    BY <2>1, <2>2, SMTT(60) DEF Kind, Task
<1>3. ASSUME NEW w \in Worker,
             \/ findTask(w) \/ completeTask(w) \/ setDone(w) \/ mapFile(w) \/ reduce(w)
             \/ call(w) \/ Crash(w) \/ Restart(w)
             \/ \E kind \in Kind : popLast(w, kind) /\ queue[kind] = <<>>
      PROVE  /\ UNCHANGED <<task, position>>
             /\ \/ UNCHANGED pc
                \/ \E l \in {"find", "popMap", "popReduce", "finish", "setDone", "exit", "down"} :
                       pc' = [pc EXCEPT ![w] = l]
                \/ pc[w] = "map" /\ pc' = [pc EXCEPT ![w] = "write"]
  BY <1>3, Zenon DEF findTask, completeTask, setDone, mapFile, reduce, call, Crash, Restart,
     popLast, Goto, Answer, workVars
<1>4. ASSUME NEW w \in Worker, encodeKV(w) PROVE (WorkOK /\ PositionOK)'
  BY <1>4, SMTT(60) DEF encodeKV, Goto
<1>5. ASSUME NEW w \in Worker, readPartition(w) PROVE (WorkOK /\ PositionOK)'
  <2>1. /\ pc[w] = "reduce" /\ position[w] < NMap /\ UNCHANGED task
        /\ \/ position' = [position EXCEPT ![w] = position[w] + 1] /\ UNCHANGED pc
           \/ pc' = [pc EXCEPT ![w] = "down"] /\ UNCHANGED position
    BY <1>5, Zenon DEF readPartition, Goto
  <2>2. CASE pc' = [pc EXCEPT ![w] = "down"] /\ UNCHANGED position
    BY <2>1, <2>2, SMTT(60)
  <2>3. CASE position' = [position EXCEPT ![w] = position[w] + 1] /\ UNCHANGED pc
    BY <2>1, <2>3, SMTT(60)
  <2> QED
    BY <2>1, <2>2, <2>3, SMTT(60)
<1>6. ASSUME NEW kind \in Kind, NEW id \in Ids(kind), resetTask(kind, id) PROVE UNCHANGED <<pc, task, position>>
  BY <1>6, SMTT(60) DEF resetTask, workVars
<1>7. ASSUME NEW w \in Worker, UNCHANGED <<task, position>>,
             \/ \E l \in {"find", "popMap", "popReduce", "finish", "setDone", "exit", "down"} :
                    pc' = [pc EXCEPT ![w] = l]
             \/ pc[w] = "map" /\ pc' = [pc EXCEPT ![w] = "write"]
      PROVE  (WorkOK /\ PositionOK)'
  BY <1>7, SMTT(60)
<1> QED
  <2>1. CASE UNCHANGED vars \/ Done
    BY <1>1, <2>1, SMTT(60) DEF Done, vars, workVars
  <2>2. CASE \E w \in Worker : Step(w) \/ Crash(w) \/ Restart(w)
    <3>1. PICK w \in Worker : Step(w) \/ Crash(w) \/ Restart(w)
      BY <2>2, SMTT(60)
    <3>2. CASE encodeKV(w) \/ readPartition(w)
      BY <1>4, <1>5, <3>2, ZenonT(30)
    <3>3. CASE \E kind \in Kind : popLast(w, kind) /\ queue[kind] # <<>>
      BY <1>2, <3>3, SMTT(60)
    <3>4. CASE \/ findTask(w) \/ completeTask(w) \/ setDone(w) \/ mapFile(w) \/ reduce(w)
               \/ call(w) \/ Crash(w) \/ Restart(w)
               \/ \E kind \in Kind : popLast(w, kind) /\ queue[kind] = <<>>
      BY <1>1, <1>3, <1>7, <3>4, ZenonT(60)
    <3> QED
      BY <3>1, <3>2, <3>3, <3>4, ZenonT(60) DEF Step, Kind
  <2>3. CASE \E kind \in Kind : \E id \in Ids(kind) : resetTask(kind, id)
    BY <1>1, <1>6, <2>3, SMTT(60)
  <2> QED
    BY <2>1, <2>2, <2>3, SMTT(60) DEF Next

\* The files of finished map tasks are there, and stay there.
LEMMA FilesNext == Inv /\ [Next]_vars => (FilesOK /\ FilesInv)'
<1> SUFFICES ASSUME TasksOK, WorkOK, FilesOK, PositionOK, FilesInv, [Next]_vars
             PROVE  (FilesOK /\ FilesInv)'
  BY TypeParts, SMTT(60) DEF Inv
<1> USE JobAssumption DEF FilesOK, FilesInv
<1>1. CASE UNCHANGED <<finished, file, out, pc, task>>
  BY <1>1, SMTT(60)
<1>2. ASSUME NEW w \in Worker, findTask(w) PROVE (FilesOK /\ FilesInv)'
  <2>1. UNCHANGED <<finished, file, out, task>>
    BY <1>2, SMTT(60) DEF findTask, coordinatorVars, workVars
  <2>2. \/ \E l \in {"popMap", "exit", "down"} : pc' = [pc EXCEPT ![w] = l]
        \/ pc' = [pc EXCEPT ![w] = "popReduce"] /\ Cardinality(finished["map"]) = NMap
    BY <1>2, SMTT(60) DEF findTask, Goto, Answer
  <2>3. Cardinality(finished["map"]) = NMap => finished["map"] = Ids("map")
    BY CountedIsAll, SMTT(60) DEF TasksOK
  <2> QED
    BY <2>1, <2>2, <2>3, SMTT(60) DEF WorkOK
<1>3. ASSUME NEW w \in Worker, NEW kind \in Kind, popLast(w, kind) PROVE (FilesOK /\ FilesInv)'
  <2>1. UNCHANGED <<finished, file, out>> /\ \A v \in Worker \ {w} : task'[v] = task[v]
    BY <1>3, Zenon DEF popLast, coordinatorVars, workVars, WorkOK
  <2>2. \/ \E l \in {"find", "down", "map"} : pc' = [pc EXCEPT ![w] = l]
        \/ pc' = [pc EXCEPT ![w] = "reduce"] /\ pc[w] = "popReduce"
    BY <1>3, Zenon DEF popLast, Goto, Answer, Kind
  <2> QED
    BY <2>1, <2>2 DEF WorkOK
<1>4. ASSUME NEW w \in Worker, completeTask(w) PROVE (FilesOK /\ FilesInv)'
  <2>1. /\ finished' = [finished EXCEPT ![task[w].kind] = @ \cup {task[w].id}]
        /\ pc[w] = "finish" /\ pc' = [pc EXCEPT ![w] = "setDone"]
        /\ UNCHANGED <<file, out, task>>
    BY <1>4, SMTT(60) DEF completeTask, Goto, workVars
  <2>2. task[w].kind \in Kind /\ task[w].id \in Ids(task[w].kind)
    BY SMTT(60) DEF WorkOK, Task
  <2>3. /\ finished'["map"] \subseteq Ids("map") /\ finished["map"] \subseteq finished'["map"]
        /\ finished'["map"] \subseteq DOMAIN file
    BY <2>1, <2>2, SMTT(60) DEF TasksOK, Kind
  <2> QED
    BY <2>1, <2>3, SMTT(60) DEF WorkOK
<1>5. ASSUME NEW w \in Worker, mapFile(w) PROVE (FilesOK /\ FilesInv)'
  <2>1. /\ file' = [m \in DOMAIN file \cup {task[w].id} |->
                        IF m = task[w].id THEN {} ELSE file[m]]
        /\ pc[w] = "map" /\ pc' = [pc EXCEPT ![w] = "write"]
        /\ UNCHANGED <<finished, out, task>>
    BY <1>5, SMTT(60) DEF mapFile, Goto, coordinatorVars, workVars
  <2>2. task[w].id \in Ids("map")
    BY <2>1, SMTT(60) DEF WorkOK, PositionOK
  <2>3. FilesOK'
    BY <2>1, <2>2, SMTT(60)
  <2>4. DOMAIN file' = DOMAIN file \cup {task[w].id}
    BY <2>1, SMTT(60)
  <2> QED
    BY <2>1, <2>3, <2>4, SMTT(60) DEF WorkOK
<1>6. ASSUME NEW w \in Worker, encodeKV(w) PROVE (FilesOK /\ FilesInv)'
  <2>1. /\ file' = [file EXCEPT ![task[w].id] = @ \cup {position[w] + 1}]
        /\ pc[w] = "write"
        /\ \E l \in {"finish", "write"} : pc' = [pc EXCEPT ![w] = l]
        /\ UNCHANGED <<finished, out, task>>
    BY <1>6, ZenonT(60) DEF encodeKV, Goto, coordinatorVars
  <2>2. position[w] + 1 \in 1 .. NRecord /\ task[w].id \in DOMAIN file
    BY <2>1 DEF WorkOK, PositionOK
  <2>3. FilesOK' /\ DOMAIN file' = DOMAIN file
    BY <2>1, <2>2
  <2> QED
    BY <2>1, <2>2, <2>3, SMTT(60) DEF WorkOK
<1>7. ASSUME NEW w \in Worker, reduce(w) PROVE (FilesOK /\ FilesInv)'
  <2>1. /\ pc[w] = "reduce" /\ pc' = [pc EXCEPT ![w] = "finish"]
        /\ UNCHANGED <<finished, file, task>>
        /\ \E v \in {"complete", "partial"} : out' = [out EXCEPT ![task[w].id] = v]
    BY <1>7, ZenonT(60) DEF reduce, Goto, coordinatorVars, workVars
  <2>2. task[w].kind = "reduce"
    BY <2>1 DEF PositionOK
  <2> QED
    BY <2>1, <2>2 DEF WorkOK
<1>8. ASSUME NEW w \in Worker,
             setDone(w) \/ call(w) \/ readPartition(w) \/ Crash(w) \/ Restart(w)
      PROVE  (FilesOK /\ FilesInv)'
  <2>1. /\ UNCHANGED <<finished, file, out, task>>
        /\ UNCHANGED pc \/ \E l \in {"find", "exit", "down"} : pc' = [pc EXCEPT ![w] = l]
    BY <1>8 DEF setDone, call, readPartition, Crash, Restart, Goto, Answer, coordinatorVars,
       workVars
  <2> QED
    BY <2>1, Zenon DEF WorkOK
<1>9. ASSUME NEW kind \in Kind, NEW id \in Ids(kind), resetTask(kind, id)
      PROVE  UNCHANGED <<finished, file, out, pc, task>>
  BY <1>9 DEF resetTask, workVars
<1> QED
  BY <1>1, <1>2, <1>3, <1>4, <1>5, <1>6, <1>7, <1>8, <1>9, ZenonT(60)
     DEF Next, Step, Kind, Done, vars, coordinatorVars, workVars

\* Outputs of finished reduce tasks are there, and done is stored only for a
\* job that is finished, whoever computed it and however late it is stored.
LEMMA DoneNext == Inv /\ [Next]_vars => DoneInv'
<1> SUFFICES ASSUME FlagsOK, TasksOK, WorkOK, FilesOK, PositionOK, DoneInv, [Next]_vars
             PROVE  DoneInv'
  BY TypeParts, SMTT(60) DEF Inv
<1> USE DEF DoneInv, JobFinished
<1>1. CASE UNCHANGED <<finished, done, out, pc, task, verdict>>
  BY <1>1, ZenonT(60)
<1>2. ASSUME NEW w \in Worker,
             \/ findTask(w) \/ call(w) \/ mapFile(w) \/ readPartition(w) \/ Crash(w)
             \/ Restart(w)
      PROVE  DoneInv'
  <2>1. /\ UNCHANGED <<finished, done, out, task, verdict>>
        /\ \/ UNCHANGED pc
           \/ \E l \in {"popMap", "popReduce", "write", "find", "exit", "down"} :
                  pc' = [pc EXCEPT ![w] = l]
    <3>1. CASE findTask(w) \/ call(w) \/ mapFile(w)
      BY <3>1, ZenonT(60) DEF findTask, call, mapFile, Goto, Answer, coordinatorVars, workVars
    <3>2. CASE readPartition(w) \/ Crash(w) \/ Restart(w)
      BY <3>2, ZenonT(60) DEF readPartition, Crash, Restart, Goto, coordinatorVars, workVars
    <3> QED
      BY <1>2, <3>1, <3>2, Zenon
  <2> QED
    BY <2>1, SMTT(60) DEF WorkOK
<1>3. ASSUME NEW w \in Worker, NEW kind \in Kind, popLast(w, kind) PROVE DoneInv'
  <2>1. /\ UNCHANGED <<finished, done, out, verdict>>
        /\ \A v \in Worker \ {w} : task'[v] = task[v]
        /\ \E l \in {"find", "down", "map", "reduce"} : pc' = [pc EXCEPT ![w] = l]
    BY <1>3, SMTT(60) DEF popLast, coordinatorVars, workVars, WorkOK, Goto, Answer, Kind
  <2> QED
    BY <2>1, ZenonT(30) DEF WorkOK
<1>4. ASSUME NEW w \in Worker, completeTask(w) PROVE DoneInv'
  <2>1. /\ finished' = [finished EXCEPT ![task[w].kind] = @ \cup {task[w].id}]
        /\ pc[w] = "finish" /\ pc' = [pc EXCEPT ![w] = "setDone"]
        /\ verdict' = [verdict EXCEPT ![w] = allFinished(finished')]
        /\ UNCHANGED <<done, out, task>>
    BY <1>4, Zenon DEF completeTask, Goto, workVars
  <2>2. task[w].kind \in Kind /\ task[w].id \in Ids(task[w].kind) /\ task[w].id \in Nat
    BY Zenon DEF WorkOK, Task
  <2>3. /\ finished' \in [Kind -> SUBSET Nat]
        /\ \A k \in Kind : finished[k] \subseteq finished'[k] /\ finished'[k] \subseteq Ids(k)
    BY <2>1, <2>2, Zenon DEF TasksOK
  <2>4. allFinished(finished') => JobFinished'
    BY <2>3, CountedIsAll, SMTT(60)
  <2>5. JobFinished => JobFinished'
    BY <2>3, ZenonT(60)
  <2>6. \A p \in finished'["reduce"] : out'[p] # "none"
    BY <2>1, <2>2, Zenon DEF TasksOK, Kind
  <2>7. \A v \in Worker : pc'[v] \in {"finish", "setDone"} /\ task'[v].kind = "reduce"
              => out'[task'[v].id] # "none"
    BY <2>1, Zenon DEF WorkOK
  <2>8. \A v \in Worker : pc'[v] = "setDone" /\ verdict'[v] => JobFinished'
    <3> SUFFICES ASSUME NEW v \in Worker, pc'[v] = "setDone", verdict'[v] PROVE JobFinished'
      BY Zenon
    <3> HIDE DEF JobFinished
    <3>1. CASE v = w
      BY <2>1, <2>4, <3>1, ZenonT(30) DEF FlagsOK
    <3>2. CASE v # w
      BY <2>1, <2>5, <3>2, SMTT(60) DEF FlagsOK, WorkOK
    <3> QED
      BY <3>1, <3>2, Zenon
  <2> HIDE DEF JobFinished
  <2> QED
    BY <2>1, <2>5, <2>6, <2>7, <2>8, ZenonT(60)
<1>5. ASSUME NEW w \in Worker, setDone(w) PROVE DoneInv'
  <2>1. /\ pc[w] = "setDone" /\ done' = verdict[w]
        /\ \E l \in {"find", "down"} : pc' = [pc EXCEPT ![w] = l]
        /\ UNCHANGED <<finished, out, task, verdict>>
    BY <1>5, ZenonT(60) DEF setDone, Goto, Answer, workVars
  <2> QED
    BY <2>1, ZenonT(30) DEF WorkOK, FlagsOK
<1>6. ASSUME NEW w \in Worker, encodeKV(w) PROVE DoneInv'
  <2>1. /\ pc[w] = "write" /\ UNCHANGED <<finished, done, out, task, verdict>>
        /\ \E l \in {"finish", "write"} : pc' = [pc EXCEPT ![w] = l]
    BY <1>6, ZenonT(60) DEF encodeKV, Goto, coordinatorVars
  <2>2. task[w].kind = "map"
    BY <2>1, Zenon DEF PositionOK
  <2> QED
    BY <2>1, <2>2 DEF WorkOK
<1>7. ASSUME NEW w \in Worker, reduce(w) PROVE DoneInv'
  <2>1. /\ pc[w] = "reduce" /\ pc' = [pc EXCEPT ![w] = "finish"]
        /\ UNCHANGED <<finished, done, task, verdict>>
        /\ \E v \in {"complete", "partial"} : out' = [out EXCEPT ![task[w].id] = v]
    BY <1>7, ZenonT(60) DEF reduce, Goto, coordinatorVars, workVars
  <2>2. task[w].kind = "reduce" /\ task[w].id \in Ids("reduce")
    BY <2>1 DEF PositionOK, WorkOK
  <2>3. out'[task[w].id] # "none" /\ \A p \in Ids("reduce") : out[p] # "none" => out'[p] # "none"
    BY <2>1, <2>2, Zenon DEF FilesOK
  <2>4. \A p \in finished'["reduce"] : out'[p] # "none"
    BY <2>1, <2>3, SMTT(60) DEF TasksOK, Kind
  <2>5. \A v \in Worker : pc'[v] \in {"finish", "setDone"} /\ task'[v].kind = "reduce"
              => out'[task'[v].id] # "none"
    BY <2>1, <2>2, <2>3, ZenonT(60) DEF WorkOK
  <2> QED
    BY <2>1, <2>4, <2>5 DEF WorkOK
<1>8. ASSUME NEW kind \in Kind, NEW id \in Ids(kind), resetTask(kind, id)
      PROVE  UNCHANGED <<finished, done, out, pc, task, verdict>>
  BY <1>8, Zenon DEF resetTask, workVars
<1>9. CASE Done
  BY <1>1, <1>9 DEF Done, coordinatorVars, workVars
<1> QED
  BY <1>1, <1>2, <1>3, <1>4, <1>5, <1>6, <1>7, <1>8, <1>9, ZenonT(60)
     DEF Next, Step, Kind, vars, coordinatorVars, workVars

-----------------------------------------------------------------------------
(* Theorems.                                                               *)

\* Inv holds in every state of the job.
LEMMA SpecInv == Spec => []Inv
<1>1. Inv /\ [Next]_vars => Inv'
  <2> SUFFICES ASSUME Inv, [Next]_vars PROVE Inv'
    OBVIOUS
  <2>1. FlagsOK /\ TasksOK /\ WorkOK /\ FilesOK /\ TaskNotLost
    BY TypeParts, SMTT(60) DEF Inv
  <2>2. FlagsOK' /\ TasksOK' /\ TaskNotLost'
    BY <2>1, FlagsNext, TasksNext, SMTT(60)
  <2>3. WorkOK' /\ PositionOK' /\ FilesOK' /\ FilesInv' /\ DoneInv'
    BY WorkNext, FilesNext, DoneNext, SMTT(60)
  <2>4. TypeOK'
    BY <2>2, <2>3, SMTT(60) DEF TypeOK, FlagsOK, TasksOK, WorkOK, FilesOK
  <2> QED
    BY <2>2, <2>3, <2>4, SMTT(60) DEF Inv
<1> QED
  BY InvInit, <1>1, PTL DEF Spec

\* The coordinator's queues, sets and timers hold only tasks of the job, and
\* workers stay within their files.
THEOREM SpecTypeOK == Spec => []TypeOK
<1>1. Inv => TypeOK
  BY SMTT(60) DEF Inv
<1> QED
  BY SpecInv, <1>1, PTL

\* resetTask and the timers GetTask starts: no unfinished task is ever lost,
\* whichever workers die or are slow.
THEOREM SpecTaskNotLost == Spec => []TaskNotLost
<1>1. Inv => TaskNotLost
  BY SMTT(60) DEF Inv
<1> QED
  BY SpecInv, <1>1, PTL

\* findTask decides from counts it reads without a lock, and yet a reducer
\* always finds every intermediate file in readPartition.
THEOREM SpecFilesReady == Spec => []FilesReady
<1>1. Inv => FilesReady
  BY SMTT(60) DEF Inv, FilesInv, FilesReady
<1> QED
  BY SpecInv, <1>1, PTL

\* Done() is true only when every task is finished and has its output,
\* although completeTask computes it with one of the two locks.
THEOREM SpecDoneMeansFinished == Spec => []DoneMeansFinished
<1>1. Inv => DoneMeansFinished
  BY DEF Inv, DoneInv, DoneMeansFinished, JobFinished, Kind
<1> QED
  BY SpecInv, <1>1, PTL
-----------------------------------------------------------------------------
(* When no worker is slow: one worker at a time has a task, and what it    *)
(* writes stays.                                                           *)

\* Worker w, or the handler of its last call, still has the task.
Works(w, kind, id) ==
    /\ pc[w] \in {"map", "write", "reduce", "finish", "setDone"}
    /\ task[w] = [kind |-> kind, id |-> id]

\* A task is in its queue once or not at all, or it is watched by one timer, or
\* finished; who works on it is alone, and a task that is finished is not
\* worked on.
OwnerOf(kind, id) ==
    /\ timer[kind][id] \in {0, 1}
    /\ timer[kind][id] = 1 \/ id \in finished[kind] => id \notin Range(queue[kind])
    /\ \A w \in Worker : Works(w, kind, id) =>
          /\ timer[kind][id] = 1
          /\ id \in finished[kind] => pc[w] = "setDone"
          /\ \A v \in Worker : Works(v, kind, id) => v = w

OneOwner ==
    \A kind \in Kind : /\ IsInjective(queue[kind])
                       /\ \A id \in Ids(kind) : OwnerOf(kind, id)

\* The intermediate files hold what was written so far, those of finished
\* tasks everything; a reducer has read all there is.
ContentsOK ==
    /\ \A m \in finished["map"] : file[m] = 1 .. NRecord
    /\ \A w \in Worker :
          /\ pc[w] = "map" => position[w] = 0
          /\ pc[w] = "write" => file[task[w].id] = 1 .. position[w]
          /\ pc[w] \in {"finish", "setDone"} /\ task[w].kind = "map"
                => file[task[w].id] = 1 .. NRecord
          /\ pc[w] = "reduce" => readAll[w]
    /\ \A p \in Ids("reduce") : out[p] # "partial"
    /\ exited => done

\* popLast leaves no second copy of the task that it takes.
LEMMA FrontInjective ==
    ASSUME NEW q \in Seq(Nat), q # <<>>, IsInjective(q)
    PROVE  IsInjective(allButLast(q)) /\ last(q) \notin Range(allButLast(q))
<1>1. Len(q) \in Nat \ {0} /\ DOMAIN q = 1 .. Len(q)
  OBVIOUS
<1>2. /\ DOMAIN allButLast(q) = 1 .. Len(q) - 1
      /\ \A k \in 1 .. Len(q) - 1 : allButLast(q)[k] = q[k]
  BY <1>1 DEF allButLast
<1>3. \A n \in Nat \ {0} : n \in 1 .. n /\ \A k \in 1 .. n - 1 : k \in 1 .. n /\ k # n
  OBVIOUS
<1>4. Len(q) \in DOMAIN q /\ \A k \in 1 .. Len(q) - 1 : k \in DOMAIN q /\ k # Len(q)
  BY <1>1, <1>3, Zenon
<1> QED
  BY <1>2, <1>4, ZenonT(60) DEF IsInjective, Range, last

\* resetTask adds a task that is not in the queue.
LEMMA AppendInjective ==
    ASSUME NEW q \in Seq(Nat), NEW x \in Nat, IsInjective(q), x \notin Range(q)
    PROVE  IsInjective(Append(q, x))
<1>1. Append(q, x) \in Seq(Nat) /\ Len(Append(q, x)) = Len(q) + 1 /\ Len(q) \in Nat
  OBVIOUS
<1>2. \A k \in 1 .. Len(q) : Append(q, x)[k] = q[k]
  OBVIOUS
<1>3. Append(q, x)[Len(q) + 1] = x
  OBVIOUS
<1>4. DOMAIN Append(q, x) = 1 .. Len(q) + 1 /\ DOMAIN q = 1 .. Len(q)
  BY <1>1
<1>5. \A n \in Nat : \A k \in 1 .. n + 1 : k = n + 1 \/ k \in 1 .. n
  OBVIOUS
<1>6. \A k \in DOMAIN Append(q, x) : k = Len(q) + 1 \/ k \in DOMAIN q
  BY <1>1, <1>4, <1>5, Zenon
<1> QED
  BY <1>2, <1>3, <1>4, <1>6, ZenonT(60) DEF IsInjective, Range

\* At the start every task is in its queue, once, and nobody has one.
LEMMA OwnerInit == Init => OneOwner /\ ContentsOK
<1> SUFFICES ASSUME Init PROVE OneOwner /\ ContentsOK
  OBVIOUS
<1>1. /\ queue = [kind \in Kind |-> makeRange(IF kind = "map" THEN NMap ELSE NReduce)]
      /\ finished = [kind \in Kind |-> {}]
      /\ timer = [kind \in Kind |-> [id \in Ids(kind) |-> 0]]
      /\ pc = [w \in Worker |-> "find"] /\ exited = FALSE
      /\ out = [p \in Ids("reduce") |-> "none"]
  BY Zenon DEF Init, MakeCoordinator
<1>2. \A n : IsInjective(makeRange(n))
  BY DEF IsInjective, makeRange
<1>3. \A kind \in Kind : IsInjective(queue[kind])
  BY <1>1, <1>2, Zenon
<1>4. ASSUME NEW kind \in Kind, NEW id \in Ids(kind) PROVE OwnerOf(kind, id)
  <2>1. timer[kind][id] = 0 /\ finished[kind] = {} /\ \A w \in Worker : pc[w] = "find"
    BY <1>1, Zenon
  <2>2. 0 # 1
    OBVIOUS
  <2> QED
    BY <2>1, <2>2, Zenon DEF OwnerOf, Works
<1>5. ContentsOK
  BY <1>1, Zenon DEF ContentsOK, Kind
<1> QED
  BY <1>3, <1>4, <1>5, Zenon DEF OneOwner

\* A step that hands out no task, takes none back and finishes none leaves
\* the tasks with those that have them.
LEMMA OwnerKept ==
    ASSUME OneOwner, UNCHANGED <<queue, finished, timer, task>>,
           \A w \in Worker :
              pc'[w] \in {"map", "write", "reduce", "finish", "setDone"} =>
                 /\ pc[w] \in {"map", "write", "reduce", "finish", "setDone"}
                 /\ pc[w] = "setDone" => pc'[w] = "setDone"
    PROVE  OneOwner'
<1>1. \A kind, id : \A w \in Worker :
         Works(w, kind, id)' => /\ Works(w, kind, id)
                                /\ pc[w] = "setDone" => pc'[w] = "setDone"
  BY ZenonT(60) DEF Works
<1>2. ASSUME NEW kind \in Kind, NEW id \in Ids(kind) PROVE OwnerOf(kind, id)'
  <2>1. OwnerOf(kind, id)
    BY Zenon DEF OneOwner
  <2> QED
    BY <1>1, <2>1, ZenonT(60) DEF OwnerOf
<1> QED
  BY <1>2, ZenonT(60) DEF OneOwner

\* A task that popLast hands out was in its queue: nobody else has it.
LEMMA OwnerPop ==
    ASSUME TasksOK, WorkOK, OneOwner, NEW w \in Worker, NEW kind \in Kind,
           popLast(w, kind), queue[kind] # <<>>
    PROVE  OneOwner'
<1> DEFINE q == queue[kind]
<1>0. PICK x : x = last(q)
  OBVIOUS
<1> DEFINE new == [kind |-> kind, id |-> x]
<1>1. /\ queue' = [queue EXCEPT ![kind] = allButLast(q)]
      /\ timer' = [timer EXCEPT ![kind][x] = @ + 1]
      /\ task' = [task EXCEPT ![w] = new]
      /\ finished' = finished
      /\ \E l \in {kind, "down"} : pc' = [pc EXCEPT ![w] = l]
  BY <1>0, ZenonT(60) DEF popLast, startTimer, Goto, Answer
<1>2. /\ q \in Seq(Nat) /\ IsInjective(q) /\ Range(q) \subseteq Ids(kind)
      /\ DOMAIN queue = Kind /\ DOMAIN timer = Kind /\ DOMAIN timer[kind] = Ids(kind)
      /\ DOMAIN task = Worker /\ DOMAIN pc = Worker
  BY ZenonT(60) DEF TasksOK, WorkOK, OneOwner
<1>3. /\ x \in Range(q) /\ Range(allButLast(q)) \subseteq Range(q)
      /\ IsInjective(allButLast(q)) /\ x \notin Range(allButLast(q))
  BY <1>0, <1>2, FrontOfQueue, FrontInjective, Zenon
<1>4. \A k \in Kind : queue'[k] = IF k = kind THEN allButLast(q) ELSE queue[k]
  BY <1>1, <1>2, Zenon
<1>5. ASSUME NEW k \in Kind PROVE IsInjective(queue'[k])
  BY <1>3, <1>4, Zenon DEF OneOwner
<1>6. OwnerOf(kind, x)
  BY <1>2, <1>3, Zenon DEF OneOwner
<1>7. \A v \in Worker : ~Works(v, kind, x)
  BY <1>3, <1>6, Zenon DEF OwnerOf
<1>8. timer[kind][x] = 0
  BY <1>3, <1>6, Zenon DEF OwnerOf
<1>9. \A v \in Worker : Works(v, kind, x)' => v = w /\ pc'[v] # "setDone"
  <2>1. \A v \in Worker \ {w} : pc'[v] = pc[v] /\ task'[v] = task[v]
    BY <1>1, <1>2, Zenon
  <2>2. \A v \in Worker \ {w} : ~Works(v, kind, x)'
    BY <1>7, <2>1, Zenon DEF Works
  <2>3. pc'[w] # "setDone"
    BY <1>1, <1>2, Zenon DEF Kind
  <2> QED
    BY <2>2, <2>3, Zenon
<1>10. OwnerOf(kind, x)'
  <2>1. timer'[kind][x] = 1
    BY <1>1, <1>2, <1>3, <1>8
  <2>2. x \notin finished'[kind] /\ x \notin Range(queue'[kind])
    BY <1>1, <1>3, <1>4, <1>6, Zenon DEF OwnerOf
  <2> QED
    BY <1>9, <2>1, <2>2, ZenonT(60) DEF OwnerOf
<1>11. ASSUME NEW k \in Kind, NEW id \in Ids(k), k # kind \/ id # x PROVE OwnerOf(k, id)'
  <2>1. OwnerOf(k, id)
    BY Zenon DEF OneOwner
  <2>2. timer'[k][id] = timer[k][id]
    BY <1>1, <1>2, <1>11
  <2>3. Range(queue'[k]) \subseteq Range(queue[k])
    BY <1>3, <1>4, ZenonT(30)
  <2>4. new # [kind |-> k, id |-> id]
    BY <1>11
  <2>5. \A v \in Worker : Works(v, k, id)' => Works(v, k, id) /\ pc'[v] = pc[v]
    <3>1. task'[w] = new
      BY <1>1, <1>2, Zenon
    <3>2. \A v \in Worker \ {w} : pc'[v] = pc[v] /\ task'[v] = task[v]
      BY <1>1, <1>2, Zenon
    <3> HIDE DEF new
    <3> QED
      BY <2>4, <3>1, <3>2, ZenonT(60) DEF Works
  <2> QED
    BY <1>1, <2>1, <2>2, <2>3, <2>5, ZenonT(60) DEF OwnerOf
<1> QED
  BY <1>5, <1>10, <1>11, ZenonT(60) DEF OneOwner

\* A task that resetTask puts back is one that nobody has: its timer expires
\* only after its worker is done or dead.
LEMMA OwnerReset ==
    ASSUME ~Slow, TasksOK, OneOwner, NEW kind \in Kind, NEW x \in Ids(kind),
           resetTask(kind, x)
    PROVE  OneOwner'
<1> DEFINE q == queue[kind]
<1>1. /\ queue' = IF x \in finished[kind] THEN queue ELSE [queue EXCEPT ![kind] = Append(q, x)]
      /\ timer' = [timer EXCEPT ![kind][x] = @ - 1]
      /\ UNCHANGED <<finished, pc, task>>
      /\ timer[kind][x] > 0 /\ ~Busy(kind, x)
  BY ZenonT(60) DEF resetTask, workVars
<1>2. /\ q \in Seq(Nat) /\ IsInjective(q) /\ DOMAIN queue = Kind
      /\ DOMAIN timer = Kind /\ DOMAIN timer[kind] = Ids(kind) /\ OwnerOf(kind, x)
  BY ZenonT(60) DEF TasksOK, OneOwner
<1>3. x \in Nat
  BY JobAssumption DEF Ids
<1>4. timer[kind][x] = 1 /\ x \notin Range(q)
  <2>1. 0 > 0 <=> FALSE
    OBVIOUS
  <2> QED
    BY <1>1, <1>2, <2>1, Zenon DEF OwnerOf
<1>5. \A v \in Worker : ~Works(v, kind, x)
  BY <1>1, Zenon DEF Busy, Works
<1>6. \A v \in Worker : \A k, id : Works(v, k, id)' <=> Works(v, k, id)
  BY <1>1, Zenon DEF Works
<1>7. IsInjective(Append(q, x)) /\ Range(Append(q, x)) = Range(q) \cup {x}
  BY <1>2, <1>3, <1>4, AppendInjective, AppendToQueue, Zenon
<1>8. \A k \in Kind : \/ queue'[k] = queue[k]
                      \/ k = kind /\ queue'[k] = Append(q, x) /\ x \notin finished[kind]
  BY <1>1, <1>2, ZenonT(60)
<1>9. ASSUME NEW k \in Kind PROVE IsInjective(queue'[k])
  BY <1>7, <1>8, Zenon DEF OneOwner
<1>10. OwnerOf(kind, x)'
  <2>1. timer'[kind][x] = 0
    BY <1>1, <1>2, <1>4
  <2>2. 0 # 1
    OBVIOUS
  <2>3. x \in finished'[kind] => x \notin Range(queue'[kind])
    BY <1>1, <1>4, <1>8, Zenon
  <2> QED
    BY <1>5, <1>6, <2>1, <2>2, <2>3, ZenonT(60) DEF OwnerOf
<1>11. ASSUME NEW k \in Kind, NEW id \in Ids(k), k # kind \/ id # x PROVE OwnerOf(k, id)'
  <2>1. OwnerOf(k, id)
    BY Zenon DEF OneOwner
  <2>2. timer'[k][id] = timer[k][id]
    BY <1>1, <1>2, <1>11
  <2>3. id \in Range(queue'[k]) => id \in Range(queue[k])
    <3>1. CASE queue'[k] = queue[k]
      BY <3>1, Zenon
    <3>2. CASE k = kind /\ queue'[k] = Append(q, x)
      <4>1. Range(queue'[k]) = Range(queue[k]) \cup {x} /\ id # x
        BY <1>7, <1>11, <3>2, Zenon
      <4> QED
        BY <4>1, Zenon
    <3> QED
      BY <1>8, <3>1, <3>2, Zenon
  <2> QED
    BY <1>1, <1>6, <2>1, <2>2, <2>3, ZenonT(60) DEF OwnerOf
<1> QED
  BY <1>9, <1>10, <1>11, ZenonT(60) DEF OneOwner

\* completeTask finishes a task that is not in its queue, and of which nobody
\* else has a part.
LEMMA OwnerComplete ==
    ASSUME TasksOK, WorkOK, OneOwner, NEW w \in Worker, completeTask(w)
    PROVE  OneOwner'
<1> DEFINE kind == task[w].kind
           x == task[w].id
<1>1. /\ finished' = [finished EXCEPT ![kind] = @ \cup {x}]
      /\ pc[w] = "finish" /\ pc' = [pc EXCEPT ![w] = "setDone"]
      /\ UNCHANGED <<queue, timer, task>>
  BY ZenonT(60) DEF completeTask, Goto, workVars
<1>2. /\ kind \in Kind /\ x \in Ids(kind) /\ task[w] = [kind |-> kind, id |-> x]
      /\ DOMAIN finished = Kind /\ DOMAIN pc = Worker
  BY SMTT(60) DEF TasksOK, WorkOK, Task
<1>3. OwnerOf(kind, x) /\ Works(w, kind, x)
  BY <1>1, <1>2, Zenon DEF OneOwner, Works
<1>4. \A v \in Worker : pc'[v] = IF v = w THEN "setDone" ELSE pc[v]
  BY <1>1, <1>2, Zenon
<1>5. \A v \in Worker : \A k, id : Works(v, k, id)' <=> Works(v, k, id)
  BY <1>1, <1>4, ZenonT(60) DEF Works
<1>6. ASSUME NEW k \in Kind, NEW id \in Ids(k) PROVE OwnerOf(k, id)'
  <2>1. OwnerOf(k, id)
    BY Zenon DEF OneOwner
  <2>2. id \in finished'[k] => id \in finished[k] \/ (k = kind /\ id = x)
    BY <1>1, <1>2, ZenonT(60)
  <2>3. CASE k = kind /\ id = x
    <3>1. id \notin Range(queue'[k])
      BY <1>1, <1>3, <2>3, Zenon DEF OwnerOf
    <3>2. \A v \in Worker : Works(v, k, id)' => pc'[v] = "setDone"
      BY <1>3, <1>4, <1>5, <2>3, Zenon DEF OwnerOf
    <3> QED
      BY <1>1, <1>5, <2>1, <3>1, <3>2, ZenonT(60) DEF OwnerOf
  <2>4. CASE ~(k = kind /\ id = x)
    BY <1>1, <1>4, <1>5, <2>1, <2>2, <2>4, ZenonT(60) DEF OwnerOf
  <2> QED
    BY <2>3, <2>4, Zenon
<1> QED
  BY <1>1, <1>6, ZenonT(60) DEF OneOwner

\* Every step keeps one owner for each task.
LEMMA OwnerNext ==
    ASSUME ~Slow, TasksOK, WorkOK, OneOwner, [Next]_vars
    PROVE  OneOwner'
<1> DEFINE Has == {"map", "write", "reduce", "finish", "setDone"}
           Kept == /\ UNCHANGED <<queue, finished, timer, task>>
                   /\ \A w \in Worker : pc'[w] \in Has =>
                         pc[w] \in Has /\ (pc[w] = "setDone" => pc'[w] = "setDone")
<1>1. ASSUME Kept PROVE OneOwner'
  BY <1>1, OwnerKept, Zenon
<1>2. ASSUME NEW w \in Worker, UNCHANGED <<queue, finished, timer, task>>,
             \/ UNCHANGED pc
             \/ \E l \in {"find", "popMap", "popReduce", "exit", "down"} :
                   pc' = [pc EXCEPT ![w] = l]
             \/ /\ pc[w] \in {"map", "write", "reduce"}
                /\ \E l \in {"write", "finish"} : pc' = [pc EXCEPT ![w] = l]
      PROVE  Kept
  <2>1. DOMAIN pc = Worker
    BY Zenon DEF WorkOK
  <2> QED
    BY <1>2, <2>1, SMTT(60)
<1>3. ASSUME NEW w \in Worker, findTask(w) \/ setDone(w) \/ call(w) PROVE Kept
  BY <1>2, <1>3, ZenonT(60) DEF findTask, setDone, call, Goto, Answer, coordinatorVars, workVars
<1>4. ASSUME NEW w \in Worker, mapFile(w) \/ encodeKV(w) \/ reduce(w) PROVE Kept
  BY <1>2, <1>4, ZenonT(60) DEF mapFile, encodeKV, reduce, Goto, coordinatorVars, workVars
<1>5. ASSUME NEW w \in Worker, readPartition(w) \/ Crash(w) \/ Restart(w) PROVE Kept
  BY <1>2, <1>5, ZenonT(60) DEF readPartition, Crash, Restart, Goto, coordinatorVars, workVars
<1>6. ASSUME NEW w \in Worker, NEW kind \in Kind, popLast(w, kind), queue[kind] = <<>>
      PROVE  Kept
  BY <1>2, <1>6, ZenonT(60) DEF popLast, Goto, coordinatorVars, workVars
<1>7. ASSUME UNCHANGED vars \/ Done PROVE Kept
  BY <1>7, ZenonT(60) DEF Done, vars, coordinatorVars, workVars
<1> HIDE DEF Kept
<1>8. ASSUME NEW w \in Worker, Step(w) \/ Crash(w) \/ Restart(w) PROVE OneOwner'
  <2>1. ASSUME NEW kind \in Kind, popLast(w, kind) PROVE OneOwner'
    BY <1>1, <1>6, <2>1, OwnerPop, Zenon
  <2> QED
    BY <1>1, <1>3, <1>4, <1>5, <1>8, <2>1, OwnerComplete, ZenonT(60) DEF Step, Kind
<1> QED
  BY <1>1, <1>7, <1>8, OwnerReset, ZenonT(60) DEF Next

\* What map tasks write stays as it is, because their workers are alone with
\* their files; reducers read them when they are complete.
LEMMA ContentsNext ==
    ASSUME Inv, OneOwner, ContentsOK, [Next]_vars
    PROVE  ContentsOK'
<1>1. FlagsOK /\ TasksOK /\ WorkOK /\ FilesOK
  BY TypeParts, Zenon DEF Inv
<1>2. /\ DOMAIN pc = Worker /\ DOMAIN task = Worker /\ DOMAIN position = Worker
      /\ DOMAIN readAll = Worker /\ DOMAIN out = Ids("reduce")
  BY <1>1, ZenonT(60) DEF WorkOK, FlagsOK, FilesOK
<1>3. CASE UNCHANGED <<finished, file, out, pc, task, position, readAll, exited, done>>
  BY <1>3, ZenonT(60) DEF ContentsOK
<1>4. ASSUME NEW w \in Worker, UNCHANGED <<finished, file, out, task, position, readAll>>,
             \E l \in {"find", "popMap", "popReduce", "exit", "down"} :
                 pc' = [pc EXCEPT ![w] = l],
             UNCHANGED exited, UNCHANGED done \/ ~exited
      PROVE  ContentsOK'
  <2>1. \A v \in Worker : pc'[v] \in {"map", "write", "finish", "setDone", "reduce"}
                             => pc'[v] = pc[v]
    BY <1>2, <1>4, SMTT(60)
  <2> QED
    BY <1>4, <2>1, SMTT(60) DEF ContentsOK
<1>5. ASSUME NEW w \in Worker, findTask(w) \/ setDone(w) \/ call(w) \/ Restart(w)
      PROVE  ContentsOK'
  BY <1>4, <1>5, ZenonT(60) DEF findTask, setDone, call, Restart, Goto, Answer,
     coordinatorVars, workVars
<1>6. ASSUME NEW w \in Worker, Crash(w) PROVE ContentsOK'
  BY <1>3, <1>4, <1>6, ZenonT(60) DEF Crash, Goto, coordinatorVars, workVars
<1>7. ASSUME NEW w \in Worker, NEW kind \in Kind, popLast(w, kind) PROVE ContentsOK'
  <2>1. CASE queue[kind] = <<>>
    BY <1>4, <1>7, <2>1, ZenonT(60) DEF popLast, Goto, coordinatorVars, workVars
  <2>2. CASE queue[kind] # <<>>
    <3>1. /\ UNCHANGED <<finished, file, out, exited, done>>
          /\ \E l \in {kind, "down"} : pc' = [pc EXCEPT ![w] = l]
          /\ position' = [position EXCEPT ![w] = 0]
          /\ readAll' = [readAll EXCEPT ![w] = TRUE]
          /\ \E t : task' = [task EXCEPT ![w] = t]
      BY <1>7, <2>2, ZenonT(60) DEF popLast, Goto, Answer
    <3>2. \A v \in Worker \ {w} : /\ pc'[v] = pc[v] /\ task'[v] = task[v]
                                  /\ position'[v] = position[v] /\ readAll'[v] = readAll[v]
      BY <1>2, <3>1, Zenon
    <3>3. position'[w] = 0 /\ readAll'[w] /\ pc'[w] \in {"map", "reduce", "down"}
      BY <1>2, <3>1, Zenon DEF Kind
    <3> QED
      BY <3>1, <3>2, <3>3, SMTT(60) DEF ContentsOK
  <2> QED
    BY <2>1, <2>2, Zenon
<1>8. ASSUME NEW w \in Worker, completeTask(w) PROVE ContentsOK'
  <2>1. /\ UNCHANGED <<file, out, exited, done, task, position, readAll>>
        /\ pc[w] = "finish" /\ pc' = [pc EXCEPT ![w] = "setDone"]
        /\ finished' = [finished EXCEPT ![task[w].kind] = @ \cup {task[w].id}]
    BY <1>8, ZenonT(60) DEF completeTask, Goto, workVars
  <2>2. \A v \in Worker : pc'[v] = IF v = w THEN "setDone" ELSE pc[v]
    BY <1>2, <2>1, Zenon
  <2>3. ASSUME NEW m \in finished'["map"]
        PROVE  m \in finished["map"] \/ (task[w].kind = "map" /\ m = task[w].id)
    <3>1. "map" \in DOMAIN finished
      BY <1>1, Zenon DEF TasksOK, Kind
    <3> QED
      BY <2>1, <2>3, <3>1, ZenonT(60)
  <2>4. \A m \in finished'["map"] : file'[m] = 1 .. NRecord
    BY <2>1, <2>3, ZenonT(60) DEF ContentsOK
  <2>5. ASSUME NEW v \in Worker
        PROVE  /\ pc'[v] = "map" => position'[v] = 0
               /\ pc'[v] = "write" => file'[task'[v].id] = 1 .. position'[v]
               /\ pc'[v] \in {"finish", "setDone"} /\ task'[v].kind = "map"
                     => file'[task'[v].id] = 1 .. NRecord
               /\ pc'[v] = "reduce" => readAll'[v]
    <3>1. (pc[v] = "finish" /\ pc'[v] = "setDone") \/ pc'[v] = pc[v]
      BY <2>1, <2>2, Zenon
    <3> QED
      BY <2>1, <3>1, ZenonT(60) DEF ContentsOK
  <2> QED
    BY <2>1, <2>4, <2>5, ZenonT(60) DEF ContentsOK
<1>9. ASSUME NEW w \in Worker, pc[w] \in {"map", "write"}
      PROVE  /\ task[w].kind = "map" /\ task[w].id \in Ids("map")
             /\ task[w].id \notin finished["map"]
             /\ \A v \in Worker : /\ pc[v] \in {"map", "write", "finish", "setDone"}
                                  /\ task[v].kind = "map" /\ task[v].id = task[w].id
                                  => v = w
             /\ \A v \in Worker : pc[v] \in {"map", "write"} => task[v].kind = "map"
  <2>1. \A v \in Worker : pc[v] \in {"map", "write"} => task[v].kind = "map"
    BY Zenon DEF Inv, PositionOK
  <2>2. task[w].kind = "map" /\ task[w].id \in Ids("map")
    BY <1>1, <1>9, <2>1, ZenonT(60) DEF WorkOK
  <2>3. \A v \in Worker : task[v] = [kind |-> task[v].kind, id |-> task[v].id]
    BY <1>1, SMTT(60) DEF WorkOK, Task
  <2>4. OwnerOf("map", task[w].id)
    BY <2>2, Zenon DEF OneOwner, Kind
  <2>5. Works(w, "map", task[w].id)
    <3>1. task[w] = [kind |-> task[w].kind, id |-> task[w].id]
      BY <2>3, Zenon
    <3> QED
      BY <1>9, <2>2, <3>1, Zenon DEF Works
  <2>6. task[w].id \notin finished["map"]
    BY <1>9, <2>4, <2>5, Zenon DEF OwnerOf
  <2>7. ASSUME NEW v \in Worker, pc[v] \in {"map", "write", "finish", "setDone"},
               task[v].kind = "map", task[v].id = task[w].id
        PROVE  v = w
    <3>1. task[v] = [kind |-> task[v].kind, id |-> task[v].id]
      BY <2>3, Zenon
    <3>2. Works(v, "map", task[w].id)
      BY <2>7, <3>1, Zenon DEF Works
    <3> QED
      BY <2>4, <2>5, <3>2, Zenon DEF OwnerOf
  <2> QED
    BY <2>1, <2>2, <2>6, <2>7, Zenon
<1>10. ASSUME NEW w \in Worker, pc[w] \in {"map", "write"},
              UNCHANGED <<finished, out, task, readAll, exited, done>>,
              \A m \in DOMAIN file \ {task[w].id} : file'[m] = file[m],
              \A v \in Worker \ {w} : pc'[v] = pc[v] /\ position'[v] = position[v],
              \/ pc'[w] = "write" /\ file'[task[w].id] = 1 .. position'[w]
              \/ pc'[w] = "finish" /\ file'[task[w].id] = 1 .. NRecord
       PROVE  ContentsOK'
  <2>1. ASSUME NEW m \in finished'["map"] PROVE file'[m] = 1 .. NRecord
    <3>1. m \in DOMAIN file \ {task[w].id} /\ m \in finished["map"]
      BY <1>9, <1>10, <2>1, ZenonT(60) DEF Inv, FilesInv
    <3> QED
      BY <1>10, <3>1, Zenon DEF ContentsOK
  <2>2. ASSUME NEW v \in Worker \ {w}, pc[v] \in {"write", "finish", "setDone"},
               task[v].kind = "map"
        PROVE  file'[task[v].id] = file[task[v].id]
    <3>1. task[v].id # task[w].id
      BY <1>9, <1>10, <2>2, ZenonT(60)
    <3>2. task[v].id \in DOMAIN file
      BY <2>2, ZenonT(60) DEF Inv, FilesInv
    <3> QED
      BY <1>10, <3>1, <3>2, Zenon
  <2>3. ASSUME NEW v \in Worker
        PROVE  /\ pc'[v] = "map" => position'[v] = 0
               /\ pc'[v] = "write" => file'[task'[v].id] = 1 .. position'[v]
               /\ pc'[v] \in {"finish", "setDone"} /\ task'[v].kind = "map"
                     => file'[task'[v].id] = 1 .. NRecord
               /\ pc'[v] = "reduce" => readAll'[v]
    <3>1. CASE v = w
      BY <1>10, <3>1, ZenonT(60)
    <3>2. CASE v # w
      <4>1. pc'[v] = pc[v] /\ position'[v] = position[v] /\ task'[v] = task[v]
            /\ readAll'[v] = readAll[v]
        BY <1>10, <3>2, Zenon
      <4>2. pc[v] = "write" => task[v].kind = "map"
        BY Zenon DEF Inv, PositionOK
      <4> QED
        BY <2>2, <3>2, <4>1, <4>2, SMTT(60) DEF ContentsOK
    <3> QED
      BY <3>1, <3>2, Zenon
  <2> QED
    BY <1>10, <2>1, <2>3, ZenonT(60) DEF ContentsOK
<1>11. ASSUME NEW w \in Worker, mapFile(w) PROVE ContentsOK'
  <2>1. /\ UNCHANGED <<finished, out, task, position, readAll, exited, done>>
        /\ pc[w] = "map" /\ pc' = [pc EXCEPT ![w] = "write"]
        /\ file' = [m \in DOMAIN file \cup {task[w].id} |->
                       IF m = task[w].id THEN {} ELSE file[m]]
    BY <1>11, ZenonT(60) DEF mapFile, Goto, coordinatorVars, workVars
  <2>2. pc'[w] = "write" /\ \A v \in Worker \ {w} : pc'[v] = pc[v]
    BY <1>2, <2>1, Zenon
  <2>3. /\ \A m \in DOMAIN file \ {task[w].id} : file'[m] = file[m]
        /\ file'[task[w].id] = {}
    BY <2>1, ZenonT(60)
  <2>4. position'[w] = 0
    BY <2>1, Zenon DEF ContentsOK
  <2>5. 1 .. 0 = {}
    OBVIOUS
  <2> QED
    BY <1>10, <2>1, <2>2, <2>3, <2>4, <2>5, ZenonT(60)
<1>12. ASSUME NEW w \in Worker, encodeKV(w) PROVE ContentsOK'
  <2> DEFINE p == position[w] + 1
  <2>1. /\ UNCHANGED <<finished, out, task, readAll, exited, done>>
        /\ pc[w] = "write" /\ pc' = [pc EXCEPT ![w] = IF p = NRecord THEN "finish" ELSE "write"]
        /\ position' = [position EXCEPT ![w] = p]
        /\ file' = [file EXCEPT ![task[w].id] = @ \cup {p}]
    BY <1>12, ZenonT(60) DEF encodeKV, Goto, coordinatorVars
  <2>2. position[w] \in Nat
    BY <1>1, JobAssumption DEF WorkOK
  <2>3. \A n \in Nat : (1 .. n) \cup {n + 1} = 1 .. n + 1
    OBVIOUS
  <2>4. task[w].id \in DOMAIN file /\ file[task[w].id] = 1 .. position[w]
    <3>1. task[w].kind = "map"
      BY <1>9, <2>1, Zenon
    <3> QED
      BY <2>1, <3>1, ZenonT(60) DEF Inv, FilesInv, ContentsOK
  <2>5. /\ \A m \in DOMAIN file \ {task[w].id} : file'[m] = file[m]
        /\ file'[task[w].id] = 1 .. p
    BY <2>1, <2>2, <2>3, <2>4, ZenonT(60)
  <2> HIDE DEF p
  <2>6. /\ \A v \in Worker \ {w} : pc'[v] = pc[v] /\ position'[v] = position[v]
        /\ position'[w] = p
        /\ (pc'[w] = "finish" /\ p = NRecord) \/ pc'[w] = "write"
    BY <1>2, <2>1, ZenonT(60)
  <2> QED
    BY <1>10, <2>1, <2>5, <2>6, ZenonT(60)
<1>13. ASSUME NEW w \in Worker, readPartition(w) PROVE ContentsOK'
  <2> DEFINE m == position[w]
  <2>1. pc[w] = "reduce" /\ m < NMap
    BY <1>13, Zenon DEF readPartition
  <2>2. m \in finished["map"] /\ m \in DOMAIN file
    <3>1. m \in Ids("map")
      BY <1>1, <2>1, JobAssumption DEF WorkOK, Ids
    <3> QED
      BY <2>1, <3>1, Zenon DEF Inv, FilesInv
  <2>3. file[m] = 1 .. NRecord /\ readAll[w]
    BY <2>1, <2>2, Zenon DEF ContentsOK
  <2>4. /\ UNCHANGED <<finished, file, out, pc, task, exited, done>>
        /\ readAll' = [readAll EXCEPT ![w] = readAll[w] /\ file[m] = 1 .. NRecord]
        /\ position' = [position EXCEPT ![w] = m + 1]
    BY <1>13, <2>2, ZenonT(60) DEF readPartition, coordinatorVars
  <2>5. /\ \A v \in Worker : readAll[v] => readAll'[v]
        /\ \A v \in Worker \ {w} : position'[v] = position[v]
    BY <1>2, <2>3, <2>4, ZenonT(60)
  <2>6. pc[w] \notin {"map", "write"}
    BY <2>1, Zenon
  <2> QED
    BY <2>4, <2>5, <2>6, ZenonT(60) DEF ContentsOK
<1>14. ASSUME NEW w \in Worker, reduce(w) PROVE ContentsOK'
  <2>1. /\ UNCHANGED <<finished, file, task, position, readAll, exited, done>>
        /\ pc[w] = "reduce" /\ pc' = [pc EXCEPT ![w] = "finish"]
        /\ out' = [out EXCEPT ![task[w].id] = IF readAll[w] THEN "complete" ELSE "partial"]
    BY <1>14, ZenonT(60) DEF reduce, Goto, coordinatorVars, workVars
  <2>2. readAll[w] /\ task[w].kind = "reduce"
    BY <2>1, ZenonT(60) DEF ContentsOK, Inv, PositionOK
  <2>3. \A p \in Ids("reduce") : out'[p] # "partial"
    BY <1>2, <2>1, <2>2, ZenonT(60) DEF ContentsOK
  <2>4. pc'[w] = "finish" /\ \A v \in Worker \ {w} : pc'[v] = pc[v]
    BY <1>2, <2>1, Zenon
  <2> QED
    BY <2>1, <2>2, <2>3, <2>4, ZenonT(60) DEF ContentsOK
<1>15. ASSUME NEW kind \in Kind, NEW id \in Ids(kind), resetTask(kind, id)
       PROVE  ContentsOK'
  BY <1>3, <1>15, ZenonT(60) DEF resetTask, workVars
<1>16. CASE Done
  BY <1>16, ZenonT(60) DEF Done, coordinatorVars, workVars, ContentsOK
<1>17. CASE UNCHANGED vars
  BY <1>3, <1>17, ZenonT(60) DEF vars, coordinatorVars, workVars
<1> QED
  BY <1>5, <1>6, <1>7, <1>8, <1>11, <1>12, <1>13, <1>14, <1>15, <1>16, <1>17, ZenonT(60)
     DEF Next, Step, Kind

\* When the coordinator ends, every output was made from all that the map
\* tasks emitted, if no timer expires while a worker is still at its task:
\* workers may die at any point, and their tasks are then done again.
THEOREM SpecOutputComplete == ASSUME ~Slow PROVE Spec => []OutputComplete
<1>1. Init => OneOwner /\ ContentsOK
  BY OwnerInit
<1>2. Inv /\ OneOwner /\ ContentsOK /\ [Next]_vars => (OneOwner /\ ContentsOK)'
  <2> SUFFICES ASSUME Inv, OneOwner, ContentsOK, [Next]_vars PROVE (OneOwner /\ ContentsOK)'
    OBVIOUS
  <2>1. TasksOK /\ WorkOK
    BY TypeParts, Zenon DEF Inv
  <2> QED
    BY <2>1, OwnerNext, ContentsNext, Zenon
<1>3. Inv /\ ContentsOK => OutputComplete
  <2> SUFFICES ASSUME Inv, ContentsOK, exited, NEW p \in Ids("reduce")
               PROVE  out[p] = "complete"
    BY Zenon DEF OutputComplete
  <2>1. out[p] \in {"none", "partial", "complete"} /\ out[p] # "partial" /\ done
    BY TypeParts, ZenonT(60) DEF Inv, FilesOK, ContentsOK
  <2>2. out[p] # "none"
    BY <2>1, ZenonT(60) DEF Inv, DoneInv, JobFinished, Kind
  <2> QED
    BY <2>1, <2>2, Zenon
<1> QED
  BY <1>1, <1>2, <1>3, SpecInv, PTL DEF Spec
=============================================================================
