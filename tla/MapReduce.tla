------------------------------ MODULE MapReduce -----------------------------
(***************************************************************************)
(* The MapReduce job of src/mr: the coordinator's RPC handlers and timers, *)
(* and the worker processes with the files they share.  A worker and the   *)
(* handler that serves its call are one process here, but the handler goes *)
(* on when the worker dies.  A step is what happens under one hold of a    *)
(* lock, or one access to shared data outside of it.                       *)
(***************************************************************************)
EXTENDS Integers, Sequences, FiniteSets, Functions

CONSTANTS
    Worker,         \* the worker processes
    NMap, NReduce,  \* the numbers of input files and of partitions
    NRecord,        \* the records in an intermediate file
    Slow,           \* whether 10 s may pass while a worker is still at a task
    MaxAssign,      \* bound: tasks handed out
    MaxCrashes      \* bound: workers that die

ASSUME JobAssumption ==
    /\ NMap \in Nat \ {0} /\ NReduce \in Nat /\ NRecord \in Nat \ {0}
    /\ Slow \in BOOLEAN
    /\ MaxAssign \in Nat /\ MaxCrashes \in Nat

VARIABLES
    queue,          \* mapUnfinished and reduceUnfinished
    finished,       \* mapFinished and reduceFinished
    done, exited,   \* c.done; whether the coordinator process has ended
    timer,          \* for each task, the resetTask goroutines that wait
    pc, alive,      \* where each worker, or its handler, is; does the worker live
    task,           \* the task it was given
    position,       \* how many records it wrote or files it read
    readAll,        \* whether what it read of the files was all there is
    verdict,        \* what completeTask is about to store in done
    file,           \* the intermediate files: the records now in each
    out,            \* the output files
    assigned, crashes

coordinatorVars == <<queue, finished, done, timer, assigned>>
workVars == <<task, position, readAll>>
vars == <<coordinatorVars, exited, pc, alive, workVars, verdict, file, out, crashes>>

Kind == {"map", "reduce"}

Ids(kind) == IF kind = "map" THEN 0 .. NMap - 1 ELSE 0 .. NReduce - 1

Task == [kind : Kind, id : Nat]

\* mapLock and reduceLock: held by completeTask until it has stored done.
Locked(kind) == \E w \in Worker : pc[w] = "setDone" /\ task[w].kind = kind

Goto(w, l) == pc' = [pc EXCEPT ![w] = l]

\* A handler answers: its worker, if it is there, goes to l.
Answer(w, l) == Goto(w, IF alive[w] THEN l ELSE "down")

-----------------------------------------------------------------------------
(* GetTask.                                                                *)

\* Mutant: reduce tasks are handed out as soon as every map task has been.
findTask_AllAssigned(w) ==
    /\ pc[w] = "find" /\ ~exited
    /\ \/ /\ queue["map"] # <<>>
          /\ Goto(w, "popMap")
       \/ /\ queue["map"] = <<>>
          /\ Cardinality(finished["reduce"]) < NReduce
          /\ Goto(w, "popReduce")
       \/ /\ queue["map"] = <<>>
          /\ Cardinality(finished["reduce"]) = NReduce
          /\ Answer(w, "exit")
    /\ UNCHANGED <<coordinatorVars, exited, alive, workVars, verdict, file, out, crashes>>

\* The decision, taken from the finished tasks without a lock.
findTask(w) ==
    /\ pc[w] = "find" /\ ~exited
    /\ \/ /\ Cardinality(finished["map"]) < NMap
          /\ Goto(w, "popMap")
       \/ /\ Cardinality(finished["map"]) = NMap
          /\ Cardinality(finished["reduce"]) < NReduce
          /\ Goto(w, "popReduce")
       \/ /\ Cardinality(finished["map"]) = NMap
          /\ Cardinality(finished["reduce"]) = NReduce
          /\ Answer(w, "exit")
    /\ UNCHANGED <<coordinatorVars, exited, alive, workVars, verdict, file, out, crashes>>

\* Mutant: no timer watches over the task.
startTimer_Never(kind, id) == UNCHANGED timer

\* GetTask starts resetMap or resetReduce.
startTimer(kind, id) == timer' = [timer EXCEPT ![kind][id] = @ + 1]

\* What popLast takes from a queue, and what it leaves in it.
last(q) == q[Len(q)]
allButLast(q) == SubSeq(q, 1, Len(q) - 1)

popLast(w, kind) ==
    /\ pc[w] = (IF kind = "map" THEN "popMap" ELSE "popReduce")
    /\ ~exited /\ ~Locked(kind)
    /\ \/ /\ queue[kind] = <<>>
          /\ Goto(w, "find")
          /\ UNCHANGED <<coordinatorVars, workVars>>
       \/ /\ queue[kind] # <<>>
          /\ assigned < MaxAssign
          /\ assigned' = assigned + 1
          /\ queue' = [queue EXCEPT ![kind] = allButLast(@)]
          /\ task' = [task EXCEPT ![w] = [kind |-> kind, id |-> last(queue[kind])]]
          /\ startTimer(kind, last(queue[kind]))
          /\ position' = [position EXCEPT ![w] = 0]
          /\ readAll' = [readAll EXCEPT ![w] = TRUE]
          /\ Answer(w, kind)
          /\ UNCHANGED <<finished, done>>
    /\ UNCHANGED <<exited, alive, verdict, file, out, crashes>>

\* Whether some worker still works on the task, or reports it.
Busy(kind, id) ==
    \E w \in Worker : /\ pc[w] \in {"map", "write", "reduce", "finish", "setDone"}
                      /\ task[w] = [kind |-> kind, id |-> id]

\* Mutant: a task is given up when its time is over.
resetTask_GivesUp(kind, id) ==
    /\ timer[kind][id] > 0 /\ ~exited /\ ~Locked(kind)
    /\ Slow \/ ~Busy(kind, id)
    /\ timer' = [timer EXCEPT ![kind][id] = @ - 1]
    /\ UNCHANGED <<queue, finished, done, assigned, exited, pc, alive, workVars,
                   verdict, file, out, crashes>>

resetTask(kind, id) ==
    /\ timer[kind][id] > 0 /\ ~exited /\ ~Locked(kind)
    /\ Slow \/ ~Busy(kind, id)
    /\ timer' = [timer EXCEPT ![kind][id] = @ - 1]
    /\ queue' = IF id \in finished[kind] THEN queue
                ELSE [queue EXCEPT ![kind] = Append(@, id)]
    /\ UNCHANGED <<finished, done, assigned, exited, pc, alive, workVars,
                   verdict, file, out, crashes>>

-----------------------------------------------------------------------------
(* FinishTask and the end of the job.                                      *)

\* Mutant: one kind of task is enough.
allFinished_Either(fin) ==
    Cardinality(fin["map"]) = NMap \/ Cardinality(fin["reduce"]) = NReduce

allFinished(fin) ==
    Cardinality(fin["map"]) = NMap /\ Cardinality(fin["reduce"]) = NReduce

\* completeTask up to the new value of done, which it holds only its own
\* lock to compute, and then the store.
completeTask(w) ==
    LET t == task[w] IN
    /\ pc[w] = "finish" /\ ~exited /\ ~Locked(t.kind)
    /\ finished' = [finished EXCEPT ![t.kind] = @ \cup {t.id}]
    /\ verdict' = [verdict EXCEPT ![w] = allFinished(finished')]
    /\ Goto(w, "setDone")
    /\ UNCHANGED <<queue, done, timer, assigned, exited, alive, workVars, file,
                   out, crashes>>

setDone(w) ==
    /\ pc[w] = "setDone" /\ ~exited
    /\ done' = verdict[w]
    /\ Answer(w, "find")
    /\ UNCHANGED <<queue, finished, timer, assigned, exited, alive, workVars,
                   verdict, file, out, crashes>>

\* main of mrcoordinator sees Done() and ends the process.
Done ==
    /\ done /\ ~exited
    /\ exited' = TRUE
    /\ UNCHANGED <<coordinatorVars, pc, alive, workVars, verdict, file, out, crashes>>

-----------------------------------------------------------------------------
(* The workers.                                                            *)

\* encodeKV creates the files of the task: an old one is emptied.
mapFile(w) ==
    /\ pc[w] = "map"
    /\ file' = [m \in DOMAIN file \cup {task[w].id} |->
                   IF m = task[w].id THEN {} ELSE file[m]]
    /\ Goto(w, "write")
    /\ UNCHANGED <<coordinatorVars, exited, alive, workVars, verdict, out, crashes>>

\* It writes the next record at its place in the file.
encodeKV(w) ==
    LET p == position[w] + 1 IN
    /\ pc[w] = "write"
    /\ file' = [file EXCEPT ![task[w].id] = @ \cup {p}]
    /\ position' = [position EXCEPT ![w] = p]
    /\ Goto(w, IF p = NRecord THEN "finish" ELSE "write")
    /\ UNCHANGED <<coordinatorVars, exited, alive, task, readAll, verdict, out,
                   crashes>>

\* readPartition reads the next file; it ends the worker if there is none.
readPartition(w) ==
    LET m == position[w] IN
    /\ pc[w] = "reduce" /\ m < NMap
    /\ IF m \in DOMAIN file
       THEN /\ readAll' = [readAll EXCEPT ![w] = @ /\ file[m] = 1 .. NRecord]
            /\ position' = [position EXCEPT ![w] = m + 1]
            /\ UNCHANGED <<pc, alive>>
       ELSE /\ Goto(w, "down")
            /\ alive' = [alive EXCEPT ![w] = FALSE]
            /\ UNCHANGED <<readAll, position>>
    /\ UNCHANGED <<coordinatorVars, exited, task, verdict, file, out, crashes>>

\* The output replaces an earlier one by a rename.
reduce(w) ==
    /\ pc[w] = "reduce" /\ position[w] = NMap
    /\ out' = [out EXCEPT ![task[w].id] = IF readAll[w] THEN "complete" ELSE "partial"]
    /\ Goto(w, "finish")
    /\ UNCHANGED <<coordinatorVars, exited, alive, workVars, verdict, file, crashes>>

\* A call fails because the coordinator has ended: the worker ends, too.
call(w) ==
    /\ exited /\ pc[w] \in {"find", "popMap", "popReduce", "finish", "setDone"}
    /\ Goto(w, "exit")
    /\ UNCHANGED <<coordinatorVars, exited, alive, workVars, verdict, file, out, crashes>>

\* The worker dies.  A call it has made is served all the same.
Crash(w) ==
    /\ alive[w] /\ pc[w] # "exit" /\ ~exited
    /\ crashes < MaxCrashes
    /\ crashes' = crashes + 1
    /\ alive' = [alive EXCEPT ![w] = FALSE]
    /\ \/ pc[w] \notin {"popMap", "popReduce", "setDone"} /\ Goto(w, "down")
       \/ pc[w] \notin {"map", "write", "reduce"} /\ UNCHANGED pc
    /\ UNCHANGED <<coordinatorVars, exited, workVars, verdict, file, out>>

\* A new worker is started in the place of a dead one.
Restart(w) ==
    /\ pc[w] = "down" /\ ~exited
    /\ alive' = [alive EXCEPT ![w] = TRUE]
    /\ Goto(w, "find")
    /\ UNCHANGED <<coordinatorVars, exited, workVars, verdict, file, out, crashes>>

-----------------------------------------------------------------------------
\* Mutant: the range includes its upper end.
makeRange_Inclusive(n) == [k \in 1 .. n + 1 |-> k - 1]

makeRange(n) == [k \in 1 .. n |-> k - 1]

MakeCoordinator ==
    /\ queue = [kind \in Kind |-> makeRange(IF kind = "map" THEN NMap ELSE NReduce)]
    /\ finished = [kind \in Kind |-> {}]
    /\ done = FALSE /\ exited = FALSE
    /\ timer = [kind \in Kind |-> [id \in Ids(kind) |-> 0]]
    /\ assigned = 0 /\ crashes = 0

Init ==
    /\ MakeCoordinator
    /\ pc = [w \in Worker |-> "find"]
    /\ alive = [w \in Worker |-> TRUE]
    /\ task = [w \in Worker |-> [kind |-> "map", id |-> 0]]
    /\ position = [w \in Worker |-> 0]
    /\ readAll = [w \in Worker |-> TRUE]
    /\ verdict = [w \in Worker |-> FALSE]
    /\ file = [m \in {} |-> {}]
    /\ out = [p \in Ids("reduce") |-> "none"]

\* The steps that a worker, and the handler of its call, take by themselves.
Step(w) ==
    \/ findTask(w) \/ popLast(w, "map") \/ popLast(w, "reduce")
    \/ completeTask(w) \/ setDone(w) \/ call(w)
    \/ mapFile(w) \/ encodeKV(w) \/ readPartition(w) \/ reduce(w)

Next ==
    \/ \E w \in Worker : Step(w) \/ Crash(w) \/ Restart(w)
    \/ \E kind \in Kind : \E id \in Ids(kind) : resetTask(kind, id)
    \/ Done

Spec == Init /\ [][Next]_vars

\* Every process that is there goes on, timers expire, and the coordinator
\* polls Done().  Nobody need start a worker again.
FairSpec ==
    /\ Spec
    /\ \A w \in Worker : WF_vars(Step(w))
    /\ \A kind \in Kind : \A id \in Ids(kind) : WF_vars(resetTask(kind, id))
    /\ WF_vars(Done)

-----------------------------------------------------------------------------
(* Properties.                                                             *)

\* The coordinator's queues, sets and timers are about tasks of the job, and
\* the workers' positions are within their files.
TypeOK ==
    /\ queue \in [Kind -> Seq(Nat)]
    /\ finished \in [Kind -> SUBSET Nat]
    /\ \A kind \in Kind : Range(queue[kind]) \cup finished[kind] \subseteq Ids(kind)
    /\ done \in BOOLEAN /\ exited \in BOOLEAN
    /\ DOMAIN timer = Kind /\ \A kind \in Kind : timer[kind] \in [Ids(kind) -> Nat]
    /\ pc \in [Worker -> {"find", "popMap", "popReduce", "map", "write", "reduce",
                          "finish", "setDone", "exit", "down"}]
    /\ alive \in [Worker -> BOOLEAN]
    /\ task \in [Worker -> Task]
    /\ \A w \in Worker : task[w].id \in Ids(task[w].kind)
    /\ position \in [Worker -> 0 .. NMap + NRecord]
    /\ readAll \in [Worker -> BOOLEAN] /\ verdict \in [Worker -> BOOLEAN]
    /\ file \in [DOMAIN file -> SUBSET (1 .. NRecord)] /\ DOMAIN file \subseteq Ids("map")
    /\ out \in [Ids("reduce") -> {"none", "partial", "complete"}]

\* Every task of the job is finished.
JobFinished == \A kind \in Kind : finished[kind] = Ids(kind)

\* A task that is not finished is in its queue or watched by a timer that will
\* put it there: whoever was given it may die, or be slow, at any point.
TaskNotLost ==
    \A kind \in Kind : \A id \in Ids(kind) \ finished[kind] :
        id \in Range(queue[kind]) \/ timer[kind][id] > 0

\* A reducer finds the files of every map task: log.Fatalf("cannot open") in
\* readPartition is not reached, although findTask decides without a lock.
FilesReady ==
    \A w \in Worker : pc[w] = "reduce" => Ids("map") \subseteq DOMAIN file

\* Done() says that the job is over only when every task is finished,
\* whichever completeTask stored it.
DoneMeansFinished == done => JobFinished /\ \A p \in Ids("reduce") : out[p] # "none"

\* When the coordinator ends, each output was made from all that the map tasks
\* emitted: the output is that of mrsequential ("crash output is not the same
\* as mr-correct-crash.txt" in test-mr.sh).
OutputComplete == exited => \A p \in Ids("reduce") : out[p] = "complete"

\* Every task is finished in the end as long as one worker lives: tasks of
\* dead workers are handed out again, and no worker waits for ever.
JobFinishes == <>JobFinished
=============================================================================
