------------------------------ MODULE KVServer ------------------------------
(***************************************************************************)
(* The replicated key/value service of src/kvraft: clerks that retry their *)
(* requests at one server after another, and servers whose handlers wait   *)
(* for the apply goroutine to execute what they gave to Raft.  Raft is     *)
(* what a server sees of it (module Raft is the real one): one sequence of *)
(* committed commands, of which each peer delivers a prefix, with          *)
(* snapshots in between.  A step is what happens under one hold of kv.mu   *)
(* or one access to shared data outside of it.  Indices start at 1.        *)
(***************************************************************************)
EXTENDS Integers, Sequences, FiniteSets, SequencesExt, FiniteSetsExt

CONSTANTS
    Server, Client,
    None,           \* no request, no command, no reply
    Workloads       \* what happens in a behaviour, see Workload

\* For each client the operations it calls, with their keys; whether servers
\* take snapshots (maxraftstate # -1); and bounds: the terms, the entries in a
\* log, the calls of one client and the crashes.
Workload ==
    [script : [Client -> Seq([Type : {"Get", "Put", "Append"}, Key : STRING])],
     snapshots : BOOLEAN, terms : Nat, entries : Nat, calls : Nat, crashes : Nat]

ASSUME WorkloadAssumption ==
    /\ IsFiniteSet(Server) /\ Server # {}
    /\ \A w \in Workloads :
          /\ DOMAIN w.script = Client /\ w.snapshots \in BOOLEAN
          /\ {w.terms, w.entries, w.calls, w.crashes} \subseteq Nat

VARIABLES
    load,                       \* the workload of this behaviour
    \* Raft
    committed,                  \* the entries committed so far
    expected,                   \* what each number of them should lead to
    term, leading, rlog,        \* of each peer
    commitIndex, lastApplied, lastIncludedIndex, snapshot, snapshotInstalled,
    \* the servers
    data,                       \* values and lastRequest
    lastApplyMsg, lastExecutedIndex, lastSnapshotIndex,
    raftT,
    handlers,                   \* the Operation calls that run
    receiving,                  \* how many handlers apply still waits for
    \* the clerks
    leaderId, reqN,
    request,                    \* the operation each clerk is trying
    inCall, nCalls,             \* whether it is in a Call, and how many it made
    returned,                   \* the value it returned last
    calls,                      \* calls that no handler has taken yet
    crashes,
    fatal                       \* why the program ended, if it did

peers == <<committed, expected, term, leading, rlog, commitIndex>>
deliveries == <<lastApplied, lastIncludedIndex, snapshot, snapshotInstalled>>
executed == <<data, lastApplyMsg, lastExecutedIndex>>
processes == <<raftT, handlers, receiving>>
clerks == <<leaderId, reqN, request, inCall, nCalls, returned>>
ends == <<crashes, fatal, load>>
vars == <<peers, deliveries, executed, lastSnapshotIndex, processes, clerks, calls, ends>>

-----------------------------------------------------------------------------
(* The state machine.  A string is the sequence of the arguments it was    *)
(* put together from; the argument of a request is its client and number.  *)

Argument(op) == <<op.ClientId, op.RequestNumber>>

EmptyData == [values |-> <<>>, lastRequest |-> <<>>]

\* Map m with m[k] = v.
Set(m, k, v) == [i \in DOMAIN m \cup {k} |-> IF i = k THEN v ELSE m[i]]

ValueOf(values, key) == IF key \in DOMAIN values THEN values[key] ELSE <<>>

\* Mutant: requests are never recognised.
isDuplicate_Never(d, op) == FALSE

isDuplicate(d, op) ==
    /\ op.ClientId \in DOMAIN d.lastRequest
    /\ d.lastRequest[op.ClientId].RequestNumber >= op.RequestNumber

\* The result of a duplicate, known only for the client's last request.
duplicateResult(d, op) ==
    IF d.lastRequest[op.ClientId].RequestNumber = op.RequestNumber
    THEN [Err |-> "OK", Value |-> d.lastRequest[op.ClientId].Result]
    ELSE [Err |-> "Outdated", Value |-> <<>>]

\* The values after op, and what op returns.
execute(values, op) ==
    CASE op.Type = "Get" ->
           [values |-> values, Result |-> ValueOf(values, op.Key),
            Error |-> IF op.Key \in DOMAIN values THEN "OK" ELSE "ErrNoKey"]
      [] op.Type = "Put" ->
           [values |-> Set(values, op.Key, <<Argument(op)>>), Result |-> <<>>, Error |-> "OK"]
      [] op.Type = "Append" ->
           [values |-> Set(values, op.Key, Append(ValueOf(values, op.Key), Argument(op))),
            Result |-> <<>>, Error |-> "OK"]

executeIfNew(d, op) ==
    IF isDuplicate(d, op) THEN d
    ELSE LET r == execute(d.values, op) IN
         [values |-> r.values,
          lastRequest |-> Set(d.lastRequest, op.ClientId,
              [RequestNumber |-> op.RequestNumber, Result |-> r.Result, Error |-> r.Error])]

\* gob decodes into the maps that are there: it adds and replaces entries.
decode(d, s) ==
    LET merge(m, n) == [i \in DOMAIN m \cup DOMAIN n |-> IF i \in DOMAIN n THEN n[i] ELSE m[i]]
    IN  [values |-> merge(d.values, s.values),
         lastRequest |-> merge(d.lastRequest, s.lastRequest)]

-----------------------------------------------------------------------------
(* The clerks.                                                             *)

\* The n-th operation of client c, from the arguments of its call.
toOperation(c, n) ==
    [Type |-> load.script[c][n].Type, Key |-> load.script[c][n].Key,
     ClientId |-> c, RequestNumber |-> n]

\* Get, Put or Append is called: the next request number is taken.
Invoke(c) ==
    LET n == reqN[c] + 1 IN
    /\ request[c] = None /\ n <= Len(load.script[c])
    /\ reqN' = [reqN EXCEPT ![c] = n]
    /\ request' = [request EXCEPT ![c] = toOperation(c, n)]
    /\ UNCHANGED <<peers, deliveries, executed, lastSnapshotIndex, processes, leaderId,
                   inCall, nCalls, returned, calls, ends>>

\* One turn of the loop: a call to the server that was the leader last.
Call(c) ==
    /\ request[c] # None /\ ~inCall[c] /\ nCalls[c] < load.calls
    /\ nCalls' = [nCalls EXCEPT ![c] = @ + 1]
    /\ inCall' = [inCall EXCEPT ![c] = TRUE]
    /\ calls' = calls \cup {[server |-> leaderId[c], op |-> request[c], call |-> nCalls'[c]]}
    /\ UNCHANGED <<peers, deliveries, executed, lastSnapshotIndex, processes, leaderId,
                   reqN, request, returned, ends>>

tryNewLeader(c) == \E s \in Server : leaderId' = [leaderId EXCEPT ![c] = s]

\* Call returned false: a request or a reply was lost, or is still to come.
CallFails(c) ==
    /\ inCall[c]
    /\ inCall' = [inCall EXCEPT ![c] = FALSE]
    /\ tryNewLeader(c)
    /\ UNCHANGED <<peers, deliveries, executed, lastSnapshotIndex, processes,
                   reqN, request, nCalls, returned, calls, ends>>

\* The clerk takes the reply for an answer.
accepted(op, reply) ==
    reply.Err = "OK" \/ (op.Type = "Get" /\ reply.Err = "ErrNoKey")

\* The handler of a call is done: if its clerk is still in that call, the
\* clerk returns or tries another server.
Reply(op, call, reply) ==
    LET c == op.ClientId IN
    IF ~(inCall[c] /\ nCalls[c] = call) THEN UNCHANGED clerks
    ELSE /\ inCall' = [inCall EXCEPT ![c] = FALSE]
         /\ UNCHANGED <<reqN, nCalls>>
         /\ IF accepted(op, reply)
            THEN /\ request' = [request EXCEPT ![c] = None]
                 /\ returned' = [returned EXCEPT ![c] = reply.Value]
                 /\ UNCHANGED leaderId
            ELSE tryNewLeader(c) /\ UNCHANGED <<request, returned>>

-----------------------------------------------------------------------------
(* The handlers.                                                           *)

\* kv.mu is free: handlers give it up only while they wait.
free(s) == \A h \in handlers : h.server = s => h.pc \in {"waiting", "woken"}

\* cleanupHandler counts a handler off before it sends.
nWaitingHandlers(s, id) ==
    Cardinality({h \in handlers : h.server = s /\ h.id = id /\ h.pc # "send"})

\* The handlers once lastApplyMsgChanged.Broadcast() was called.
Broadcast(s) ==
    {IF h.server = s /\ h.pc = "waiting" THEN [h EXCEPT !.pc = "woken"] ELSE h : h \in handlers}

WrongLeader == [Err |-> "ErrWrongLeader", Value |-> <<>>]

\* The condition of the loop around Wait.
mustWait(s, t, id) == t = raftT[s] /\ lastApplyMsg[s].CommandIndex < id

\* Raft's Start, and the handler that registers for the index it returned.
Start(m) ==
    LET s == m.server
        id == Len(rlog[s]) + 1
    IN
    /\ id <= load.entries
    /\ rlog' = [rlog EXCEPT ![s] = Append(@, [Term |-> term[s], Command |-> m.op])]
    /\ handlers' = handlers \cup
          {[server |-> s, op |-> m.op, call |-> m.call, id |-> id, t |-> term[s],
            pc |-> IF mustWait(s, term[s], id) THEN "sleep" ELSE "leave", reply |-> None]}
    /\ fatal' = IF nWaitingHandlers(s, id) = 0 THEN None ELSE "Some RPC is already waiting"
    /\ UNCHANGED clerks

\* Operation up to the first Wait, or to the end of the loop.
Operation(m) ==
    LET s == m.server IN
    /\ free(s)
    /\ calls' = calls \ {m}
    /\ \/ /\ isDuplicate(data[s], m.op)
          /\ Reply(m.op, m.call, duplicateResult(data[s], m.op))
          /\ UNCHANGED <<rlog, handlers, fatal>>
       \/ /\ ~isDuplicate(data[s], m.op) /\ ~leading[s]
          /\ Reply(m.op, m.call, WrongLeader)
          /\ UNCHANGED <<rlog, handlers, fatal>>
       \/ ~isDuplicate(data[s], m.op) /\ leading[s] /\ Start(m)
    /\ UNCHANGED <<committed, expected, term, leading, commitIndex, deliveries, executed,
                   lastSnapshotIndex, raftT, receiving, crashes, load>>

\* Handler h becomes g.
Becomes(h, g) == handlers' = (handlers \ {h}) \cup {g}

\* Wait puts the handler on the list of the condition and releases kv.mu.
Wait(h) ==
    /\ h.pc = "sleep"
    /\ Becomes(h, [h EXCEPT !.pc = "waiting"])
    /\ UNCHANGED <<peers, deliveries, executed, lastSnapshotIndex, raftT, receiving, clerks,
                   calls, ends>>

\* Wait returned with kv.mu: the condition is tested again.
Woken(h) ==
    /\ h.pc = "woken" /\ free(h.server)
    /\ Becomes(h, [h EXCEPT !.pc =
                      IF mustWait(h.server, h.t, h.id) THEN "sleep" ELSE "leave"])
    /\ UNCHANGED <<peers, deliveries, executed, lastSnapshotIndex, raftT, receiving, clerks,
                   calls, ends>>

\* Mutant: the result is taken without a look at the term and at what was applied.
operationResult_Unchecked(s, h) ==
    IF h.op.ClientId \notin DOMAIN data[s].lastRequest THEN WrongLeader
    ELSE LET r == data[s].lastRequest[h.op.ClientId] IN [Err |-> r.Error, Value |-> r.Result]

\* What a handler returns that has left the loop and looks at the term again.
operationResult(s, h) ==
    IF h.t # raftT[s] \/ lastApplyMsg[s].Command # h.op THEN WrongLeader
    ELSE LET r == data[s].lastRequest[h.op.ClientId] IN [Err |-> r.Error, Value |-> r.Result]

\* Mutant: every handler announces its end.
cleanupSends_Always(s, h) == TRUE

\* Whether cleanupHandler sends on handlerDoneCh.
cleanupSends(s, h) == lastApplyMsg[s].CommandIndex = h.id

\* The rest of Operation, to the send in cleanupHandler if there is one.
Leave(h) ==
    LET s == h.server
        reply == operationResult(s, h)
        panics == h.t = raftT[s] /\ lastApplyMsg[s].Command = None
    IN
    /\ h.pc = "leave"
    /\ \/ \* lastApplyMsg.Command.(Op) when nothing was applied yet
          /\ panics
          /\ fatal' = "interface conversion"
          /\ UNCHANGED <<handlers, clerks>>
       \/ /\ ~panics /\ cleanupSends(s, h)
          /\ Becomes(h, [h EXCEPT !.pc = "send", !.reply = reply])
          /\ UNCHANGED <<clerks, fatal>>
       \/ /\ ~panics /\ ~cleanupSends(s, h)
          /\ handlers' = handlers \ {h}
          /\ Reply(h.op, h.call, reply)
          /\ UNCHANGED fatal
    /\ UNCHANGED <<peers, deliveries, executed, lastSnapshotIndex, raftT, receiving, calls,
                   crashes, load>>

\* handlerDoneCh is not buffered: apply receives when the handler sends.
handlerDone(h) ==
    LET s == h.server IN
    /\ h.pc = "send" /\ receiving[s] > 0
    /\ receiving' = [receiving EXCEPT ![s] = @ - 1]
    /\ handlers' = handlers \ {h}
    /\ Reply(h.op, h.call, h.reply)
    /\ UNCHANGED <<peers, deliveries, executed, lastSnapshotIndex, raftT, calls, ends>>

-----------------------------------------------------------------------------
(* The other goroutines of a server.                                       *)

\* apply takes the next committed command.  Raft finds none in an entry that is
\* under its snapshot, and executeIfNew panics.
applyCommand(s) ==
    LET index == lastApplied[s] + 1
        op == rlog[s][index].Command
        n == nWaitingHandlers(s, index)
    IN
    /\ ~snapshotInstalled[s] /\ free(s)
    /\ lastApplied' = [lastApplied EXCEPT ![s] = index]
    /\ IF index <= lastIncludedIndex[s]
       THEN /\ fatal' = "applied an entry that is gone"
            /\ UNCHANGED <<executed, handlers, receiving>>
       ELSE /\ data' = [data EXCEPT ![s] = executeIfNew(@, op)]
            /\ lastExecutedIndex' = [lastExecutedIndex EXCEPT ![s] =
                  IF isDuplicate(data[s], op) THEN @ ELSE Max({index, @})]
            /\ lastApplyMsg' = [lastApplyMsg EXCEPT ![s] =
                  [CommandIndex |-> index, Command |-> op]]
            /\ handlers' = IF n = 0 THEN handlers ELSE Broadcast(s)
            /\ receiving' = [receiving EXCEPT ![s] = n]
            /\ UNCHANGED fatal
    /\ UNCHANGED <<snapshotInstalled, lastSnapshotIndex>>

\* Otherwise apply ignores the snapshot.
snapshotIsNewer(s) == lastIncludedIndex[s] > lastExecutedIndex[s]

setState(s, state, lastIndex) ==
    /\ free(s)
    /\ data' = [data EXCEPT ![s] = decode(@, state)]
    /\ lastExecutedIndex' = [lastExecutedIndex EXCEPT ![s] = lastIndex]
    /\ lastSnapshotIndex' = [lastSnapshotIndex EXCEPT ![s] = lastIndex]

\* apply takes a snapshot, from which Raft goes on: setState is called with
\* m.CommandIndex, which is 0.
applySnapshot(s) ==
    /\ snapshotInstalled[s]
    /\ lastApplied' = [lastApplied EXCEPT ![s] = lastIncludedIndex[s]]
    /\ snapshotInstalled' = [snapshotInstalled EXCEPT ![s] = FALSE]
    /\ \/ snapshotIsNewer(s) /\ setState(s, snapshot[s], 0)
       \/ /\ ~snapshotIsNewer(s)
          /\ UNCHANGED <<data, lastExecutedIndex, lastSnapshotIndex>>
    /\ UNCHANGED <<lastApplyMsg, handlers, receiving, fatal>>

\* Raft's apply sends the next message on applyCh, and apply receives it.
apply(s) ==
    /\ receiving[s] = 0 /\ lastApplied[s] < commitIndex[s]
    /\ applyCommand(s) \/ applySnapshot(s)
    /\ UNCHANGED <<peers, lastIncludedIndex, snapshot, raftT, clerks, calls, crashes, load>>

\* Mutant: all that is committed, which may not have been delivered yet.
indexOfState_Committed(s) == commitIndex[s]

\* The index that a snapshot of the server is given to Raft with.
indexOfState(s) == lastExecutedIndex[s]

\* The log is, at any time, found to be large.  Raft ignores a snapshot it
\* has already.
initSnapshot(s) ==
    LET index == indexOfState(s) IN
    /\ load.snapshots /\ free(s)
    /\ index # lastSnapshotIndex[s]
    /\ lastSnapshotIndex' = [lastSnapshotIndex EXCEPT ![s] = index]
    /\ IF index <= lastIncludedIndex[s] THEN UNCHANGED <<lastIncludedIndex, snapshot>>
       ELSE /\ lastIncludedIndex' = [lastIncludedIndex EXCEPT ![s] = index]
            /\ snapshot' = [snapshot EXCEPT ![s] = data[s]]
    /\ UNCHANGED <<peers, lastApplied, snapshotInstalled, executed, processes, clerks, calls,
                   ends>>

\* One turn of the loop in refreshRaftTerm, which takes no lock.
refreshRaftTerm(s) ==
    /\ raftT[s] # term[s]
    /\ raftT' = [raftT EXCEPT ![s] = term[s]]
    /\ handlers' = Broadcast(s)
    /\ UNCHANGED <<peers, deliveries, executed, lastSnapshotIndex, receiving, clerks, calls,
                   ends>>

-----------------------------------------------------------------------------
(* The environment: what the servers rely on Raft for.  Elections, and how *)
(* the log gets from peer to peer, are assumed here and not translated;    *)
(* Start, Snapshot, InstallSnapshot, apply and Make are those of raft.go.  *)

\* s is elected in a new term: it has every committed entry.
isElected(s) ==
    LET newest == Max({term[i] : i \in Server}) IN
    /\ ~leading[s] /\ newest < load.terms
    /\ IsPrefix(committed, rlog[s])
    /\ term' = [term EXCEPT ![s] = newest + 1]
    /\ leading' = [leading EXCEPT ![s] = TRUE]
    /\ UNCHANGED <<committed, expected, rlog, commitIndex, deliveries>>

\* The leader that the others listen to; only this one commits and sends its log.
isNewest(s) == leading[s] /\ \A i \in Server : term[i] <= term[s]

\* What the state machine should hold, and have answered to each request, once
\* op is committed, too: requests that were committed before have no effect.
expectedAfter(op) ==
    LET last == expected[Len(expected)]
        r == execute(last.values, op)
    IN  IF op \in DOMAIN last.answers THEN last
        ELSE [values |-> r.values, answers |-> Set(last.answers, op, r.Result)]

\* The next entry of the newest leader is on a majority.
commitsNext(s) ==
    /\ isNewest(s) /\ commitIndex[s] < Len(rlog[s])
    /\ commitIndex' = [commitIndex EXCEPT ![s] = @ + 1]
    /\ IF commitIndex[s] < Len(committed) THEN UNCHANGED <<committed, expected>>
       ELSE LET e == rlog[s][Len(committed) + 1] IN
            /\ committed' = Append(committed, e)
            /\ expected' = Append(expected, expectedAfter(e.Command))
    /\ UNCHANGED <<term, leading, rlog, deliveries>>

\* s hears of the term of leader l and does not lead any more.
follows(s, l) ==
    /\ term' = [term EXCEPT ![s] = term[l]]
    /\ leading' = [leading EXCEPT ![s] = FALSE]

\* s receives the log of leader l, which replaces its own unless that is longer,
\* and takes over the leader's commitIndex.
takesLog(s, l) ==
    /\ s # l /\ isNewest(l)
    /\ follows(s, l)
    /\ rlog' = [rlog EXCEPT ![s] = IF IsPrefix(rlog[l], @) THEN @ ELSE rlog[l]]
    /\ commitIndex' = [commitIndex EXCEPT ![s] = Max({@, commitIndex[l]})]
    /\ UNCHANGED <<committed, expected, deliveries>>

\* s receives the snapshot of leader l: its log after it is kept only if it
\* has the entry the snapshot ends with.
InstallSnapshot(s, l) ==
    LET last == lastIncludedIndex[l]
        kept == IF IsPrefix(SubSeq(rlog[l], 1, last), rlog[s]) THEN rlog[s]
                ELSE SubSeq(rlog[l], 1, last)
    IN
    /\ s # l /\ isNewest(l)
    /\ last > lastIncludedIndex[s]
    /\ follows(s, l)
    /\ rlog' = [rlog EXCEPT ![s] = kept]
    /\ commitIndex' = [commitIndex EXCEPT ![s] = Max({@, last})]
    /\ lastIncludedIndex' = [lastIncludedIndex EXCEPT ![s] = last]
    /\ snapshot' = [snapshot EXCEPT ![s] = snapshot[l]]
    /\ snapshotInstalled' = [snapshotInstalled EXCEPT ![s] = TRUE]
    /\ UNCHANGED <<committed, expected, lastApplied>>

\* ShutdownServer, then StartServer: StartKVServer and Raft's Make with what
\* was saved.  The handlers of the old instance answer nobody.
StartKVServer(s) ==
    /\ crashes < load.crashes
    /\ crashes' = crashes + 1
    /\ leading' = [leading EXCEPT ![s] = FALSE]
    /\ commitIndex' = [commitIndex EXCEPT ![s] = lastIncludedIndex[s]]
    /\ lastApplied' = [lastApplied EXCEPT ![s] = lastIncludedIndex[s]]
    /\ snapshotInstalled' = [snapshotInstalled EXCEPT ![s] = lastIncludedIndex[s] > 0]
    /\ data' = [data EXCEPT ![s] = EmptyData]
    /\ lastApplyMsg' = [lastApplyMsg EXCEPT ![s] = [CommandIndex |-> 0, Command |-> None]]
    /\ lastExecutedIndex' = [lastExecutedIndex EXCEPT ![s] = -1]
    /\ lastSnapshotIndex' = [lastSnapshotIndex EXCEPT ![s] = -1]
    /\ raftT' = [raftT EXCEPT ![s] = 0]
    /\ handlers' = {h \in handlers : h.server # s}
    /\ receiving' = [receiving EXCEPT ![s] = 0]
    /\ UNCHANGED <<committed, expected, term, rlog, lastIncludedIndex, snapshot, clerks, calls,
                   fatal, load>>

-----------------------------------------------------------------------------
Init ==
    /\ load \in Workloads
    /\ committed = <<>>
    /\ expected = <<[values |-> <<>>, answers |-> <<>>]>>
    /\ term = [s \in Server |-> 0]
    /\ leading = [s \in Server |-> FALSE]
    /\ rlog = [s \in Server |-> <<>>]
    /\ commitIndex = [s \in Server |-> 0]
    /\ lastApplied = [s \in Server |-> 0]
    /\ lastIncludedIndex = [s \in Server |-> 0]
    /\ snapshot = [s \in Server |-> EmptyData]
    /\ snapshotInstalled = [s \in Server |-> FALSE]
    /\ data = [s \in Server |-> EmptyData]
    /\ lastApplyMsg = [s \in Server |-> [CommandIndex |-> 0, Command |-> None]]
    /\ lastExecutedIndex = [s \in Server |-> -1]
    /\ lastSnapshotIndex = [s \in Server |-> -1]
    /\ raftT = [s \in Server |-> 0]
    /\ handlers = {}
    /\ receiving = [s \in Server |-> 0]
    /\ leaderId \in [Client -> Server]
    /\ reqN = [c \in Client |-> 0]
    /\ request = [c \in Client |-> None]
    /\ inCall = [c \in Client |-> FALSE]
    /\ nCalls = [c \in Client |-> 0]
    /\ returned = [c \in Client |-> <<>>]
    /\ calls = {}
    /\ crashes = 0
    /\ fatal = None

ClerkStep == \E c \in Client : Invoke(c) \/ Call(c) \/ CallFails(c)

HandlerStep == \E h \in handlers : Wait(h) \/ Woken(h) \/ Leave(h) \/ handlerDone(h)

RaftStep(s) ==
    /\ \/ isElected(s) \/ commitsNext(s)
       \/ \E l \in Server : takesLog(s, l) \/ InstallSnapshot(s, l)
    /\ UNCHANGED <<executed, lastSnapshotIndex, processes, clerks, calls, ends>>

Next ==
    /\ fatal = None
    /\ \/ ClerkStep \/ HandlerStep
       \/ \E m \in calls : Operation(m)
       \/ \E s \in Server : \/ apply(s) \/ initSnapshot(s) \/ refreshRaftTerm(s)
                            \/ RaftStep(s) \/ StartKVServer(s)

Spec == Init /\ [][Next]_vars

-----------------------------------------------------------------------------
(* Properties.                                                             *)

\* d is the state after the first n committed commands.
StateAfter(n, d) ==
    LET e == expected[n + 1] IN
    /\ d.values = e.values
    /\ DOMAIN d.lastRequest = {op.ClientId : op \in DOMAIN e.answers}
    /\ \A op \in DOMAIN e.answers :
          LET last == d.lastRequest[op.ClientId] IN
          /\ op.RequestNumber <= last.RequestNumber
          /\ op.RequestNumber = last.RequestNumber => last.Result = e.answers[op]

\* Every server holds the state after some prefix of the committed commands, in
\* which a request that was committed twice was executed once: also when Raft
\* delivers commands again after a snapshot the server ignored, and when a
\* snapshot is decoded into maps that are not empty.
StateIsPrefix ==
    \A s \in Server : \E n \in lastApplyMsg[s].CommandIndex .. Len(committed) :
        StateAfter(n, data[s])

\* A snapshot given to Raft holds exactly the commands up to the index it was
\* given with, although lastExecutedIndex falls back to 0 with every snapshot
\* that is installed and skips duplicates; and they are committed (log.Fatalf in
\* Raft's Snapshot).
SnapshotMatchesIndex ==
    \A s \in Server :
        /\ lastIncludedIndex[s] <= commitIndex[s]
        /\ StateAfter(lastIncludedIndex[s], snapshot[s])

\* A handler that is about to send on handlerDoneCh, with kv.mu held, finds
\* apply receiving: otherwise the server would be stuck for ever.
SendIsReceived == \A h \in handlers : h.pc = "send" => receiving[h.server] > 0

\* What Raft delivers next is in its log: "set CommandValid to true to indicate
\* that the ApplyMsg contains a newly committed log entry" (raft.go).  The server
\* ignores a snapshot that is older than what it executed although Raft goes on
\* from there, and may then trim the log above lastApplied.
DeliversFromLog ==
    \A s \in Server :
        ~snapshotInstalled[s] /\ lastApplied[s] < commitIndex[s]
            => lastApplied[s] >= lastIncludedIndex[s]

\* The operations in the scripts, the requests of clients and what has become of
\* them, as KVStore sees it.
Operations ==
    UNION {{[Type |-> w.script[c][n].Type, Key |-> w.script[c][n].Key, Value |-> <<c, n>>] :
              n \in DOMAIN w.script[c]} : c \in Client, w \in Workloads}

Pending(c) ==
    IF request[c] = None THEN None
    ELSE [Type |-> request[c].Type, Key |-> request[c].Key, Value |-> Argument(request[c])]

Effect(c) ==
    LET answers == Last(expected).answers IN
    IF request[c] \in DOMAIN answers THEN answers[request[c]] ELSE None

Store == INSTANCE KVStore WITH
    store <- Last(expected).values,
    pending <- [c \in Client |-> Pending(c)],
    effect <- [c \in Client |-> Effect(c)]

\* The service implements one map on which each call takes effect once between
\* its start and its return, and returns what it found then: through retries at
\* several servers, late handlers, leader changes, snapshots and restarts.
ImplementsKVStore == Store!Spec
=============================================================================
