------------------------------ MODULE Testbed -------------------------------
(***************************************************************************)
(* The tester of src/kvraft/config.go at work on the network: it           *)
(* partitions the servers, connects them again, shuts all of them down and *)
(* starts them with what they saved, while clients and servers make calls. *)
(* The order of its operations is that of GenericTest.  What a handler     *)
(* does is to save the call with the persister of its server's instance.   *)
(***************************************************************************)
EXTENDS Network, Sequences

CONSTANTS
    N,              \* the number of servers: their names are 0 .. N - 1
    Client,
    MaxChanges,     \* bound: changes of connections in one iteration
    MaxIterations   \* bound: iterations of the test

ASSUME TestbedAssumption ==
    /\ N \in Nat \ {0}
    /\ None \notin Nat \cup Client
    /\ Client \cap Nat = {}

VARIABLES
    persister,      \* for each name, what each of its persisters holds
    endnames,       \* for each name, the instance whose ends are in use
    test,           \* what the tester does next, and with which server
    changes, iterations,
    healthy         \* the calls made since the servers were last connected

testVars == <<persister, endnames, test, changes, iterations, healthy>>
vars == <<netVars, testVars>>

All == 0 .. N - 1

\* saved[i] is the last persister made for i; an instance has the number of its
\* persister.
saved(i) == Len(persister[i])

End(from, instance, to) == [from |-> from, instance |-> instance, to |-> to]

EndsOf(i) == {End(i, endnames[i], j) : j \in All}

\* Persister.Copy: what the old instance saves from now on is not seen.
Copy(i) == persister' = [persister EXCEPT ![i] = Append(@, @[Len(@)])]

\* The tester goes on with step pc for server i.
Goto(pc, i) == test' = [pc |-> pc, i |-> i]

-----------------------------------------------------------------------------
(* Connections.                                                            *)

\* The ends between i and the servers in others, both ways.
between(i, others) ==
    {End(i, endnames[i], j) : j \in others} \cup {End(j, endnames[j], i) : j \in others}

\* Mutant: only the ends that lead to i are disabled, its own are forgotten.
disconnectUnlocked_Incoming(state, i, from) ==
    Enable(state, {End(j, endnames[j], i) : j \in from \ {i}}, FALSE)

disconnectUnlocked(state, i, from) == Enable(state, between(i, from), FALSE)

\* Mutant: the names of the first ends are used again.
connectAll_FirstEnds(state) == Enable(state, {End(i, 1, j) : i, j \in All}, TRUE)

connectAll(state) == Enable(state, UNION {between(i, All) : i \in All}, TRUE)

\* Servers are cut off from those in the other part, and connected to those in
\* their own.
partition(p1) ==
    LET p2 == All \ p1
        cut == UNION {between(i, p2) : i \in p1}
        own == UNION ({between(i, p1) : i \in p1} \cup {between(i, p2) : i \in p2})
    IN
    /\ test.pc = "run" /\ changes < MaxChanges
    /\ changes' = changes + 1
    /\ enabled' = Enable(Enable(enabled, cut, FALSE), own, TRUE)
    /\ UNCHANGED <<reliable, connections, servers, listening, done, calls, persister,
                   endnames, test, iterations, healthy>>

\* A client with an end to each server, of which those in to are enabled.
makeClient(c, to) ==
    LET ends == {End(c, 0, j) : j \in All} IN
    /\ test.pc = "run" /\ ends \cap DOMAIN enabled = {}
    /\ connections' = Connected([e \in ends |-> e.to])
    /\ enabled' = Enable(MadeEnds(ends), {End(c, 0, j) : j \in to}, TRUE)
    /\ UNCHANGED <<reliable, servers, listening, done, calls, testVars>>

ConnectClient(c, servs, yes) ==
    /\ test.pc = "run" /\ changes < MaxChanges
    /\ \E e \in DOMAIN enabled : e.from = c
    /\ changes' = changes + 1
    /\ enabled' = Enable(enabled, {End(c, 0, j) : j \in servs}, yes)
    /\ UNCHANGED <<reliable, connections, servers, listening, done, calls, persister,
                   endnames, test, iterations, healthy>>

\* ConnectAll, after the partitions and after the restart of all servers, if the
\* test has one.  The calls made before are not counted as healthy.
ConnectAll ==
    /\ \/ test.pc = "run" /\ (Goto("disconnect", 0) \/ Goto("check", 0))
       \/ test.pc = "connect" /\ Goto("check", 0)
    /\ enabled' = connectAll(enabled)
    /\ UNCHANGED <<reliable, connections, servers, listening, done, calls, persister,
                   endnames, changes, iterations, healthy>>

-----------------------------------------------------------------------------
(* Servers.                                                                *)

\* ShutdownServer: server i is disconnected ...
shutdownDisconnect ==
    /\ test.pc = "disconnect"
    /\ enabled' = disconnectUnlocked(enabled, test.i, All)
    /\ Goto("delete", test.i)
    /\ UNCHANGED <<reliable, connections, servers, listening, done, calls, persister,
                   endnames, changes, iterations, healthy>>

\* Mutant: the persister is replaced before the server is deleted.
shutdownDelete_Late ==
    /\ test.pc = "delete"
    /\ Copy(test.i)
    /\ Goto("copy", test.i)
    /\ UNCHANGED <<reliable, enabled, connections, servers, listening, done, calls,
                   endnames, changes, iterations, healthy>>

\* ... deleted from the network ...
shutdownDelete ==
    /\ test.pc = "delete"
    /\ DeleteServer(test.i)
    /\ Goto("copy", test.i)
    /\ UNCHANGED <<reliable, enabled, connections, listening, done, calls, persister,
                   endnames, changes, iterations, healthy>>

\* ... and its persister is replaced.  The instance is killed after that, and
\* its handlers may go on.
shutdownCopy ==
    /\ test.pc = "copy"
    /\ Copy(test.i)
    /\ IF test.i + 1 < N THEN Goto("disconnect", test.i + 1) ELSE Goto("start", 0)
    /\ UNCHANGED <<netVars, endnames, changes, iterations, healthy>>

\* StartServer: fresh ends and a fresh persister for server i ...
startEnds ==
    LET i == test.i
        ends == {End(i, saved(i) + 1, j) : j \in All}
    IN
    /\ test.pc = "start"
    /\ Copy(i)
    /\ endnames' = [endnames EXCEPT ![i] = saved(i) + 1]
    /\ connections' = Connected([e \in ends |-> e.to])
    /\ enabled' = MadeEnds(ends)
    /\ Goto("add", i)
    /\ UNCHANGED <<reliable, servers, listening, done, calls, changes, iterations, healthy>>

\* ... and, when StartKVServer has returned, the server is added to the network.
startAdd ==
    /\ test.pc = "add"
    /\ AddServer(test.i, saved(test.i))
    /\ IF test.i + 1 < N THEN Goto("start", test.i + 1) ELSE Goto("connect", 0)
    /\ UNCHANGED <<reliable, enabled, connections, listening, done, calls, persister,
                   endnames, changes, iterations, healthy>>

\* The next iteration, or cleanup.
iterate ==
    /\ test.pc = "check" /\ iterations < MaxIterations
    /\ Goto("run", 0)
    /\ iterations' = iterations + 1 /\ changes' = 0 /\ healthy' = {}
    /\ UNCHANGED <<netVars, persister, endnames>>

cleanup ==
    /\ test.pc = "check" /\ iterations = MaxIterations
    /\ Cleanup /\ healthy' = {}
    /\ UNCHANGED <<persister, endnames, test, changes, iterations>>

\* make_config: every server is started and connected to all.
make_config ==
    LET ends == {End(i, 1, j) : i, j \in All} IN
    /\ reliable \in BOOLEAN
    /\ enabled = [e \in ends |-> TRUE]
    /\ connections = [e \in ends |-> e.to]
    /\ servers = [i \in All |-> 1]
    /\ listening = TRUE /\ done = FALSE
    /\ calls = [k \in CallId |-> NoCall]
    /\ persister = [i \in All |-> << {} >>]
    /\ endnames = [i \in All |-> 1]
    /\ test = [pc |-> "run", i |-> 0]
    /\ changes = 0 /\ iterations = 1 /\ healthy = {}

-----------------------------------------------------------------------------
(* Clients and servers.                                                    *)

\* Anyone who has ends calls, instances that were shut down included.
CallAny(k) ==
    /\ \E e \in DOMAIN enabled :
          /\ Call(k, e)
          /\ healthy' = IF test.pc = "check" /\ ~done
                           /\ IF e.from \in All THEN e \in EndsOf(e.from) ELSE enabled[e]
                        THEN healthy \cup {k} ELSE healthy
    /\ UNCHANGED <<persister, endnames, test, changes, iterations>>

\* The handler of call k: the instance that runs it saves with its persister.
handle(k) ==
    LET c == calls[k] IN
    /\ dispatch(k)
    /\ persister' = [persister EXCEPT ![c.name][c.server] = @ \cup {k}]
    /\ UNCHANGED <<endnames, test, changes, iterations, healthy>>

networkStep(k) == processReq(k) /\ UNCHANGED testVars

testerStep ==
    \/ \E p1 \in SUBSET All : partition(p1)
    \/ \E c \in Client, to \in SUBSET All :
          makeClient(c, to) \/ \E yes \in BOOLEAN : ConnectClient(c, to, yes)
    \/ ConnectAll \/ shutdownDisconnect \/ shutdownDelete \/ shutdownCopy
    \/ startEnds \/ startAdd \/ iterate \/ cleanup

Next ==
    \/ \E k \in CallId : CallAny(k) \/ handle(k) \/ networkStep(k)
    \/ stopListening /\ UNCHANGED testVars
    \/ testerStep

Spec == make_config /\ [][Next]_vars

\* The goroutines of the network run; a handler of a server that is not shut down
\* returns.  The tester and the callers need not go on.
FairSpec ==
    /\ Spec
    /\ \A k \in CallId :
          /\ WF_vars(networkStep(k))
          /\ WF_vars(handle(k) /\ servers[calls[k].name] = calls[k].server)
    /\ WF_vars(stopListening /\ UNCHANGED testVars)

-----------------------------------------------------------------------------
(* Properties.                                                             *)

\* A call that is told to have succeeded was saved with the persister the next
\* instance will start from: "a client gets a positive reply to an Append, but
\* the server persisted the update into the old Persister" (processReq) does not
\* happen, whatever old instances do and however late replies arrive.
AcknowledgedIsSaved ==
    \A k \in CallId : calls[k].ok => k \in persister[calls[k].name][saved(calls[k].name)]

\* An end of an instance that was shut down is never enabled: ConnectAll and
\* partition find the ends of the running one.
OldEndsDisabled ==
    \A e \in DOMAIN enabled :
        enabled[e] /\ e.from \in All => servers[e.from] = e.instance

\* When the tester has connected the servers again, a call made with an end of
\* a running server, or of a connected client, gets through on a reliable network,
\* at any server and after any partition and restart.
HealthyCallsSucceed ==
    \A k \in healthy : reliable /\ calls[k].pc = "returned" => calls[k].ok

\* "Call() is guaranteed to return (perhaps after a delay) except if the handler
\* function on the server side does not return" (labrpc.go): even then if its
\* server is deleted or its end disabled, and when the network is cleaned up.
CallReturns == \A k \in CallId : calls[k].pc = "sending" ~> calls[k].pc = "returned"
=============================================================================
