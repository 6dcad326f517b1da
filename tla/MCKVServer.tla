---------------------------- MODULE MCKVServer ------------------------------
(* Workloads and state-space reductions for checking KVServer with TLC.    *)
EXTENDS KVServer

CONSTANTS c1, c2

Op(type) == [Type |-> type, Key |-> "k"]

Put == Op("Put")
App == Op("Append")
Get == Op("Get")

W(s1, s2, snapshots, terms, entries, nCall, nCrash) ==
    [script |-> c1 :> s1 @@ c2 :> s2, snapshots |-> snapshots, terms |-> terms,
     entries |-> entries, calls |-> nCall, crashes |-> nCrash]

\* Snapshots that arrive late: with three entries one may be older than what the
\* server executed while there is more to deliver.
SnapshotWorkloads == {W(<<App, Put, Get>>, <<>>, TRUE, 1, 3, 3, 0)}

\* Two clients at one leader; two clients at two leaders, whose entries have the
\* same index; a client that tries again after a leader change; one that tries
\* again at the same leader and goes on while old handlers wait; one that does so
\* with snapshots and a restart; and late snapshots.
ServiceWorkloads ==
    {W(<<App>>, <<Get>>, FALSE, 1, 2, 1, 0),
     W(<<App>>, <<Get>>, FALSE, 2, 1, 1, 0),
     W(<<Put, Get>>, <<>>, FALSE, 2, 2, 2, 0),
     W(<<Put, Get>>, <<>>, FALSE, 1, 3, 3, 0),
     W(<<App, Get>>, <<>>, TRUE, 1, 2, 2, 1)} \cup SnapshotWorkloads

Symmetry == Permutations(Server)

\* The clerk is still in this call; if not, nobody reads its number and its reply.
Awaited(h) == inCall[h.op.ClientId] /\ nCalls[h.op.ClientId] = h.call

\* The calls or handlers in set without what nobody reads, unless this makes two
\* of them one.
Seen(set, unread(_)) ==
    LET seen == {IF Awaited(h) THEN h ELSE unread(h) : h \in set}
    IN  IF Cardinality(seen) = Cardinality(set) THEN seen ELSE set

\* A clerk looks at leaderId only when it starts a call.
View ==
    LET done(c) == \/ request[c] = None /\ reqN[c] = Len(load.script[c])
                   \/ nCalls[c] = load.calls
        next == [c \in Client |-> IF inCall[c] \/ done(c) THEN None ELSE leaderId[c]]
        unreadCall(m) == [m EXCEPT !.call = 0]
        unreadHandler(h) == [h EXCEPT !.call = 0, !.reply = None]
    IN  <<next, peers, deliveries, executed, lastSnapshotIndex, raftT, receiving,
          Seen(handlers, unreadHandler), Seen(calls, unreadCall), reqN, request,
          inCall, nCalls, returned, ends>>
=============================================================================
