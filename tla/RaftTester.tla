----------------------------- MODULE RaftTester -----------------------------
(***************************************************************************)
(* The tester of the Raft library (src/src/raft/config.go): the appliers   *)
(* that read what every Raft instance delivers and compare it with what    *)
(* the others delivered, the restart of a server, its connections, and     *)
(* one(), by which a test agrees on a command.                             *)
(*                                                                         *)
(* The tester is the oracle here and Raft is the environment: which        *)
(* entries are committed, and when an instance hears of it, is left open.  *)
(* What an instance delivers, and the snapshots it takes over, are those   *)
(* of apply(), Snapshot and InstallSnapshot in raft.go.  A killed instance *)
(* goes on delivering what it knows to be committed, because the inner     *)
(* loop of apply() does not look at killed().                              *)
(***************************************************************************)
EXTENDS Integers, Sequences, FiniteSets

CONSTANTS
    N,                  \* cfg.n
    None,               \* nil
    SnapShotInterval,
    MaxStarts,          \* bound: instances of one server
    Tests               \* bounds of a test: the entries it gave to Start before, the
                        \* calls of one(), the length of the log, and the restarts
                        \* and connection changes

ASSUME TesterAssumption ==
    /\ {N, SnapShotInterval, MaxStarts} \subseteq Nat \ {0}
    /\ Tests \subseteq [started : Nat, commands : Nat, indexes : Nat, changes : Nat]
    /\ None \notin Int

Server == 0 .. N - 1
Instance == Server \X (1 .. MaxStarts)

VARIABLES
    bounds,             \* of this test, one of Tests
    snapshot,           \* the parameter of make_config
    committed, pending, \* the entries committed, and those a leader appended
    sent,               \* the snapshots that leaders sent, which may arrive late
    peer,               \* the Raft instances: [lastApplied, commitIndex, saved,
                        \* snapshotInstalled, applyCh]
    applier,            \* the applier of every instance: [pc, rf, m]
    rafts, starts,      \* the instance of a server that runs, and how many it had
    saved,              \* cfg.saved: [lastIncludedIndex, snapshot] that a restart finds
    connected, enabled, \* and the ends of the running instances
    logs, lastApplied,  \* what every server has delivered
    test, returned,     \* the call of one(), and what the calls returned
    changes,
    late,               \* history: an applier of a replaced instance acted
    alarm               \* the test was failed for this server

setup == <<bounds, snapshot>>
raftLog == <<committed, pending, sent>>
instances == <<peer, applier>>
running == <<rafts, starts, saved>>
network == <<connected, enabled>>
observed == <<logs, lastApplied>>
calls == <<test, returned>>
vars == <<setup, raftLog, instances, running, network, observed, calls,
          changes, late, alarm>>

(***************************************************************************)
(* Raft, as far as the tester sees it.  A leader that was replaced also    *)
(* answers Start, with an index that is already taken.                     *)
(***************************************************************************)
lastIndex == LET used == {p.index : p \in pending} \cup {Len(committed)}
             IN  CHOOSE k \in used : \A j \in used : j <= k

commit ==
    \E p \in pending :
        /\ p.index = Len(committed) + 1
        /\ committed' = Append(committed, p.cmd)
        /\ pending' = {q \in pending : q.index > p.index}
        /\ UNCHANGED <<setup, sent, instances, running, network, observed, calls,
                       changes, late, alarm>>

isRunning(p) == rafts[p[1]] = p[2]

\* The instance hears how much is committed.
learnsCommit(p) ==
    /\ isRunning(p) /\ peer[p].commitIndex < Len(committed)
    /\ peer' = [peer EXCEPT ![p].commitIndex = Len(committed)]
    /\ UNCHANGED <<setup, raftLog, applier, running, network, observed, calls,
                   changes, late, alarm>>

InstallSnapshot(p) ==
    /\ isRunning(p)
    /\ \E s \in sent :
        /\ s.from # p[1] /\ s.lastIncludedIndex > peer[p].saved.lastIncludedIndex
        /\ peer' = [peer EXCEPT
              ![p].saved = [lastIncludedIndex |-> s.lastIncludedIndex, snapshot |-> s.snapshot],
              ![p].commitIndex = IF @ < s.lastIncludedIndex THEN s.lastIncludedIndex ELSE @,
              ![p].snapshotInstalled = TRUE]
    /\ UNCHANGED <<setup, raftLog, applier, running, network, observed, calls,
                   changes, late, alarm>>

\* The entry under the snapshot has no command; before it the slice is read out
\* of range.
logEntry(p, index) ==
    IF index <= peer[p].saved.lastIncludedIndex THEN None ELSE committed[index]

applySnapshot(p) ==
    /\ peer[p].snapshotInstalled
    /\ LET s == peer[p].saved IN
       peer' = [peer EXCEPT ![p].lastApplied = s.lastIncludedIndex,
                            ![p].snapshotInstalled = FALSE,
                            ![p].applyCh = [valid |-> "Snapshot", index |-> s.lastIncludedIndex,
                                            data |-> s.snapshot]]
    /\ UNCHANGED alarm

applyCommand(p) ==
    LET index == peer[p].lastApplied + 1 IN
    /\ ~peer[p].snapshotInstalled
    /\ peer' = [peer EXCEPT ![p].lastApplied = index,
                            ![p].applyCh = [valid |-> "Command", index |-> index,
                                            data |-> logEntry(p, index)]]
    /\ alarm' = IF index < peer[p].saved.lastIncludedIndex THEN p[1] ELSE alarm

\* One turn of the loop in apply, up to the send on applyCh.
apply(p) ==
    /\ peer[p].applyCh = None
    /\ peer[p].lastApplied < peer[p].commitIndex
    /\ applySnapshot(p) \/ applyCommand(p)
    /\ UNCHANGED <<setup, raftLog, applier, running, network, observed, calls,
                   changes, late>>

\* The applier of p takes the message from applyCh.
received(p) == [peer EXCEPT ![p].applyCh = None]

\* Snapshot of instance p, called by server i; only a running one can send it on.
Snapshot(p, index, data) ==
    LET outdated == index <= peer[p].saved.lastIncludedIndex
        fails == ~outdated /\ index > peer[p].commitIndex
        s == [lastIncludedIndex |-> index, snapshot |-> data]
    IN
    /\ alarm' = IF fails THEN p[1] ELSE alarm
    /\ peer' = IF outdated \/ fails THEN peer ELSE [peer EXCEPT ![p].saved = s]
    /\ sent' = IF outdated \/ fails \/ ~isRunning(p) THEN sent
               ELSE sent \cup {[from |-> p[1], lastIncludedIndex |-> index, snapshot |-> data]}

(***************************************************************************)
(* checkLogs and ingestSnap: what is recorded for server i.                *)
(***************************************************************************)
disagrees(index, cmd) ==
    \E j \in Server : index \in DOMAIN logs[j] /\ logs[j][index] # cmd

prevok(i, index) == index - 1 \in DOMAIN logs[i]

recorded(i, index, cmd) ==
    [logs EXCEPT ![i] = [k \in DOMAIN @ \cup {index} |-> IF k = index THEN cmd ELSE @[k]]]

checkLogs(i, m) ==
    /\ logs' = recorded(i, m.index, m.data)
    /\ alarm' = IF disagrees(m.index, m.data) \/ (m.index > 1 /\ ~prevok(i, m.index))
                THEN i ELSE alarm

\* Mutant: takes the entries of a snapshot to begin at index 1.
recordOf_FromOne(s) == [k \in 1 .. s.lastIncludedIndex + 1 |-> s.xlog[k - 1]]

recordOf(s) == s.xlog

\* A nil snapshot, or one that does not end at the index it came with, is an error.
ingestSnap(i, s, index) ==
    LET fails == s = None \/ index \notin {-1, s.lastIncludedIndex} IN
    /\ alarm' = IF fails THEN i ELSE alarm
    /\ logs' = IF fails THEN logs ELSE [logs EXCEPT ![i] = recordOf(s)]
    /\ lastApplied' = IF fails THEN lastApplied
                      ELSE [lastApplied EXCEPT ![i] = s.lastIncludedIndex]

(***************************************************************************)
(* The appliers.  applierSnap takes cfg.mu for each of its steps and       *)
(* releases it in between; reading from applyCh, where apply() waits with  *)
(* the message it chose before, happens with the step that follows it.     *)
(***************************************************************************)
Acts(p) == late' = [late EXCEPT ![p[1]] = @ \/ p[2] < starts[p[1]]]

\* There is a message for the applier of p, which is at the head of its loop.
reads(p, valid) ==
    /\ applier[p].pc = "recv" /\ peer[p].applyCh # None
    /\ peer[p].applyCh.valid = valid
    /\ peer' = received(p)

applierReads(p) ==
    /\ ~snapshot /\ reads(p, "Command")
    /\ checkLogs(p[1], peer[p].applyCh)
    /\ Acts(p)
    /\ UNCHANGED <<setup, raftLog, applier, running, network, lastApplied, calls,
                   changes>>

applierSnapBegins(p) ==
    /\ applier[p].pc = "begin"
    /\ applier' = [applier EXCEPT ![p].rf = rafts[p[1]],
                                  ![p].pc = IF rafts[p[1]] = 0 THEN "gone" ELSE "recv"]
    /\ UNCHANGED <<setup, raftLog, peer, running, network, observed, calls,
                   changes, late, alarm>>

readsSnapshot(p) ==
    /\ snapshot /\ reads(p, "Snapshot")
    /\ ingestSnap(p[1], peer[p].applyCh.data, peer[p].applyCh.index)
    /\ Acts(p)
    /\ UNCHANGED <<setup, raftLog, applier, running, network, calls, changes>>

readsCommand(p) ==
    LET m == peer[p].applyCh IN
    /\ snapshot /\ reads(p, "Command")
    /\ applier' = [applier EXCEPT ![p].pc = "logs", ![p].m = m]
    /\ alarm' = IF m.index # lastApplied[p[1]] + 1 THEN p[1] ELSE alarm
    /\ Acts(p)
    /\ UNCHANGED <<setup, raftLog, running, network, observed, calls, changes>>

comparesLogs(p) ==
    /\ applier[p].pc = "logs"
    /\ checkLogs(p[1], applier[p].m)
    /\ applier' = [applier EXCEPT ![p].pc = "applied"]
    /\ Acts(p)
    /\ UNCHANGED <<setup, raftLog, peer, running, network, lastApplied, calls, changes>>

isSnapshotIndex(index) == (index + 1) % SnapShotInterval = 0

setsLastApplied(p) ==
    /\ applier[p].pc = "applied"
    /\ lastApplied' = [lastApplied EXCEPT ![p[1]] = applier[p].m.index]
    /\ applier' = [applier EXCEPT ![p] =
                     IF isSnapshotIndex(@.m.index) THEN [@ EXCEPT !.pc = "snapshot"]
                     ELSE [@ EXCEPT !.pc = "recv", !.m = None]]
    /\ Acts(p)
    /\ UNCHANGED <<setup, raftLog, peer, running, network, logs, calls, changes, alarm>>

takesSnapshot(p) ==
    LET i == p[1]
        index == applier[p].m.index
        xlog == [k \in 0 .. index |-> IF k \in DOMAIN logs[i] THEN logs[i][k] ELSE None]
    IN
    /\ applier[p].pc = "snapshot"
    /\ Snapshot(<<i, applier[p].rf>>, index, [lastIncludedIndex |-> index, xlog |-> xlog])
    /\ applier' = [applier EXCEPT ![p].pc = "recv", ![p].m = None]
    /\ Acts(p)
    /\ UNCHANGED <<setup, committed, pending, running, network, observed, calls, changes>>

applierSnap(p) ==
    \/ applierSnapBegins(p) \/ readsSnapshot(p) \/ readsCommand(p)
    \/ comparesLogs(p) \/ setsLastApplied(p) \/ takesSnapshot(p)

(***************************************************************************)
(* Connections and restarts, between two calls of one().                   *)
(***************************************************************************)
\* Mutant: enables the ends between i and everyone.
connect_Everyone(i) ==
    /\ connected' = [connected EXCEPT ![i] = TRUE]
    /\ enabled' = [e \in Server \X Server |-> enabled[e] \/ i \in {e[1], e[2]}]

connect(i) ==
    /\ connected' = [connected EXCEPT ![i] = TRUE]
    /\ enabled' = [e \in Server \X Server |->
                     enabled[e] \/ (i \in {e[1], e[2]} /\ connected'[e[1]] /\ connected'[e[2]])]

disconnect(i) ==
    /\ connected' = [connected EXCEPT ![i] = FALSE]
    /\ enabled' = [e \in Server \X Server |-> enabled[e] /\ i \notin {e[1], e[2]}]

between == test.pc = "idle" /\ changes < bounds.changes /\ changes' = changes + 1

testConnects ==
    /\ between
    /\ \E i \in Server : rafts[i] # 0 /\ ~connected[i] /\ connect(i)
    /\ UNCHANGED <<setup, raftLog, instances, running, observed, calls, late, alarm>>

testDisconnects ==
    /\ between
    /\ \E i \in Server : connected[i] /\ disconnect(i)
    /\ UNCHANGED <<setup, raftLog, instances, running, observed, calls, late, alarm>>

\* crash1 copies the persister and kills the instance, which keeps what it knows.
savedAtCrash(i) == IF rafts[i] = 0 THEN saved[i] ELSE peer[<<i, rafts[i]>>].saved

crash1 ==
    /\ between
    /\ \E i \in Server :
        /\ rafts[i] # 0
        /\ disconnect(i)
        /\ saved' = [saved EXCEPT ![i] = savedAtCrash(i)]
        /\ rafts' = [rafts EXCEPT ![i] = 0]
    /\ UNCHANGED <<setup, raftLog, instances, starts, observed, calls, late, alarm>>

MakePersister == [lastIncludedIndex |-> 0, snapshot |-> None]

Make(s) == [lastApplied |-> s.lastIncludedIndex, commitIndex |-> s.lastIncludedIndex,
            saved |-> s, snapshotInstalled |-> s.snapshot # None, applyCh |-> None]

newApplier == [pc |-> IF snapshot THEN "begin" ELSE "recv", rf |-> 0, m |-> None]

\* Mutant: an instance without a snapshot starts where the last one was.
restored_KeepsLastApplied(i) ==
    IF savedAtCrash(i).snapshot = None THEN UNCHANGED <<observed, alarm>>
    ELSE ingestSnap(i, savedAtCrash(i).snapshot, -1)

\* The state of the last instance, or its snapshot, is the start of the next.
restored(i) ==
    IF savedAtCrash(i).snapshot = None
    THEN lastApplied' = [lastApplied EXCEPT ![i] = 0] /\ UNCHANGED <<logs, alarm>>
    ELSE ingestSnap(i, savedAtCrash(i).snapshot, -1)

start1 ==
    /\ between
    /\ \E i \in Server :
        /\ starts[i] < MaxStarts
        /\ disconnect(i)
        /\ restored(i)
        /\ starts' = [starts EXCEPT ![i] = @ + 1]
        /\ rafts' = [rafts EXCEPT ![i] = starts'[i]]
        /\ saved' = [saved EXCEPT ![i] = savedAtCrash(i)]
        /\ peer' = [peer EXCEPT ![<<i, starts'[i]>>] = Make(savedAtCrash(i))]
        /\ applier' = [applier EXCEPT ![<<i, starts'[i]>>] = newApplier]
    /\ UNCHANGED <<setup, raftLog, calls, late>>

(***************************************************************************)
(* one(): a command is handed to the servers in turn until one claims to   *)
(* lead; then nCommitted looks at the servers one by one, each under       *)
(* cfg.mu, until enough of them have delivered an entry at the index.      *)
(***************************************************************************)
Goto(pc) == test' = [test EXCEPT !.pc = pc]

idle == [pc |-> "idle", cmd |-> 0, expectedServers |-> 0, retry |-> FALSE,
         starts |-> 0, si |-> 0, index |-> 0, i |-> 0, count |-> 0, cmd1 |-> None]

one ==
    /\ test.pc = "idle" /\ Cardinality(returned) < bounds.commands
    /\ \E n \in 1 .. N, retry \in BOOLEAN :
        test' = [idle EXCEPT !.pc = "start", !.cmd = Cardinality(returned) + 1,
                             !.expectedServers = n, !.retry = retry]
    /\ UNCHANGED <<setup, raftLog, instances, running, network, observed, returned,
                   changes, late, alarm>>

\* The next server is asked; it need not lead.
next == (test.starts + 1) % N

Start(index) ==
    /\ connected[next] /\ rafts[next] # 0
    /\ pending' = pending \cup
                    (IF index > Len(committed) THEN {[index |-> index, cmd |-> test.cmd]} ELSE {})
    /\ test' = [test EXCEPT !.pc = "poll", !.starts = next, !.si = 0, !.index = index]

tryServer ==
    /\ test.pc = "start" /\ test.si < N
    /\ \/ \E index \in 1 .. lastIndex + 1 : index <= bounds.indexes /\ Start(index)
       \/ /\ test' = [test EXCEPT !.starts = next, !.si = @ + 1]
          /\ UNCHANGED pending
    /\ UNCHANGED <<setup, committed, sent, instances, running, network, observed, returned,
                   changes, late, alarm>>

\* Nobody leads: again after 50 ms, or the 10 s are over.
noLeader ==
    /\ test.pc = "start" /\ test.si = N
    /\ \/ test' = [test EXCEPT !.si = 0]
       \/ Goto("failed")
    /\ UNCHANGED <<setup, raftLog, instances, running, network, observed, returned,
                   changes, late, alarm>>

nCommitted ==
    /\ test.pc = "poll" /\ test.i < N
    /\ LET ok == test.index \in DOMAIN logs[test.i]
           cmd1 == logs[test.i][test.index]
       IN  /\ test' = [test EXCEPT !.i = @ + 1,
                                   !.count = IF ok THEN @ + 1 ELSE @,
                                   !.cmd1 = IF ok THEN cmd1 ELSE @]
           /\ alarm' = IF ok /\ test.count > 0 /\ test.cmd1 # cmd1 THEN test.i ELSE alarm
    /\ UNCHANGED <<setup, raftLog, instances, running, network, observed, returned,
                   changes, late>>

\* Mutant: any command at the index will do.
agreed_AnyCommand == test.count > 0 /\ test.count >= test.expectedServers

agreed == test.count > 0 /\ test.count >= test.expectedServers /\ test.cmd1 = test.cmd

oneReturns ==
    /\ test.pc = "poll" /\ test.i = N /\ agreed
    /\ returned' = returned \cup {[cmd |-> test.cmd, index |-> test.index, retry |-> test.retry]}
    /\ test' = idle
    /\ UNCHANGED <<setup, raftLog, instances, running, network, observed,
                   changes, late, alarm>>

\* Looks again after 20 ms; after 2 s the command is submitted again, or not.
oneWaits ==
    /\ test.pc = "poll" /\ test.i = N /\ ~agreed
    /\ \/ test' = [test EXCEPT !.i = 0, !.count = 0, !.cmd1 = None]
       \/ test' = [test EXCEPT !.pc = IF test.retry THEN "start" ELSE "failed",
                               !.index = 0, !.i = 0, !.count = 0, !.cmd1 = None]
    /\ UNCHANGED <<setup, raftLog, instances, running, network, observed, returned,
                   changes, late, alarm>>

make_config ==
    /\ snapshot \in BOOLEAN
    /\ peer = [p \in Instance |-> Make(MakePersister)]
    /\ applier = [p \in Instance |-> IF p[2] = 1 THEN newApplier
                                     ELSE [pc |-> "none", rf |-> 0, m |-> None]]
    /\ rafts = [i \in Server |-> 1]
    /\ starts = [i \in Server |-> 1]
    /\ saved = [i \in Server |-> MakePersister]
    /\ connected = [i \in Server |-> TRUE]
    /\ enabled = [e \in Server \X Server |-> TRUE]
    /\ logs = [i \in Server |-> <<>>]
    /\ lastApplied = [i \in Server |-> 0]

Init ==
    /\ bounds \in Tests
    /\ make_config
    /\ committed = [k \in 1 .. bounds.started |-> -k] /\ pending = {} /\ sent = {}
    /\ test = idle /\ returned = {}
    /\ changes = 0
    /\ late = [i \in Server |-> FALSE]
    /\ alarm = None

Next ==
    /\ alarm = None /\ test.pc # "failed"
    /\ \/ commit
       \/ \E p \in Instance : \/ learnsCommit(p) \/ InstallSnapshot(p) \/ apply(p)
                              \/ applierReads(p) \/ applierSnap(p)
       \/ testConnects \/ testDisconnects \/ crash1 \/ start1
       \/ one \/ tryServer \/ noLeader \/ nCommitted \/ oneReturns \/ oneWaits

Spec == Init /\ [][Next]_vars

(***************************************************************************)
(* Properties.                                                             *)
(***************************************************************************)
undisturbed == \A i \in Server : ~late[i]

\* While Raft commits one log, the tester fails a test (log.Fatalf in the
\* appliers, in ingestSnap and in Raft's Snapshot, t.Fatalf in nCommitted) only
\* after the applier of an instance that start1 replaced has acted.  Neither a
\* restart, with or without a snapshot, nor a snapshot that is older than what
\* the applier has, because it was installed after apply chose the command
\* that follows it, nor a snapshot of the applier that Raft finds outdated,
\* raises a false alarm.
NoFalseAlarm == alarm # None => ~undisturbed

\* What the tester has recorded for a server is what Raft committed, without
\* gaps, and so is every snapshot the appliers built from it, although the
\* record is rebuilt by ingestSnap and snapshots are taken outside cfg.mu.
RecordsAreCommitted ==
    undisturbed =>
        /\ \A i \in Server, k \in 1 .. bounds.indexes :
            k \in DOMAIN logs[i] => k <= Len(committed) /\ logs[i][k] = committed[k]
        /\ \A p \in Instance : peer[p].saved.snapshot # None =>
            \A k \in 1 .. peer[p].saved.lastIncludedIndex :
                peer[p].saved.snapshot.xlog[k] = committed[k]
        /\ \A i \in Server, k \in 2 .. bounds.indexes : k \in DOMAIN logs[i] => k - 1 \in DOMAIN logs[i]

\* The index one() returns is where its command was committed, whoever
\* answered Start and whatever was committed there instead; and a command
\* that was not to be retried is in the log once.
OneIsCommitted ==
    \A r \in returned :
        /\ r.index <= Len(committed) /\ committed[r.index] = r.cmd
        /\ ~r.retry => \A k \in 1 .. Len(committed) : committed[k] = r.cmd => k = r.index

\* An end between two running instances is enabled just when both servers
\* are connected, after any sequence of connect, disconnect, crash1 and
\* start1.
EndsMatchConnected ==
    \A e \in Server \X Server : enabled[e] <=> connected[e[1]] /\ connected[e[2]]
=============================================================================
