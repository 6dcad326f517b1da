# A TLA+ model of mitdist

The repository holds solutions to the labs of MIT's course 6.5840 in Go: a
MapReduce library, a Raft library, a key/value service on top of Raft, the
simulated RPC network and the testers they run on, and a linearizability checker.
This directory holds TLA+ models of these programs, the TLC configurations that
check them, and proofs that TLAPS checks. Paths below are relative to `src/src/`.

## The system

| part | source | state | operations | what is hard |
|---|---|---|---|---|
| Raft peer | `raft/raft.go` | term, vote, log, snapshot, commitIndex, nextIndex, matchIndex, lastApplied | ticker/election, RequestVote, AppendEntries, InstallSnapshot and the handling of their replies, Start, advanceCommitIndex, Snapshot, apply, Make | replies in any order, locks given up during calls, crashes between two persists, snapshots racing with apply |
| Persister | `raft/persister.go` | raft state, snapshot | Save, Copy | what is on disk when a peer is stopped |
| Raft tester | `raft/config.go` | what each server delivered, running instances, connections | applier, applierSnap, checkLogs, ingestSnap, crash1, start1, connect, disconnect, one, nCommitted | appliers of old instances, reads without the mutex, indices that another command takes |
| RPC network | `labrpc/labrpc.go` | ends, servers, connections | Call, processReq, Connect, Enable, AddServer, DeleteServer, Cleanup | loss, delay, reordering, servers deleted during a call |
| Key/value server | `kvraft/server.go` | values, last request of each client, last applied message, waiting handlers | Operation, apply, initSnapshot, setState, refreshRaftTerm | duplicates, lost wakeups, a channel used under a lock, snapshot indices |
| Key/value client | `kvraft/client.go` | leader guess, request number | Get, PutAppend, tryNewLeader | retries of what was already done |
| Key/value tester | `kvraft/config.go` | persisters, ends in use, partitions | partition, ConnectAll, makeClient, ShutdownServer, StartServer | late handlers of a server that was shut down |
| MapReduce coordinator | `mr/coordinator.go` | queues and sets of finished tasks, done | GetTask, FinishTask, resetTask, Done | reads without locks, timers racing with completions |
| MapReduce worker | `mr/worker.go` | its task and the files it shares | mapFile, readPartition, reduce, calls | death or slowness at any point, files written in place |
| Linearizability checker | `porcupine/`, `models/kv.go` | linked history, cache, stack of calls | makeEntries, checkSingle, lift, unlift, checkParallel | backtracking on a mutated list, goroutines stopped early |

The key/value server gives commands to its Raft peer with Start, receives
committed commands and snapshots from it on applyCh, and gives it snapshots with
Snapshot. Peers talk to each other, and clients to servers, only over the RPC
network. The testers start and stop servers, cut and restore their connections and
watch what they deliver. The checker looks at histories of client operations.
MapReduce is independent of all of this.

## Modules

| module | models | proofs |
|---|---|---|
| `Raft`, `RaftProps`, `RaftRefinement`, `MCRaft` | the peers, with the network as they see it; their properties; the refinement mapping; symmetry and views | `RaftInvariants` (definitions), `RaftPeers`, `RaftChains`, `RaftLogs`, `RaftReplication`, `RaftCommit`, `RaftProofs` |
| `ReplicatedLog` | what the peers promise to the services above them | |
| `KVServer`, `MCKVServer` | clerks and key/value servers over Raft as a server sees it | |
| `KVStore` | what the key/value service promises its clients | |
| `Network` | the state of `labrpc` and the goroutines of a call | |
| `Testbed`, `MCTestbed` | the key/value tester at work on `Network` | `TestbedProofs` |
| `RaftTester`, `MCRaftTester` | the Raft tester, with instances that deliver one committed log | |
| `Porcupine`, `MCPorcupine` | the linearizability checker with the key/value model | |
| `MapReduce` | coordinator, workers and files | `MapReduceProofs` |

Each action carries the name of the Go function it stands for; a function that
gives up its lock, waits or is otherwise not atomic is split there. An operator
whose comment starts with "Mutant" is a wrong version of the definition after it.
No specification uses it; it is there to show that a property would notice.

### Raft

A step of `Raft` is what the code does under one hold of `rf.mu`. A function that
gives up the lock to make a call is split there (`appendMissingEntries` and
`handleAppendReply`; `election`, `requestVoteReply` and `becomeLeader`). `ticker`
and `appendMissingEntriesOnAll` may run at any time, because timeouts and
heartbeats may come at any time relative to everything else. Indices start at 0,
with -1 for none, as in the code.

`net` is the set of calls and replies in flight. A message may be received in any
order, or lost; it is never duplicated, because `labrpc` runs a handler at most
once per call. Calls with equal arguments are told apart by a number, so that two
of them do not become one. A call remembers the incarnation of its caller: a
restarted peer has new ends, so replies to the old incarnation are dropped.

`Make` is a crash with the restart that follows it. `persisted` is what the
Persister holds; `persist(i, called)` is the last conjunct of every step and says
whether the handler called persist. A handler may persist a new term in
`handleHigherTerm` and more at its end. The tester may copy the Persister between
the two, so `Make(m.dst, {m}, m.Term)` restarts a peer that handled just the term
of a message. The service of a peer is the sequence of commands it has executed;
it starts empty after a restart and gets the snapshot from `apply`. `applyCh` holds
the message that `apply` is handing over, chosen before the service reads it, so that
snapshots may be installed in between. The service is that of the Raft tester: it calls
`Snapshot` for every command whose index is one before a multiple of `SnapShotInterval`
(10 in the code), before it reads the next message (`snapshotIsDue`). This order
matters. A service reads past such an index only with a snapshot up to there, so that an
installed snapshot is older than what was applied by at most the message that was on its
way, and the service takes no snapshot of its own before it has received the older one. A
service that calls Snapshot whenever it likes (`SnapShotInterval` 0) may do so after apply
has gone back; Raft then trims entries above lastApplied, and `ApplyInRange` does not
hold. The key/value server is such a service (`v_old_snapshot`).

Left out: the clock (`heardOrVotedAt` only limits when an election may start),
log output, and encoding. Commands are numbers, a snapshot is the sequence of the
commands it covers.

`ReplicatedLog` is the abstract specification: one sequence of chosen commands
that only grows, of which each peer knows a prefix. The refinement mapping takes
for `known[i]` the snapshot of peer i and its log up to commitIndex.

### The key/value service

In `KVServer` a handler (`Operation`) is a record with a program counter: it tests
the condition (`mustWait`), goes to sleep (`Wait`), is woken by a broadcast, tests
again (`Woken`), looks at the term once more and takes its result (`Leave`), and
ends with the rendezvous on `handlerDoneCh` (`handlerDone`). Between the test and
the sleep a handler holds `kv.mu` but not the condition, so that
`refreshRaftTerm`, which broadcasts without the lock, may come in between. `free`
says that nobody holds `kv.mu`. `log.Fatalf` and a panic end the behaviour
(`fatal`).

Raft is the environment here: `committed` is one sequence of entries that only
grows, leaders have all of it, followers take over a leader's log or its
snapshot, and `apply` delivers what a peer knows to be committed. Elections, commitment and
replication (`isElected`, `commitsNext`, `takesLog`) are assumptions about that
environment and not translated. Start, the
snapshot calls, and the jump of lastApplied to the index of an installed snapshot
are those of `raft.go`. Raft's choice of a message and its receipt by the server are one
step; `Raft` and `RaftTester` keep them apart. `expected[n]` is a history variable: the state and the
answers that the first n - 1 committed commands should lead to, where a request
that is committed twice counts once.

A value is the sequence of the arguments it was put together from. A snapshot is
decoded the way `gob` decodes into maps that are there: entries are added and
replaced, none is removed.

`KVStore` is the abstract specification: one map, on which each call takes effect
once between its start and its return. A call takes effect when its command is
committed; the refinement mapping reads the map, and the effect of a pending call,
from the last element of `expected`.

### Network and testers

`Network` keeps for every call where its goroutines are. Everything processReq
learns of an end it reads once (`readEndnameInfo`), so the network may change
before the request is delivered, before the handler runs, and before and after the
server is looked at again (`checkReply`). A call that is answered late is a call
that takes its last step late. `Testbed` is the user of the network that
`kvraft/config.go` is: it goes through the operations of GenericTest in order, and
ShutdownServer and StartServer server by server, each call into the network a step.
An instance of a server has the number of its persister. A handler saves its call
with the persister of its instance; old instances go on handling, and calling.

`RaftTester` turns this around: the tester is what is examined. What is committed
(`commit`), and when an instance learns of it (`learnsCommit`), is left to the environment.
What an instance does with it is `apply`, `Snapshot`, `InstallSnapshot` and `Make` of
`raft.go`: `apply` chooses a message under `rf.mu`, and the applier reads it later. The
snapshots that the running instances took are kept in `sent` and may arrive at others at
any time. A killed instance goes on delivering, because the inner loop of `apply` does not look
at killed(). Every log.Fatalf that an applier can reach, those in `ingestSnap` and in Raft's
`Snapshot` included, is an alarm. A leader that was replaced may answer Start with an index that is
given to another command. `applierSnap` is split wherever it releases `cfg.mu`.

### Porcupine

A history is split by key; each part has its own goroutine (`search`), of which one
turn of the loop in checkSingle is a step. The list of entries has `next` and
`prev` as in the code, and `lift` and `unlift` change just the links that the code
changes. `linearized` is a bitset of words of `WordBits` bits (64 in the code);
the cache is looked up by hash and then compared. checkParallel receives results,
times out, kills, and collects the partial linearizations if asked to.

### MapReduce

A worker and the RPC handler that serves its call are one process; when the
worker dies, the handler goes on (`alive`). `findTask` is only the decision,
which the code takes without a lock; `popLast` is what happens under the lock.
The coordinator's timers are counted for each task in `timer`. `completeTask` and
`setDone` split the assignment to `c.done` between the value and the store, since
it is guarded by only one of two locks. The intermediate files of a map task are
one file, a set of the records that are in it; `mapFile` empties it (os.Create),
and `encodeKV` writes one record at a time. An output file is replaced by a
rename, so that it appears in one step. `Slow` says whether the 10 s timer of a
task may expire while a worker is still at it.

## What is checked with TLC

Each run fits in five minutes with two workers. The names of the constants that
bound a run start with `Max`, or are fields of `Workloads` and `Tests`. `MaxCommit` bounds
how many entries a peer may take for committed. Deadlock is
not checked: within the bounds every behaviour comes to an end.

| run | instance | shows |
|---|---|---|
| `raft_replication` | 3 peers, 2 elections, 2 commands, none taken for committed (`MaxCommit` 0), 2 messages in flight, 1 crash, 1 loss | `TypeOK`; one leader per term (`ElectionSafety`); counted votes were given to one candidate only (`VotesPledged`); disk and memory agree between steps (`PersistedCurrent`); `LogMatching`; a failed AppendEntries moves nextIndex back to a real index (`BacktrackProgress`); `MatchIndexSound`, `LeaderCompleteness`, `LeaderAppendOnly` |
| `raft_commit` | 3 peers, 2 elections, 2 commands, both may be committed (`MaxCommit` 2), 2 in flight, no crash, no loss | `CommittedOnMajority`, `CommitNeverDecreases`, and that the peers implement `ReplicatedLog` |
| `raft_snapshot` | 2 peers with snapshots at interval 2, 1 election, 3 commands, all may be committed (`MaxCommit` 3), 2 in flight, 1 crash | `AppliedInOrder`, `ApplyInRange`, `SnapshotMatchesLog`, `ServicePrefix` |
| `raft_apply` | as `raft_snapshot`, with 2 commands (`MaxCommit` 2) | `CommittedIsApplied` under fairness of apply and the service |
| `kv_service` | 2 servers, 2 clients, six workloads (below) | the service implements `KVStore`; every server holds the state after a prefix of the commands (`StateIsPrefix`); a snapshot holds what its index says (`SnapshotMatchesIndex`); a handler that sends on handlerDoneCh finds a receiver (`SendIsReceived`) |
| `network` | 2 servers, 1 client, 1 call, 1 change of connections in each of 2 iterations | `AcknowledgedIsSaved`, `OldEndsDisabled`, `HealthyCallsSucceed`, and `CallReturns` under fairness |
| `tester` | 2 servers with 2 instances each, four tests (below) | `NoFalseAlarm`, `RecordsAreCommitted`, `OneIsCommitted`, `EndsMatchConnected` |
| `porcupine` | 888 histories of 3 operations, and the empty one, with and without timeout and computeInfo | the verdict is true (`VerdictIsTrue`); the list survives (`ListIsRest`); `PartialsAreLegal`; `CheckEnds` under fairness |
| `mr_job` | 2 workers, 2 map and 2 reduce tasks, 2 records, 1 crash, no slow worker | `TypeOK`, `TaskNotLost`, `FilesReady`, `DoneMeansFinished`, `OutputComplete`, and `JobFinishes` under fairness |

Bounds. Two elections with three peers are enough for logs to diverge and for one
leader to overwrite what another one left; with two messages in flight replies
overtake each other. In `raft_commit` two entries may be committed, so that known
sequences are compared as prefixes, a late call carries a smaller commitIndex than the
follower has, or its entries end before the leader's, and the second leader commits an entry of the
first together with one of its own. The case in which an entry of an old term is on a
majority and is lost nevertheless (Figure 8 of the
Raft paper) needs four elections and is beyond these bounds; `SpecLeaderCompleteness`
below is the proof that covers it. `raft_replication` leaves commitIndex alone, on which
none of its properties depends but `TypeOK`. The snapshot run uses
two peers: there the follower gets a snapshot while it applies, and either peer may
restart. A snapshot older than what is applied moves lastApplied back, and commands
are applied again; this needs three commands, the one in the snapshot, one applied after it and one
that is still to be applied. `AppliedInOrder` and `ServicePrefix` show that the service,
which takes the snapshot over, then receives the right ones. `raft_apply` asks for liveness
over the whole graph of states, without symmetry and views, and has two commands.

The workloads of `kv_service` are two clients at one leader, whose calls overlap; two
clients at two leaders, whose entries have the same index, so that a handler wakes up for
an entry that is not its own; a
client that calls twice, with a leader change and a retry; a client whose calls time
out and which goes on to its next request while the old handlers wait; a client that retries
with snapshots and a restart; and one with snapshots and three entries, the least with which a
server may execute past a snapshot that it then ignores, so that Raft goes back, and still
have one to come. One call is enough in `network` because calls do
not read each other's state: each is carried by a goroutine of its own and the
tester does not look at them. The tests of `tester` are two commands, so that one
of them may find its index taken; three entries with one restart or
change of a connection, enough for two snapshots (`SnapShotInterval`
is 2, 10 in the code) and for one to arrive that is older than what was delivered;
one command with two restarts or changes of a connection; and four changes of
connections alone. The histories of `porcupine` are a put, an append and a get on
one key with every overlap and every value the get may have returned, and pairs of
keys; `WordBits` is 2, so that three operations need two words.

`raft_commit` allows no crash, the snapshot run of Raft has one election, and it
does not state `MatchIndexSound`, because of the disagreements below: the code does
not keep these properties otherwise.
`NoFalseAlarm` and `RecordsAreCommitted` of the tester are stated for behaviours in which
no applier of a replaced instance has acted, for the same reason. What
they cover of the unlocked reads in applierSnap is the running instance against start1,
against Raft, and against the appliers of the other servers.

### Where the code does not do what it says

| run | what happens |
|---|---|
| `v_restart_commits` | A leader that restarts before anybody has its entry commits it while it is a follower. `Make` leaves zeros in matchIndex, which say that everybody has entry 0, and `advanceCommitIndex` also runs on followers. With four or more peers no restart is needed: a follower that has just received entry 0 commits it, although only the leader has it, too. The tests fail with "committed but no majority" in such a case, but do not produce it. |
| `v_skipped_entries` | A follower with a snapshot answers Success to a call whose entries start below the snapshot, without looking at them (`SkipForwardTo` is never read). The leader counts all of them as replicated there, also those that lie above the snapshot and that the follower does not have (`MatchIndexSound`). |
| `v_old_snapshot` | A key/value server ignores a snapshot that is older than what it executed, but Raft goes on from that snapshot. If the server then takes a snapshot of its own, Raft trims entries it is still to deliver, and delivers a message without a command. |

Met while modelling, without a run of their own:

- `raft.go:522`: a successful InstallSnapshot does not advance nextIndex. The leader
  sends the snapshot again at every heartbeat, and the follower gets no further
  entries from this leader.
- `kvraft/server.go:121`, `142`: the server ends if a handler still waits for an
  index that Start returns again, and if a handler leaves its loop in a term that
  refreshRaftTerm had not seen before, when nothing was applied yet.
- `kvraft/server.go:301`: a handler may miss the broadcast of a new term and sleep
  until something else is applied.
- `mr/worker.go:117`: a map worker that is slower than the 10 s timer empties an
  intermediate file that a reducer is reading, and the output misses records:
  `OutputComplete` fails when `Slow` is TRUE.
- `raft/config.go:246`: start1 makes new ends and a new persister "to isolate previous
  instance of this server", but its applier is not isolated. It may store an index in
  cfg.lastApplied after start1 reset it, and the tester fails with "apply out of order"
  although Raft committed one log: without its precondition `NoFalseAlarm` fails.
- `mr/coordinator.go:88`: `c.done` may be overwritten with an older false, and the
  coordinator then does not end although the job is finished.
- `porcupine/checker.go:293`: an empty history without a timeout is waited for for
  ever.

### Fairness

`CommittedIsApplied` assumes weak fairness of `apply` and the service of a peer,
its calls of Snapshot included, taken together: apply is a loop that is signalled whenever
commitIndex changes, the service receives in a loop and takes its snapshots there, and
each waits for the other. The wait on `commitIndexChanged` is not
modelled: the code signals under `rf.mu` wherever it assigns commitIndex, except in Make,
and a missing signal would not be noticed here. Nothing is assumed of the network, elections or clients. `JobFinishes`
assumes weak fairness of each worker's steps, of each timer and of the
coordinator's poll of Done(); it does not assume that anybody starts dead workers
again. With one crash and two workers, one is always left. `MaxAssign` leaves room
for every task to be handed out again once a worker died, so the bound does not
stop the job. `CallReturns` assumes that the goroutines of the network run and that
a handler returns unless its server was shut down; neither the tester nor any
caller has to go on. `CheckEnds` assumes that every search and checkParallel run;
whether the timer expires is left open.

## What is proved

All proofs are for every value of the constants, within the assumptions stated in
the modules: a finite set of peers, `Nil` not among them, bounds that are natural
numbers; at least one map task and one record; at least one server, and clients
that are not numbers.

The Raft peers. The proofs go up in layers, each an invariant that is inductive
given the ones below; `RaftInv` is the layers up to the logs together.
`RaftInvariants` defines the invariants and what a layer promises the ones above it of
every step: `ElectionStep` (votes are kept, nobody leads who was not elected),
`LogsStep` (which handlers change a log, and that a leader's only grows) and
`LowerStep`, both with the invariants after the step. A layer takes such a promise as a
hypothesis and not the lemmas it comes from, so that `RaftPeers` and `RaftChains` do not
know of each other, nor `RaftLogs` and `RaftReplication`. `RaftProofs` proves every
promise and puts the layers together; no hypothesis is left open there.

- `RaftPeers`. `DiskInv`: terms, votes and states have their types, and the disk
  agrees with memory, because every action either calls persist last or changes
  nothing that is persistent (`SpecPersistedCurrent`, `SpecElectionTypeOK`).
  `ServiceInv`: a snapshot, kept by a peer, on its way to one or in applyCh, has as
  many commands as its index says, and a service has executed up to lastApplied
  unless a message or an installed snapshot is still to reach it
  (`SpecSnapshotMatchesLog`, `SpecAppliedInOrder`). This holds with restarts and with
  snapshots that move lastApplied back, and needs nothing about commitment.
  `ElectionInv`: a vote that was counted, or is on its way, pledges the voter: it
  has moved to a later term or still has this vote on record, and no other candidate
  of the term has its vote counted or in flight (`SpecVotesPledged`). This is
  inductive together with `DiskInv`, which is what makes a restart harmless. Two
  leaders of one term would have majorities of pledged voters, and two majorities
  meet (`SpecElectionSafety`). `Elected(t, s)` says that s has such a majority in
  term t and is no longer a candidate in it; once true it stays true, also after s has crashed or lost its lead, so
  that a term has one leader in all of a behaviour.
- `RaftChains`. A chain is a run of entries after a base of which index
  and term are known: the log of a peer after its snapshot, the entries of an
  AppendEntries call after PrevLogIndex, the empty run of an InstallSnapshot call.
  The first half has no state; it says what cutting a chain, and joining two where they
  agree, keeps. The second shows that every step of the peers makes its new chains
  in just these ways, except Start, which appends one entry (`Made`): in
  AppendEntries the loop that looks for the first conflict joins call and log where
  they agree, in InstallSnapshot the log is kept only if it has the snapshot's last
  entry.
- `RaftLogs`. `LogInv`: a call with entries was sent by the elected leader of its
  term (`SentByLeader`); an entry of term t was made by a peer elected in t, and while
  that one leads its log reaches as far as the entry (`MadeByLeader`); any two chains that have an entry of the
  same index and term are the same before it (`AllMatch`). Matching of the logs
  alone is not inductive: the calls in flight carry entries into them, so that it
  has to be said of those too, however old they are. `TermsInv`: the terms along a log,
  and a call, never fall, and none is later than the term of the peer or of the call.
- `RaftReplication`. `WholeLogInv` adds to this that while no service takes snapshots a log
  starts at index 0. `ReplicationInv`: what a call
  carries is from the log of its leader, and what a follower acknowledged, whether the
  reply is on its way or counted in matchIndex, is in the follower's log for as long as
  the follower is in the term of the call. It is said of terms, not of peers, so that an
  acknowledgement outlives the crash of its leader.
- `RaftCommit`. `CommitInv` is about each entry that a leader made in its own term. Either the
  entry is `Lost`: a majority has gone to later terms without having acknowledged it, and nobody will
  commit it. Or it is `Kept`: the peers that acknowledged it have it, and so has every log
  with an entry of a later term, every leader of a later term, every call of one, and every
  candidate of a later term that has the vote of a peer that acknowledged it. A candidate
  that wins has such a vote, since two majorities meet, and by the comparison of logs in
  RequestVote its log is at least as up to date as the voter's, so it has the entry. The invariant
  looks back at votes and acknowledgements instead of at commitIndex, so that it needs nothing
  of what followers take for committed.
- `RaftProofs`. `SpecLogMatching`. `SpecLeaderAppendOnly`: a peer that leads
  receives no AppendEntries or InstallSnapshot of its own term, although neither
  handler looks at its state. `SpecBacktrackProgress`: what a follower
  proposes when the check of PrevLogIndex fails is an index before the one that
  failed and not negative, whatever the order of replies. `SpecMatchIndexSound` and
  `SpecLeaderCompleteness` are proved under `~Snapshotting`, from `CommitmentInv`, the
  invariants of `RaftReplication` and `RaftCommit` together: with snapshots the first
  does not hold (`v_skipped_entries`), and what counts as being on a majority is read from
  matchIndex. Restarts, lost messages and late replies are allowed. That two majorities meet
  and that a set of numbers has a least element are assumed by name in the modules
  below and proved here, where the theorems about finite sets are at hand.

`TestbedProofs`:

- `AcknowledgedCallsAreSaved`, `OldEndsStayDisabled`, from the inductive invariant
  `TInv`. `Phase` says how far the tester is: which servers are in the network with
  their newest persister and ends, and which are not in it at all. `CallsOK` says
  that a handler that has run saved its call with the persister of its instance, and
  that an answered call is in the newest one: when processReq looks at the server
  for the last time, the server is in the network, so by `Phase` its persister is
  the newest. From then on persisters are only copied and added to (`Grows`), so a
  late reply stays true. `EndsOK` says that an enabled end belongs to the instance
  in the network, and that ShutdownServer has disabled the ends of a server before
  it deletes it. The argument is the one the comments in processReq and
  ShutdownServer give, and it needs their order: delete first, then copy.
- `HealthyCallsGetThrough`: a call made after ConnectAll on a reliable network does
  not fail. `HealthyInv` says that when the tester checks, all ends in use are enabled,
  and that such a call, wherever it is, goes over an enabled end to the instance that
  is in the network; nobody changes that before the tester goes on.

`MapReduceProofs`:

- `SpecTypeOK`, `SpecTaskNotLost`, `SpecFilesReady` and `SpecDoneMeansFinished`,
  with slow and with dying workers. The inductive invariant adds to them how
  far a worker is in its task (`PositionOK`), that the files of finished map
  tasks exist and that a handler that chose a reduce task saw all map
  tasks finished (`FilesInv`), and that a value true that is about to be stored in
  done is about a finished job (`DoneInv`). Tasks are never removed from the
  finished sets, so a decision taken without a lock stays right however late it
  is used.
- `SpecOutputComplete`: if no worker is slow, every output was made from all records
  when the coordinator ends, whichever workers died at whatever point. `OneOwner`
  says why: a task is in its queue once, or watched by one timer, and one worker at
  a time is at it, so that nobody empties a file that somebody else reads or has
  finished. `ContentsOK` then says what the files hold at each point. For slow workers
  `OneOwner` fails, and the output with it.

Only model-checked:

- `CommittedOnMajority`, `CommitNeverDecreases`, `ApplyInRange`, `ServicePrefix` and
  the refinement of `ReplicatedLog`. A restart breaks the first (`v_restart_commits`),
  and what a peer takes for committed rests on it. With four peers or more it fails
  without a restart, so that no assumption on crashes would make it a theorem. The rest of the type invariant of `Raft` rests on it, too: that a slice is
  never read outside the log needs commitIndex to stay within it.
- The key/value service with its refinement, the Raft tester and the checker.
- All liveness properties: fairness and ENABLED are beyond the proof system.
- What needs induction over data: that the search of the checker, or `execute`
  folded over the commands, computes what it should for every input.

## Not modelled

- checkOneLeader, checkTerms, checkNoLeader and wait of the Raft tester: they poll
  the state of the peers until a deadline and change nothing.
- The statistics of the testers and of the network, and the reflection by which
  `labrpc` finds a handler.
- Progress of replication: that a follower catches up needs fairness of every call
  between the peers, and with snapshots it does not hold (see above).
- `porcupine/visualization.go` (HTML), `labgob` (a wrapper of the standard
  library's encoder), `shardctrler` and `shardkv` (skeletons with empty handlers),
  the MapReduce applications (text processing), the command-line programs,
  `mraft.go` and `server_bu.go` (earlier versions that no program uses), and
  `go-concurrency` (lecture examples).
