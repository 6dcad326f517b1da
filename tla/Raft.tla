-------------------------------- MODULE Raft --------------------------------
(***************************************************************************)
(* The Raft peer of src/raft/raft.go: elections, log replication, commit,  *)
(* apply, snapshots, persistence and restart, over the lossy, reordering   *)
(* RPC network of src/labrpc.  One step is what the code does under one    *)
(* hold of rf.mu.  Log indices start at 0 and -1 means "none", as in the   *)
(* code; only the indices given to the service start at 1.                 *)
(***************************************************************************)
EXTENDS Integers, Sequences, FiniteSets, FiniteSetsExt

CONSTANTS
    Server,         \* the peers
    Nil,            \* no vote (votedFor = -1), no command
    Snapshotting,   \* whether services call Snapshot (maxraftstate # -1)
    SnapShotInterval,   \* of applierSnap; 0 for services that call Snapshot at will
    MaxElections,   \* bound: elections started in a behaviour (so terms)
    MaxStarts,      \* bound: commands given to leaders in a behaviour
    MaxInFlight,    \* bound: requests and replies in the network
    MaxCrashes,     \* bound: crashes in a behaviour
    MaxLosses,      \* bound: messages lost in a behaviour
    MaxCommit       \* bound: entries advanceCommitIndex finds committed

ASSUME ServerAssumption == IsFiniteSet(Server)

ASSUME NilAssumption == Nil \notin Server

ASSUME BoundsAssumption ==
    /\ MaxElections \in Nat /\ MaxStarts \in Nat /\ MaxInFlight \in Nat
    /\ MaxCrashes \in Nat /\ MaxLosses \in Nat /\ MaxCommit \in Nat
    /\ Snapshotting \in BOOLEAN /\ SnapShotInterval \in Nat

VARIABLES
    currentTerm, votedFor, state,          \* election state of each peer
    votesGranted,                          \* the votes its gatherVotes counted
    log, lastIncludedIndex, lastIncludedTerm, snapshot,
    commitIndex, nextIndex, matchIndex,
    lastApplied, snapshotInstalled,
    applyCh,                               \* the message apply is sending, if any
    service,                               \* the commands its service holds
    persisted,                             \* what its Persister holds
    net,                                   \* the calls and replies in flight
    restarts, losses,                      \* restarts of each peer, lost messages
    elections, starts                      \* how many there have been

termVars == <<currentTerm, votedFor, state>>
logVars == <<log, lastIncludedIndex, lastIncludedTerm, snapshot>>
leaderVars == <<nextIndex, matchIndex>>
applyVars == <<lastApplied, snapshotInstalled, applyCh, service>>
faults == <<restarts, losses>>
vars == <<termVars, votesGranted, logVars, commitIndex, leaderVars,
          applyVars, persisted, net, elections, starts, faults>>

\* Commands are told apart: the n-th one given to any leader is n.
Command == Nat

LogEntry == [Index : Nat, Term : Nat, Command : Command]

LogInfo == [Term : Nat, Index : Int, Len : Int]

-----------------------------------------------------------------------------
(* Reading the log of peer i.                                              *)

baseIndex(i) == lastIncludedIndex[i] + 1

lastLogIndex(i) == baseIndex(i) + Len(log[i]) - 1

\* The term of the entry at idx; the snapshot stands for its last entry.
logTerm(i, idx) ==
    IF idx = lastIncludedIndex[i] THEN lastIncludedTerm[i]
    ELSE log[i][idx - lastIncludedIndex[i]].Term

lastLogTerm(i) == logTerm(i, lastLogIndex(i))

entryHasTerm(i, idx, term) ==
    /\ idx <= lastLogIndex(i)
    /\ logTerm(i, idx) = term

firstWithSameTerm(i, idx) ==
    Min({idx} \cup {k \in baseIndex(i) .. idx :
                        \A n \in k .. idx : logTerm(i, n) = logTerm(i, idx)})

logInfo(i, expectedIndex) ==
    IF expectedIndex <= lastLogIndex(i)
    THEN [Term  |-> logTerm(i, expectedIndex),
          Index |-> firstWithSameTerm(i, expectedIndex),
          Len   |-> lastLogIndex(i) + 1]
    ELSE [Term |-> 0, Index |-> -1, Len |-> lastLogIndex(i) + 1]

\* LogInfo of a reply that never had it set.
NoLogInfo == [Term |-> 0, Index |-> 0, Len |-> 0]

\* The entries of log i from start, those before end, and those after index.
logEntries(i, start) == SubSeq(log[i], start - baseIndex(i) + 1, Len(log[i]))

logEntriesTo(i, end) == SubSeq(log[i], 1, end - baseIndex(i))

\* Mutant: one entry too many is trimmed.
trim_OffByOne(i, index) ==
    SubSeq(log[i], index - baseIndex(i) + 3, Len(log[i]))

trim(i, index) ==
    LET nTrim == index - baseIndex(i) + 1
    IN  SubSeq(log[i], nTrim + 1, Len(log[i]))

\* The candidates for lastEntry: entries up to index of no later a term.
noLaterTerm(i, index, term) ==
    {k \in baseIndex(i) .. index : logTerm(i, k) <= term}

hasLastEntry(i, index, term) ==
    LET S == noLaterTerm(i, index, term)
    IN  S # {} /\ logTerm(i, Max(S)) = term

lastEntry(i, index, term) == Max(noLaterTerm(i, index, term))

\* Mutants: the length of the logs, or the logs, are not compared.
updatedLog_TermOnly(i, lastTerm, lastIndex) == lastTerm >= lastLogTerm(i)

updatedLog_Ignored(i, lastTerm, lastIndex) == TRUE

updatedLog(i, lastTerm, lastIndex) ==
    \/ lastTerm > lastLogTerm(i)
    \/ lastTerm = lastLogTerm(i) /\ lastIndex >= lastLogIndex(i)

majority == (Cardinality(Server) \div 2) + 1

nReplicated(i, index) ==
    Cardinality({j \in Server : matchIndex[i][j] >= index})

-----------------------------------------------------------------------------
(* Persistence, terms and the network.                                     *)

PersistentState(i) ==
    [currentTerm |-> currentTerm[i], votedFor |-> votedFor[i],
     log |-> log[i], lastIncludedIndex |-> lastIncludedIndex[i],
     lastIncludedTerm |-> lastIncludedTerm[i], snapshot |-> snapshot[i]]

\* Mutant: only a new term is saved, a vote or an entry is not.
persist_OnlyTerm(i, called) ==
    persisted' = IF called /\ currentTerm'[i] # currentTerm[i]
                 THEN [persisted EXCEPT ![i] = PersistentState(i)']
                 ELSE persisted

\* The last conjunct of a step: what i leaves on disk if it called persist.
persist(i, called) ==
    persisted' = IF called
                 THEN [persisted EXCEPT ![i] = PersistentState(i)']
                 ELSE persisted

\* currentTerm, votedFor and state of i once handleHigherTerm(t) returned.
termAfter(i, t) == IF t > currentTerm[i] THEN t ELSE currentTerm[i]

votedForAfter(i, t) == IF t > currentTerm[i] THEN Nil ELSE votedFor[i]

stateAfter(i, t) == IF t > currentTerm[i] THEN "FOLLOWER" ELSE state[i]

handleHigherTerm(i, t) ==
    /\ currentTerm' = [currentTerm EXCEPT ![i] = termAfter(i, t)]
    /\ votedFor' = [votedFor EXCEPT ![i] = votedForAfter(i, t)]
    /\ state' = [state EXCEPT ![i] = stateAfter(i, t)]

Send(messages) == net' = net \cup messages

\* A handler consumes its request; the answer is delivered only to the
\* instance of the caller that made the call.
Reply(request, reply) ==
    net' = (net \ {request})
              \cup (IF request.caller = restarts[request.src] THEN {reply} ELSE {})

Consume(message) == net' = net \ {message}

-----------------------------------------------------------------------------
(* Elections.                                                              *)

RequestVoteArgs(i, j) ==
    [type |-> "RequestVote", src |-> i, dst |-> j, caller |-> restarts[i],
     Term |-> currentTerm[i] + 1,
     LastLogIndex |-> lastLogIndex(i), LastLogTerm |-> lastLogTerm(i)]

\* election up to the wait in gatherVotes, under the lock that ticker took.
election(i) ==
    /\ elections < MaxElections
    /\ elections' = elections + 1
    /\ Cardinality(net) + Cardinality(Server) - 1 <= MaxInFlight
    /\ currentTerm' = [currentTerm EXCEPT ![i] = @ + 1]
    /\ votedFor' = [votedFor EXCEPT ![i] = i]
    /\ state' = [state EXCEPT ![i] = "CANDIDATE"]
    /\ votesGranted' = [votesGranted EXCEPT ![i] = {i}]
    /\ Send({RequestVoteArgs(i, j) : j \in Server \ {i}})
    /\ UNCHANGED <<logVars, commitIndex, leaderVars, applyVars, starts,
                   faults>>
    /\ persist(i, TRUE)

\* The timeout, which may expire at any time, expired.
ticker(i) == state[i] # "LEADER" /\ election(i)

\* Mutant: a peer votes for every candidate of its term.
vote_Again(m) ==
    /\ m.Term >= currentTerm[m.dst]
    /\ updatedLog(m.dst, m.LastLogTerm, m.LastLogIndex)

\* Whether m.dst, its term raised to m.Term if that is higher, votes for m.src.
vote(m) ==
    /\ m.Term >= currentTerm[m.dst]
    /\ votedForAfter(m.dst, m.Term) \in {Nil, m.src}
    /\ updatedLog(m.dst, m.LastLogTerm, m.LastLogIndex)

RequestVote(m) ==
    LET i == m.dst IN
    /\ m.type = "RequestVote"
    /\ currentTerm' = [currentTerm EXCEPT ![i] = termAfter(i, m.Term)]
    /\ state' = [state EXCEPT ![i] = stateAfter(i, m.Term)]
    /\ votedFor' = [votedFor EXCEPT ![i] =
                       IF vote(m) THEN m.src ELSE votedForAfter(i, m.Term)]
    /\ Reply(m, [type |-> "RequestVoteReply", src |-> i, dst |-> m.src,
                 ArgsTerm |-> m.Term, Term |-> termAfter(i, m.Term),
                 VoteGranted |-> vote(m)])
    /\ UNCHANGED <<votesGranted, logVars, commitIndex, leaderVars, applyVars,
                   elections, starts, faults>>
    /\ persist(i, m.Term > currentTerm[i] \/ vote(m))

\* The votes gatherVotes has counted once the reply m is there.  A vote for an
\* earlier election is counted in a closure that no longer matters.
gatherVotes(i, m) ==
    IF m.VoteGranted /\ m.ArgsTerm = currentTerm[i]
    THEN votesGranted[i] \cup {m.src} ELSE votesGranted[i]

requestVoteReply(m) ==
    LET i == m.dst IN
    /\ m.type = "RequestVoteReply"
    /\ handleHigherTerm(i, m.Term)
    /\ votesGranted' = [votesGranted EXCEPT ![i] = gatherVotes(i, m)]
    /\ Consume(m)
    /\ UNCHANGED <<logVars, commitIndex, leaderVars, applyVars, elections,
                   starts, faults>>
    /\ persist(i, m.Term > currentTerm[i])

\* Mutant: matchIndex keeps what an earlier term, or Make, left there.
becomeLeader_KeepsMatchIndex(i) ==
    /\ state[i] = "CANDIDATE"
    /\ Cardinality(votesGranted[i]) >= majority
    /\ state' = [state EXCEPT ![i] = "LEADER"]
    /\ nextIndex' = [nextIndex EXCEPT ![i] =
                        [j \in Server |-> lastLogIndex(i) + 1]]
    /\ UNCHANGED <<currentTerm, votedFor, votesGranted, logVars, commitIndex,
                   matchIndex, applyVars, persisted, net, elections, starts,
                   faults>>

\* election after gatherVotes returned TRUE.
becomeLeader(i) ==
    /\ state[i] = "CANDIDATE"
    /\ Cardinality(votesGranted[i]) >= majority
    /\ state' = [state EXCEPT ![i] = "LEADER"]
    /\ nextIndex' = [nextIndex EXCEPT ![i] =
                        [j \in Server |-> lastLogIndex(i) + 1]]
    /\ matchIndex' = [matchIndex EXCEPT ![i] =
                        [j \in Server |-> IF j = i THEN lastLogIndex(i) ELSE -1]]
    /\ UNCHANGED <<currentTerm, votedFor, votesGranted, logVars, commitIndex,
                   applyVars, persisted, net, elections, starts, faults>>

-----------------------------------------------------------------------------
(* Replication.                                                            *)

Start(i) ==
    /\ state[i] = "LEADER"
    /\ starts < MaxStarts
    /\ starts' = starts + 1
    /\ log' = [log EXCEPT ![i] =
                 Append(@, [Index |-> lastLogIndex(i) + 1,
                            Term |-> currentTerm[i], Command |-> starts'])]
    /\ matchIndex' = [matchIndex EXCEPT ![i][i] = lastLogIndex(i) + 1]
    /\ UNCHANGED <<termVars, votesGranted, lastIncludedIndex, lastIncludedTerm,
                   snapshot, commitIndex, nextIndex, applyVars, net, elections,
                   faults>>
    /\ persist(i, TRUE)

\* Tells apart calls in flight whose arguments are the same.
newCall == Min((1 .. MaxInFlight) \ {m.call : m \in {n \in net : "call" \in DOMAIN n}})

AppendEntriesArgs(i, j) ==
    LET prev == nextIndex[i][j] - 1 IN
    [type |-> "AppendEntries", src |-> i, dst |-> j, caller |-> restarts[i],
     call |-> newCall, Term |-> currentTerm[i],
     PrevLogIndex |-> prev, PrevLogTerm |-> logTerm(i, prev),
     Entries |-> logEntries(i, prev + 1), LeaderCommitIndex |-> commitIndex[i]]

\* Mutant: the snapshot sent is newer than its index says.
InstallSnapshotArgs_Newer(i, j) ==
    [type |-> "InstallSnapshot", src |-> i, dst |-> j, caller |-> restarts[i],
     call |-> newCall, Term |-> currentTerm[i],
     LastIncludedIndex |-> lastIncludedIndex[i], LastIncludedTerm |-> lastIncludedTerm[i],
     Snapshot |-> service[i]]

InstallSnapshotArgs(i, j) ==
    [type |-> "InstallSnapshot", src |-> i, dst |-> j, caller |-> restarts[i],
     call |-> newCall, Term |-> currentTerm[i],
     LastIncludedIndex |-> lastIncludedIndex[i], LastIncludedTerm |-> lastIncludedTerm[i],
     Snapshot |-> snapshot[i]]

\* The goroutine that brings follower j up to date, up to the call.
appendMissingEntries(i, j) ==
    /\ state[i] = "LEADER"
    /\ Cardinality(net) < MaxInFlight
    /\ Send({IF nextIndex[i][j] - 1 < lastIncludedIndex[i]
             THEN InstallSnapshotArgs(i, j) ELSE AppendEntriesArgs(i, j)})
    /\ UNCHANGED <<termVars, votesGranted, logVars, commitIndex, leaderVars,
                   applyVars, persisted, elections, starts, faults>>

\* Start, becomeLeader and, at every heartbeat, lead start such a goroutine for
\* every follower: it may run whenever i leads.
appendMissingEntriesOnAll(i) ==
    \E j \in Server \ {i} : appendMissingEntries(i, j)

\* The log of i with the entries of a request that matched it: cut at the
\* first entry whose term differs, and only there.
appendEntriesLocal(i, entries) ==
    LET differ == {k \in DOMAIN entries :
                      ~entryHasTerm(i, entries[k].Index, entries[k].Term)}
        k == Min(differ)
    IN  IF differ = {} THEN log[i]
        ELSE logEntriesTo(i, entries[k].Index)
                \o SubSeq(entries, k, Len(entries))

AppendEntriesReply(m, success, info) ==
    [type |-> "AppendEntriesReply", src |-> m.dst, dst |-> m.src,
     call |-> m.call, ArgsTerm |-> m.Term, PrevLogIndex |-> m.PrevLogIndex,
     NEntries |-> Len(m.Entries), Term |-> termAfter(m.dst, m.Term),
     Success |-> success, LogInfo |-> info]

\* Mutant: an outdated leader is listened to.
appendMatches_Outdated(m) == entryHasTerm(m.dst, m.PrevLogIndex, m.PrevLogTerm)

\* The request's entries follow the log of m.dst: success in AppendEntries.
appendMatches(m) ==
    /\ m.Term >= currentTerm[m.dst]
    /\ entryHasTerm(m.dst, m.PrevLogIndex, m.PrevLogTerm)

\* Mutant: the leader's commitIndex is taken over when it is smaller, too.
commitAfter_Smaller(i, leaderCommit) == Min({leaderCommit, lastLogIndex(i)'})

\* commitIndex of i, its log appended to, when the leader has leaderCommit.
commitAfter(i, leaderCommit) ==
    IF leaderCommit > commitIndex[i]
    THEN Min({leaderCommit, lastLogIndex(i)'}) ELSE commitIndex[i]

AppendEntries(m) ==
    LET i == m.dst IN
    /\ m.type = "AppendEntries"
    /\ currentTerm' = [currentTerm EXCEPT ![i] = termAfter(i, m.Term)]
    /\ votedFor' = [votedFor EXCEPT ![i] = votedForAfter(i, m.Term)]
    /\ state' = [state EXCEPT ![i] =
                    IF @ = "CANDIDATE" /\ m.Term = currentTerm[i]
                    THEN "FOLLOWER" ELSE stateAfter(i, m.Term)]
    /\ UNCHANGED <<votesGranted, lastIncludedIndex, lastIncludedTerm, snapshot,
                   leaderVars, applyVars, elections, starts, faults>>
    /\ \/ \* prev is under the snapshot: nothing is appended, yet Success
          /\ m.PrevLogIndex < lastIncludedIndex[i]
          /\ Reply(m, AppendEntriesReply(m, TRUE, NoLogInfo))
          /\ UNCHANGED <<log, commitIndex>>
          /\ persist(i, m.Term > currentTerm[i])
       \/ /\ m.PrevLogIndex >= lastIncludedIndex[i]
          /\ ~appendMatches(m)
          /\ Reply(m, AppendEntriesReply(m, FALSE,
                        IF entryHasTerm(i, m.PrevLogIndex, m.PrevLogTerm)
                        THEN NoLogInfo ELSE logInfo(i, m.PrevLogIndex)))
          /\ UNCHANGED <<log, commitIndex>>
          /\ persist(i, m.Term > currentTerm[i])
       \/ /\ m.PrevLogIndex >= lastIncludedIndex[i]
          /\ appendMatches(m)
          /\ log' = [log EXCEPT ![i] = appendEntriesLocal(i, m.Entries)]
          /\ commitIndex' = [commitIndex EXCEPT ![i] =
                                commitAfter(i, m.LeaderCommitIndex)]
          /\ Reply(m, AppendEntriesReply(m, TRUE, NoLogInfo))
          /\ persist(i, m.Term > currentTerm[i] \/ m.Entries # <<>>)

\* Mutant: off by one in the test for a log that is too short.
nextIndexOnFailure_OffByOne(m) ==
    LET i == m.dst  info == m.LogInfo IN
    IF m.PrevLogIndex > info.Len THEN info.Len
    ELSE IF hasLastEntry(i, m.PrevLogIndex, info.Term)
         THEN lastEntry(i, m.PrevLogIndex, info.Term)
         ELSE info.Index

\* nextIndex for the sender of a failed reply m.
nextIndexOnFailure(m) ==
    LET i == m.dst  info == m.LogInfo IN
    IF m.PrevLogIndex >= info.Len THEN info.Len
    ELSE IF hasLastEntry(i, m.PrevLogIndex, info.Term)
         THEN lastEntry(i, m.PrevLogIndex, info.Term)
         ELSE info.Index

\* Mutant: the earlier version that a comment in handleAppendReply keeps.
nextIndexOnSuccess_Adds(m) == nextIndex[m.dst][m.src] + m.NEntries

nextIndexOnSuccess(m) == m.PrevLogIndex + 1 + m.NEntries

handleAppendReply(m) ==
    LET i == m.dst  j == m.src
        ignored == stateAfter(i, m.Term) # "LEADER" \/ currentTerm[i] # m.ArgsTerm
        next == IF m.Success THEN nextIndexOnSuccess(m) ELSE nextIndexOnFailure(m)
    IN
    /\ m.type = "AppendEntriesReply"
    /\ handleHigherTerm(i, m.Term)
    /\ \/ ignored /\ UNCHANGED leaderVars
       \/ /\ ~ignored
          /\ nextIndex' = [nextIndex EXCEPT ![i][j] = next]
          /\ matchIndex' = IF m.Success
                           THEN [matchIndex EXCEPT ![i][j] = next - 1]
                           ELSE matchIndex
    /\ Consume(m)
    /\ UNCHANGED <<votesGranted, logVars, commitIndex, applyVars, elections,
                   starts, faults>>
    /\ persist(i, m.Term > currentTerm[i])

largestOnMajority(i) ==
    Max({commitIndex[i]} \cup
        {l \in commitIndex[i] + 1 .. lastLogIndex(i) :
            \A idx \in commitIndex[i] + 1 .. l : nReplicated(i, idx) >= majority})

\* The goroutine that every peer runs, whatever its state.
advanceCommitIndex(i) ==
    LET l == largestOnMajority(i) IN
    /\ state[i] # "LEADER" => commitIndex[i] # lastLogIndex(i)
    /\ l # lastIncludedIndex[i] /\ l > commitIndex[i]
    /\ logTerm(i, l) = currentTerm[i]
    /\ l < MaxCommit
    /\ commitIndex' = [commitIndex EXCEPT ![i] = l]
    /\ UNCHANGED <<termVars, votesGranted, logVars, leaderVars, applyVars,
                   persisted, net, elections, starts, faults>>

-----------------------------------------------------------------------------
(* Snapshots and the service.                                              *)

\* Whether a service that has executed n commands takes a snapshot: the tester
\* does so at regular intervals, a key/value server when its log is large.
isSnapshotIndex(n) == SnapShotInterval = 0 \/ (n + 1) % SnapShotInterval = 0

\* The service of i gives Raft a snapshot of all it has executed.  Above
\* commitIndex, or past the end of the log, the program stops.
Snapshot(i) ==
    LET index == Len(service[i]) - 1 IN
    /\ Snapshotting /\ isSnapshotIndex(Len(service[i]))
    /\ lastIncludedIndex[i] < index
    /\ index <= commitIndex[i] /\ index <= lastLogIndex(i)
    /\ log' = [log EXCEPT ![i] = trim(i, index)]
    /\ lastIncludedIndex' = [lastIncludedIndex EXCEPT ![i] = index]
    /\ lastIncludedTerm' = [lastIncludedTerm EXCEPT ![i] = logTerm(i, index)]
    /\ snapshot' = [snapshot EXCEPT ![i] = service[i]]
    /\ UNCHANGED <<termVars, votesGranted, commitIndex, leaderVars, applyVars,
                   net, elections, starts, faults>>
    /\ persist(i, TRUE)

\* The snapshot of m replaces what m.dst has.
snapshotIsNew(m) ==
    /\ m.Term >= currentTerm[m.dst]
    /\ m.LastIncludedIndex > lastIncludedIndex[m.dst]

InstallSnapshot(m) ==
    LET i == m.dst  last == m.LastIncludedIndex IN
    /\ m.type = "InstallSnapshot"
    /\ handleHigherTerm(i, m.Term)
    /\ Reply(m, [type |-> "InstallSnapshotReply", src |-> i, dst |-> m.src,
                 call |-> m.call, Term |-> termAfter(i, m.Term)])
    /\ UNCHANGED <<votesGranted, leaderVars, lastApplied, applyCh, service,
                   elections, starts, faults>>
    /\ \/ /\ ~snapshotIsNew(m)
          /\ UNCHANGED <<logVars, commitIndex, snapshotInstalled>>
          /\ persist(i, m.Term > currentTerm[i])
       \/ /\ snapshotIsNew(m)
          /\ snapshot' = [snapshot EXCEPT ![i] = m.Snapshot]
          /\ log' = [log EXCEPT ![i] =
                       IF entryHasTerm(i, last, m.LastIncludedTerm)
                       THEN trim(i, last) ELSE <<>>]
          /\ lastIncludedIndex' = [lastIncludedIndex EXCEPT ![i] = last]
          /\ lastIncludedTerm' = [lastIncludedTerm EXCEPT ![i] =
                                     m.LastIncludedTerm]
          /\ commitIndex' = [commitIndex EXCEPT ![i] = Max({@, last})]
          /\ snapshotInstalled' = [snapshotInstalled EXCEPT ![i] = TRUE]
          /\ persist(i, TRUE)

installSnapshotReply(m) ==
    /\ m.type = "InstallSnapshotReply"
    /\ handleHigherTerm(m.dst, m.Term)
    /\ Consume(m)
    /\ UNCHANGED <<votesGranted, logVars, commitIndex, leaderVars, applyVars,
                   elections, starts, faults>>
    /\ persist(m.dst, m.Term > currentTerm[m.dst])

\* Mutant: an older snapshot leaves lastApplied where it is.
applySnapshot_Forward(i) ==
    /\ snapshotInstalled[i]
    /\ lastApplied' = [lastApplied EXCEPT ![i] = IF @ < lastIncludedIndex[i]
                                                THEN lastIncludedIndex[i] ELSE @]
    /\ snapshotInstalled' = [snapshotInstalled EXCEPT ![i] = FALSE]
    /\ applyCh' = [applyCh EXCEPT ![i] =
          <<[valid |-> "Snapshot", Index |-> lastIncludedIndex[i] + 1,
             Data |-> snapshot[i]]>>]

applySnapshot(i) ==
    /\ snapshotInstalled[i]
    /\ lastApplied' = [lastApplied EXCEPT ![i] = lastIncludedIndex[i]]
    /\ snapshotInstalled' = [snapshotInstalled EXCEPT ![i] = FALSE]
    /\ applyCh' = [applyCh EXCEPT ![i] =
          <<[valid |-> "Snapshot", Index |-> lastIncludedIndex[i] + 1,
             Data |-> snapshot[i]]>>]

\* The entry under the snapshot has no command.
logCommand(i, idx) ==
    IF idx = lastIncludedIndex[i] THEN Nil ELSE log[i][idx - lastIncludedIndex[i]].Command

\* Before the entry under the snapshot the slice is read out of range and the
\* program stops.
applyCommand(i) ==
    /\ ~snapshotInstalled[i]
    /\ lastIncludedIndex[i] <= lastApplied[i] + 1
    /\ lastApplied' = [lastApplied EXCEPT ![i] = @ + 1]
    /\ applyCh' = [applyCh EXCEPT ![i] =
          <<[valid |-> "Command", Index |-> lastApplied[i] + 2,
             Data |-> <<logCommand(i, lastApplied[i] + 1)>>]>>]
    /\ UNCHANGED snapshotInstalled

\* Mutant: the last committed entry is left for later.
apply_LeavesLast(i) ==
    /\ applyCh[i] = <<>>
    /\ lastApplied[i] + 1 < commitIndex[i]
    /\ applySnapshot(i) \/ applyCommand(i)
    /\ UNCHANGED <<termVars, votesGranted, logVars, commitIndex, leaderVars,
                   service, persisted, net, elections, starts, faults>>

\* One turn of the loop in apply, up to the send on applyCh.
apply(i) ==
    /\ applyCh[i] = <<>>
    /\ lastApplied[i] < commitIndex[i]
    /\ applySnapshot(i) \/ applyCommand(i)
    /\ UNCHANGED <<termVars, votesGranted, logVars, commitIndex, leaderVars,
                   service, persisted, net, elections, starts, faults>>

\* applierSnap calls Snapshot before it reads on.
snapshotIsDue(i) ==
    /\ Snapshotting /\ SnapShotInterval > 0 /\ isSnapshotIndex(Len(service[i]))
    /\ lastIncludedIndex[i] < Len(service[i]) - 1

\* The service receives from applyCh (applierSnap of the tester).
serviceReceive(i) ==
    /\ applyCh[i] # <<>> /\ ~snapshotIsDue(i)
    /\ service' = [service EXCEPT ![i] = IF Head(applyCh[i]).valid = "Snapshot"
                                         THEN Head(applyCh[i]).Data
                                         ELSE @ \o Head(applyCh[i]).Data]
    /\ applyCh' = [applyCh EXCEPT ![i] = <<>>]
    /\ UNCHANGED <<termVars, votesGranted, logVars, commitIndex, leaderVars,
                   lastApplied, snapshotInstalled, persisted, net, elections, starts,
                   faults>>

-----------------------------------------------------------------------------
(* Crashes and lost messages.                                              *)

\* Replies to the instance of i that crashed find nobody; calls stay in flight.
RepliesTo(i) ==
    {m \in net : m.dst = i /\ m.type \in {"RequestVoteReply", "AppendEntriesReply",
                                          "InstallSnapshotReply"}}

crashes == MapThenSumSet(LAMBDA i : restarts[i], Server)

\* What the copy of the Persister holds if the peer was stopped after the
\* persist of handleHigherTerm(t).
Saved(i, t) ==
    LET p == persisted[i]
        raised == t > p.currentTerm
    IN  [currentTerm |-> IF raised THEN t ELSE p.currentTerm,
         votedFor |-> IF raised THEN Nil ELSE p.votedFor,
         log |-> p.log, lastIncludedIndex |-> p.lastIncludedIndex,
         lastIncludedTerm |-> p.lastIncludedTerm, snapshot |-> p.snapshot]

\* Mutant: a restarted peer does not give its service the snapshot.
snapshotToApply_Never(p) == FALSE

\* Whether the service is to be given the snapshot found on disk.
snapshotToApply(p) == p.snapshot # <<>>

\* crash1, then start1: Make with readPersist on the saved state.  The crash
\* may stop the handler, or the goroutine of a call, that was working on a
\* message (stoppedOn) of term t.  The service starts empty, as StartKVServer
\* makes it.
Make(i, stoppedOn, t) ==
    LET p == Saved(i, t) IN
    /\ crashes < MaxCrashes
    /\ restarts' = [restarts EXCEPT ![i] = @ + 1]
    /\ currentTerm' = [currentTerm EXCEPT ![i] = p.currentTerm]
    /\ votedFor' = [votedFor EXCEPT ![i] = p.votedFor]
    /\ log' = [log EXCEPT ![i] = p.log]
    /\ lastIncludedIndex' = [lastIncludedIndex EXCEPT ![i] = p.lastIncludedIndex]
    /\ lastIncludedTerm' = [lastIncludedTerm EXCEPT ![i] = p.lastIncludedTerm]
    /\ snapshot' = [snapshot EXCEPT ![i] = p.snapshot]
    /\ snapshotInstalled' = [snapshotInstalled EXCEPT ![i] = snapshotToApply(p)]
    /\ state' = [state EXCEPT ![i] = "FOLLOWER"]
    /\ lastApplied' = [lastApplied EXCEPT ![i] = p.lastIncludedIndex]
    /\ commitIndex' = [commitIndex EXCEPT ![i] = p.lastIncludedIndex]
    /\ nextIndex' = [nextIndex EXCEPT ![i] = [j \in Server |-> 0]]
    /\ matchIndex' = [matchIndex EXCEPT ![i] = [j \in Server |-> 0]]
    /\ votesGranted' = [votesGranted EXCEPT ![i] = {}]
    /\ applyCh' = [applyCh EXCEPT ![i] = <<>>]
    /\ service' = [service EXCEPT ![i] = <<>>]
    /\ persisted' = [persisted EXCEPT ![i] = p]
    /\ net' = net \ (RepliesTo(i) \cup stoppedOn)
    /\ UNCHANGED <<elections, starts, losses>>

\* Call returns false to its caller.
LoseMessage(m) ==
    /\ losses < MaxLosses
    /\ losses' = losses + 1
    /\ Consume(m)
    /\ UNCHANGED <<termVars, votesGranted, logVars, commitIndex, leaderVars,
                   applyVars, persisted, elections, starts, restarts>>

-----------------------------------------------------------------------------
Init ==
    /\ currentTerm = [i \in Server |-> 0]
    /\ votedFor = [i \in Server |-> Nil]
    /\ state = [i \in Server |-> "FOLLOWER"]
    /\ votesGranted = [i \in Server |-> {}]
    /\ log = [i \in Server |-> <<>>]
    /\ lastIncludedIndex = [i \in Server |-> -1]
    /\ lastIncludedTerm = [i \in Server |-> 0]
    /\ snapshot = [i \in Server |-> <<>>]
    /\ commitIndex = [i \in Server |-> -1]
    /\ nextIndex = [i \in Server |-> [j \in Server |-> 0]]
    /\ matchIndex = [i \in Server |-> [j \in Server |-> 0]]
    /\ lastApplied = [i \in Server |-> -1]
    /\ snapshotInstalled = [i \in Server |-> FALSE]
    /\ applyCh = [i \in Server |-> <<>>]
    /\ service = [i \in Server |-> <<>>]
    /\ persisted = [i \in Server |-> PersistentState(i)]
    /\ net = {}
    /\ elections = 0
    /\ starts = 0
    /\ restarts = [i \in Server |-> 0] /\ losses = 0

Next ==
    \/ \E i \in Server :
          \/ ticker(i) \/ becomeLeader(i) \/ Start(i)
          \/ appendMissingEntriesOnAll(i) \/ advanceCommitIndex(i)
          \/ Snapshot(i) \/ apply(i) \/ serviceReceive(i)
          \/ Make(i, {}, 0)
    \/ \E m \in net :
          \/ RequestVote(m) \/ requestVoteReply(m)
          \/ AppendEntries(m) \/ handleAppendReply(m)
          \/ InstallSnapshot(m) \/ installSnapshotReply(m)
          \/ LoseMessage(m) \/ Make(m.dst, {m}, m.Term)

Spec == Init /\ [][Next]_vars
=============================================================================
