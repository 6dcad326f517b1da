----------------------------- MODULE RaftProps ------------------------------
(***************************************************************************)
(* The properties of the Raft peers of module Raft.                        *)
(***************************************************************************)
EXTENDS Raft

\* The messages of each kind.
Messages ==
    [type : {"RequestVote"}, src : Server, dst : Server, caller : Nat,
     Term : Nat, LastLogIndex : Int, LastLogTerm : Nat]
    \cup
    [type : {"RequestVoteReply"}, src : Server, dst : Server, ArgsTerm : Nat,
     Term : Nat, VoteGranted : BOOLEAN]
    \cup
    [type : {"AppendEntries"}, src : Server, dst : Server, caller : Nat,
     call : Nat, Term : Nat, PrevLogIndex : Int, PrevLogTerm : Nat,
     Entries : Seq(LogEntry), LeaderCommitIndex : Int]
    \cup
    [type : {"AppendEntriesReply"}, src : Server, dst : Server, call : Nat,
     ArgsTerm : Nat,
     PrevLogIndex : Int, NEntries : Nat, Term : Nat, Success : BOOLEAN,
     LogInfo : LogInfo]
    \cup
    [type : {"InstallSnapshot"}, src : Server, dst : Server, caller : Nat,
     call : Nat, Term : Nat, LastIncludedIndex : Int, LastIncludedTerm : Nat,
     Snapshot : Seq(Command)]
    \cup
    [type : {"InstallSnapshotReply"}, src : Server, dst : Server, call : Nat,
     Term : Nat]

ApplyMsg == [valid : {"Command", "Snapshot"}, Index : Int, Data : Seq(Command)]

Persistent ==
    [currentTerm : Nat, votedFor : Server \cup {Nil}, log : Seq(LogEntry),
     lastIncludedIndex : Int, lastIncludedTerm : Nat, snapshot : Seq(Command)]

\* The fields of Raft and of the RPC arguments have their types; a leader's
\* nextIndex, which becomes a slice bound in logEntries, is never negative.
TypeOK ==
    /\ currentTerm \in [Server -> Nat]
    /\ votedFor \in [Server -> Server \cup {Nil}]
    /\ state \in [Server -> {"FOLLOWER", "CANDIDATE", "LEADER"}]
    /\ votesGranted \in [Server -> SUBSET Server]
    /\ log \in [Server -> Seq(LogEntry)]
    /\ lastIncludedIndex \in [Server -> Int]
    /\ lastIncludedTerm \in [Server -> Nat]
    /\ snapshot \in [Server -> Seq(Command)]
    /\ commitIndex \in [Server -> Int]
    /\ nextIndex \in [Server -> [Server -> Nat]]
    /\ matchIndex \in [Server -> [Server -> Int]]
    /\ lastApplied \in [Server -> Int]
    /\ snapshotInstalled \in [Server -> BOOLEAN]
    /\ applyCh \in [Server -> Seq(ApplyMsg)]
    /\ service \in [Server -> Seq(Command)]
    /\ persisted \in [Server -> Persistent]
    /\ net \subseteq Messages
    /\ restarts \in [Server -> Nat] /\ losses \in Nat
    /\ elections \in Nat /\ starts \in Nat

-----------------------------------------------------------------------------
(* Elections.                                                              *)

\* No two peers lead in the same term (checkOneLeader of the tester), however
\* votes, replies, timeouts and restarts interleave.
ElectionSafety ==
    \A i, j \in Server :
        state[i] = "LEADER" /\ state[j] = "LEADER" /\ currentTerm[i] = currentTerm[j]
            => i = j

\* Whenever rf.mu is free, the Persister holds exactly the term, vote, log and
\* snapshot in memory: no handler answers before it called persist.
PersistedCurrent == \A i \in Server : persisted[i] = PersistentState(i)

\* A reply, still in the network, that grants a vote.
Grant(m) == m.type = "RequestVoteReply" /\ m.VoteGranted

Active(i) == state[i] \in {"CANDIDATE", "LEADER"}

\* Peer q has voted for s in term t, or will never vote in it again.
VotedOrPast(q, t, s) ==
    currentTerm[q] > t \/ (currentTerm[q] = t /\ votedFor[q] = s)

\* Whatever is to come, no other candidate of term t than s has the vote of q.
Pledged(q, t, s) ==
    /\ VotedOrPast(q, t, s)
    /\ \A k \in Server :
          Active(k) /\ currentTerm[k] = t /\ q \in votesGranted[k] => k = s
    /\ \A m \in net : Grant(m) /\ m.src = q /\ m.ArgsTerm = t => m.dst = s

\* Every vote counted in gatherVotes, and every vote on its way there, was
\* cast for this candidate alone, also by a voter that restarted since.
VotesPledged ==
    /\ \A i \in Server : Active(i) =>
          \A q \in votesGranted[i] : Pledged(q, currentTerm[i], i)
    /\ \A m \in net : Grant(m) => Pledged(m.src, m.ArgsTerm, m.dst)

-----------------------------------------------------------------------------
(* Logs.                                                                   *)

Entry(i, idx) == log[i][idx - lastIncludedIndex[i]]

\* The indices whose entries both i and j still have in their logs.
Common(i, j) ==
    (baseIndex(i) .. lastLogIndex(i)) \cap (baseIndex(j) .. lastLogIndex(j))

\* j has the entry that i has at idx, or has it under its snapshot.
Holds(j, i, idx) ==
    \/ idx <= lastIncludedIndex[j]
    \/ idx <= lastLogIndex(j) /\ Entry(j, idx) = Entry(i, idx)

\* Two logs with entries of the same index and term are the same up to there:
\* what the check of PrevLogIndex and PrevLogTerm in AppendEntries is for.
LogMatching ==
    \A i, j \in Server : \A idx \in Common(i, j) :
        Entry(i, idx).Term = Entry(j, idx).Term =>
            \A k \in Common(i, j) : k <= idx => Entry(i, k) = Entry(j, k)

\* While it leads, a peer only appends to its log: the AppendEntries handler,
\* which never looks at state = LEADER, does not cut it.
LeaderAppendOnly ==
    [][\A i \in Server :
         /\ state[i] = "LEADER" /\ state'[i] = "LEADER"
         /\ currentTerm'[i] = currentTerm[i]
         /\ lastIncludedIndex'[i] = lastIncludedIndex[i]
         => /\ Len(log[i]) <= Len(log'[i])
            /\ SubSeq(log'[i], 1, Len(log[i])) = log[i]]_vars

\* matchIndex is never more than the truth: nReplicated counts only "servers
\* that have replicated the log entry at the specified index or beyond", for
\* any order in which the replies to concurrent calls are handled.
MatchIndexSound ==
    \A i, j \in Server :
        state[i] = "LEADER" /\ currentTerm[j] = currentTerm[i] =>
            \A idx \in baseIndex(i) .. matchIndex[i][j] : Holds(j, i, idx)

\* A failed AppendEntries moves nextIndex to a real index strictly before the
\* one that failed, so the search for the common prefix ends and
\* missingEntriesForServer never reads outside the log.
BacktrackProgress ==
    \A m \in net :
        m.type = "AppendEntriesReply" /\ ~m.Success /\ m.Term = m.ArgsTerm
        /\ state[m.dst] = "LEADER" /\ currentTerm[m.dst] = m.ArgsTerm
            => nextIndexOnFailure(m) \in 0 .. m.PrevLogIndex

-----------------------------------------------------------------------------
(* Commitment.                                                             *)

\* An entry that a leader may commit (advanceCommitIndex: of its term, on a
\* majority) is in the log of every leader of a later term.
LeaderCompleteness ==
    \A i, j \in Server :
        state[i] = "LEADER" /\ state[j] = "LEADER" /\ currentTerm[j] > currentTerm[i] =>
            \A idx \in baseIndex(i) .. lastLogIndex(i) :
                nReplicated(i, idx) >= majority /\ Entry(i, idx).Term = currentTerm[i]
                    => Holds(j, i, idx)

\* No peer takes an entry for committed that is not on a majority; the tests
\* of raft fail with "committed but no majority" otherwise.
CommittedOnMajority ==
    \A i \in Server : \A idx \in baseIndex(i) .. commitIndex[i] :
        Cardinality({j \in Server : Holds(j, i, idx)}) >= majority

\* commitIndex never decreases as long as no peer restarts, although
\* AppendEntries sets it to min(LeaderCommitIndex, lastLogIndex()).
CommitNeverDecreases ==
    [][restarts' = restarts =>
         \A i \in Server : commitIndex'[i] >= commitIndex[i]]_vars

-----------------------------------------------------------------------------
(* What the services see.                                                  *)

\* Messages reach a service in order: a command is the next one after those
\* it has, and a snapshot holds as many commands as its index says (the
\* "apply out of order" and "snapshot doesn't match m.SnapshotIndex" checks
\* of the tester).
AppliedInOrder ==
    \A i \in Server : applyCh[i] # <<>> =>
        LET m == Head(applyCh[i]) IN
        \/ m.valid = "Command" /\ m.Index = Len(service[i]) + 1
        \/ m.valid = "Snapshot" /\ m.Index = Len(m.Data)

\* apply reads an entry that is in the log: entries under an installed
\* snapshot are skipped, and Snapshot is never called above commitIndex (the
\* log.Fatalf in Snapshot).  lastApplied is what the service holds, unless a
\* snapshot is still to be given to it.  Stated for a service that takes
\* snapshots as the tester's does (SnapShotInterval), and so is ServicePrefix.
ApplyInRange ==
    \A i \in Server :
        /\ lastApplied[i] <= commitIndex[i] /\ commitIndex[i] <= lastLogIndex(i)
        /\ ~snapshotInstalled[i] => lastIncludedIndex[i] <= lastApplied[i]
        /\ Len(service[i]) - 1 <= commitIndex[i]
        /\ applyCh[i] = <<>> /\ ~snapshotInstalled[i] => Len(service[i]) - 1 = lastApplied[i]

\* The snapshot a peer keeps, and would send, is the one that ends at its
\* lastIncludedIndex, also after InstallSnapshot and a restart.
SnapshotMatchesLog ==
    \A i \in Server : Len(snapshot[i]) = lastIncludedIndex[i] + 1

\* apply and the service take turns as long as there is something to do: apply
\* is woken by commitIndexChanged, and the tester reads applyCh in a loop, in
\* which it calls Snapshot.  One waits for the other, and snapshots end with what
\* was executed, so that fairness to all of them is fairness to each.
FairSpec ==
    /\ Spec
    /\ \A i \in Server : WF_vars(apply(i) \/ serviceReceive(i) \/ Snapshot(i))

\* What is committed is executed: apply catches up with commitIndex and the
\* service has taken all of it, whatever snapshots the service takes and the
\* leader sends meanwhile.
CommittedIsApplied ==
    \A i \in Server :
        lastApplied[i] < commitIndex[i] ~> lastApplied[i] = commitIndex[i] /\ applyCh[i] = <<>>

\* The commands that peer i takes for committed.
Committed(i) ==
    snapshot[i] \o [k \in 1 .. commitIndex[i] - lastIncludedIndex[i] |-> log[i][k].Command]

\* A service has executed a prefix of what its peer takes for committed, also
\* while snapshots are taken, installed and delivered between commands, and
\* when an installed snapshot is older than what was applied, so that apply
\* goes back and delivers commands again.
ServicePrefix ==
    \A i \in Server :
        /\ Len(service[i]) <= Len(Committed(i))
        /\ service[i] = SubSeq(Committed(i), 1, Len(service[i]))
=============================================================================
