----------------------------- MODULE RaftProofs -----------------------------
(***************************************************************************)
(* What follows from the invariants of the Raft peers, for any finite       *)
(* number of them and any bounds: elections, logs and commitment.          *)
(***************************************************************************)
EXTENDS RaftPeers, RaftLogs, RaftCommit, FiniteSetTheorems

\* Some naturals have a least one.
LEMMA LeastNatural == LeastExists
<1> SUFFICES ASSUME NEW S \in SUBSET Nat, S # {}
             PROVE  \E x \in S : \A y \in S : x <= y
  BY ZenonT(30) DEF LeastExists
<1>1. PICK x \in S : \A y \in S : ~(<<y, x>> \in OpToRel(<, Nat))
  BY NatLessThanWellFounded, WFMin, Zenon
<1>2. \A y \in S : x \in Nat /\ y \in Nat /\ ~(y < x)
  BY <1>1, Zenon DEF OpToRel
<1>3. \A y \in S : x <= y
  BY <1>2, SMTT(30)
<1> QED
  BY <1>3, Zenon

\* Two majorities of the peers have a peer in common.
LEMMA QuorumsIntersect == QuorumsMeet
<1> SUFFICES ASSUME NEW P \in SUBSET Server, NEW Q \in SUBSET Server,
                    Cardinality(P) >= majority, Cardinality(Q) >= majority
             PROVE  P \cap Q # {}
  BY ZenonT(30) DEF QuorumsMeet
<1>1. /\ Cardinality(Server) \in Nat
      /\ IsFiniteSet(P) /\ Cardinality(P) \in Nat
      /\ IsFiniteSet(Q) /\ Cardinality(Q) \in Nat
  BY ServerAssumption, FS_Subset, FS_CardinalityType, SMTT(60)
<1>2. Cardinality(P) + Cardinality(Q) > Cardinality(Server)
  BY <1>1, SMTT(60) DEF majority
<1> QED
  BY <1>1, <1>2, ServerAssumption, FS_MajoritiesIntersect, ZenonT(60)

\* The voter that two leaders of a term share is pledged to both.
LEMMA ElectionInvSafe == ElectionInv => ElectionSafety
<1> SUFFICES ASSUME ElectionInv, NEW i \in Server, NEW j \in Server,
                    state[i] = "LEADER", state[j] = "LEADER",
                    currentTerm[i] = currentTerm[j]
             PROVE  i = j
  BY ZenonT(30) DEF ElectionSafety
<1>1. PICK P \in SUBSET votesGranted[i] : Cardinality(P) >= majority
  BY ZenonT(30) DEF ElectionInv, LeaderHasQuorum
<1>2. PICK Q \in SUBSET votesGranted[j] : Cardinality(Q) >= majority
  BY ZenonT(30) DEF ElectionInv, LeaderHasQuorum
<1>3. P \in SUBSET Server /\ Q \in SUBSET Server
  BY SMTT(60) DEF ElectionInv, DiskInv, ElectionTypeOK
<1>4. PICK q \in P : q \in Q
  BY <1>1, <1>2, <1>3, QuorumsIntersect, Zenon DEF QuorumsMeet
<1> QED
  BY <1>4, ZenonT(30) DEF ElectionInv, VotesPledged, Pledged, Active

\* A term has at most one leader, whatever the number of peers and however
\* votes, replies, timeouts, losses and restarts interleave.
THEOREM SpecElectionSafety == Spec => []ElectionSafety
  BY ElectionInvInit, ElectionInvNext, ElectionInvSafe, PTL DEF Spec

\* The term, vote, state and votes of every peer, and the fields of messages
\* that elections read, have their types.
THEOREM SpecElectionTypeOK == Spec => []ElectionTypeOK
<1>1. DiskInv => ElectionTypeOK
  BY ZenonT(30) DEF DiskInv
<1> QED
  BY <1>1, DiskInvInit, DiskInvNext, PTL DEF Spec

\* No step of a peer leaves its Persister behind its memory, so that what a
\* restart reads is what the peer answered with.
THEOREM SpecPersistedCurrent == Spec => []PersistedCurrent
<1>1. DiskInv => PersistedCurrent
  BY ZenonT(30) DEF DiskInv
<1> QED
  BY <1>1, DiskInvInit, DiskInvNext, PTL DEF Spec

\* Every vote that counts, or may still count, is cast for one candidate.
THEOREM SpecVotesPledged == Spec => []VotesPledged
<1>1. ElectionInv => VotesPledged
  BY Zenon DEF ElectionInv
<1> QED
  BY <1>1, ElectionInvInit, ElectionInvNext, PTL DEF Spec

-----------------------------------------------------------------------------
\* The invariant of the logs: elections, services, the form of logs and calls,
\* who made the entries in them, and the terms along them.
RaftInv == ElectionInv /\ ServiceInv /\ ChainInv /\ LogInv /\ TermsInv

\* Before anything happens all logs are empty and nobody has voted.
LEMMA RaftInvInit == Init => RaftInv
  BY ElectionInvInit, ServiceInvInit, ChainInvInit, LogInvInit, TermsInvInit, ZenonT(30) DEF RaftInv

\* Every step keeps the layers in this order, each from the ones before it.
LEMMA RaftInvSteps == RaftInv /\ [Next]_vars => LowerStep
<1> SUFFICES ASSUME RaftInv, [Next]_vars PROVE LowerStep
  BY Zenon
<1>1. /\ LeastExists /\ QuorumsMeet /\ DiskInv
      /\ ElectionInv /\ ServiceInv /\ ChainInv /\ LogInv /\ TermsInv
  BY LeastNatural, QuorumsIntersect, Zenon DEF RaftInv, ElectionInv
<1>2. ElectionInv' /\ ElectionStep
  BY <1>1, ElectionInvNext, ElectionStepNext, Zenon
<1>3. ServiceInv'
  BY <1>1, ServiceInvNext, Zenon
<1>4. ChainInv'
  BY <1>1, ChainInvNext, Zenon
<1>5. LogInv'
  BY <1>1, <1>2, LogInvNext, ZenonT(30)
<1>6. LogsStep
  BY <1>1, LogsStepNext, Zenon
<1>7. TermsInv'
  <2>1. DiskInv' /\ VotesKept
    BY <1>2, Zenon DEF ElectionStep, VoteStep
  <2> QED
    BY <1>1, <2>1, TermsInvNext, Zenon
<1> QED
  BY <1>2, <1>3, <1>4, <1>5, <1>6, <1>7, ZenonT(30) DEF LowerStep

\* So it is an invariant.
LEMMA RaftInvNext == RaftInv /\ [Next]_vars => RaftInv'
  BY RaftInvSteps, Zenon DEF RaftInv, LowerStep

\* Entries of the same index and term, in the logs of any two peers, have the
\* same entries before them: AppendEntries compares PrevLogIndex and
\* PrevLogTerm, and InstallSnapshot keeps what follows the snapshot only if
\* its last entry has the snapshot's term.
THEOREM SpecLogMatching == Spec => []LogMatching
<1>1. RaftInv => LogMatching
  BY LogsMatch, ZenonT(30) DEF RaftInv
<1> QED
  BY <1>1, RaftInvInit, RaftInvNext, PTL DEF Spec

\* A leader appends to its log and changes nothing before: no AppendEntries or
\* InstallSnapshot of its own term reaches it, although neither handler looks
\* at the state of its peer.
THEOREM SpecLeaderAppendOnly == Spec => LeaderAppendOnly
<1>1. RaftInv /\ [Next]_vars =>
        [\A i \in Server :
           /\ state[i] = "LEADER" /\ state'[i] = "LEADER"
           /\ currentTerm'[i] = currentTerm[i]
           /\ lastIncludedIndex'[i] = lastIncludedIndex[i]
           => /\ Len(log[i]) <= Len(log'[i])
              /\ SubSeq(log'[i], 1, Len(log[i])) = log[i]]_vars
  BY LeastNatural, QuorumsIntersect, LeaderAppends, ZenonT(30) DEF RaftInv
<1> QED
  BY <1>1, RaftInvInit, RaftInvNext, PTL DEF Spec, LeaderAppendOnly

\* The search of a leader for the common prefix ends: what a failed
\* AppendEntries reports moves nextIndex before the index that failed and not
\* below 0, for any order of the replies.
THEOREM SpecBacktrackProgress == Spec => []BacktrackProgress
<1>1. RaftInv => BacktrackProgress
  BY LeastNatural, LeaderGoesBack, ZenonT(30) DEF RaftInv, ElectionInv
<1> QED
  BY <1>1, RaftInvInit, RaftInvNext, PTL DEF Spec

-----------------------------------------------------------------------------
\* The invariant of commitment, while no service takes snapshots: whole logs
\* with sorted terms, what is acknowledged, what is voted on, and what becomes
\* of the entries of leaders.
CommitmentInv == WholeLogInv /\ ReplicationInv /\ VoteCallInv /\ CommitInv

\* At first there are no entries, no messages and no leaders.
LEMMA CommitmentInvInit == Init => CommitmentInv
  BY RaftInvInit, WholeLogInvInit, ReplicationInvInit, VoteCallInvInit, CommitInvInit, Zenon
     DEF RaftInv, CommitmentInv

\* Every step keeps it.
LEMMA CommitmentInvNext ==
    ASSUME ~Snapshotting
    PROVE  CommitmentInv /\ [Next]_vars => CommitmentInv'
<1> SUFFICES ASSUME CommitmentInv, [Next]_vars PROVE CommitmentInv'
  BY Zenon
<1>1. Facts /\ WholeLogInv /\ ReplicationInv /\ VoteCallInv /\ CommitInv
  BY LeastNatural, QuorumsIntersect, Zenon DEF Facts, CommitmentInv
<1>2. LowerStep
  BY <1>1, RaftInvSteps, Zenon DEF RaftInv, WholeLogInv
<1>3. WholeLogInv' /\ ReplicationInv' /\ VoteCallInv'
  BY <1>1, <1>2, WholeLogInvNext, ReplicationInvNext, VoteCallInvNext, Zenon
<1>4. Step
  BY <1>1, <1>2, <1>3, Zenon DEF Step
<1>5. CommitInv'
  BY <1>1, <1>4, CommitInvNext, Zenon
<1> QED
  BY <1>3, <1>5, Zenon DEF CommitmentInv

\* What a leader has in matchIndex for a peer of its term is in the log of that
\* peer, in whatever order handleAppendReply sees the replies, lost and late
\* ones and restarts included.  With snapshots this is not so: AppendEntries
\* answers Success to entries that start below the snapshot without looking at
\* them (run v_skipped_entries).
THEOREM SpecMatchIndexSound ==
    ASSUME ~Snapshotting
    PROVE  Spec => []MatchIndexSound
<1>1. CommitmentInv => MatchIndexSound
  BY MatchIsSound, ZenonT(30) DEF CommitmentInv
<1> QED
  BY <1>1, CommitmentInvInit, CommitmentInvNext, PTL DEF Spec

\* An entry of its own term that a leader counts on a majority, the condition of
\* advanceCommitIndex, is in the log of every leader of a later term: the check
\* of updatedLog before a vote, and the one for currentTerm before a commit, are
\* enough for any number of peers, losses and restarts.
THEOREM SpecLeaderCompleteness ==
    ASSUME ~Snapshotting
    PROVE  Spec => []LeaderCompleteness
<1>1. CommitmentInv => LeaderCompleteness
  BY QuorumsIntersect, LeadersAreComplete, ZenonT(30) DEF CommitmentInv
<1> QED
  BY <1>1, CommitmentInvInit, CommitmentInvNext, PTL DEF Spec
=============================================================================
