----------------------------- MODULE RaftCommit -----------------------------
(***************************************************************************)
(* Why a leader may commit an entry of its term that is on a majority: as  *)
(* long as no service takes snapshots, every later leader has it, for any  *)
(* number of peers and any bounds.                                         *)
(***************************************************************************)
EXTENDS RaftReplication

\* A chain with an entry of the last term t of d has all entries of that term
\* that d has before.
LEMMA SameTermHas ==
    ASSUME NEW c, NEW d, IsChain(c), IsChain(d), Match(c, d), NEW t \in Nat, NEW idx \in Int,
           HasTerm(d, idx, t), SortedChain(d), BoundedBy(d, t),
           NEW k, HasTerm(c, k, t), idx <= k, k <= top(d), c.base <= idx
    PROVE  HasTerm(c, idx, t)
<1>1. /\ k \in Int /\ c.base \in Int /\ top(c) \in Int /\ d.base \in Int /\ top(d) \in Int
      /\ k \in Spans(c) /\ TermAt(c, k) = t /\ idx \in Spans(d) /\ TermAt(d, idx) = t
  <2>1. c.base \in Int /\ top(c) \in Int /\ d.base \in Int /\ top(d) \in Int
    BY ChainNumbers, Zenon
  <2>2. k \in Spans(c) /\ TermAt(c, k) = t /\ idx \in Spans(d) /\ TermAt(d, idx) = t
    BY Zenon DEF HasTerm
  <2> QED
    BY <2>1, <2>2, SpansInt, Zenon
<1>2. k \in Spans(d) /\ idx \in Spans(c)
  BY <1>1 DEF Spans
<1>3. TermAt(d, k) = t
  <2>1. TermAt(d, k) <= t /\ t <= TermAt(d, k) /\ TermAt(d, k) \in Nat
    BY <1>1, <1>2, TermIsNat, Zenon DEF SortedChain, BoundedBy
  <2> QED
    BY <2>1
<1>4. SameAt(c, d, idx)
  BY <1>1, <1>2, <1>3, Zenon DEF Match
<1> QED
  BY <1>1, <1>2, <1>4, Zenon DEF SameAt, HasTerm

-----------------------------------------------------------------------------
(* Calls for votes.                                                        *)

\* Votes go to peers that have reached the term they are for, and a candidate
\* has the log that it tells the others about.
VoteCallInv ==
    /\ \A r \in net : Grant(r) => r.ArgsTerm <= currentTerm[r.dst]
    /\ \A m \in net : m.type = "RequestVote" =>
          /\ m.Term <= currentTerm[m.src]
          /\ state[m.src] = "CANDIDATE" /\ m.Term = currentTerm[m.src] =>
                /\ m.LastLogIndex = top(LogChain(m.src))
                /\ m.LastLogTerm = TermAt(LogChain(m.src), top(LogChain(m.src)))

\* The call m asks for a vote on behalf of i, in its next term.
AsksFor(m, i) ==
    /\ election(i) /\ m.src = i /\ m.Term = currentTerm[i] + 1
    /\ m.LastLogIndex = lastLogIndex(i) /\ m.LastLogTerm = lastLogTerm(i)

\* The reply r to m grants a vote.
Grants(r, m) ==
    /\ RequestVote(m) /\ vote(m) /\ r.src = m.dst /\ r.dst = m.src /\ r.ArgsTerm = m.Term

\* election asks for votes, and nothing else does; RequestVote grants them.
LEMMA NewVotes ==
    ASSUME DiskInv, [Next]_vars, NEW r \in net', r \notin net
    PROVE  /\ r.type = "RequestVote" => \E i \in Server : AsksFor(r, i)
           /\ Grant(r) => \E m \in net : Grants(r, m)
<1> DEFINE P == /\ r.type = "RequestVote" => \E i \in Server : AsksFor(r, i)
                /\ Grant(r) => \E m \in net : Grants(r, m)
<1>1. ASSUME NEW m, NEW x, Reply(m, x), x.type \notin {"RequestVote", "RequestVoteReply"} PROVE P
  BY <1>1, Zenon DEF Reply, Grant
<1>2. ASSUME NEW m \in net, RequestVote(m) PROVE P
  <2>1. PICK x : /\ x = [type |-> "RequestVoteReply", src |-> m.dst, dst |-> m.src,
                         ArgsTerm |-> m.Term, Term |-> termAfter(m.dst, m.Term),
                         VoteGranted |-> vote(m)]
                 /\ Reply(m, x)
    BY <1>2 DEF RequestVote
  <2>2. r = x
    BY <2>1, Zenon DEF Reply
  <2>3. /\ r.type = "RequestVoteReply" /\ r.src = m.dst /\ r.dst = m.src /\ r.ArgsTerm = m.Term
        /\ r.VoteGranted = vote(m)
    BY <2>1, <2>2, Zenon
  <2> QED
    BY <1>2, <2>3, Zenon DEF Grant, Grants
<1>3. ASSUME NEW m \in net, InstallSnapshot(m) PROVE P
  BY <1>1, <1>3, Zenon DEF InstallSnapshot
<1>4. ASSUME NEW m \in net, AppendEntries(m) PROVE P
  <2>1. \A s, info : AppendEntriesReply(m, s, info).type = "AppendEntriesReply"
    BY DEF AppendEntriesReply
  <2>2. \E s, info : Reply(m, AppendEntriesReply(m, s, info))
    BY <1>4, ZenonT(60) DEF AppendEntries
  <2> QED
    BY <1>1, <2>1, <2>2, ZenonT(30)
<1>5. ASSUME NEW i \in Server, election(i) PROVE P
  <2>1. net' = net \cup {RequestVoteArgs(i, j) : j \in Server \ {i}}
    BY <1>5, Zenon DEF election, Send
  <2>2. PICK j \in Server : r = RequestVoteArgs(i, j)
    BY <2>1, Zenon
  <2>3. /\ r.type = "RequestVote" /\ r.src = i /\ r.Term = currentTerm[i] + 1
        /\ r.LastLogIndex = lastLogIndex(i) /\ r.LastLogTerm = lastLogTerm(i)
    BY <2>2, Zenon DEF RequestVoteArgs
  <2> QED
    BY <1>5, <2>3, Zenon DEF Grant, AsksFor
<1>6. ASSUME NEW i \in Server, NEW j \in Server, appendMissingEntries(i, j) PROVE P
  <2>1. /\ AppendEntriesArgs(i, j).type = "AppendEntries"
        /\ InstallSnapshotArgs(i, j).type = "InstallSnapshot"
    BY DEF AppendEntriesArgs, InstallSnapshotArgs
  <2>2. r.type = "AppendEntries" \/ r.type = "InstallSnapshot"
    BY <1>6, <2>1, Zenon DEF appendMissingEntries, Send
  <2> QED
    BY <2>2, ZenonT(30) DEF Grant
<1>7. ASSUME NEW m \in net,
             \/ requestVoteReply(m) \/ handleAppendReply(m) \/ installSnapshotReply(m)
             \/ LoseMessage(m)
      PROVE  P
  BY <1>7, ZenonT(60) DEF requestVoteReply, handleAppendReply, installSnapshotReply,
     LoseMessage, Consume
<1>8. ASSUME NEW i \in Server,
             \/ becomeLeader(i) \/ Start(i) \/ advanceCommitIndex(i) \/ Snapshot(i)
             \/ apply(i) \/ serviceReceive(i)
      PROVE  P
  <2>1. net' = net
    BY <1>8, ZenonT(60) DEF becomeLeader, Start, advanceCommitIndex, Snapshot, apply,
       serviceReceive
  <2> QED
    BY <2>1, Zenon
<1>9. ASSUME NEW i, NEW stoppedOn, NEW t, Make(i, stoppedOn, t) PROVE P
  BY <1>9, Zenon DEF Make
<1>10. ASSUME UNCHANGED vars PROVE P
  BY <1>10, Zenon DEF vars
<1> HIDE DEF P
<1>11. P
  BY <1>2, <1>3, <1>4, <1>5, <1>6, <1>7, <1>8, <1>9, <1>10, ZenonT(60)
     DEF Next, ticker, appendMissingEntriesOnAll
<1> QED
  BY <1>11 DEF P

\* A candidate appends nothing: AppendEntries makes it a follower first.
LEMMA CandidateLog ==
    ASSUME Facts, WholeLogInv, LowerStep, NEW k \in Server, state'[k] = "CANDIDATE"
    PROVE  LogChain(k)' = LogChain(k)
<1>1. /\ DiskInv /\ NoSnapshots /\ ~Snapshotting /\ LogsStep
      /\ state \in [Server -> {"FOLLOWER", "CANDIDATE", "LEADER"}]
      /\ currentTerm \in [Server -> Nat]
  BY Zenon DEF WholeLogInv, LowerStep, ElectionInv, Facts, DiskInv, ElectionTypeOK
<1>2. ~Start(k)
  BY Zenon DEF Start, termVars
<1>3. ASSUME NEW m \in net, m.dst = k, Appends(m) PROVE FALSE
  <2>1. /\ m.Term >= currentTerm[k]
        /\ state' = [state EXCEPT ![k] = IF @ = "CANDIDATE" /\ m.Term = currentTerm[k]
                                         THEN "FOLLOWER" ELSE stateAfter(k, m.Term)]
    BY <1>3, ZenonT(60) DEF Appends, AppendEntries, appendMatches
  <2>2. state'[k] = IF state[k] = "CANDIDATE" /\ m.Term = currentTerm[k]
                    THEN "FOLLOWER" ELSE stateAfter(k, m.Term)
    BY <1>1, <2>1, Zenon
  <2>3. m.Term \in Nat /\ currentTerm[k] \in Nat
    BY <1>1, ZenonT(30) DEF DiskInv, ElectionTypeOK, MessageOK
  <2> QED
    BY <2>1, <2>2, <2>3, SMTT(30) DEF stateAfter
<1> QED
  BY <1>1, <1>2, <1>3, PeerLog, Zenon

\* At first there are no messages.
LEMMA VoteCallInvInit == Init => VoteCallInv
  BY DEF Init, VoteCallInv

\* Terms only grow, and within its term a candidate keeps its log.
LEMMA VoteCallInvNext ==
    ASSUME Facts, WholeLogInv, VoteCallInv, LowerStep, [Next]_vars
    PROVE  VoteCallInv'
<1>1. /\ DiskInv /\ DiskInv' /\ VotesKept /\ ChainInv /\ NoSnapshots
  BY WholeLogInvNext, Zenon DEF VoteStep, WholeLogInv
<1>2. /\ \A k \in Server : /\ currentTerm[k] \in Nat /\ currentTerm'[k] \in Nat
                           /\ currentTerm[k] <= currentTerm'[k]
      /\ \A m \in net : m.src \in Server /\ m.dst \in Server /\ m.Term \in Nat
                        /\ (m.type = "RequestVoteReply" => m.ArgsTerm \in Nat)
      /\ \A m \in net' : m.src \in Server /\ m.dst \in Server /\ m.Term \in Nat
  BY <1>1 DEF DiskInv, ElectionTypeOK, MessageOK, VotesKept
<1>3. ASSUME NEW r \in net', Grant(r) PROVE r.ArgsTerm <= currentTerm'[r.dst]
  <2>1. CASE r \in net
    <3>1. /\ r.ArgsTerm \in Nat /\ r.ArgsTerm <= currentTerm[r.dst]
          /\ r.dst \in Server
      BY <1>2, <1>3, <2>1, Zenon DEF VoteCallInv, Grant
    <3> QED
      BY <1>2, <3>1
  <2>2. CASE r \notin net
    <3>1. PICK m \in net : Grants(r, m)
      BY <1>1, <1>3, <2>2, NewVotes, Zenon
    <3>2. m.type = "RequestVote"
      BY <3>1, Zenon DEF Grants, RequestVote
    <3>3. m.Term <= currentTerm[m.src] /\ m.src \in Server /\ m.Term \in Nat
      BY <1>2, <3>2, Zenon DEF VoteCallInv
    <3>4. m.Term <= currentTerm'[m.src]
      BY <1>2, <3>3, SMTT(30)
    <3> QED
      BY <3>1, <3>4, Zenon DEF Grants
  <2> QED
    BY <2>1, <2>2, Zenon
<1>4. ASSUME NEW m \in net', m.type = "RequestVote"
      PROVE  /\ m.Term <= currentTerm'[m.src]
             /\ state'[m.src] = "CANDIDATE" /\ m.Term = currentTerm'[m.src] =>
                   /\ m.LastLogIndex = top(LogChain(m.src)')
                   /\ m.LastLogTerm = TermAt(LogChain(m.src)', top(LogChain(m.src)'))
  <2>1. CASE m \in net
    <3>1. m.Term <= currentTerm[m.src] /\ m.src \in Server /\ m.Term \in Nat
      BY <1>2, <1>4, <2>1, Zenon DEF VoteCallInv
    <3>2. m.Term <= currentTerm'[m.src]
      BY <1>2, <3>1, SMTT(30)
    <3>3. ASSUME state'[m.src] = "CANDIDATE", m.Term = currentTerm'[m.src]
          PROVE  /\ m.LastLogIndex = top(LogChain(m.src)')
                 /\ m.LastLogTerm = TermAt(LogChain(m.src)', top(LogChain(m.src)'))
      <4>1. currentTerm'[m.src] = currentTerm[m.src] /\ m.Term = currentTerm[m.src]
        BY <1>2, <3>1, <3>3, SMTT(30)
      <4>2. state[m.src] = "CANDIDATE"
        BY <3>1, <3>3, <4>1, Zenon DEF LowerStep, ElectionStep, RoleStep
      <4>3. LogChain(m.src)' = LogChain(m.src)
        BY <3>1, <3>3, CandidateLog, ZenonT(30)
      <4> QED
        BY <1>4, <2>1, <4>1, <4>2, <4>3, Zenon DEF VoteCallInv
    <3> QED
      BY <3>2, <3>3, ZenonT(30)
  <2>2. CASE m \notin net
    <3>1. PICK i \in Server : AsksFor(m, i)
      BY <1>1, <1>4, <2>2, NewVotes, Zenon
    <3>2. m.src = i /\ m.Term = currentTerm[i] + 1 /\ election(i)
      BY <3>1, Zenon DEF AsksFor
    <3>3. currentTerm'[i] = currentTerm[i] + 1
      BY <1>1, <3>2, ZenonT(30) DEF election, DiskInv, ElectionTypeOK
    <3>4. /\ m.LastLogIndex = top(LogChain(i))
          /\ m.LastLogTerm = TermAt(LogChain(i), top(LogChain(i)))
      <4>1. /\ top(LogChain(i)) = lastLogIndex(i)
            /\ \A k : TermAt(LogChain(i), k) = logTerm(i, k)
        BY <1>1, LogFromStart, LogFacts, Zenon
      <4> QED
        BY <3>1, <4>1, Zenon DEF AsksFor, lastLogTerm
    <3>5. LogChain(i)' = LogChain(i)
      BY <1>1, <3>2, QuietPeer, Zenon DEF LogsSame
    <3>6. m.Term <= currentTerm'[m.src]
      BY <1>2, <3>2, <3>3, SMTT(30)
    <3> QED
      BY <3>2, <3>4, <3>5, <3>6, Zenon
  <2> QED
    BY <2>1, <2>2, Zenon
<1>5. (\A r \in net : Grant(r) => r.ArgsTerm <= currentTerm[r.dst])'
  BY <1>3, Zenon DEF Grant
<1> QED
  BY <1>4, <1>5, Zenon DEF VoteCallInv

-----------------------------------------------------------------------------
(* What becomes of an entry.                                               *)

\* A majority has gone on to later terms without the entry of i at idx.
Lost(i, idx) ==
    \E Q \in SUBSET Server :
        /\ Cardinality(Q) >= majority
        /\ \A q \in Q : currentTerm[q] > currentTerm[i] /\ ~Acked(q, i, idx)

\* k has the vote of q in its term, or the vote is on its way.
Voted(q, k) ==
    \/ q \in votesGranted[k]
    \/ \E r \in net : Grant(r) /\ r.src = q /\ r.dst = k /\ r.ArgsTerm = currentTerm[k]

\* q has the entry that the leader i made at idx.
HasOwn(q, i, idx) == HasTerm(LogChain(q), idx, currentTerm[i])

\* Who acknowledged the entry still has it, ...
AckersHave(i, idx) == \A q \in Server : Acked(q, i, idx) => HasOwn(q, i, idx)

\* ... so do all who have anything of a later term, ...
LaterLogsHave(i, idx) ==
    \A q \in Server : \A k \in Spans(LogChain(q)) :
        TermAt(LogChain(q), k) > currentTerm[i] => HasOwn(q, i, idx)

\* ... all leaders of later terms, ...
LaterLeadersHave(i, idx) ==
    \A k \in Server : state[k] = "LEADER" /\ currentTerm[k] > currentTerm[i] => HasOwn(k, i, idx)

\* ... their calls, unless what these follow is at least as new, ...
CallHas(m, t, idx) ==
    LET e == CallChain(m) IN
    \/ e.base >= idx /\ e.term >= t
    \/ HasTerm(e, idx, t)

LaterCallsHave(i, idx) ==
    \A m \in net : m.type = "AppendEntries" /\ m.Term > currentTerm[i] =>
        CallHas(m, currentTerm[i], idx)

\* ... and the candidates that got a vote of one who acknowledged it.
CandidatesHave(i, idx) ==
    \A k \in Server : state[k] = "CANDIDATE" /\ currentTerm[k] > currentTerm[i] =>
        \A q \in Server : Voted(q, k) /\ Acked(q, i, idx) => HasOwn(k, i, idx)

Kept(i, idx) ==
    /\ AckersHave(i, idx) /\ LaterLogsHave(i, idx) /\ LaterLeadersHave(i, idx)
    /\ LaterCallsHave(i, idx) /\ CandidatesHave(i, idx)

\* An entry that a leader made is given up for good, or is kept by all who
\* could put another one in its place.
CommitInv ==
    \A i \in Server : state[i] = "LEADER" =>
        \A idx \in Nat : HasOwn(i, i, idx) => Lost(i, idx) \/ Kept(i, idx)

-----------------------------------------------------------------------------
(* Steps while i leads.                                                    *)

\* A step from a state where all layers below hold, to another one.
Step ==
    /\ Facts /\ WholeLogInv /\ WholeLogInv' /\ ReplicationInv /\ ReplicationInv'
    /\ VoteCallInv /\ LowerStep /\ [Next]_vars

\* i leads before and after it.
GoesOn(i) ==
    state[i] = "LEADER" /\ state'[i] = "LEADER" /\ currentTerm'[i] = currentTerm[i]

\* The layers, one by one.
LEMMA Layers ==
    ASSUME Step
    PROVE  /\ ElectionInv /\ DiskInv /\ ServiceInv /\ ChainInv /\ NoSnapshots /\ SentByLeader
           /\ MadeByLeader /\ AllMatch /\ TermsInv /\ CallsOK /\ LeastExists /\ QuorumsMeet
           /\ ~Snapshotting /\ [Next]_vars /\ VoteStep /\ LogsStep /\ VotesPledged
           /\ ChainInv' /\ NoSnapshots' /\ TermsInv' /\ VotesPledged' /\ DiskInv'
<1>1. Facts /\ WholeLogInv /\ [Next]_vars /\ WholeLogInv' /\ ReplicationInv
  BY Zenon DEF Step
<1>2. VoteStep /\ LogsStep
  BY Zenon DEF Step, LowerStep, ElectionStep
<1>3. ChainInv' /\ NoSnapshots' /\ TermsInv' /\ VotesPledged' /\ DiskInv'
  BY <1>1, Zenon DEF WholeLogInv, ElectionInv
<1> QED
  BY <1>1, <1>2, <1>3, Zenon DEF Facts, WholeLogInv, LogInv, ElectionInv, ReplicationInv

\* Who leads was elected, in this step or before.
LEMMA Roles ==
    ASSUME Step, NEW i \in Server
    PROVE  /\ state'[i] = "CANDIDATE" /\ currentTerm'[i] = currentTerm[i] => state[i] = "CANDIDATE"
           /\ state'[i] = "LEADER" =>
                 becomeLeader(i) \/ (state[i] = "LEADER" /\ currentTerm'[i] = currentTerm[i])
           /\ state[i] = "LEADER" => Elected(currentTerm[i], i)
  BY Zenon DEF Step, LowerStep, ElectionStep, RoleStep

\* Terms are naturals and never get smaller.
LEMMA TermsGrow ==
    ASSUME Step
    PROVE  \A k \in Server : /\ currentTerm[k] \in Nat /\ currentTerm'[k] \in Nat
                             /\ currentTerm[k] <= currentTerm'[k]
<1>1. DiskInv /\ DiskInv' /\ VotesKept
  BY Layers, Zenon DEF VoteStep
<1> QED
  BY <1>1 DEF DiskInv, ElectionTypeOK, VotesKept

\* A call that a peer takes is of no earlier term than it was in, and it is in
\* that term then.
LEMMA TakenTerm ==
    ASSUME Step, NEW m \in net, Appends(m)
    PROVE  /\ m.Term \in Nat /\ currentTerm[m.dst] \in Nat /\ m.Term >= currentTerm[m.dst]
           /\ currentTerm'[m.dst] = m.Term
<1>1. DiskInv /\ m.dst \in Server
  BY Layers, Zenon DEF DiskInv, ElectionTypeOK, MessageOK
<1>2. currentTerm[m.dst] \in Nat
  BY <1>1, TermsGrow, ZenonT(30)
<1> QED
  BY <1>1, <1>2, CallTerm, Zenon

\* Only a peer in the term of the leader acknowledges anything new.
LEMMA NewAck ==
    ASSUME Step, NEW i \in Server, GoesOn(i), NEW q \in Server, NEW idx \in Nat,
           Acked(q, i, idx)', ~Acked(q, i, idx)
    PROVE  currentTerm'[q] = currentTerm[i]
<1>1. \/ Start(i) /\ q = i
      \/ \E m \in net : CallOf(m, i) /\ m.dst = q /\ Appends(m)
  <2>1. idx \in Int
    BY SMTT(30)
  <2>2. ReplicationInv
    BY DEF Step
  <2> QED
    BY <2>1, <2>2, Layers, AckStep, Zenon DEF GoesOn
<1>2. ASSUME NEW m \in net, CallOf(m, i), m.dst = q, Appends(m) PROVE currentTerm'[q] = currentTerm[i]
  BY <1>2, TakenTerm, Zenon DEF CallOf
<1> QED
  BY <1>1, <1>2, Zenon DEF GoesOn

\* A majority that has gone on never comes back.
LEMMA LostKept ==
    ASSUME Step, NEW i \in Server, GoesOn(i), NEW idx \in Nat, Lost(i, idx)
    PROVE  Lost(i, idx)'
<1>1. PICK Q \in SUBSET Server :
         /\ Cardinality(Q) >= majority
         /\ \A q \in Q : currentTerm[q] > currentTerm[i] /\ ~Acked(q, i, idx)
  BY Zenon DEF Lost
<1>2. ASSUME NEW q \in Q PROVE currentTerm'[q] > currentTerm'[i] /\ ~Acked(q, i, idx)'
  <2>1. /\ q \in Server /\ currentTerm[q] > currentTerm[i] /\ ~Acked(q, i, idx)
        /\ currentTerm'[i] = currentTerm[i]
    BY <1>1, ZenonT(30) DEF GoesOn
  <2>2. /\ currentTerm[q] \in Nat /\ currentTerm'[q] \in Nat /\ currentTerm[q] <= currentTerm'[q]
        /\ currentTerm[i] \in Nat
    BY <2>1, TermsGrow, ZenonT(30)
  <2>3. currentTerm'[q] > currentTerm[i]
    BY <2>1, <2>2, SMTT(30)
  <2>4. currentTerm'[q] # currentTerm[i]
    BY <2>2, <2>3, SMTT(30)
  <2>5. ~Acked(q, i, idx)'
    BY <2>1, <2>4, NewAck, Zenon
  <2> QED
    BY <2>1, <2>3, <2>5, ZenonT(30)
<1> QED
  BY <1>1, <1>2, SMTT(30) DEF Lost

\* The logs, as chains.
LEMMA LogsAre ==
    ASSUME Step, NEW q \in Server
    PROVE  /\ LogChain(q) \in Chains /\ IsChain(LogChain(q)) /\ LogChain(q).base = -1
           /\ SortedChain(LogChain(q)) /\ BoundedBy(LogChain(q), currentTerm[q])
<1>1. LogChain(q) \in Chains
  BY DEF Chains
<1>2. IsChain(LogChain(q)) /\ LogChain(q).base = -1
  BY Layers, LogFromStart, Zenon
<1> QED
  BY <1>1, <1>2, Layers, Zenon DEF TermsInv

\* Who has, further on, an entry of the term of the leader, has all that the
\* leader made before it.
LEMMA HasBefore ==
    ASSUME Step, NEW i \in Server, state[i] = "LEADER", NEW idx \in Nat, HasOwn(i, i, idx),
           NEW q \in Server, NEW k, HasTerm(LogChain(q), k, currentTerm[i]), idx <= k
    PROVE  HasOwn(q, i, idx)
<1> DEFINE c == LogChain(q)  d == LogChain(i)
<1>1. /\ c \in Chains /\ d \in Chains /\ IsChain(c) /\ IsChain(d) /\ c.base = -1
      /\ SortedChain(d) /\ BoundedBy(d, currentTerm[i])
  BY LogsAre, Zenon
<1>2. Match(c, d) /\ MadeByLeader
  BY <1>1, Layers, ZenonT(30) DEF AllMatch
<1>3. k \in Int /\ k \in Spans(c) /\ TermAt(c, k) = currentTerm[i] /\ k >= 0
  BY SpansInt DEF HasTerm
<1>4. k <= top(d)
  BY <1>1, <1>2, <1>3, Zenon DEF MadeByLeader
<1>5. currentTerm[i] \in Nat /\ idx \in Int /\ c.base <= idx
  BY <1>1, TermsGrow, SMTT(30)
<1>6. HasTerm(d, idx, currentTerm[i]) /\ HasTerm(c, k, currentTerm[i])
  BY Zenon DEF HasOwn
<1> HIDE DEF c, d
<1>7. HasTerm(c, idx, currentTerm[i])
  BY <1>1, <1>2, <1>4, <1>5, <1>6, SameTermHas, ZenonT(30)
<1> QED
  BY <1>7, ZenonT(30) DEF c, HasOwn

\* A peer that appends what a later leader sends it still has the entry.
LEMMA LaterAppend ==
    ASSUME Step, NEW i \in Server, state[i] = "LEADER", NEW idx \in Nat, HasOwn(i, i, idx),
           Kept(i, idx), NEW m \in net, Appends(m), m.Term > currentTerm[i], NEW q \in Server,
           m.dst = q
    PROVE  HasTerm(LogChain(q)', idx, currentTerm[i])
<1> DEFINE e == CallChain(m)  t == currentTerm[i]
<1>1. /\ m.type = "AppendEntries" /\ IsChain(e)
      /\ Overwrites(LogChain(q)', LogChain(q), e) /\ HasTerm(LogChain(q), e.base, e.term)
  BY Layers, Appended, Zenon
<1>2. CallHas(m, t, idx)
  BY <1>1, Zenon DEF Kept, LaterCallsHave
<1>3. CASE HasTerm(e, idx, t)
  BY <1>1, <1>3, Zenon DEF HasTerm, Overwrites
<1>4. CASE e.base >= idx /\ e.term >= t
  <2>1. t \in Nat /\ e.base \in Int /\ e.term \in Nat
    BY <1>1, TermsGrow, ZenonT(30) DEF IsChain
  <2>2. ASSUME e.term > t PROVE HasOwn(q, i, idx)
    BY <1>1, <2>2, Zenon DEF HasTerm, Kept, LaterLogsHave
  <2>3. ASSUME e.term = t PROVE HasOwn(q, i, idx)
    BY <1>1, <1>4, <2>1, <2>3, HasBefore, ZenonT(30)
  <2>4. HasOwn(q, i, idx)
    BY <1>4, <2>1, <2>2, <2>3, SMTT(30)
  <2>5. idx \in Spans(LogChain(q)) /\ TermAt(LogChain(q), idx) = t
    BY <2>4, Zenon DEF HasOwn, HasTerm
  <2>6. ASSUME NEW d \in Spans(e), d <= idx PROVE HasTerm(LogChain(q), d, TermAt(e, d))
    <3>1. d = e.base
      BY <1>4, <2>1, <2>6, SMTT(30) DEF Spans
    <3>2. TermAt(e, d) = e.term
      BY <3>1, Zenon DEF TermAt
    <3> QED
      BY <1>1, <3>1, <3>2, Zenon
  <2> QED
    BY <1>1, <2>5, <2>6, Zenon DEF Overwrites
<1> QED
  BY <1>2, <1>3, <1>4, Zenon DEF CallHas

\* Who acknowledged the entry keeps it in later terms.
LEMMA AckerKeeps ==
    ASSUME Step, NEW i \in Server, GoesOn(i), NEW idx \in Nat, HasOwn(i, i, idx), Kept(i, idx),
           NEW q \in Server, Acked(q, i, idx), currentTerm'[q] # currentTerm[i]
    PROVE  HasTerm(LogChain(q)', idx, currentTerm[i])
<1>1. HasTerm(LogChain(q), idx, currentTerm[i])
  BY Zenon DEF Kept, AckersHave, HasOwn
<1>2. CASE LogChain(q)' = LogChain(q)
  BY <1>1, <1>2, ZenonT(30)
<1>3. CASE Start(q)
  BY <1>1, <1>3, Layers, StartExtends, Zenon DEF Segment, PartAt, HasTerm
<1>4. ASSUME NEW m \in net, m.dst = q, Appends(m) PROVE HasTerm(LogChain(q)', idx, currentTerm[i])
  <2>1. m.Term \in Nat /\ m.Term >= currentTerm[q] /\ currentTerm'[q] = m.Term
    BY <1>4, TakenTerm, Zenon
  <2>2. m.Term > currentTerm[i]
    <3>1. currentTerm[q] >= currentTerm[i]
      BY Zenon DEF Step, ReplicationInv, AckedHas, GoesOn
    <3> QED
      BY <2>1, <3>1, TermsGrow, SMTT(30)
  <2> QED
    BY <1>4, <2>2, LaterAppend, Zenon DEF GoesOn
<1> QED
  BY <1>2, <1>3, <1>4, Layers, PeerLog, Zenon

\* The leader keeps its own.
LEMMA OwnKept ==
    ASSUME Step, NEW i \in Server, GoesOn(i), NEW idx \in Nat, HasOwn(i, i, idx)
    PROVE  HasOwn(i, i, idx)'
<1>1. Segment(LogChain(i), LogChain(i)') /\ currentTerm'[i] = currentTerm[i]
  BY Layers, LeaderExtends, Zenon DEF GoesOn
<1>2. HasTerm(LogChain(i)', idx, currentTerm[i])
  BY <1>1, Zenon DEF HasOwn, HasTerm, Segment, PartAt
<1> QED
  BY <1>1, <1>2, Zenon DEF HasOwn

\* Who acknowledged the entry, before or just now, has it.
LEMMA AckersHaveNext ==
    ASSUME Step, NEW i \in Server, GoesOn(i), NEW idx \in Nat, HasOwn(i, i, idx), Kept(i, idx)
    PROVE  AckersHave(i, idx)'
<1> SUFFICES ASSUME NEW q \in Server, Acked(q, i, idx)'
             PROVE  HasTerm(LogChain(q)', idx, currentTerm'[i])
  BY Zenon DEF AckersHave, HasOwn
<1>1. CASE currentTerm'[q] = currentTerm[i]
  <2>1. currentTerm'[q] = currentTerm'[i] /\ state'[i] = "LEADER"
    BY <1>1, ZenonT(30) DEF GoesOn
  <2>2. AckedHas(i)'
    BY <2>1, Zenon DEF Step, ReplicationInv
  <2>3. HasTerm(LogChain(q)', idx, TermAt(LogChain(i)', idx))
    BY <2>1, <2>2, Zenon DEF AckedHas
  <2>4. TermAt(LogChain(i)', idx) = currentTerm'[i]
    BY OwnKept, Zenon DEF HasOwn, HasTerm
  <2> QED
    BY <2>3, <2>4, Zenon
<1>2. CASE currentTerm'[q] # currentTerm[i]
  BY <1>2, NewAck, AckerKeeps, Zenon DEF GoesOn
<1> QED
  BY <1>1, <1>2, ZenonT(30)

\* A log with something of a later term has the entry: it had it before, or a
\* later leader sent it.
LEMMA LaterLogsHaveNext ==
    ASSUME Step, NEW i \in Server, GoesOn(i), NEW idx \in Nat, HasOwn(i, i, idx), Kept(i, idx)
    PROVE  LaterLogsHave(i, idx)'
<1> DEFINE t == currentTerm[i]
<1> SUFFICES ASSUME NEW q \in Server, NEW k \in Spans(LogChain(q)'), TermAt(LogChain(q)', k) > t
             PROVE  HasTerm(LogChain(q)', idx, t)
  BY Zenon DEF LaterLogsHave, HasOwn, GoesOn
<1>1. CASE LogChain(q)' = LogChain(q)
  BY <1>1, Zenon DEF Kept, LaterLogsHave, HasOwn
<1>2. currentTerm'[q] > t
  <2>1. TermAt(LogChain(q)', k) <= currentTerm'[q]
    BY Layers, Zenon DEF TermsInv, BoundedBy
  <2>2. TermAt(LogChain(q)', k) \in Nat
    BY Layers, NextLogs, TermIsNat, Zenon DEF WholeLog
  <2> QED
    BY <2>1, <2>2, TermsGrow, SMTT(30)
<1>3. CASE Start(q)
  <2>1. state[q] = "LEADER" /\ currentTerm[q] > t
    BY <1>2, <1>3, Zenon DEF Start, termVars
  <2>2. HasTerm(LogChain(q), idx, t)
    BY <2>1, Zenon DEF Kept, LaterLeadersHave, HasOwn
  <2> QED
    BY <1>3, <2>2, Layers, StartExtends, Zenon DEF Segment, PartAt, HasTerm
<1>4. ASSUME NEW m \in net, m.dst = q, Appends(m) PROVE HasTerm(LogChain(q)', idx, t)
  <2>1. m.Term > t
    BY <1>2, <1>4, TakenTerm, Zenon
  <2> QED
    BY <1>4, <2>1, LaterAppend, Zenon DEF GoesOn
<1> QED
  BY <1>1, <1>3, <1>4, Layers, PeerLog, Zenon

\* A new leader has the entry: one of its voters acknowledged it, for otherwise
\* it is lost.
LEMMA LaterLeadersHaveNext ==
    ASSUME Step, NEW i \in Server, GoesOn(i), NEW idx \in Nat, HasOwn(i, i, idx), Kept(i, idx),
           ~Lost(i, idx)
    PROVE  LaterLeadersHave(i, idx)'
<1> DEFINE t == currentTerm[i]
<1> SUFFICES ASSUME NEW k \in Server, state'[k] = "LEADER", currentTerm'[k] > t
             PROVE  HasTerm(LogChain(k)', idx, t)
  BY Zenon DEF LaterLeadersHave, HasOwn, GoesOn
<1>1. CASE state[k] = "LEADER" /\ currentTerm'[k] = currentTerm[k]
  <2>1. HasTerm(LogChain(k), idx, t)
    BY <1>1, Zenon DEF Kept, LaterLeadersHave, HasOwn
  <2>2. Segment(LogChain(k), LogChain(k)')
    BY <1>1, Layers, LeaderExtends, Zenon
  <2> QED
    BY <2>1, <2>2, Zenon DEF Segment, PartAt, HasTerm
<1>2. CASE becomeLeader(k)
  <2>1. /\ state[k] = "CANDIDATE" /\ Cardinality(votesGranted[k]) >= majority
        /\ UNCHANGED <<currentTerm, logVars>>
    BY <1>2, Zenon DEF becomeLeader
  <2>2. currentTerm[k] > t /\ LogChain(k)' = LogChain(k)
    BY <2>1, Zenon DEF LogChain, logVars
  <2>3. votesGranted[k] \in SUBSET Server
    BY Layers, ZenonT(30) DEF DiskInv, ElectionTypeOK
  <2>4. ASSUME NEW q \in votesGranted[k] PROVE currentTerm[q] > t
    <3>1. VotedOrPast(q, currentTerm[k], k)
      BY <2>1, <2>3, Layers, Zenon DEF VotesPledged, Active, Pledged
    <3>2. currentTerm[q] \in Nat /\ currentTerm[k] \in Nat /\ t \in Nat
      BY <2>3, TermsGrow, ZenonT(30)
    <3> QED
      BY <2>2, <3>1, <3>2, SMTT(30) DEF VotedOrPast
  <2>5. PICK q \in votesGranted[k] : Acked(q, i, idx)
    BY <2>1, <2>3, <2>4, Zenon DEF Lost
  <2>6. HasOwn(k, i, idx)
    BY <2>1, <2>2, <2>3, <2>5, Zenon DEF Kept, CandidatesHave, Voted
  <2> QED
    BY <2>2, <2>6, Zenon DEF HasOwn
<1> QED
  BY <1>1, <1>2, Roles, Zenon

\* What a later leader sends goes to the end of its log, which has the entry.
LEMMA LaterCallsHaveNext ==
    ASSUME Step, NEW i \in Server, GoesOn(i), NEW idx \in Nat, HasOwn(i, i, idx), Kept(i, idx)
    PROVE  LaterCallsHave(i, idx)'
<1> DEFINE t == currentTerm[i]
<1>1. ASSUME NEW m \in net', m.type = "AppendEntries", m.Term > t PROVE CallHas(m, t, idx)
  <2>1. CASE m \in net
    BY <1>1, <2>1, Zenon DEF Kept, LaterCallsHave
  <2>2. CASE m \notin net
    <3> DEFINE e == CallChain(m)
    <3>1. PICK a \in Server, b \in Server : NewEntries(m, a, b)
      BY <1>1, <2>2, NewEntriesCall, Zenon DEF Step
    <3> DEFINE l == LogChain(a)
    <3>2. SentEnd(m, a, b)
      BY <3>1, SentSegment, Zenon DEF Step
    <3>3. IsChain(e) /\ Segment(e, l) /\ top(e) = top(l) /\ m.Term = currentTerm[a]
      BY <3>2, Zenon DEF SentEnd
    <3>4. HasTerm(l, idx, t)
      BY <1>1, <3>1, <3>3, Zenon DEF NewEntries, Kept, LaterLeadersHave, HasOwn
    <3>5. IsChain(l) /\ SortedChain(l)
      BY LogsAre, ZenonT(30)
    <3> HIDE DEF e, l
    <3>6. e.base \in Int /\ top(e) \in Int /\ e.base <= top(e) /\ idx <= top(l) /\ l.base <= idx
      BY <3>3, <3>4, <3>5, SMTT(30) DEF IsChain, top, HasTerm, Spans
    <3>7. ASSUME e.base <= idx PROVE HasTerm(e, idx, t)
      <4>1. idx \in Spans(e)
        BY <3>3, <3>6, <3>7, SMTT(30) DEF Spans
      <4> QED
        BY <3>3, <3>4, <4>1, Zenon DEF HasTerm, Segment, PartAt
    <3>8. ASSUME e.base > idx PROVE e.base >= idx /\ e.term >= t
      <4>1. e.base \in Spans(e)
        BY <3>6, SMTT(30) DEF Spans
      <4>2. e.base \in Spans(l) /\ TermAt(l, e.base) = e.term
        BY <3>3, <4>1, Zenon DEF Segment, PartAt, TermAt
      <4>3. idx \in Spans(l) /\ TermAt(l, idx) = t /\ idx <= e.base
        BY <3>4, <3>6, <3>8, SMTT(30) DEF HasTerm
      <4>4. t <= e.term
        BY <3>5, <4>2, <4>3, Zenon DEF SortedChain
      <4>5. t \in Nat /\ e.term \in Nat
        BY <3>3, TermsGrow, ZenonT(30) DEF IsChain
      <4> QED
        BY <3>6, <3>8, <4>4, <4>5, SMTT(30)
    <3>9. e.base <= idx \/ e.base > idx
      BY <3>6
    <3> QED
      BY <3>7, <3>8, <3>9, Zenon DEF CallHas, e
  <2> QED
    BY <2>1, <2>2, ZenonT(30)
<1> QED
  BY <1>1, Zenon DEF LaterCallsHave, GoesOn

\* Who has the entry votes only for candidates that have it.
LEMMA VoterChecks ==
    ASSUME Step, NEW i \in Server, state[i] = "LEADER", NEW idx \in Nat, HasOwn(i, i, idx),
           Kept(i, idx), NEW q \in Server, NEW k \in Server, HasOwn(q, i, idx),
           updatedLog(q, TermAt(LogChain(k), top(LogChain(k))), top(LogChain(k)))
    PROVE  HasOwn(k, i, idx)
<1> DEFINE t == currentTerm[i]  c == LogChain(k)  d == LogChain(q)
<1>1. /\ IsChain(c) /\ IsChain(d) /\ SortedChain(d) /\ c.base = -1
      /\ top(c) \in Int /\ top(c) >= -1 /\ top(d) \in Int /\ top(d) = lastLogIndex(q)
      /\ Spans(c) = -1 .. top(c) /\ Spans(d) = -1 .. top(d)
  BY LogsAre, Layers, LogFromStart, Zenon
<1>2. lastLogTerm(q) = TermAt(d, top(d))
  <2>1. \A x : TermAt(LogChain(q), x) = logTerm(q, x)
    BY <1>1, LogFacts, Zenon
  <2> QED
    BY <1>1, <2>1, ZenonT(30) DEF lastLogTerm
<1>3. idx \in Spans(d) /\ TermAt(d, idx) = t /\ t \in Nat
  BY TermsGrow, Zenon DEF HasOwn, HasTerm
<1> HIDE DEF c, d, t
<1>4. top(c) \in Spans(c) /\ top(d) \in Spans(d) /\ idx <= top(d)
  BY <1>1, <1>3, SMTT(30)
<1>5. t <= TermAt(d, top(d))
  BY <1>1, <1>3, <1>4, Zenon DEF SortedChain
<1>6. TermAt(c, top(c)) \in Nat /\ TermAt(d, top(d)) \in Nat
  BY <1>1, <1>4, TermIsNat, Zenon
<1>7. \/ TermAt(c, top(c)) > TermAt(d, top(d))
      \/ TermAt(c, top(c)) = TermAt(d, top(d)) /\ top(c) >= top(d)
  BY <1>1, <1>2, Zenon DEF updatedLog, c
<1>8. TermAt(c, top(c)) > t \/ (TermAt(c, top(c)) = t /\ idx <= top(c))
  BY <1>1, <1>3, <1>4, <1>5, <1>6, <1>7, SMTT(30)
<1>9. ASSUME TermAt(c, top(c)) > t PROVE HasOwn(k, i, idx)
  BY <1>4, <1>9, Zenon DEF Kept, LaterLogsHave, c, t
<1>10. ASSUME TermAt(c, top(c)) = t, idx <= top(c) PROVE HasOwn(k, i, idx)
  <2>1. HasTerm(LogChain(k), top(LogChain(k)), currentTerm[i])
    BY <1>4, <1>10, Zenon DEF HasTerm, c, t
  <2> QED
    BY <1>10, <2>1, HasBefore, Zenon DEF c
<1> QED
  BY <1>8, <1>9, <1>10, Zenon

\* A candidate with the vote of one who acknowledged the entry has it.
LEMMA CandidatesHaveNext ==
    ASSUME Step, NEW i \in Server, GoesOn(i), NEW idx \in Nat, HasOwn(i, i, idx), Kept(i, idx)
    PROVE  CandidatesHave(i, idx)'
<1> DEFINE t == currentTerm[i]
<1> SUFFICES ASSUME NEW k \in Server, state'[k] = "CANDIDATE", currentTerm'[k] > t,
                    NEW q \in Server, Voted(q, k)', Acked(q, i, idx)'
             PROVE  HasTerm(LogChain(k)', idx, t)
  BY Zenon DEF CandidatesHave, HasOwn, GoesOn
<1>1. LogChain(k)' = LogChain(k)
  BY CandidateLog, Zenon DEF Step
<1>2. /\ t \in Nat /\ currentTerm[k] \in Nat /\ currentTerm'[k] \in Nat /\ currentTerm'[q] \in Nat
      /\ currentTerm[k] <= currentTerm'[k]
  BY TermsGrow, Zenon
<1>3. HasOwn(q, i, idx) /\ Acked(q, i, idx)
  <2>1. Active(k)' /\ VotesPledged'
    BY Layers DEF Active
  <2>2. VotedOrPast(q, currentTerm[k], k)'
    BY <2>1, Zenon DEF Voted, VotesPledged, Pledged
  <2>3. currentTerm'[q] # t
    BY <1>2, <2>2 DEF VotedOrPast
  <2>4. Acked(q, i, idx)
    BY <2>3, NewAck, Zenon
  <2> QED
    BY <2>4, Zenon DEF Kept, AckersHave
<1>4. ASSUME currentTerm[k] >= currentTerm'[k]
      PROVE  currentTerm[k] = currentTerm'[k] /\ state[k] = "CANDIDATE"
  <2>1. currentTerm[k] = currentTerm'[k]
    BY <1>2, <1>4, SMTT(30)
  <2> QED
    BY <2>1, Roles, Zenon
<1>5. ASSUME currentTerm[k] >= currentTerm'[k], Voted(q, k) PROVE HasOwn(k, i, idx)
  <2>1. currentTerm[k] > t /\ state[k] = "CANDIDATE"
    BY <1>4, <1>5, ZenonT(30)
  <2> QED
    BY <1>3, <1>5, <2>1, Zenon DEF Kept, CandidatesHave
<1>6. ASSUME NEW r \in net, Grant(r), r.src = q, r.dst = k, r.ArgsTerm = currentTerm'[k]
      PROVE  HasOwn(k, i, idx)
  <2>1. currentTerm[k] >= currentTerm'[k]
    <3>1. r.ArgsTerm <= currentTerm[r.dst]
      BY <1>6, Zenon DEF Step, VoteCallInv
    <3> QED
      BY <1>2, <1>6, <3>1, ZenonT(30)
  <2>2. Voted(q, k)
    BY <1>4, <1>6, <2>1, Zenon DEF Voted
  <2> QED
    BY <1>5, <2>1, <2>2, ZenonT(30)
<1>7. ASSUME q \in votesGranted'[k] PROVE HasOwn(k, i, idx)
  <2>1. CountedFrom(k, q)
    BY <1>7, Layers, Zenon DEF VoteStep, VotesCounted, Active
  <2>2. ASSUME currentTerm'[k] = currentTerm[k], q \in votesGranted[k] PROVE HasOwn(k, i, idx)
    BY <1>2, <1>5, <2>2, ZenonT(30) DEF Voted
  <2> QED
    BY <1>3, <1>6, <2>1, <2>2, Zenon DEF CountedFrom
<1>8. ASSUME NEW r \in net', r \notin net, Grant(r), r.src = q, r.dst = k,
             r.ArgsTerm = currentTerm'[k]
      PROVE  HasOwn(k, i, idx)
  <2>1. PICK m \in net : Grants(r, m)
    BY <1>8, Layers, NewVotes, Zenon
  <2>2. /\ m.type = "RequestVote" /\ vote(m) /\ m.src = k /\ m.dst = q
        /\ m.Term = currentTerm'[k]
    BY <1>8, <2>1, Zenon DEF Grants, RequestVote
  <2>3. m.Term <= currentTerm[m.src]
    BY <2>2, Zenon DEF Step, VoteCallInv
  <2>4. currentTerm[k] >= currentTerm'[k]
    BY <1>2, <2>2, <2>3, ZenonT(30)
  <2>5. /\ m.LastLogIndex = top(LogChain(k))
        /\ m.LastLogTerm = TermAt(LogChain(k), top(LogChain(k)))
    BY <1>4, <2>2, <2>4, Zenon DEF Step, VoteCallInv
  <2>6. updatedLog(q, TermAt(LogChain(k), top(LogChain(k))), top(LogChain(k)))
    BY <2>2, <2>5, Zenon DEF vote
  <2> QED
    BY <1>3, <2>6, VoterChecks, Zenon DEF GoesOn
<1>9. HasOwn(k, i, idx)
  <2>1. q \in votesGranted'[k]
        \/ \E r \in net' : Grant(r) /\ r.src = q /\ r.dst = k /\ r.ArgsTerm = currentTerm'[k]
    BY Zenon DEF Voted, Grant
  <2> QED
    BY <1>6, <1>7, <1>8, <2>1, Zenon
<1> QED
  BY <1>1, <1>9, Zenon DEF HasOwn

\* What is true of an entry of the leader stays true.
LEMMA OldEntry ==
    ASSUME Step, NEW i \in Server, GoesOn(i), NEW idx \in Nat, HasOwn(i, i, idx),
           Lost(i, idx) \/ Kept(i, idx)
    PROVE  Lost(i, idx)' \/ Kept(i, idx)'
<1>1. CASE Lost(i, idx)
  BY <1>1, LostKept
<1>2. ASSUME ~Lost(i, idx), Kept(i, idx) PROVE Kept(i, idx)'
  BY <1>2, AckersHaveNext, LaterLogsHaveNext, LaterLeadersHaveNext, LaterCallsHaveNext,
     CandidatesHaveNext, Zenon DEF Kept
<1> QED
  BY <1>1, <1>2

\* An entry that was just made is known to nobody else.
LEMMA NobodyElse ==
    ASSUME Step, NEW i \in Server, Start(i), NEW idx \in Nat, idx > top(LogChain(i)),
           NEW q \in Server, Acked(q, i, idx)'
    PROVE  q = i
<1> SUFFICES ASSUME q # i PROVE FALSE
  OBVIOUS
<1>1. /\ SentFromLog(i) /\ matchIndex \in [Server -> [Server -> Int]]
      /\ top(LogChain(i)) \in Int /\ currentTerm' = currentTerm /\ net' = net
      /\ matchIndex' = [matchIndex EXCEPT ![i][i] = lastLogIndex(i) + 1]
  BY Layers, LogFromStart, Zenon DEF Step, ReplicationInv, Start, termVars
<1>2. matchIndex'[i][q] = matchIndex[i][q] /\ matchIndex[i][q] \in Int
  BY <1>1
<1>3. ~(matchIndex'[i][q] >= idx)
  <2>1. matchIndex[i][q] <= top(LogChain(i))
    BY <1>1, Zenon DEF SentFromLog
  <2> QED
    BY <1>1, <1>2, <2>1
<1>4. ASSUME NEW r \in net, AckReply(r, q, i, idx) PROVE FALSE
  <2>1. r.PrevLogIndex + r.NEntries <= top(LogChain(i)) /\ r.PrevLogIndex + r.NEntries >= idx
    BY <1>1, <1>4, Zenon DEF SentFromLog, AckReply
  <2>2. r.PrevLogIndex \in Int /\ r.NEntries \in Int
    BY <1>4, Layers DEF ChainInv, MessagesOK, ReplyOK, AckReply, ReplyFor
  <2> QED
    BY <1>1, <2>1, <2>2
<1>5. \A r \in net : AckReply(r, q, i, idx)' => AckReply(r, q, i, idx)
  BY <1>1, Zenon DEF AckReply, ReplyFor
<1> QED
  BY <1>1, <1>3, <1>4, <1>5, Zenon DEF Acked

\* It is lost if there has been an election in a later term, and kept if not.
LEMMA NewEntry ==
    ASSUME Step, NEW i \in Server, GoesOn(i), NEW idx \in Nat, HasOwn(i, i, idx)',
           ~HasOwn(i, i, idx)
    PROVE  Lost(i, idx)' \/ Kept(i, idx)'
<1> DEFINE t == currentTerm[i]
<1>1. Start(i)
  <2>1. LogChain(i)' = LogChain(i) \/ Start(i) \/ Snapshot(i)
    BY Layers, Zenon DEF LogsStep, GoesOn
  <2>2. ~Snapshot(i)
    BY Layers, Zenon DEF Snapshot
  <2> QED
    BY <2>1, <2>2, Zenon DEF HasOwn, GoesOn
<1>2. /\ UNCHANGED <<currentTerm, state, votedFor, votesGranted, net>>
      /\ t \in Nat /\ \A q \in Server : currentTerm[q] \in Nat
  BY <1>1, TermsGrow, Zenon DEF Start, termVars
<1>3. /\ IsChain(LogChain(i)) /\ starts \in Nat /\ top(LogChain(i)) \in Int /\ LogChain(i).base = -1
      /\ Spans(LogChain(i)) = -1 .. top(LogChain(i))
  BY Layers, LogFromStart, Zenon DEF ChainInv
<1>4. OthersSame(i)
  BY <1>1, <1>3, Layers, StartChain, Zenon
<1>5. idx > top(LogChain(i))
  <2>1. Segment(LogChain(i), LogChain(i)') /\ TermAt(LogChain(i)', idx) = t
    BY <1>1, <1>2, Layers, StartExtends, Zenon DEF HasOwn, HasTerm
  <2>2. idx \notin Spans(LogChain(i))
    BY <2>1, Zenon DEF Segment, PartAt, HasOwn, HasTerm
  <2> QED
    BY <1>3, <2>2
<1>6. \A q \in Server : Acked(q, i, idx)' => q = i
  BY <1>1, <1>5, NobodyElse, Zenon
<1>7. ASSUME NEW u \in Nat, u > t, NEW s \in Server, Elected(u, s) PROVE Lost(i, idx)'
  <2>1. PICK Q \in SUBSET Server : Cardinality(Q) >= majority /\ \A q \in Q : Pledged(q, u, s)
    BY <1>7 DEF Elected
  <2>2. ASSUME NEW q \in Q PROVE currentTerm'[q] > currentTerm'[i] /\ ~Acked(q, i, idx)'
    <3>1. q \in Server /\ VotedOrPast(q, u, s)
      BY <2>1, Zenon DEF Pledged
    <3>2. currentTerm[q] > t
      BY <1>2, <1>7, <3>1 DEF VotedOrPast
    <3>3. q # i
      BY <1>2, <3>2
    <3> QED
      BY <1>2, <1>6, <3>1, <3>2, <3>3, Zenon
  <2> QED
    BY <2>1, <2>2, Zenon DEF Lost
<1>8. ASSUME \A u \in Nat : \A s \in Server : u > t => ~Elected(u, s) PROVE Kept(i, idx)'
  <2>1. AckersHave(i, idx)'
    BY <1>6, Zenon DEF AckersHave
  <2>2. ASSUME NEW q \in Server, NEW k \in Spans(LogChain(q)'), TermAt(LogChain(q)', k) > t PROVE FALSE
    <3>1. CASE q = i
      <4>1. TermAt(LogChain(i)', k) <= t
        BY <1>2, <2>2, <3>1, Layers, Zenon DEF TermsInv, BoundedBy
      <4>2. TermAt(LogChain(i)', k) \in Nat
        BY <2>2, <3>1, Layers, NextLogs, TermIsNat, Zenon DEF WholeLog
      <4> QED
        BY <1>2, <2>2, <3>1, <4>1, <4>2, SMTT(30)
    <3>2. CASE q # i
      <4> DEFINE c == LogChain(q)
      <4>1. k \in Spans(c) /\ TermAt(c, k) > t /\ c \in Chains /\ IsChain(c) /\ c.base = -1
        BY <1>4, <2>2, <3>2, LogsAre, ZenonT(30) DEF OthersSame
      <4> HIDE DEF c
      <4>2. TermAt(c, k) \in Nat /\ (k = -1 => TermAt(c, k) = 0)
        BY <4>1, TermIsNat, Zenon
      <4>3. k >= 0
        BY <1>2, <4>1, <4>2 DEF Spans
      <4> QED
        BY <1>8, <4>1, <4>2, <4>3, Layers, Zenon DEF MadeByLeader
    <3> QED
      BY <3>1, <3>2, ZenonT(30)
  <2>3. LaterLogsHave(i, idx)'
    BY <1>2, <2>2, Zenon DEF LaterLogsHave
  <2>4. ASSUME NEW k \in Server, state[k] = "LEADER", currentTerm[k] > t PROVE FALSE
    BY <1>2, <1>8, <2>4, Roles, Zenon
  <2>5. LaterLeadersHave(i, idx)'
    BY <1>2, <2>4, Zenon DEF LaterLeadersHave
  <2>6. ASSUME NEW m \in net, m.type = "AppendEntries", m.Term > t PROVE FALSE
    <3>1. m.Term \in Nat /\ m.src \in Server
      BY Layers DEF DiskInv, ElectionTypeOK, MessageOK
    <3> QED
      BY <1>8, <2>6, <3>1, Layers, Zenon DEF SentByLeader
  <2>7. LaterCallsHave(i, idx)'
    BY <1>2, <2>6, Zenon DEF LaterCallsHave
  <2>8. ASSUME NEW k \in Server, state'[k] = "CANDIDATE", currentTerm'[k] > t, NEW q \in Server,
               Voted(q, k)', Acked(q, i, idx)'
        PROVE  FALSE
    <3>1. q = i
      BY <1>6, <2>8, ZenonT(30)
    <3>2. Active(k)' /\ VotesPledged'
      BY <2>8, Layers DEF Active
    <3>3. VotedOrPast(q, currentTerm[k], k)'
      BY <2>8, <3>2, Zenon DEF Voted, VotesPledged, Pledged
    <3> QED
      BY <1>2, <2>8, <3>1, <3>3, SMTT(30) DEF VotedOrPast
  <2>9. CandidatesHave(i, idx)'
    BY <1>2, <2>8, Zenon DEF CandidatesHave
  <2> QED
    BY <2>1, <2>3, <2>5, <2>7, <2>9, Zenon DEF Kept
<1> QED
  BY <1>7, <1>8, Zenon

-----------------------------------------------------------------------------
(* The invariant.                                                          *)

\* Who has just been elected has made no entry in its term.
LEMMA NothingMade ==
    ASSUME Step, NEW i \in Server, becomeLeader(i), NEW idx \in Nat
    PROVE  ~HasOwn(i, i, idx)'
<1> SUFFICES ASSUME HasOwn(i, i, idx)' PROVE FALSE
  OBVIOUS
<1>1. /\ state[i] = "CANDIDATE" /\ Cardinality(votesGranted[i]) >= majority
      /\ UNCHANGED <<currentTerm, logVars>>
  BY Zenon DEF becomeLeader
<1>2. LogChain(i)' = LogChain(i)
  BY <1>1, Zenon DEF LogChain, logVars
<1>3. /\ idx \in Spans(LogChain(i)) /\ TermAt(LogChain(i), idx) = currentTerm[i]
      /\ LogChain(i) \in Chains /\ idx >= 0
  BY <1>1, <1>2, LogsAre, SMTT(30) DEF HasOwn, HasTerm
<1>4. PICK s \in Server : Elected(currentTerm[i], s)
  BY <1>3, Layers, Zenon DEF MadeByLeader
<1>5. s = i
  BY <1>1, <1>4, Layers, OneElected, ZenonT(30) DEF Active
<1> QED
  BY <1>1, <1>4, <1>5, TermsGrow, SMTT(30) DEF Elected

\* At first nobody leads.
LEMMA CommitInvInit == Init => CommitInv
  BY DEF Init, CommitInv

\* Every step keeps the entries of every leader.
LEMMA CommitInvNext ==
    ASSUME Step, CommitInv
    PROVE  CommitInv'
<1>1. ASSUME NEW i \in Server, state'[i] = "LEADER", NEW idx \in Nat, HasOwn(i, i, idx)'
      PROVE  Lost(i, idx)' \/ Kept(i, idx)'
  <2>1. GoesOn(i)
    BY <1>1, Roles, NothingMade, Zenon DEF GoesOn
  <2> QED
    BY <1>1, <2>1, OldEntry, NewEntry, Zenon DEF CommitInv, GoesOn
<1> QED
  BY <1>1, Zenon DEF CommitInv

\* What is on a majority is not lost, so later leaders have it.
LEMMA LeadersAreComplete ==
    QuorumsMeet /\ WholeLogInv /\ ReplicationInv /\ CommitInv => LeaderCompleteness
<1> SUFFICES ASSUME QuorumsMeet, WholeLogInv, ReplicationInv, CommitInv,
                    NEW i \in Server, NEW j \in Server, state[i] = "LEADER", state[j] = "LEADER",
                    currentTerm[j] > currentTerm[i], NEW idx \in baseIndex(i) .. lastLogIndex(i),
                    nReplicated(i, idx) >= majority, Entry(i, idx).Term = currentTerm[i]
             PROVE  Holds(j, i, idx)
  BY DEF LeaderCompleteness
<1>1. /\ lastIncludedIndex[i] = -1 /\ LogChain(i).base = -1 /\ lastLogIndex(i) \in Int
      /\ top(LogChain(i)) = lastLogIndex(i) /\ Spans(LogChain(i)) = -1 .. top(LogChain(i))
  BY LogFromStart, Zenon DEF WholeLogInv
<1>2. idx \in Nat /\ idx <= lastLogIndex(i) /\ idx \in Spans(LogChain(i)) /\ idx # LogChain(i).base
  BY <1>1, SMTT(30) DEF baseIndex
<1>3. TermAt(LogChain(i), idx) = currentTerm[i]
  <2>1. TermAt(LogChain(i), idx) = LogChain(i).entries[idx - LogChain(i).base].Term
    BY <1>2 DEF TermAt
  <2> QED
    BY <2>1 DEF Entry, LogChain
<1>4. HasOwn(i, i, idx)
  BY <1>2, <1>3, Zenon DEF HasOwn, HasTerm
<1>5. ~Lost(i, idx)
  <2> SUFFICES ASSUME Lost(i, idx) PROVE FALSE
    OBVIOUS
  <2> DEFINE R == {q \in Server : matchIndex[i][q] >= idx}
  <2>1. PICK Q \in SUBSET Server : Cardinality(Q) >= majority /\ \A q \in Q : ~Acked(q, i, idx)
    BY Zenon DEF Lost
  <2>2. R \in SUBSET Server /\ Cardinality(R) >= majority
    BY DEF nReplicated
  <2>3. PICK q \in Q : q \in R
    BY <2>1, <2>2, Zenon DEF QuorumsMeet
  <2> QED
    BY <2>1, <2>3, Zenon DEF Acked
<1>6. HasTerm(LogChain(j), idx, currentTerm[i])
  BY <1>2, <1>4, <1>5, Zenon DEF CommitInv, Kept, LaterLeadersHave, HasOwn
<1> QED
  BY <1>2, <1>3, <1>6, HasEntry, Zenon
=============================================================================
