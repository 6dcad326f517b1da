------------------------------ MODULE RaftLogs ------------------------------
(***************************************************************************)
(* The inductive invariant of logs: the form of logs and calls, who made   *)
(* the entries in them, where they match, and the terms along them.  Every *)
(* step keeps it, for any number of peers and any bounds.                  *)
(***************************************************************************)
EXTENDS RaftChains

-----------------------------------------------------------------------------
(* Chains that match.                                                      *)

\* Matching does not depend on the order.
LEMMA MatchSymmetric == ASSUME NEW c, NEW d, Match(c, d) PROVE Match(d, c)
  BY Zenon DEF Match, SameAt

\* A part of a chain matches what the chain matches.
LEMMA SegmentMatches ==
    ASSUME NEW n, NEW c, NEW d, Segment(n, c), Match(c, d)
    PROVE  Match(n, d)
  BY ZenonT(30) DEF Segment, PartAt, Match, SameAt

\* Two chains joined where they agree match what both of them match.
LEMMA JoinMatches ==
    ASSUME NEW n, NEW c, NEW e, NEW d, NEW j \in Int, Joined(n, c, e, j), IsChain(d),
           Match(c, d), Match(e, d)
    PROVE  Match(n, d)
<1> SUFFICES ASSUME NEW idx \in Spans(n) \cap Spans(d), TermAt(n, idx) = TermAt(d, idx),
                    NEW k \in Spans(n) \cap Spans(d), k <= idx
             PROVE  SameAt(n, d, k)
  BY DEF Match
<1>1. idx \in Int /\ k \in Int
  BY SpansInt
<1>2. CASE idx <= j
  <2>1. k <= j
    BY <1>1, <1>2, SMTT(30)
  <2>2. PartAt(n, c, idx) /\ PartAt(n, c, k)
    BY <1>2, <2>1 DEF Joined
  <2>3. SameAt(c, d, k)
    BY <2>2, Zenon DEF PartAt, Match
  <2> QED
    BY <2>2, <2>3, PartSame, Zenon
<1>3. CASE idx > j
  <2>1. PartAt(n, e, idx)
    BY <1>3 DEF Joined
  <2>2. \A x \in Spans(e) \cap Spans(d) : x <= idx => SameAt(e, d, x)
    BY <2>1, Zenon DEF PartAt, Match
  <2>3. CASE k > j
    <3>1. PartAt(n, e, k)
      BY <2>3 DEF Joined
    <3>2. SameAt(e, d, k)
      BY <2>2, <3>1, Zenon DEF PartAt
    <3> QED
      BY <3>1, <3>2, PartSame, Zenon
  <2>4. CASE k <= j
    <3>1. j \in Spans(d)
      <4>1. d.base \in Int /\ Len(d.entries) \in Nat
        BY DEF IsChain
      <4> QED
        BY <1>1, <1>3, <2>4, <4>1, SpansBetween, SMTT(30)
    <3>2. TermAt(c, j) = TermAt(d, j) /\ j \in Spans(c)
      <4>1. j <= idx
        BY <1>1, <1>3, SMTT(30)
      <4>2. SameAt(e, d, j)
        BY <2>2, <3>1, <4>1, Zenon DEF Joined
      <4> QED
        BY <4>2 DEF Joined, SameAt
    <3>3. PartAt(n, c, k)
      BY <2>4 DEF Joined
    <3>4. SameAt(c, d, k)
      BY <2>4, <3>1, <3>2, <3>3, Zenon DEF Match, PartAt
    <3> QED
      BY <3>3, <3>4, PartSame, Zenon
  <2> QED
    BY <1>1, <2>3, <2>4, SMTT(30)
<1> QED
  BY <1>1, <1>2, <1>3

\* A chain with one entry more matches what it did and what does not have an
\* entry of that index and term.
LEMMA LongerMatches ==
    ASSUME NEW n, NEW c, NEW d, NEW j \in Int, Match(c, d),
           \A k \in Spans(n) : k < j => PartAt(n, c, k),
           \A k \in Spans(n) : k <= j,
           j \in Spans(d) => TermAt(d, j) # TermAt(n, j)
    PROVE  Match(n, d)
<1> SUFFICES ASSUME NEW idx \in Spans(n) \cap Spans(d), TermAt(n, idx) = TermAt(d, idx),
                    NEW k \in Spans(n) \cap Spans(d), k <= idx
             PROVE  SameAt(n, d, k)
  BY DEF Match
<1>1. idx \in Int /\ k \in Int
  BY SpansInt
<1>2. idx < j /\ k < j
  BY <1>1
<1>3. PartAt(n, c, idx) /\ PartAt(n, c, k)
  BY <1>2
<1>4. SameAt(c, d, k)
  BY <1>3, Zenon DEF Match, PartAt
<1> QED
  BY <1>3, <1>4, PartSame, Zenon

\* Max finds the greatest of some integers of an interval.
LEMMA MaxOfInterval ==
    ASSUME LeastExists, NEW a \in Int, NEW b \in Int, NEW S \in SUBSET (a .. b), S # {}
    PROVE  Max(S) \in S /\ \A y \in S : y <= Max(S)
<1> DEFINE T == {b - x : x \in S}
<1>1. \A x \in S : b - x \in Nat
  OBVIOUS
<1>2. T \in SUBSET Nat /\ T # {}
  BY <1>1, Zenon
<1>3. PICK t \in T : \A y \in T : t <= y
  BY <1>2, MinOfNats, Zenon
<1>4. PICK x \in S : t = b - x /\ \A y \in S : t <= b - y
  BY <1>3, Zenon
<1> HIDE DEF T
<1>5. \A y \in S : x >= y
  BY <1>4
<1>6. Max(S) \in S /\ \A y \in S : Max(S) >= y
  BY <1>5, Zenon DEF Max
<1> QED
  BY <1>6

-----------------------------------------------------------------------------
(* Types of replies and of nextIndex.                                      *)

\* The way back that a follower proposes leads to an index before the one
\* that failed.
LEMMA LogInfoBack ==
    ASSUME LeastExists, NEW i, IsChain(LogChain(i)), NEW prev \in Int, NEW term,
           prev >= lastIncludedIndex[i], prev = -1 => term = 0,
           ~entryHasTerm(i, prev, term)
    PROVE  /\ logInfo(i, prev).Len \in Nat
           /\ prev < logInfo(i, prev).Len => logInfo(i, prev).Index \in 0 .. prev
<1>1. /\ lastIncludedIndex[i] \in Int /\ lastIncludedIndex[i] >= -1
      /\ (lastIncludedIndex[i] = -1 => lastIncludedTerm[i] = 0)
      /\ lastLogIndex(i) \in Int /\ lastLogIndex(i) >= lastIncludedIndex[i]
  BY LogFacts, Zenon
<1>2. prev >= 0
  <2>1. SUFFICES ASSUME prev = -1 PROVE FALSE
    BY <1>1
  <2>2. lastIncludedIndex[i] = -1 /\ -1 <= lastLogIndex(i)
    BY <1>1, <2>1
  <2>3. logTerm(i, prev) = term
    BY <1>1, <2>1, <2>2, Zenon DEF logTerm
  <2> QED
    BY <2>1, <2>2, <2>3, Zenon DEF entryHasTerm
<1>3. CASE prev <= lastLogIndex(i)
  <2> DEFINE S == {prev} \cup {k \in baseIndex(i) .. prev :
                                 \A n \in k .. prev : logTerm(i, n) = logTerm(i, prev)}
  <2>1. S \in SUBSET Nat /\ S \in SUBSET (0 .. prev) /\ S # {}
    BY <1>1, <1>2 DEF baseIndex
  <2>2. firstWithSameTerm(i, prev) = Min(S)
    BY Zenon DEF firstWithSameTerm
  <2> HIDE DEF S
  <2>3. Min(S) \in S
    BY <2>1, MinOfNats, Zenon
  <2>4. firstWithSameTerm(i, prev) \in 0 .. prev
    BY <2>1, <2>2, <2>3, Zenon
  <2>5. /\ logInfo(i, prev).Len = lastLogIndex(i) + 1
        /\ logInfo(i, prev).Index = firstWithSameTerm(i, prev)
    BY <1>3, Zenon DEF logInfo
  <2> QED
    BY <1>1, <2>4, <2>5, SMTT(30)
<1>4. CASE ~(prev <= lastLogIndex(i))
  <2>1. logInfo(i, prev).Len = lastLogIndex(i) + 1
    BY <1>4 DEF logInfo
  <2> QED
    BY <1>1, <1>4, <2>1, SMTT(30)
<1> QED
  BY <1>3, <1>4

\* nextIndexOnFailure goes back, and to an index of the log.
LEMMA FailureGoesBack ==
    ASSUME LeastExists, NEW m, ReplyOK(m), ~m.Success, m.Term = m.ArgsTerm, IsChain(LogChain(m.dst))
    PROVE  nextIndexOnFailure(m) \in 0 .. m.PrevLogIndex
<1>1. /\ m.PrevLogIndex \in Int /\ m.LogInfo.Len \in Nat
      /\ m.PrevLogIndex < m.LogInfo.Len => m.LogInfo.Index \in 0 .. m.PrevLogIndex
  BY Zenon DEF ReplyOK
<1>2. lastIncludedIndex[m.dst] \in Int /\ lastIncludedIndex[m.dst] >= -1
  BY LogFacts, Zenon
<1>3. CASE m.PrevLogIndex >= m.LogInfo.Len
  <2>1. nextIndexOnFailure(m) = m.LogInfo.Len
    BY <1>3, Zenon DEF nextIndexOnFailure
  <2> QED
    BY <1>1, <1>3, <2>1
<1>4. CASE ~(m.PrevLogIndex >= m.LogInfo.Len)
  <2>1. CASE hasLastEntry(m.dst, m.PrevLogIndex, m.LogInfo.Term)
    <3> DEFINE S == noLaterTerm(m.dst, m.PrevLogIndex, m.LogInfo.Term)
    <3>1. S # {}
      BY <2>1, Zenon DEF hasLastEntry
    <3>2. baseIndex(m.dst) \in Int /\ baseIndex(m.dst) >= 0
      BY <1>2 DEF baseIndex
    <3>3. S \in SUBSET (baseIndex(m.dst) .. m.PrevLogIndex)
      BY Zenon DEF noLaterTerm
    <3>4. nextIndexOnFailure(m) = Max(S)
      BY <1>4, <2>1, Zenon DEF nextIndexOnFailure, lastEntry
    <3> HIDE DEF S
    <3>5. Max(S) \in S
      BY <1>1, <3>1, <3>2, <3>3, MaxOfInterval, Zenon
    <3>6. Max(S) \in baseIndex(m.dst) .. m.PrevLogIndex
      BY <3>3, <3>5, Zenon
    <3> QED
      BY <1>1, <3>2, <3>4, <3>6, SMTT(30)
  <2>2. CASE ~hasLastEntry(m.dst, m.PrevLogIndex, m.LogInfo.Term)
    <3>1. nextIndexOnFailure(m) = m.LogInfo.Index
      BY <1>4, <2>2, Zenon DEF nextIndexOnFailure
    <3>2. m.PrevLogIndex < m.LogInfo.Len
      BY <1>1, <1>4
    <3> QED
      BY <1>1, <3>1, <3>2, Zenon
  <2> QED
    BY <2>1, <2>2, Zenon
<1> QED
  BY <1>3, <1>4

\* The reply of AppendEntries tells where to go back to when it failed.
LEMMA AppendReplyOK ==
    ASSUME LeastExists, DiskInv, NEW m \in net, IsChain(LogChain(m.dst)), CallOK(m), AppendEntries(m),
           NEW r \in net', r \notin net
    PROVE  ReplyOK(r)
<1> DEFINE i == m.dst
           R(success, info) == AppendEntriesReply(m, success, info)
<1>1. /\ i \in Server /\ m.Term \in Nat /\ currentTerm[i] \in Nat
  BY Zenon DEF DiskInv, ElectionTypeOK, MessageOK
<1>2. /\ m.PrevLogIndex \in Int /\ m.PrevLogIndex >= -1 /\ Len(m.Entries) \in Nat
      /\ (m.PrevLogIndex = -1 => m.PrevLogTerm = 0)
  BY DEF CallOK
<1>3. \A reply : Reply(m, reply) => r = reply
  BY Zenon DEF Reply
<1>4. ASSUME NEW success, NEW info, r = R(success, info)
      PROVE  /\ r.ArgsTerm = m.Term /\ r.PrevLogIndex = m.PrevLogIndex
             /\ r.NEntries = Len(m.Entries) /\ r.Term = termAfter(i, m.Term)
             /\ r.Success = success /\ r.LogInfo = info
  BY <1>4, Zenon DEF AppendEntriesReply
<1>5. /\ termAfter(i, m.Term) >= m.Term
      /\ termAfter(i, m.Term) = m.Term => m.Term >= currentTerm[i]
  BY <1>1 DEF termAfter
<1> HIDE DEF R
<1>6. CASE r = R(TRUE, NoLogInfo)
  <2>1. /\ r.ArgsTerm = m.Term /\ r.PrevLogIndex = m.PrevLogIndex
        /\ r.NEntries = Len(m.Entries) /\ r.Term = termAfter(i, m.Term) /\ r.Success
    BY <1>4, <1>6, Zenon
  <2> QED
    BY <1>1, <1>2, <1>5, <2>1, Zenon DEF ReplyOK
<1>7. CASE /\ m.PrevLogIndex >= lastIncludedIndex[i] /\ ~appendMatches(m)
           /\ r = R(FALSE, IF entryHasTerm(i, m.PrevLogIndex, m.PrevLogTerm)
                           THEN NoLogInfo ELSE logInfo(i, m.PrevLogIndex))
  <2>1. /\ r.ArgsTerm = m.Term /\ r.PrevLogIndex = m.PrevLogIndex
        /\ r.NEntries = Len(m.Entries) /\ r.Term = termAfter(i, m.Term)
        /\ r.LogInfo = IF entryHasTerm(i, m.PrevLogIndex, m.PrevLogTerm)
                       THEN NoLogInfo ELSE logInfo(i, m.PrevLogIndex)
    BY <1>4, <1>7, Zenon
  <2>2. ASSUME r.Term = r.ArgsTerm
        PROVE  /\ r.LogInfo.Len \in Nat
               /\ r.PrevLogIndex < r.LogInfo.Len => r.LogInfo.Index \in 0 .. r.PrevLogIndex
    <3>1. ~entryHasTerm(i, m.PrevLogIndex, m.PrevLogTerm)
      BY <1>5, <1>7, <2>1, <2>2, Zenon DEF appendMatches
    <3>2. r.LogInfo = logInfo(i, m.PrevLogIndex)
      BY <2>1, <3>1, Zenon
    <3>3. /\ logInfo(i, m.PrevLogIndex).Len \in Nat
          /\ m.PrevLogIndex < logInfo(i, m.PrevLogIndex).Len =>
                logInfo(i, m.PrevLogIndex).Index \in 0 .. m.PrevLogIndex
      BY <1>2, <1>7, <3>1, LogInfoBack, Zenon
    <3> QED
      BY <2>1, <3>2, <3>3, Zenon
  <2> QED
    BY <1>1, <1>2, <1>5, <2>1, <2>2, Zenon DEF ReplyOK
<1> QED
  BY <1>3, <1>6, <1>7, ZenonT(60) DEF AppendEntries, R

\* No other step replies to AppendEntries.
LEMMA OtherReplies ==
    ASSUME DiskInv, [Next]_vars, NEW r \in net', r.type = "AppendEntriesReply"
    PROVE  r \in net \/ \E m \in net : AppendEntries(m)
<1>1. ASSUME NEW m, NEW x, Reply(m, x), x.type # "AppendEntriesReply" PROVE r \in net
  BY <1>1, Zenon DEF Reply
<1>2. ASSUME NEW m \in net, RequestVote(m) PROVE r \in net
  BY <1>1, <1>2, Zenon DEF RequestVote
<1>3. ASSUME NEW m \in net, InstallSnapshot(m) PROVE r \in net
  BY <1>1, <1>3, Zenon DEF InstallSnapshot
<1>4. ASSUME NEW i \in Server, election(i) PROVE r \in net
  BY <1>4 DEF election, Send, RequestVoteArgs
<1>5. ASSUME NEW i \in Server, NEW j \in Server, appendMissingEntries(i, j) PROVE r \in net
  <2>1. /\ AppendEntriesArgs(i, j).type # "AppendEntriesReply"
        /\ InstallSnapshotArgs(i, j).type # "AppendEntriesReply"
    BY DEF AppendEntriesArgs, InstallSnapshotArgs
  <2> QED
    BY <1>5, <2>1, ZenonT(30) DEF appendMissingEntries, Send
<1>6. ASSUME NEW m \in net,
             \/ requestVoteReply(m) \/ handleAppendReply(m) \/ installSnapshotReply(m)
             \/ LoseMessage(m)
      PROVE  r \in net
  BY <1>6, ZenonT(60) DEF requestVoteReply, handleAppendReply, installSnapshotReply,
     LoseMessage, Consume
<1>7. ASSUME NEW i \in Server,
             \/ becomeLeader(i) \/ Start(i) \/ advanceCommitIndex(i) \/ Snapshot(i)
             \/ apply(i) \/ serviceReceive(i)
      PROVE  r \in net
  BY <1>7, ZenonT(60) DEF becomeLeader, Start, advanceCommitIndex, Snapshot, apply,
     serviceReceive
<1>8. ASSUME NEW i, NEW stoppedOn, NEW t, Make(i, stoppedOn, t) PROVE r \in net
  BY <1>8, Zenon DEF Make
<1>9. CASE UNCHANGED vars
  BY <1>9, Zenon DEF vars
<1> QED
  BY <1>2, <1>3, <1>4, <1>5, <1>6, <1>7, <1>8, <1>9, ZenonT(60)
     DEF Next, ticker, appendMissingEntriesOnAll

\* Messages keep their types.
LEMMA MessagesOKNext ==
    ASSUME LeastExists, DiskInv, ServiceInv, ChainInv, [Next]_vars
    PROVE  MessagesOK'
<1>1. /\ \A k \in Server : IsChain(LogChain(k))
      /\ \A i, j \in Server : nextIndex[i][j] \in Nat
      /\ starts \in Nat /\ MessagesOK
  BY AreChains DEF ChainInv
<1>2. ASSUME NEW m \in net', m.type = "AppendEntries" PROVE CallOK(m)
  <2>1. IsCall(m)
    BY <1>2 DEF IsCall
  <2>2. CASE NoNewCall
    BY <1>1, <1>2, <2>1, <2>2, Zenon DEF NoNewCall, MessagesOK
  <2>3. ASSUME NEW i \in Server, NEW j \in Server \ {i}, appendMissingEntries(i, j)
        PROVE  CallOK(m)
    <3>1. PICK a : NewCall(a, i, j)
      BY <1>1, <2>3, SendChain, Zenon
    <3>2. m \in net \/ m = a
      BY <3>1 DEF NewCall
    <3> QED
      BY <1>1, <1>2, <3>1, <3>2, Zenon DEF NewCall, MessagesOK
  <2>4. ASSUME NEW i \in Server, Start(i) \/ Snapshot(i) PROVE NoNewCall
    BY <1>1, <2>4, StartChain, SnapshotChain, Zenon
  <2> QED
    BY <2>2, <2>3, <2>4, LogStep, ZenonT(30)
<1>3. ASSUME NEW r \in net', r.type = "AppendEntriesReply" PROVE ReplyOK(r)
  <2>1. CASE r \in net
    BY <1>1, <1>3, <2>1, Zenon DEF MessagesOK
  <2>2. ASSUME NEW m \in net, AppendEntries(m), r \notin net PROVE ReplyOK(r)
    <3>1. CallOK(m) /\ IsChain(LogChain(m.dst))
      <4>1. m.type = "AppendEntries"
        BY <2>2, Zenon DEF AppendEntries
      <4>2. m.dst \in Server
        BY DEF DiskInv, ElectionTypeOK, MessageOK
      <4> QED
        BY <1>1, <4>1, <4>2, Zenon DEF MessagesOK
    <3> QED
      BY <2>2, <3>1, AppendReplyOK, Zenon
  <2> QED
    BY <1>3, <2>1, <2>2, OtherReplies, Zenon
<1> QED
  BY <1>2, <1>3 DEF MessagesOK, CallOK, ReplyOK

\* nextIndex never becomes negative: it starts after the end of the log, and a
\* reply moves it to an index of a log.
LEMMA NextIndexNext ==
    ASSUME LeastExists, DiskInv, ChainInv, [Next]_vars
    PROVE  nextIndex' \in [Server -> [Server -> Nat]] /\ starts' \in Nat
<1>1. /\ \A k \in Server : IsChain(LogChain(k))
      /\ nextIndex \in [Server -> [Server -> Nat]]
      /\ starts \in Nat /\ MessagesOK
  BY AreChains DEF ChainInv
<1>2. ASSUME NEW i \in Server, becomeLeader(i)
      PROVE  nextIndex' \in [Server -> [Server -> Nat]] /\ starts' \in Nat
  <2>1. /\ nextIndex' = [nextIndex EXCEPT ![i] = [j \in Server |-> lastLogIndex(i) + 1]]
        /\ UNCHANGED starts
    BY <1>2, Zenon DEF becomeLeader
  <2>2. lastLogIndex(i) + 1 \in Nat
    BY <1>1, LogFacts, SMTT(30)
  <2> QED
    BY <1>1, <2>1, <2>2, Zenon
<1>3. ASSUME NEW i \in Server, NEW stoppedOn, NEW t, Make(i, stoppedOn, t)
      PROVE  nextIndex' \in [Server -> [Server -> Nat]] /\ starts' \in Nat
  <2>1. nextIndex' = [nextIndex EXCEPT ![i] = [j \in Server |-> 0]] /\ UNCHANGED starts
    BY <1>3, Zenon DEF Make
  <2> QED
    BY <1>1, <2>1, Zenon
<1>4. ASSUME NEW m \in net, handleAppendReply(m)
      PROVE  nextIndex' \in [Server -> [Server -> Nat]] /\ starts' \in Nat
  <2> DEFINE i == m.dst
             next == IF m.Success THEN nextIndexOnSuccess(m) ELSE nextIndexOnFailure(m)
  <2>1. /\ UNCHANGED starts /\ m.type = "AppendEntriesReply"
        /\ \/ UNCHANGED nextIndex
           \/ /\ nextIndex' = [nextIndex EXCEPT ![i][m.src] = next]
              /\ stateAfter(i, m.Term) = "LEADER" /\ currentTerm[i] = m.ArgsTerm
    BY <1>4, ZenonT(60) DEF handleAppendReply, leaderVars
  <2>2. i \in Server /\ m.src \in Server /\ m.Term \in Nat /\ currentTerm[i] \in Nat
    BY DEF DiskInv, ElectionTypeOK, MessageOK
  <2>3. ReplyOK(m)
    BY <1>1, <2>1, Zenon DEF MessagesOK
  <2>4. CASE UNCHANGED nextIndex
    BY <1>1, <2>1, <2>4, Zenon
  <2>5. CASE /\ nextIndex' = [nextIndex EXCEPT ![i][m.src] = next]
             /\ stateAfter(i, m.Term) = "LEADER" /\ currentTerm[i] = m.ArgsTerm
    <3>1. m.Term = m.ArgsTerm
      BY <2>2, <2>3, <2>5, SMTT(30) DEF stateAfter, ReplyOK
    <3>2. next \in Nat
      <4>1. CASE m.Success
        <5>1. next = m.PrevLogIndex + 1 + m.NEntries
          BY <4>1, Zenon DEF nextIndexOnSuccess
        <5> QED
          BY <2>3, <5>1, SMTT(30) DEF ReplyOK
      <4>2. CASE ~m.Success
        <5>1. next = nextIndexOnFailure(m)
          BY <4>2, Zenon
        <5>2. nextIndexOnFailure(m) \in 0 .. m.PrevLogIndex /\ m.PrevLogIndex \in Int
          BY <1>1, <2>2, <2>3, <3>1, <4>2, FailureGoesBack, Zenon DEF ReplyOK
        <5> QED
          BY <5>1, <5>2
      <4> QED
        BY <4>1, <4>2, Zenon
    <3> HIDE DEF next, i
    <3> QED
      BY <1>1, <2>1, <2>2, <2>5, <3>2, ZenonT(30)
  <2> QED
    BY <2>1, <2>4, <2>5, Zenon
<1>5. ASSUME NEW i \in Server,
             \/ election(i) \/ advanceCommitIndex(i) \/ Snapshot(i) \/ apply(i)
             \/ serviceReceive(i) \/ \E j \in Server : appendMissingEntries(i, j)
      PROVE  UNCHANGED <<nextIndex, starts>>
  BY <1>5, ZenonT(60) DEF election, advanceCommitIndex, Snapshot, apply, serviceReceive,
     appendMissingEntries, leaderVars
<1>6. ASSUME NEW m \in net,
             \/ RequestVote(m) \/ requestVoteReply(m) \/ AppendEntries(m)
             \/ InstallSnapshot(m) \/ installSnapshotReply(m) \/ LoseMessage(m)
      PROVE  UNCHANGED <<nextIndex, starts>>
  BY <1>6, ZenonT(60) DEF RequestVote, requestVoteReply, AppendEntries, InstallSnapshot,
     installSnapshotReply, LoseMessage, leaderVars
<1>7. ASSUME NEW i \in Server, Start(i) PROVE UNCHANGED nextIndex /\ starts' \in Nat
  <2>1. UNCHANGED nextIndex /\ starts' = starts + 1
    BY <1>7, Zenon DEF Start
  <2> QED
    BY <1>1, <2>1
<1>8. CASE UNCHANGED vars
  BY <1>1, <1>8, Zenon DEF vars, leaderVars
<1>9. \A m \in net : m.dst \in Server
  BY DEF DiskInv, ElectionTypeOK, MessageOK
<1>10. CASE UNCHANGED <<nextIndex, starts>>
  BY <1>1, <1>10, Zenon
<1> QED
  BY <1>1, <1>2, <1>3, <1>4, <1>5, <1>6, <1>7, <1>8, <1>9, <1>10, ZenonT(60)
     DEF Next, ticker, appendMissingEntriesOnAll

\* Logs start empty.
LEMMA ChainInvInit == Init => ChainInv
<1> SUFFICES ASSUME Init PROVE ChainInv
  OBVIOUS
<1>1. /\ starts = 0 /\ net = {} /\ nextIndex = [i \in Server |-> [j \in Server |-> 0]]
      /\ log = [i \in Server |-> <<>>] /\ lastIncludedIndex = [i \in Server |-> -1]
      /\ lastIncludedTerm = [i \in Server |-> 0]
  BY Zenon DEF Init
<1>2. \A i \in Server : LogChain(i) = [base |-> -1, term |-> 0, entries |-> <<>>]
  BY <1>1 DEF LogChain
<1>3. IsChain([base |-> -1, term |-> 0, entries |-> <<>>])
  BY DEF IsChain
<1>4. \A c \in Chains : IsChain(c)
  BY <1>1, <1>2, <1>3, Zenon DEF Chains
<1>5. MessagesOK
  BY <1>1, Zenon DEF MessagesOK
<1>6. nextIndex \in [Server -> [Server -> Nat]] /\ starts \in Nat
  BY <1>1
<1> QED
  BY <1>4, <1>5, <1>6 DEF ChainInv

\* Every step keeps the types of logs and of the calls about them.
LEMMA ChainInvNext ==
    LeastExists /\ DiskInv /\ ServiceInv /\ ChainInv /\ [Next]_vars => ChainInv'
<1> SUFFICES ASSUME LeastExists, DiskInv, ServiceInv, ChainInv, [Next]_vars PROVE ChainInv'
  OBVIOUS
<1>1. \A n \in Chains' : IsChain(n)
  BY ChainStep, Zenon
<1>2. (\A c \in Chains : IsChain(c))'
  BY <1>1 DEF IsChain
<1> QED
  BY <1>2, NextIndexNext, MessagesOKNext, Zenon DEF ChainInv

-----------------------------------------------------------------------------
(* Who may have made an entry.                                             *)

-----------------------------------------------------------------------------
(* Entries come from leaders, and chains match.                            *)

\* What is made of chains that match d matches d.
LEMMA MadeMatches ==
    ASSUME NEW n, Made(n), NEW d, IsChain(d), \A c \in Chains : Match(c, d)
    PROVE  Match(n, d)
<1>1. CASE n \in Chains
  BY <1>1
<1>2. CASE \E c \in Chains : Segment(n, c)
  BY <1>2, SegmentMatches, Zenon
<1>3. CASE \E c, e \in Chains : \E j \in Int : Joined(n, c, e, j)
  BY <1>3, JoinMatches, Zenon
<1> QED
  BY <1>1, <1>2, <1>3 DEF Made

\* What is made of chains has, at each index, what one of them has there.
LEMMA MadeFrom ==
    ASSUME NEW n, Made(n), NEW k \in Spans(n)
    PROVE  \E c \in Chains : k \in Spans(c) /\ TermAt(n, k) = TermAt(c, k)
<1>1. CASE n \in Chains
  BY <1>1
<1>2. CASE \E c \in Chains : Segment(n, c)
  BY <1>2, Zenon DEF Segment, PartAt
<1>3. CASE \E c, e \in Chains : \E j \in Int : Joined(n, c, e, j)
  <2>1. PICK c \in Chains, e \in Chains, j \in Int : Joined(n, c, e, j)
    BY <1>3, Zenon
  <2>2. k <= j \/ k > j
    BY SpansInt
  <2>3. PartAt(n, c, k) \/ PartAt(n, e, k)
    BY <2>1, <2>2, Zenon DEF Joined
  <2> QED
    BY <2>3, Zenon DEF PartAt
<1> QED
  BY <1>1, <1>2, <1>3, Zenon DEF Made

\* No call of its own term reaches a leader: only it calls, and others.
LEMMA NoCallToLeader ==
    ASSUME QuorumsMeet, ElectionInv, SentByLeader, NEW m \in net, IsCall(m), state[m.dst] = "LEADER"
    PROVE  m.Term # currentTerm[m.dst]
<1>1. m.src \in Server /\ m.dst \in Server
  BY Zenon DEF ElectionInv, DiskInv, ElectionTypeOK, MessageOK
<1>2. m.src # m.dst /\ Elected(m.Term, m.src)
  BY Zenon DEF SentByLeader, IsCall
<1> QED
  BY <1>1, <1>2, OnlyLeader, Zenon

\* While a peer leads, only its own Start and Snapshot change its log.
LEMMA LeaderLog ==
    ASSUME LeastExists, QuorumsMeet, ElectionInv, ServiceInv, ChainInv, SentByLeader, [Next]_vars, NEW i \in Server,
           state[i] = "LEADER", currentTerm'[i] = currentTerm[i]
    PROVE  LogChain(i)' = LogChain(i) \/ Start(i) \/ Snapshot(i)
<1>1. DiskInv
  BY Zenon DEF ElectionInv
<1>2. /\ \A k \in Server : IsChain(LogChain(k))
      /\ \A m \in net : HasChain(m) => IsChain(CallChain(m))
      /\ \A j, k \in Server : nextIndex[j][k] \in Nat
      /\ starts \in Nat
  BY AreChains DEF ChainInv
<1>3. ASSUME NEW m \in net, m.Term >= currentTerm[m.dst], IsCall(m),
             currentTerm' = [currentTerm EXCEPT ![m.dst] = termAfter(m.dst, m.Term)]
      PROVE  m.dst # i
  <2>1. SUFFICES ASSUME m.dst = i PROVE FALSE
    BY Zenon
  <2>2. m.Term \in Nat /\ currentTerm \in [Server -> Nat]
    BY <1>1, Zenon DEF DiskInv, ElectionTypeOK, MessageOK
  <2>3. currentTerm'[i] = termAfter(i, m.Term)
    BY <1>3, <2>1, <2>2, Zenon
  <2>4. m.Term = currentTerm[i]
    BY <1>3, <2>1, <2>2, <2>3, SMTT(30) DEF termAfter
  <2> QED
    BY <1>3, <2>1, <2>4, NoCallToLeader, Zenon
<1>4. ASSUME NEW k \in Server, k # i, Start(k) \/ Snapshot(k)
      PROVE  LogChain(i)' = LogChain(i)
  <2>1. OthersSame(k)
    BY <1>1, <1>2, <1>4, StartChain, SnapshotChain, Zenon
  <2> QED
    BY <1>4, <2>1, Zenon DEF OthersSame
<1>5. ASSUME NEW k \in Server, NEW j \in Server \ {k}, appendMissingEntries(k, j)
      PROVE  LogChain(i)' = LogChain(i)
  BY <1>2, <1>5, SendChain, Zenon DEF LogsSame
<1>6. ASSUME NEW m \in net, Appends(m) PROVE LogChain(i)' = LogChain(i)
  <2>1. /\ m.Term >= currentTerm[m.dst] /\ m.type = "AppendEntries"
        /\ currentTerm' = [currentTerm EXCEPT ![m.dst] = termAfter(m.dst, m.Term)]
    BY <1>6, ZenonT(60) DEF Appends, AppendEntries, appendMatches
  <2>2. IsCall(m)
    BY <2>1 DEF IsCall
  <2>3. m.dst # i /\ m.dst \in Server
    BY <1>1, <1>3, <2>1, <2>2, Zenon DEF DiskInv, ElectionTypeOK, MessageOK
  <2>4. OthersSame(m.dst)
    BY <1>1, <1>2, <1>6, <2>3, AppendChain, Zenon
  <2> QED
    BY <2>3, <2>4, Zenon DEF OthersSame
<1>7. ASSUME NEW m \in net, InstallSnapshot(m), snapshotIsNew(m)
      PROVE  LogChain(i)' = LogChain(i)
  <2>1. /\ m.Term >= currentTerm[m.dst] /\ m.type = "InstallSnapshot"
        /\ currentTerm' = [currentTerm EXCEPT ![m.dst] = termAfter(m.dst, m.Term)]
    BY <1>7, ZenonT(60) DEF InstallSnapshot, snapshotIsNew, handleHigherTerm
  <2>2. IsCall(m) /\ HasChain(m)
    BY <2>1 DEF IsCall, HasChain
  <2>3. m.dst # i /\ m.dst \in Server
    BY <1>1, <1>3, <2>1, <2>2, Zenon DEF DiskInv, ElectionTypeOK, MessageOK
  <2>4. OthersSame(m.dst)
    BY <1>1, <1>2, <1>7, <2>2, <2>3, InstallChain, Zenon
  <2> QED
    BY <2>3, <2>4 DEF OthersSame
<1>8. CASE LogsSame
  BY <1>8 DEF LogsSame
<1> QED
  BY <1>1, <1>4, <1>5, <1>6, <1>7, <1>8, LogStep, ZenonT(30)

\* Calls come from leaders.
LEMMA SentByLeaderNext ==
    ASSUME ElectionInv, ElectionStep, ServiceInv, ChainInv, SentByLeader, [Next]_vars
    PROVE  SentByLeader'
<1>1. DiskInv /\ \A m \in net : m.src \in Server /\ m.Term \in Nat
  BY DEF ElectionInv, DiskInv, ElectionTypeOK, MessageOK
<1>2. /\ \A k \in Server : IsChain(LogChain(k))
      /\ \A j, k \in Server : nextIndex[j][k] \in Nat
      /\ starts \in Nat
  BY AreChains DEF ChainInv
<1>3. ASSUME NEW m \in net, IsCall(m) PROVE m.src # m.dst /\ Elected(m.Term, m.src)'
  <2>1. m.src # m.dst /\ Elected(m.Term, m.src)
    BY <1>3, Zenon DEF SentByLeader, IsCall
  <2> QED
    BY <1>1, <2>1, Zenon DEF ElectionStep
<1>4. ASSUME NEW m \in net', IsCall(m) PROVE m.src # m.dst /\ Elected(m.Term, m.src)'
  <2>1. CASE NoNewCall
    BY <1>3, <1>4, <2>1, Zenon DEF NoNewCall
  <2>2. ASSUME NEW i \in Server, NEW j \in Server \ {i}, appendMissingEntries(i, j)
        PROVE  m.src # m.dst /\ Elected(m.Term, m.src)'
    <3>1. PICK a : NewCall(a, i, j)
      BY <1>2, <2>2, SendChain, Zenon
    <3>2. m \in net \/ m = a
      BY <3>1, Zenon DEF NewCall
    <3>3. state[i] = "LEADER" /\ currentTerm[i] \in Nat
      BY <1>1, <2>2, Zenon DEF appendMissingEntries, DiskInv, ElectionTypeOK
    <3>4. Elected(currentTerm[i], i)
      BY <3>3, Zenon DEF ElectionStep
    <3>5. m = a => m.src = i /\ m.dst = j /\ m.Term = currentTerm[i]
      BY <3>1, Zenon DEF NewCall
    <3>6. CASE m = a
      <4>1. m.Term \in Nat /\ m.src \in Server /\ Elected(m.Term, m.src) /\ m.src # m.dst
        BY <3>3, <3>4, <3>5, <3>6, Zenon
      <4> QED
        BY <4>1, Zenon DEF ElectionStep
    <3> QED
      BY <1>3, <1>4, <3>2, <3>6, Zenon
  <2>3. ASSUME NEW i \in Server, Start(i) \/ Snapshot(i) PROVE NoNewCall
    BY <1>1, <1>2, <2>3, StartChain, SnapshotChain, Zenon
  <2> QED
    BY <1>1, <2>1, <2>2, <2>3, LogStep, ZenonT(30)
<1> QED
  BY <1>4, Zenon DEF SentByLeader, IsCall

\* Two chains match after a step: both are made of chains that match, or one
\* is the log of a leader after Start, at whose end nobody else has its term.
LEMMA AllMatchNext ==
    ASSUME LeastExists, DiskInv, ServiceInv, ChainInv, MadeByLeader, AllMatch, [Next]_vars
    PROVE  AllMatch'
<1> SUFFICES ASSUME NEW n \in Chains', NEW p \in Chains' PROVE Match(n, p)
  BY DEF AllMatch
<1>1. \A c \in Chains : IsChain(c)
  BY DEF ChainInv
<1>2. IsChain(p) /\ IsChain(n)
  BY ChainStep
<1>3. CASE Made(n) /\ Made(p)
  <2>1. ASSUME NEW c \in Chains PROVE Match(c, p)
    <3>1. \A e \in Chains : Match(e, c)
      BY DEF AllMatch
    <3>2. Match(p, c)
      BY <1>1, <1>3, <3>1, MadeMatches, Zenon
    <3> QED
      BY <3>2, MatchSymmetric, Zenon
  <2> QED
    BY <1>2, <1>3, <2>1, MadeMatches, Zenon
<1>4. ASSUME NEW i \in Server, Start(i), NEW d \in Chains
      PROVE  Match(LogChain(i)', d)
  <2>1. starts \in Nat /\ IsChain(LogChain(i)) /\ LogChain(i) \in Chains
    BY <1>1, AreChains DEF ChainInv
  <2>2. /\ IsChain(LogChain(i)') /\ state[i] = "LEADER"
        /\ top(LogChain(i)') = top(LogChain(i)) + 1
        /\ TermAt(LogChain(i)', top(LogChain(i)')) = currentTerm[i]
        /\ \A k \in Spans(LogChain(i)') :
              k < top(LogChain(i)) + 1 => PartAt(LogChain(i)', LogChain(i), k)
    BY <1>4, <2>1, StartChain, Zenon
  <2> DEFINE j == top(LogChain(i)) + 1
  <2>3. j \in Int /\ j >= 0
    BY <2>1, SMTT(30) DEF IsChain, top
  <2>4. \A k \in Spans(LogChain(i)') : k <= j
    BY <2>2, SMTT(30) DEF Spans
  <2>5. j \in Spans(d) => TermAt(d, j) # TermAt(LogChain(i)', j)
    <3>1. SUFFICES ASSUME j \in Spans(d), TermAt(d, j) = currentTerm[i] PROVE FALSE
      BY <2>2
    <3>2. j <= top(LogChain(i))
      BY <2>2, <2>3, <3>1, Zenon DEF MadeByLeader
    <3> QED
      BY <2>1, <3>2, SMTT(30) DEF IsChain, top
  <2>6. Match(LogChain(i), d)
    BY <2>1, Zenon DEF AllMatch
  <2> HIDE DEF j
  <2>7. \A k \in Spans(LogChain(i)') : k < j => PartAt(LogChain(i)', LogChain(i), k)
    BY <2>2 DEF j
  <2> QED
    BY <2>3, <2>4, <2>5, <2>6, <2>7, LongerMatches, Zenon
<1>5. ASSUME NEW i \in Server, Start(i), NEW d \in Chains'
      PROVE  Match(LogChain(i)', d)
  <2>1. OthersSame(i) /\ NoNewCall
    BY <1>1, <1>5, AreChains, StartChain, Zenon DEF ChainInv
  <2>2. d \in Chains \/ d = LogChain(i)'
    BY <2>1, OneNewLog, Zenon
  <2>3. Match(d, d)
    BY Zenon DEF Match, SameAt
  <2> QED
    BY <1>4, <1>5, <2>2, <2>3, Zenon
<1>6. ASSUME NEW i \in Server, Start(i), n = LogChain(i)' \/ p = LogChain(i)'
      PROVE  Match(n, p)
  <2>1. Match(n, p) \/ Match(p, n)
    BY <1>5, <1>6, Zenon
  <2> QED
    BY <2>1, MatchSymmetric, Zenon
<1> QED
  BY <1>3, <1>6, ChainStep, Zenon

\* The log of a peer that goes on leading does not get shorter.
LEMMA LeaderTop ==
    ASSUME LeastExists, QuorumsMeet, ElectionInv, ServiceInv, ChainInv, SentByLeader, [Next]_vars, NEW i \in Server,
           state[i] = "LEADER", currentTerm'[i] = currentTerm[i]
    PROVE  top(LogChain(i)) <= top(LogChain(i)')
<1>1. DiskInv /\ starts \in Nat /\ IsChain(LogChain(i))
  BY AreChains, ZenonT(30) DEF ElectionInv, ChainInv
<1>2. top(LogChain(i)) \in Int
  BY <1>1, SMTT(30) DEF IsChain, top
<1>3. CASE Start(i)
  <2>1. top(LogChain(i)') = top(LogChain(i)) + 1
    BY <1>1, <1>3, StartChain, Zenon
  <2> QED
    BY <1>2, <2>1, SMTT(30)
<1>4. CASE Snapshot(i)
  <2>1. top(LogChain(i)') = top(LogChain(i))
    BY <1>1, <1>4, SnapshotChain, Zenon
  <2> QED
    BY <1>2, <2>1
<1>5. CASE LogChain(i)' = LogChain(i)
  BY <1>2, <1>5
<1> QED
  BY <1>3, <1>4, <1>5, LeaderLog, Zenon

\* At every index of a chain is a term of before the step, or the term of the
\* leader whose Start appended there.
LEMMA TermFrom ==
    ASSUME LeastExists, DiskInv, ServiceInv, ChainInv, [Next]_vars, NEW n \in Chains', NEW k \in Spans(n)
    PROVE  \/ \E c \in Chains : k \in Spans(c) /\ TermAt(n, k) = TermAt(c, k)
           \/ \E i \in Server : /\ state[i] = "LEADER" /\ UNCHANGED termVars
                                /\ TermAt(n, k) = currentTerm[i] /\ k = top(LogChain(i)')
<1>1. CASE Made(n)
  BY <1>1, MadeFrom, Zenon
<1>2. ASSUME NEW i \in Server, Start(i), n = LogChain(i)'
      PROVE  \/ \E c \in Chains : k \in Spans(c) /\ TermAt(n, k) = TermAt(c, k)
             \/ /\ state[i] = "LEADER" /\ UNCHANGED termVars
                /\ TermAt(n, k) = currentTerm[i] /\ k = top(LogChain(i)')
  <2>1. starts \in Nat /\ IsChain(LogChain(i)) /\ LogChain(i) \in Chains
    BY AreChains DEF ChainInv
  <2>2. /\ state[i] = "LEADER" /\ UNCHANGED termVars
        /\ top(LogChain(i)') = top(LogChain(i)) + 1
        /\ TermAt(LogChain(i)', top(LogChain(i)')) = currentTerm[i]
        /\ \A x \in Spans(LogChain(i)') :
              x < top(LogChain(i)) + 1 => PartAt(LogChain(i)', LogChain(i), x)
    BY <1>2, <2>1, StartChain, ZenonT(30)
  <2>3. k < top(LogChain(i)) + 1 \/ k = top(LogChain(i)')
    <3>1. top(LogChain(i)) \in Int
      BY <2>1 DEF IsChain, top
    <3> QED
      BY <1>2, <2>2, <3>1, SMTT(30) DEF Spans
  <2>4. CASE k < top(LogChain(i)) + 1
    BY <1>2, <2>1, <2>2, <2>4, Zenon DEF PartAt
  <2>5. CASE k = top(LogChain(i)')
    BY <1>2, <2>2, <2>5, Zenon
  <2> QED
    BY <2>3, <2>4, <2>5, ZenonT(30)
<1> QED
  BY <1>1, <1>2, ChainStep, Zenon

\* Entries are made by leaders, and a leader has the last entry of its term.
LEMMA MadeByLeaderNext ==
    ASSUME LeastExists, QuorumsMeet, ElectionInv, ElectionStep, ServiceInv, ChainInv,
           SentByLeader, MadeByLeader, [Next]_vars
    PROVE  MadeByLeader'
<1> SUFFICES ASSUME NEW n \in Chains', NEW k \in Spans(n), k >= 0
             PROVE  /\ \E s \in Server : Elected(TermAt(n, k), s)'
                    /\ \A i \in Server : state'[i] = "LEADER" /\ currentTerm'[i] = TermAt(n, k)
                          => k <= top(LogChain(i)')
  BY DEF MadeByLeader
<1>1. /\ DiskInv /\ currentTerm \in [Server -> Nat] /\ k \in Int
      /\ \A i \in Server : IsChain(LogChain(i))
  BY AreChains, SpansInt, Zenon DEF ElectionInv, DiskInv, ElectionTypeOK, ChainInv
<1>2. TermAt(n, k) \in Nat
  BY <1>1, ChainStep, TermIsNat
<1>3. ASSUME NEW c \in Chains, k \in Spans(c), TermAt(n, k) = TermAt(c, k)
      PROVE  /\ \E s \in Server : Elected(TermAt(n, k), s)
             /\ \A i \in Server : state[i] = "LEADER" /\ currentTerm[i] = TermAt(n, k)
                   => k <= top(LogChain(i))
  BY <1>3, Zenon DEF MadeByLeader
<1>4. ASSUME NEW i \in Server, state[i] = "LEADER", UNCHANGED termVars,
             TermAt(n, k) = currentTerm[i], k = top(LogChain(i)')
      PROVE  Elected(TermAt(n, k), i)
  BY <1>4, Zenon DEF ElectionStep
<1>5. PICK s \in Server : Elected(TermAt(n, k), s)
  BY <1>1, <1>3, <1>4, TermFrom, Zenon
<1>6. Elected(TermAt(n, k), s)'
  BY <1>2, <1>5, Zenon DEF ElectionStep
<1>7. ASSUME NEW i \in Server, state'[i] = "LEADER", currentTerm'[i] = TermAt(n, k)
      PROVE  k <= top(LogChain(i)')
  <2>1. becomeLeader(i) \/ (state[i] = "LEADER" /\ currentTerm'[i] = currentTerm[i])
    BY <1>7, Zenon DEF ElectionStep, RoleStep
  <2>2. ASSUME becomeLeader(i) PROVE FALSE
    <3>1. /\ state[i] = "CANDIDATE" /\ currentTerm' = currentTerm
          /\ Cardinality(votesGranted[i]) >= majority
      BY <2>2, Zenon DEF becomeLeader
    <3>2. Elected(currentTerm[i], s) /\ Active(i)
      BY <1>5, <1>7, <3>1, ZenonT(30) DEF Active
    <3>3. s = i
      BY <3>1, <3>2, OneElected, ZenonT(30)
    <3> QED
      BY <1>1, <3>1, <3>2, <3>3, SMTT(30) DEF Elected
  <2>3. CASE state[i] = "LEADER" /\ currentTerm'[i] = currentTerm[i]
    <3>1. top(LogChain(i)) <= top(LogChain(i)') /\ IsChain(LogChain(i)')
      <4>1. LogChain(i)' \in Chains'
        BY AreChains DEF Chains
      <4> QED
        BY <1>1, <2>3, <4>1, LeaderTop, ChainStep, Zenon
    <3>2. ASSUME NEW c \in Chains, k \in Spans(c), TermAt(n, k) = TermAt(c, k)
          PROVE  k <= top(LogChain(i)')
      <4>1. k <= top(LogChain(i))
        BY <1>3, <1>7, <2>3, <3>2, Zenon
      <4>2. top(LogChain(i)) \in Int /\ top(LogChain(i)') \in Int
        BY <1>1, <3>1, ChainNumbers, Zenon
      <4> QED
        BY <1>1, <3>1, <4>1, <4>2, SMTT(30)
    <3>3. ASSUME NEW j \in Server, state[j] = "LEADER", UNCHANGED termVars,
                 TermAt(n, k) = currentTerm[j], k = top(LogChain(j)')
          PROVE  k <= top(LogChain(i)')
      <4>1. Elected(currentTerm[i], j)
        <5>1. Elected(currentTerm[j], j) /\ currentTerm[j] = currentTerm[i]
          BY <1>7, <2>3, <3>3, Zenon DEF ElectionStep
        <5> QED
          BY <5>1, Zenon
      <4>2. j = i
        BY <2>3, <4>1, OnlyLeader, Zenon
      <4> QED
        BY <1>1, <3>3, <4>2
    <3> QED
      BY <1>1, <3>2, <3>3, TermFrom, Zenon
  <2> QED
    BY <2>1, <2>2, <2>3, ZenonT(30)
<1> QED
  BY <1>6, <1>7, ZenonT(30)

\* At first there is nothing to match.
LEMMA LogInvInit == Init => LogInv
<1> SUFFICES ASSUME Init PROVE LogInv
  OBVIOUS
<1>1. net = {}
  BY Zenon DEF Init
<1>2. \A i \in Server : /\ LogChain(i).base = -1 /\ LogChain(i).entries = <<>>
                        /\ LogChain(i).term = 0
  BY DEF Init, LogChain
<1>3. \A c \in Chains : c.base = -1 /\ c.entries = <<>> /\ c.term = 0
  BY <1>1, <1>2, Zenon DEF Chains
<1>4. \A c \in Chains : Spans(c) = {-1}
  <2> SUFFICES ASSUME NEW c \in Chains PROVE Spans(c) = {-1}
    OBVIOUS
  <2>1. c.base = -1 /\ Len(c.entries) = 0
    BY <1>3
  <2> QED
    BY <2>1 DEF Spans, top
<1>5. SentByLeader
  BY <1>1 DEF SentByLeader
<1>6. MadeByLeader
  BY <1>4, SMTT(30) DEF MadeByLeader
<1>7. AllMatch
  <2> SUFFICES ASSUME NEW c \in Chains, NEW d \in Chains,
                      NEW k \in Spans(c) \cap Spans(d)
               PROVE  SameAt(c, d, k)
    BY DEF AllMatch, Match
  <2>1. k = -1 /\ c.base = -1 /\ d.base = -1 /\ c.term = d.term
    BY <1>3, <1>4, SMTT(30)
  <2> QED
    BY <2>1 DEF SameAt, TermAt
<1> QED
  BY <1>5, <1>6, <1>7 DEF LogInv

\* All of this is kept by every step.
LEMMA LogInvNext ==
    ASSUME LeastExists, QuorumsMeet, ElectionInv, ElectionStep, ServiceInv, ChainInv, LogInv,
           [Next]_vars
    PROVE  LogInv'
<1>1. DiskInv /\ SentByLeader /\ MadeByLeader /\ AllMatch
  BY DEF ElectionInv, LogInv
<1>2. SentByLeader'
  BY <1>1, SentByLeaderNext, ZenonT(30)
<1>3. MadeByLeader'
  BY <1>1, MadeByLeaderNext
<1>4. AllMatch'
  BY <1>1, AllMatchNext
<1> QED
  BY <1>2, <1>3, <1>4 DEF LogInv

\* Logs that match have the same entries before one of the same term.
LEMMA LogsMatch == ChainInv /\ LogInv => LogMatching
<1> SUFFICES ASSUME ChainInv, LogInv, NEW i \in Server, NEW j \in Server,
                    NEW idx \in Common(i, j), Entry(i, idx).Term = Entry(j, idx).Term,
                    NEW k \in Common(i, j), k <= idx
             PROVE  Entry(i, k) = Entry(j, k)
  BY DEF LogMatching
<1>1. /\ IsChain(LogChain(i)) /\ IsChain(LogChain(j))
      /\ Match(LogChain(i), LogChain(j))
  BY AreChains, Zenon DEF ChainInv, LogInv, AllMatch
<1>2. /\ lastIncludedIndex[i] \in Int /\ lastIncludedIndex[j] \in Int
      /\ lastLogIndex(i) \in Int /\ lastLogIndex(j) \in Int
  BY <1>1, LogFacts, Zenon
<1>3. ASSUME NEW x \in Common(i, j)
      PROVE  /\ x > lastIncludedIndex[i] /\ x > lastIncludedIndex[j]
             /\ x \in lastIncludedIndex[i] .. lastLogIndex(i)
             /\ x \in lastIncludedIndex[j] .. lastLogIndex(j)
             /\ x # lastIncludedIndex[i] /\ x # lastIncludedIndex[j]
  BY <1>2, SMTT(30) DEF Common, baseIndex
<1>4. /\ Spans(LogChain(i)) = lastIncludedIndex[i] .. lastLogIndex(i)
      /\ Spans(LogChain(j)) = lastIncludedIndex[j] .. lastLogIndex(j)
      /\ LogChain(i).base = lastIncludedIndex[i] /\ LogChain(j).base = lastIncludedIndex[j]
      /\ LogChain(i).entries = log[i] /\ LogChain(j).entries = log[j]
  BY <1>1, LogFacts, Zenon
<1>5. idx \in Spans(LogChain(i)) \cap Spans(LogChain(j))
  BY <1>3, <1>4, Zenon
<1>6. k \in Spans(LogChain(i)) \cap Spans(LogChain(j))
  BY <1>3, <1>4, Zenon
<1>7. TermAt(LogChain(i), idx) = TermAt(LogChain(j), idx)
  BY <1>3, <1>4, Zenon DEF TermAt, Entry
<1>8. SameAt(LogChain(i), LogChain(j), k)
  BY <1>1, <1>5, <1>6, <1>7, Zenon DEF Match
<1>9. EntryAt(LogChain(i), k) = EntryAt(LogChain(j), k)
  BY <1>3, <1>4, <1>8, Zenon DEF SameAt
<1> QED
  BY <1>4, <1>9, Zenon DEF EntryAt, Entry

\* A leader whose snapshot stays appends at most.
LEMMA LeaderAppends ==
    LeastExists /\ QuorumsMeet /\ ElectionInv /\ ServiceInv /\ ChainInv /\ LogInv
    /\ [Next]_vars =>
        \A i \in Server :
           /\ state[i] = "LEADER" /\ state'[i] = "LEADER"
           /\ currentTerm'[i] = currentTerm[i]
           /\ lastIncludedIndex'[i] = lastIncludedIndex[i]
           => /\ Len(log[i]) <= Len(log'[i])
              /\ SubSeq(log'[i], 1, Len(log[i])) = log[i]
<1> SUFFICES ASSUME LeastExists, QuorumsMeet, ElectionInv, ServiceInv, ChainInv, LogInv,
                    [Next]_vars, NEW i \in Server, state[i] = "LEADER",
                    currentTerm'[i] = currentTerm[i],
                    lastIncludedIndex'[i] = lastIncludedIndex[i]
             PROVE  /\ Len(log[i]) <= Len(log'[i])
                    /\ SubSeq(log'[i], 1, Len(log[i])) = log[i]
  BY Zenon
<1>1. /\ ElectionInv /\ DiskInv /\ ServiceInv /\ ChainInv /\ SentByLeader
      /\ IsChain(LogChain(i))
  BY AreChains, Zenon DEF ElectionInv, ChainInv, LogInv
<1>2. log[i] \in Seq(ChainEntry) /\ lastIncludedIndex[i] \in Int
  BY <1>1, LogFacts, ZenonT(30)
<1>3. ASSUME NEW l \in Seq(ChainEntry)
      PROVE  /\ Len(l) <= Len(l) /\ SubSeq(l, 1, Len(l)) = l
             /\ \A x : Len(l) <= Len(Append(l, x)) /\ SubSeq(Append(l, x), 1, Len(l)) = l
  OBVIOUS
<1>4. CASE LogChain(i)' = LogChain(i)
  <2>1. log'[i] = log[i]
    BY <1>4 DEF LogChain
  <2> QED
    BY <1>2, <1>3, <2>1, Zenon
<1>5. CASE Start(i)
  <2>1. DOMAIN log = Server
    BY <1>1 DEF DiskInv, PersistentDomains
  <2>2. \E x : log'[i] = Append(log[i], x)
    BY <1>5, <2>1, Zenon DEF Start
  <2> QED
    BY <1>2, <1>3, <2>2, ZenonT(30)
<1>6. ASSUME Snapshot(i) PROVE FALSE
  <2>1. DOMAIN lastIncludedIndex = Server
    BY <1>1, Zenon DEF DiskInv, PersistentDomains
  <2> DEFINE index == Len(service[i]) - 1
  <2>2. lastIncludedIndex[i] < index /\ lastIncludedIndex'[i] = index
    BY <1>6, <2>1, Zenon DEF Snapshot
  <2> QED
    BY <1>2, <2>2, SMTT(30)
<1> QED
  BY <1>1, <1>4, <1>5, <1>6, LeaderLog, Zenon

\* Failed calls move nextIndex back.
LEMMA LeaderGoesBack == LeastExists /\ DiskInv /\ ChainInv => BacktrackProgress
<1> SUFFICES ASSUME LeastExists, DiskInv, ChainInv, NEW m \in net, m.type = "AppendEntriesReply",
                    ~m.Success, m.Term = m.ArgsTerm
             PROVE  nextIndexOnFailure(m) \in 0 .. m.PrevLogIndex
  BY Zenon DEF BacktrackProgress
<1>1. m.dst \in Server
  BY Zenon DEF DiskInv, ElectionTypeOK, MessageOK
<1>2. ReplyOK(m) /\ IsChain(LogChain(m.dst))
  BY <1>1, AreChains DEF ChainInv, MessagesOK
<1> QED
  BY <1>2, FailureGoesBack, Zenon

-----------------------------------------------------------------------------
(* Terms along logs.                                                       *)

\* Part of a sorted chain is sorted.
LEMMA SegmentSorted ==
    ASSUME NEW n, NEW c, Segment(n, c)
    PROVE  /\ SortedChain(c) => SortedChain(n)
           /\ \A t : BoundedBy(c, t) => BoundedBy(n, t)
  BY Zenon DEF Segment, PartAt, SortedChain, BoundedBy

\* Sorted chains joined where they have the same term are sorted.
LEMMA JoinSorted ==
    ASSUME NEW n, NEW c, NEW e, IsChain(c), IsChain(e), NEW j \in Int, Joined(n, c, e, j),
           SortedChain(c), SortedChain(e), IsChain(n)
    PROVE  SortedChain(n)
<1> SUFFICES ASSUME NEW a \in Spans(n), NEW b \in Spans(n), a <= b
             PROVE  TermAt(n, a) <= TermAt(n, b)
  BY DEF SortedChain
<1>1. a \in Int /\ b \in Int
  BY SpansInt
<1>2. /\ j \in Spans(c) /\ j \in Spans(e) /\ TermAt(c, j) = TermAt(e, j)
      /\ a <= j => PartAt(n, c, a)
      /\ b <= j => PartAt(n, c, b)
      /\ a > j => PartAt(n, e, a)
      /\ b > j => PartAt(n, e, b)
  BY Zenon DEF Joined
<1>3. CASE b <= j
  <2>1. a <= j
    BY <1>1, <1>3
  <2> QED
    BY <1>2, <1>3, <2>1, Zenon DEF PartAt, SortedChain
<1>4. CASE a > j
  <2>1. b > j
    BY <1>1, <1>4, SMTT(30)
  <2> QED
    BY <1>2, <1>4, <2>1, Zenon DEF PartAt, SortedChain
<1>5. CASE a <= j /\ b > j
  <2>1. j <= b
    BY <1>1, <1>5
  <2>2. TermAt(n, a) <= TermAt(c, j) /\ a \in Spans(c)
    BY <1>2, <1>5, Zenon DEF PartAt, SortedChain
  <2>3. TermAt(c, j) <= TermAt(n, b)
    BY <1>2, <1>5, <2>1, Zenon DEF PartAt, SortedChain
  <2>4. TermAt(n, a) \in Nat /\ TermAt(c, j) \in Nat /\ TermAt(n, b) \in Nat
    BY <1>2, TermIsNat, Zenon
  <2> QED
    BY <2>2, <2>3, <2>4, SMTT(30)
<1> QED
  BY <1>1, <1>3, <1>4, <1>5, SMTT(30)

\* No term of two joined chains is above those of both.
LEMMA JoinBounded ==
    ASSUME NEW n, NEW c, NEW e, NEW j \in Int, Joined(n, c, e, j), NEW t,
           BoundedBy(c, t), BoundedBy(e, t)
    PROVE  BoundedBy(n, t)
<1> SUFFICES ASSUME NEW k \in Spans(n) PROVE TermAt(n, k) <= t
  BY DEF BoundedBy
<1>1. k <= j \/ k > j
  BY SpansInt
<1>2. PartAt(n, c, k) \/ PartAt(n, e, k)
  BY <1>1, Zenon DEF Joined
<1> QED
  BY <1>2, Zenon DEF PartAt, BoundedBy

\* One entry more, of no smaller a term.
LEMMA LongerSorted ==
    ASSUME NEW n, NEW c, IsChain(c), IsChain(n), SortedChain(c), NEW t \in Nat, BoundedBy(c, t),
           top(n) = top(c) + 1, TermAt(n, top(n)) = t,
           \A k \in Spans(n) : k < top(c) + 1 => PartAt(n, c, k)
    PROVE  SortedChain(n) /\ BoundedBy(n, t)
<1>1. top(c) \in Int /\ \A k \in Spans(n) : k \in Int /\ (k < top(c) + 1 \/ k = top(n))
  <2>1. top(c) \in Int
    BY DEF IsChain, top
  <2>2. \A k \in Spans(n) : k \in Int /\ k <= top(c) + 1
    BY DEF Spans
  <2> QED
    BY <2>1, <2>2, SMTT(30)
<1>2. ASSUME NEW k \in Spans(n) PROVE TermAt(n, k) <= t
  <2>1. CASE k < top(c) + 1
    BY <2>1, Zenon DEF PartAt, BoundedBy
  <2>2. CASE k = top(n)
    BY <2>2
  <2> QED
    BY <1>1, <2>1, <2>2, Zenon
<1>3. ASSUME NEW a \in Spans(n), NEW b \in Spans(n), a <= b PROVE TermAt(n, a) <= TermAt(n, b)
  <2>1. CASE b = top(n)
    BY <1>2, <2>1
  <2>2. CASE b < top(c) + 1
    <3>1. a < top(c) + 1
      BY <1>1, <1>3, <2>2
    <3> QED
      BY <1>3, <2>2, <3>1, Zenon DEF PartAt, SortedChain
  <2> QED
    BY <1>1, <2>1, <2>2, Zenon
<1> QED
  BY <1>2, <1>3, Zenon DEF SortedChain, BoundedBy

\* A bound may be raised.
LEMMA BoundRaised ==
    ASSUME NEW c, IsChain(c), NEW t \in Nat, NEW u \in Nat, t <= u, BoundedBy(c, t)
    PROVE  BoundedBy(c, u)
<1> SUFFICES ASSUME NEW k \in Spans(c) PROVE TermAt(c, k) <= u
  BY DEF BoundedBy
<1>1. TermAt(c, k) \in Nat /\ TermAt(c, k) <= t
  BY TermIsNat DEF BoundedBy
<1> QED
  BY <1>1

\* How the log of one peer changes.
LEMMA PeerLogStep ==
    ASSUME LeastExists, DiskInv, ChainInv, ServiceInv, [Next]_vars, NEW q \in Server
    PROVE  \/ LogChain(q)' = LogChain(q)
           \/ Start(q) \/ Snapshot(q)
           \/ \E m \in net : m.dst = q /\ Appends(m)
           \/ \E m \in net : m.dst = q /\ InstallSnapshot(m) /\ snapshotIsNew(m)
<1>1. /\ \A k \in Server : IsChain(LogChain(k))
      /\ \A m \in net : HasChain(m) => IsChain(CallChain(m))
      /\ \A j, k \in Server : nextIndex[j][k] \in Nat
      /\ starts \in Nat
  BY AreChains DEF ChainInv
<1>2. \A m \in net : m.dst \in Server
  BY DEF DiskInv, ElectionTypeOK, MessageOK
<1>3. ASSUME NEW k \in Server, k # q, Start(k) \/ Snapshot(k)
      PROVE  LogChain(q)' = LogChain(q)
  <2>1. OthersSame(k)
    BY <1>1, <1>3, StartChain, SnapshotChain, Zenon
  <2> QED
    BY <1>3, <2>1 DEF OthersSame
<1>4. ASSUME NEW k \in Server, NEW j \in Server \ {k}, appendMissingEntries(k, j)
      PROVE  LogChain(q)' = LogChain(q)
  BY <1>1, <1>4, SendChain, Zenon DEF LogsSame
<1>5. ASSUME NEW m \in net, m.dst # q, Appends(m) PROVE LogChain(q)' = LogChain(q)
  <2>1. OthersSame(m.dst)
    BY <1>1, <1>2, <1>5, AppendChain, Zenon
  <2> QED
    BY <1>5, <2>1 DEF OthersSame
<1>6. ASSUME NEW m \in net, m.dst # q, InstallSnapshot(m), snapshotIsNew(m)
      PROVE  LogChain(q)' = LogChain(q)
  <2>1. HasChain(m)
    BY <1>6, Zenon DEF InstallSnapshot, HasChain
  <2>2. OthersSame(m.dst)
    BY <1>1, <1>2, <1>6, <2>1, InstallChain, Zenon
  <2> QED
    BY <1>6, <2>2 DEF OthersSame
<1>7. CASE LogsSame
  BY <1>7 DEF LogsSame
<1> QED
  BY <1>3, <1>4, <1>5, <1>6, <1>7, LogStep, ZenonT(30)

\* Start appends at the end of a sorted log, and AppendEntries joins sorted
\* entries where the terms are the same.
LEMMA SortedNext ==
    ASSUME LeastExists, DiskInv, ServiceInv, ChainInv, TermsInv, [Next]_vars, NEW n \in Chains'
    PROVE  SortedChain(n)
<1>1. IsChain(n) /\ (Made(n) \/ \E i \in Server : Start(i) /\ n = LogChain(i)')
  BY ChainStep, Zenon
<1>2. \A c \in Chains : IsChain(c) /\ SortedChain(c)
  BY Zenon DEF ChainInv, TermsInv
<1>3. CASE n \in Chains
  BY <1>2, <1>3
<1>4. CASE \E c \in Chains : Segment(n, c)
  BY <1>2, <1>4, SegmentSorted, Zenon
<1>5. CASE \E c, e \in Chains : \E j \in Int : Joined(n, c, e, j)
  BY <1>1, <1>2, <1>5, JoinSorted, Zenon
<1>6. ASSUME NEW i \in Server, Start(i), n = LogChain(i)' PROVE SortedChain(n)
  <2>1. starts \in Nat /\ IsChain(LogChain(i)) /\ SortedChain(LogChain(i))
    BY <1>2, AreChains DEF ChainInv
  <2>2. currentTerm[i] \in Nat /\ BoundedBy(LogChain(i), currentTerm[i])
    BY DEF DiskInv, ElectionTypeOK, TermsInv
  <2>3. /\ top(n) = top(LogChain(i)) + 1 /\ TermAt(n, top(n)) = currentTerm[i]
        /\ \A k \in Spans(n) : k < top(LogChain(i)) + 1 => PartAt(n, LogChain(i), k)
    BY <1>6, <2>1, StartChain, Zenon
  <2> QED
    BY <1>1, <2>1, <2>2, <2>3, LongerSorted, Zenon
<1> QED
  BY <1>1, <1>3, <1>4, <1>5, <1>6, Zenon DEF Made

\* No peer has entries of later terms than its own.
LEMMA BoundedNext ==
    ASSUME LeastExists, DiskInv, DiskInv', VotesKept, ServiceInv, ChainInv, TermsInv, [Next]_vars,
           NEW i \in Server
    PROVE  BoundedBy(LogChain(i)', currentTerm'[i])
<1>1. /\ currentTerm[i] \in Nat /\ currentTerm'[i] \in Nat /\ currentTerm[i] <= currentTerm'[i]
  BY Zenon DEF DiskInv, ElectionTypeOK, VotesKept
<1>2. /\ \A k \in Server : IsChain(LogChain(k))
      /\ \A m \in net : HasChain(m) => IsChain(CallChain(m)) /\ BoundedBy(CallChain(m), m.Term)
      /\ starts \in Nat
  BY AreChains, ZenonT(30) DEF ChainInv, TermsInv
<1>3. BoundedBy(LogChain(i), currentTerm'[i])
  BY <1>1, <1>2, BoundRaised DEF TermsInv
<1>4. CASE LogChain(i)' = LogChain(i)
  BY <1>3, <1>4
<1>5. CASE Start(i)
  <2>1. /\ top(LogChain(i)') = top(LogChain(i)) + 1 /\ IsChain(LogChain(i)')
        /\ TermAt(LogChain(i)', top(LogChain(i)')) = currentTerm[i] /\ UNCHANGED termVars
        /\ \A k \in Spans(LogChain(i)') :
              k < top(LogChain(i)) + 1 => PartAt(LogChain(i)', LogChain(i), k)
    BY <1>2, <1>5, StartChain, Zenon
  <2>2. currentTerm'[i] = currentTerm[i]
    BY <2>1, ZenonT(30) DEF termVars
  <2>3. SortedChain(LogChain(i)) /\ BoundedBy(LogChain(i), currentTerm[i])
    BY AreChains DEF TermsInv
  <2> QED
    BY <1>1, <1>2, <2>1, <2>2, <2>3, LongerSorted, Zenon
<1>6. CASE Snapshot(i)
  BY <1>2, <1>3, <1>6, SnapshotChain, SegmentSorted, Zenon
<1>7. ASSUME NEW m \in net, m.dst = i, Appends(m) PROVE BoundedBy(LogChain(i)', currentTerm'[i])
  <2>1. currentTerm'[i] = m.Term
    BY <1>7, CallTerm, Zenon
  <2>2. \/ LogChain(i)' = LogChain(i)
        \/ HasChain(m) /\ \E j \in Int : Joined(LogChain(i)', LogChain(i), CallChain(m), j)
    BY <1>2, <1>7, AppendChain, Zenon
  <2> QED
    BY <1>2, <1>3, <1>4, <2>1, <2>2, JoinBounded, Zenon
<1>8. ASSUME NEW m \in net, m.dst = i, InstallSnapshot(m), snapshotIsNew(m)
      PROVE  BoundedBy(LogChain(i)', currentTerm'[i])
  <2>1. currentTerm'[i] = m.Term
    BY <1>8, CallTerm, Zenon
  <2>2. HasChain(m)
    BY <1>8, Zenon DEF InstallSnapshot, HasChain
  <2>3. \/ Segment(LogChain(i)', LogChain(i))
        \/ LogChain(i)' = CallChain(m)
    BY <1>2, <1>8, <2>2, InstallChain, Zenon
  <2> QED
    BY <1>2, <1>3, <2>1, <2>2, <2>3, SegmentSorted, Zenon
<1> QED
  BY <1>4, <1>5, <1>6, <1>7, <1>8, PeerLogStep, Zenon

\* At first there are no entries.
LEMMA TermsInvInit == Init => TermsInv
<1> SUFFICES ASSUME Init PROVE TermsInv
  OBVIOUS
<1>1. net = {} /\ currentTerm = [i \in Server |-> 0]
  BY Zenon DEF Init
<1>2. \A i \in Server : /\ LogChain(i).base = -1 /\ LogChain(i).entries = <<>>
                        /\ LogChain(i).term = 0
  BY DEF Init, LogChain
<1>3. ASSUME NEW i \in Server, NEW k \in Spans(LogChain(i)) PROVE TermAt(LogChain(i), k) = 0
  <2>1. LogChain(i).base = -1 /\ Len(LogChain(i).entries) = 0 /\ LogChain(i).term = 0
    BY <1>2
  <2>2. k = -1
    BY <2>1 DEF Spans, top
  <2> QED
    BY <2>1, <2>2 DEF TermAt
<1>4. \A i \in Server : SortedChain(LogChain(i)) /\ BoundedBy(LogChain(i), currentTerm[i])
  BY <1>1, <1>3 DEF SortedChain, BoundedBy
<1> QED
  BY <1>1, <1>4, Zenon DEF TermsInv, Chains

\* Every step keeps the terms sorted and bounded.
LEMMA TermsInvNext ==
    ASSUME LeastExists, DiskInv, DiskInv', VotesKept, ServiceInv, ChainInv, TermsInv, [Next]_vars
    PROVE  TermsInv'
<1>1. /\ \A k \in Server : IsChain(LogChain(k))
      /\ \A j, k \in Server : nextIndex[j][k] \in Nat
      /\ starts \in Nat
  BY AreChains DEF ChainInv
<1>2. ASSUME NEW m \in net', HasChain(m) PROVE BoundedBy(CallChain(m), m.Term)
  <2>1. CASE m \in net
    BY <1>2, <2>1 DEF TermsInv
  <2>2. CASE NoNewCall
    BY <1>2, <2>1, <2>2, AreChains, Zenon DEF NoNewCall
  <2>3. ASSUME NEW i \in Server, NEW j \in Server \ {i}, appendMissingEntries(i, j)
        PROVE  BoundedBy(CallChain(m), m.Term)
    <3>1. PICK a : NewCall(a, i, j)
      BY <1>1, <2>3, SendChain, Zenon
    <3>2. m \in net \/ m = a
      BY <3>1 DEF NewCall
    <3>3. HasChain(a) => BoundedBy(CallChain(a), a.Term)
      BY <3>1, SegmentSorted, Zenon DEF NewCall, TermsInv
    <3> QED
      BY <1>2, <2>1, <3>2, <3>3, Zenon
  <2>4. ASSUME NEW i \in Server, Start(i) \/ Snapshot(i) PROVE NoNewCall
    BY <1>1, <2>4, StartChain, SnapshotChain, Zenon
  <2> QED
    BY <2>2, <2>3, <2>4, LogStep, ZenonT(30)
<1>3. (\A c \in Chains : SortedChain(c))'
  BY SortedNext DEF SortedChain
<1>4. (\A i \in Server : BoundedBy(LogChain(i), currentTerm[i]))'
  BY BoundedNext, ZenonT(30) DEF BoundedBy
<1>5. (\A m \in net : HasChain(m) => BoundedBy(CallChain(m), m.Term))'
  BY <1>2 DEF BoundedBy, HasChain, CallChain
<1> QED
  BY <1>3, <1>4, <1>5, Zenon DEF TermsInv

-----------------------------------------------------------------------------
\* This is what the layers above take from the logs.
LEMMA LogsStepNext ==
    ASSUME LeastExists, QuorumsMeet, ElectionInv, ServiceInv, ChainInv, LogInv, [Next]_vars
    PROVE  LogsStep
<1>1. DiskInv /\ SentByLeader
  BY Zenon DEF ElectionInv, LogInv
<1>2. ASSUME NEW i \in Server, state[i] = "LEADER", currentTerm'[i] = currentTerm[i]
      PROVE  /\ LogChain(i)' = LogChain(i) \/ Start(i) \/ Snapshot(i)
             /\ top(LogChain(i)) <= top(LogChain(i)')
  BY <1>1, <1>2, LeaderLog, LeaderTop, Zenon
<1>3. \A r \in net' : r.type = "AppendEntriesReply" =>
         r \in net \/ \E m \in net : AppendEntries(m)
  BY <1>1, OtherReplies, Zenon
<1>4. BacktrackProgress
  BY <1>1, LeaderGoesBack, Zenon
<1>5. ASSUME NEW q \in Server
      PROVE  \/ LogChain(q)' = LogChain(q) \/ Start(q) \/ Snapshot(q)
             \/ \E m \in net : m.dst = q /\ Appends(m)
             \/ \E m \in net : m.dst = q /\ InstallSnapshot(m) /\ snapshotIsNew(m)
  BY <1>1, PeerLogStep, Zenon
<1> QED
  BY <1>2, <1>3, <1>4, <1>5, Zenon DEF LogsStep
=============================================================================
