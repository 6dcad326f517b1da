-------------------------- MODULE RaftReplication ---------------------------
(***************************************************************************)
(* What a leader knows of the logs of its followers, for any number of     *)
(* peers and any bounds: as long as no service takes snapshots, what was   *)
(* acknowledged is there.                                                  *)
(***************************************************************************)
EXTENDS RaftChains

-----------------------------------------------------------------------------
(* Services that take no snapshots.                                        *)

\* maxraftstate is -1: no peer has, or is sent, a snapshot.
NoSnapshots ==
    /\ \A i \in Server : lastIncludedIndex[i] = -1
    /\ \A m \in net : m.type # "InstallSnapshot"

\* There is none at first.
LEMMA NoSnapshotsInit == Init => NoSnapshots
  BY DEF Init, NoSnapshots

\* Without snapshots a leader sends entries.
LEMMA EntriesSent ==
    ASSUME NoSnapshots, ChainInv, NEW i \in Server, NEW j \in Server, appendMissingEntries(i, j)
    PROVE  /\ net' = net \cup {AppendEntriesArgs(i, j)} /\ state[i] = "LEADER"
           /\ UNCHANGED <<termVars, votesGranted, matchIndex, nextIndex>> /\ LogsSame
<1>1. nextIndex[i][j] \in Nat /\ IsChain(LogChain(i))
  BY AreChains DEF ChainInv
<1>2. ~(nextIndex[i][j] - 1 < lastIncludedIndex[i])
  BY <1>1 DEF NoSnapshots
<1>3. net' = net \cup {AppendEntriesArgs(i, j)}
  BY <1>2, Zenon DEF appendMissingEntries, Send
<1> QED
  BY <1>1, <1>3, SendChain, Zenon DEF appendMissingEntries, termVars, leaderVars

\* Unless services call Snapshot there never is one.
LEMMA NoSnapshotsNext ==
    ASSUME ~Snapshotting, DiskInv, ServiceInv, ChainInv, NoSnapshots, [Next]_vars
    PROVE  NoSnapshots'
<1>1. /\ \A k \in Server : IsChain(LogChain(k))
      /\ starts \in Nat
  BY AreChains DEF ChainInv
<1>2. ASSUME NEW k \in Server, LogChain(k)' = LogChain(k) PROVE lastIncludedIndex'[k] = -1
  <2>1. LogChain(k).base = lastIncludedIndex[k] /\ LogChain(k)'.base = lastIncludedIndex'[k]
    BY DEF LogChain
  <2> QED
    BY <1>2, <2>1 DEF NoSnapshots
<1>3. ASSUME NoNewCall PROVE \A m \in net' : m.type # "InstallSnapshot"
  BY <1>3, Zenon DEF NoNewCall, NoSnapshots, IsCall
<1>4. CASE LogsSame /\ NoNewCall
  BY <1>2, <1>3, <1>4, Zenon DEF LogsSame, NoSnapshots
<1>5. ASSUME NEW i \in Server, Start(i) PROVE NoSnapshots'
  <2>1. NoNewCall /\ lastIncludedIndex' = lastIncludedIndex
    BY <1>1, <1>5, StartChain, Zenon DEF Start
  <2> QED
    BY <1>3, <2>1, Zenon DEF NoSnapshots
<1>6. ASSUME NEW i \in Server, NEW j \in Server \ {i}, appendMissingEntries(i, j) PROVE NoSnapshots'
  <2>1. net' = net \cup {AppendEntriesArgs(i, j)} /\ LogsSame
    BY <1>6, EntriesSent
  <2>2. AppendEntriesArgs(i, j).type = "AppendEntries"
    BY DEF AppendEntriesArgs
  <2>3. \A m \in net' : m.type # "InstallSnapshot"
    BY <2>1, <2>2, Zenon DEF NoSnapshots
  <2> QED
    BY <1>2, <2>1, <2>3, Zenon DEF LogsSame, NoSnapshots
<1>7. ASSUME NEW m \in net, Appends(m), NoNewCall PROVE NoSnapshots'
  <2>1. lastIncludedIndex' = lastIncludedIndex
    BY <1>7, Zenon DEF Appends, AppendEntries
  <2> QED
    BY <1>3, <1>7, <2>1, Zenon DEF NoSnapshots
<1>8. \A i \in Server : ~Snapshot(i)
  BY Zenon DEF Snapshot
<1>9. \A m \in net : ~InstallSnapshot(m)
  BY Zenon DEF InstallSnapshot, NoSnapshots
<1> QED
  BY <1>4, <1>5, <1>6, <1>7, <1>8, <1>9, LogStep, ZenonT(30)

\* How the log of one peer changes then.
LEMMA PeerLog ==
    ASSUME ~Snapshotting, NoSnapshots, LogsStep, NEW q \in Server
    PROVE  \/ LogChain(q)' = LogChain(q)
           \/ Start(q)
           \/ \E m \in net : m.dst = q /\ Appends(m)
<1>1. ~Snapshot(q)
  BY Zenon DEF Snapshot
<1>2. \A m \in net : ~InstallSnapshot(m)
  BY Zenon DEF InstallSnapshot, NoSnapshots
<1> QED
  BY <1>1, <1>2, Zenon DEF LogsStep

\* All logs start at the first index.
LEMMA LogFromStart ==
    ASSUME ChainInv, NoSnapshots, NEW q \in Server
    PROVE  /\ IsChain(LogChain(q)) /\ LogChain(q).base = -1 /\ top(LogChain(q)) \in Int
           /\ top(LogChain(q)) >= -1 /\ Spans(LogChain(q)) = -1 .. top(LogChain(q))
           /\ lastIncludedIndex[q] = -1 /\ top(LogChain(q)) = lastLogIndex(q)
<1>1. IsChain(LogChain(q)) /\ lastIncludedIndex[q] = -1
  BY AreChains DEF ChainInv, NoSnapshots
<1> QED
  BY <1>1, LogFacts, Zenon

\* A chain from the first index on.
WholeLog(c) ==
    /\ IsChain(c) /\ c.base = -1 /\ top(c) \in Int /\ top(c) >= -1
    /\ Spans(c) = -1 .. top(c)

\* So do they after a step.
LEMMA NextLogs ==
    ASSUME ChainInv', NoSnapshots', NEW q \in Server
    PROVE  LogChain(q)' \in Chains' /\ WholeLog(LogChain(q)')
<1>1. LogChain(q)' \in Chains'
  BY Zenon DEF Chains
<1>2. IsChain(LogChain(q)')
  BY <1>1 DEF ChainInv, IsChain
<1>3. LogChain(q)'.base = -1
  <2>1. lastIncludedIndex'[q] = -1
    BY Zenon DEF NoSnapshots
  <2> QED
    BY <2>1 DEF LogChain
<1> HIDE DEF LogChain
<1>4. Len(LogChain(q)'.entries) \in Nat
  BY <1>2 DEF IsChain
<1>5. top(LogChain(q)') \in Int /\ top(LogChain(q)') >= -1
  BY <1>3, <1>4 DEF top
<1> QED
  BY <1>1, <1>2, <1>3, <1>5, Zenon DEF WholeLog, Spans

\* Start only adds to a log.
LEMMA StartExtends ==
    ASSUME ChainInv, DiskInv, NoSnapshots, NEW i \in Server, Start(i)
    PROVE  Segment(LogChain(i), LogChain(i)')
<1>1. /\ IsChain(LogChain(i)) /\ starts \in Nat /\ LogChain(i).base = -1
      /\ top(LogChain(i)) \in Int /\ Spans(LogChain(i)) = -1 .. top(LogChain(i))
  BY LogFromStart DEF ChainInv
<1>2. /\ top(LogChain(i)') = top(LogChain(i)) + 1
      /\ \A k \in Spans(LogChain(i)') :
            k < top(LogChain(i)) + 1 => PartAt(LogChain(i)', LogChain(i), k)
  BY <1>1, StartChain, Zenon
<1>3. LogChain(i)'.base = -1
  <2>1. lastIncludedIndex'[i] = -1
    BY Zenon DEF Start, NoSnapshots
  <2> QED
    BY <2>1 DEF LogChain
<1>4. ASSUME NEW k \in Spans(LogChain(i)) PROVE PartAt(LogChain(i), LogChain(i)', k)
  <2>1. k \in Spans(LogChain(i)') /\ k < top(LogChain(i)) + 1
    BY <1>1, <1>2, <1>3, SMTT(30) DEF Spans
  <2> QED
    BY <1>1, <1>2, <1>3, <2>1, Zenon DEF PartAt
<1> QED
  BY <1>4, Zenon DEF Segment

\* A peer that goes on leading only adds to its log.
LEMMA LeaderExtends ==
    ASSUME ~Snapshotting, LogsStep, ElectionInv, ChainInv, NoSnapshots, [Next]_vars, NEW i \in Server, state[i] = "LEADER",
           currentTerm'[i] = currentTerm[i]
    PROVE  Segment(LogChain(i), LogChain(i)') /\ top(LogChain(i)) <= top(LogChain(i)')
<1>1. ~Snapshot(i) /\ DiskInv
  BY Zenon DEF Snapshot, ElectionInv
<1>2. ASSUME LogChain(i)' = LogChain(i) PROVE Segment(LogChain(i), LogChain(i)')
  BY <1>2, Zenon DEF Segment, PartAt
<1> QED
  BY <1>1, <1>2, StartExtends, Zenon DEF LogsStep

-----------------------------------------------------------------------------
(* Calls and replies.                                                      *)

\* AppendEntries answers m with r; success means that the log was compared.
ReplyTo(r, m) ==
    /\ AppendEntries(m) /\ r.src = m.dst /\ r.dst = m.src /\ r.ArgsTerm = m.Term
    /\ r.PrevLogIndex = m.PrevLogIndex /\ r.NEntries = Len(m.Entries)
    /\ r.Success => Appends(m)

\* A new reply answers a call.
LEMMA NewReply ==
    ASSUME DiskInv, ChainInv, NoSnapshots, LogsStep, NEW r \in net', r \notin net,
           r.type = "AppendEntriesReply"
    PROVE  \E m \in net : ReplyTo(r, m)
<1>1. PICK m \in net : AppendEntries(m)
  BY Zenon DEF LogsStep
<1>2. m.dst \in Server /\ m.type = "AppendEntries"
  BY <1>1 DEF DiskInv, ElectionTypeOK, MessageOK, AppendEntries
<1>3. lastIncludedIndex[m.dst] = -1 /\ CallOK(m)
  BY <1>2, Zenon DEF NoSnapshots, ChainInv, MessagesOK
<1>4. ~(m.PrevLogIndex < lastIncludedIndex[m.dst])
  BY <1>3 DEF CallOK
<1>5. \A reply : Reply(m, reply) => r = reply
  BY Zenon DEF Reply
<1>6. ASSUME NEW success, NEW info, r = AppendEntriesReply(m, success, info)
      PROVE  /\ r.src = m.dst /\ r.dst = m.src /\ r.ArgsTerm = m.Term
             /\ r.PrevLogIndex = m.PrevLogIndex /\ r.NEntries = Len(m.Entries)
             /\ r.Success = success
  BY <1>6 DEF AppendEntriesReply
<1>7. \/ \E info : r = AppendEntriesReply(m, FALSE, info)
      \/ Appends(m) /\ r = AppendEntriesReply(m, TRUE, NoLogInfo)
  BY <1>1, <1>4, <1>5, ZenonT(60) DEF AppendEntries, Appends
<1>8. CASE \E info : r = AppendEntriesReply(m, FALSE, info)
  BY <1>1, <1>6, <1>8, Zenon DEF ReplyTo
<1>9. CASE Appends(m) /\ r = AppendEntriesReply(m, TRUE, NoLogInfo)
  BY <1>1, <1>6, <1>9, Zenon DEF ReplyTo
<1> QED
  BY <1>7, <1>8, <1>9, Zenon

\* A reply to a call that i made in its term.
ReplyFor(r, i) ==
    r.type = "AppendEntriesReply" /\ r.dst = i /\ r.ArgsTerm = currentTerm[i]

\* q tells i that its log is the same up to idx.
AckReply(r, q, i, idx) ==
    /\ ReplyFor(r, i) /\ r.Success /\ r.src = q
    /\ r.PrevLogIndex + r.NEntries >= idx

\* The leader i knows it, or will when it reads the reply.
Acked(q, i, idx) ==
    \/ matchIndex[i][q] >= idx
    \/ \E r \in net : AckReply(r, q, i, idx)

\* A call that i made in its term.
CallOf(m, i) == m.type = "AppendEntries" /\ m.src = i /\ m.Term = currentTerm[i]

\* What the leader i sends is part of its log, and what it is told about ends
\* there.
SentFromLog(i) ==
    /\ \A q \in Server : /\ nextIndex[i][q] <= top(LogChain(i)) + 1
                         /\ matchIndex[i][q] <= top(LogChain(i))
    /\ \A r \in net : ReplyFor(r, i) => r.PrevLogIndex + r.NEntries <= top(LogChain(i))
    /\ \A m \in net : CallOf(m, i) => Segment(CallChain(m), LogChain(i))

\* Who acknowledged an index in the term of i has what i has there, at least
\* until it hears of a later term.
AckedHas(i) ==
    \A q \in Server : \A idx \in Nat : Acked(q, i, idx) =>
        /\ currentTerm[q] >= currentTerm[i]
        /\ currentTerm[q] = currentTerm[i] =>
              HasTerm(LogChain(q), idx, TermAt(LogChain(i), idx))

\* The calls in flight are chains, also those without entries, and replies go
\* to who has led in the term of the call.
CallsOK ==
    /\ \A m \in net : m.type = "AppendEntries" => IsChain(CallChain(m))
    /\ \A r \in net : r.type = "AppendEntriesReply" => Elected(r.ArgsTerm, r.dst)

ReplicationInv ==
    /\ matchIndex \in [Server -> [Server -> Int]]
    /\ CallsOK
    /\ \A i \in Server : state[i] = "LEADER" => SentFromLog(i) /\ AckedHas(i)

\* The end of a call is the last index it is about.
LEMMA CallEnd ==
    ASSUME NEW m, m.type = "AppendEntries"
    PROVE  /\ top(CallChain(m)) = m.PrevLogIndex + Len(m.Entries)
           /\ CallChain(m).base = m.PrevLogIndex /\ CallChain(m).term = m.PrevLogTerm
           /\ CallChain(m).entries = m.Entries
  BY DEF CallChain, top

\* A leader's matchIndex grows when it appends, or with an acknowledgement.
MatchFrom(i, q) ==
    \/ matchIndex'[i][q] = matchIndex[i][q]
    \/ Start(i) /\ q = i /\ matchIndex'[i][q] = top(LogChain(i)')
    \/ \E r \in net : ReplyFor(r, i) /\ r.Success /\ r.src = q
                      /\ matchIndex'[i][q] = r.PrevLogIndex + r.NEntries

\* nextIndex is at most one beyond what a reply is about.
NextFrom(i, q) ==
    \/ nextIndex'[i][q] = nextIndex[i][q]
    \/ \E r \in net : ReplyFor(r, i) /\ nextIndex'[i][q] <= r.PrevLogIndex + r.NEntries + 1

\* handleAppendReply is the only handler that changes what a leader knows.
LEMMA ReplyIndexes ==
    ASSUME BacktrackProgress, DiskInv, ChainInv, matchIndex \in [Server -> [Server -> Int]],
           NEW m \in net, handleAppendReply(m)
    PROVE  /\ matchIndex' \in [Server -> [Server -> Int]]
           /\ \A i, q \in Server : MatchFrom(i, q) /\ NextFrom(i, q)
<1> DEFINE l == m.dst
           next == IF m.Success THEN nextIndexOnSuccess(m) ELSE nextIndexOnFailure(m)
<1>1. /\ m.type = "AppendEntriesReply"
      /\ \/ UNCHANGED leaderVars
         \/ /\ nextIndex' = [nextIndex EXCEPT ![l][m.src] = next]
            /\ matchIndex' = IF m.Success
                             THEN [matchIndex EXCEPT ![l][m.src] = next - 1]
                             ELSE matchIndex
            /\ stateAfter(l, m.Term) = "LEADER" /\ currentTerm[l] = m.ArgsTerm
  BY ZenonT(60) DEF handleAppendReply, leaderVars
<1>2. /\ l \in Server /\ m.src \in Server /\ m.Term \in Nat /\ currentTerm[l] \in Nat
      /\ nextIndex \in [Server -> [Server -> Nat]] /\ IsChain(LogChain(l))
  BY AreChains DEF DiskInv, ElectionTypeOK, MessageOK, ChainInv
<1>3. ReplyOK(m)
  BY <1>1, Zenon DEF ChainInv, MessagesOK
<1>4. CASE UNCHANGED leaderVars
  BY <1>4, Zenon DEF MatchFrom, NextFrom, leaderVars
<1>5. CASE /\ nextIndex' = [nextIndex EXCEPT ![l][m.src] = next]
           /\ matchIndex' = IF m.Success
                            THEN [matchIndex EXCEPT ![l][m.src] = next - 1]
                            ELSE matchIndex
           /\ stateAfter(l, m.Term) = "LEADER" /\ currentTerm[l] = m.ArgsTerm
  <2>1. m.Term = m.ArgsTerm /\ state[l] = "LEADER"
    <3>1. /\ ~(m.Term > currentTerm[l]) /\ currentTerm[l] = m.ArgsTerm
          /\ m.Term >= m.ArgsTerm /\ state[l] = "LEADER"
      BY <1>3, <1>5, Zenon DEF ReplyOK, stateAfter
    <3>2. m.Term \in Nat /\ currentTerm[l] \in Nat
      BY <1>2
    <3> QED
      BY <3>1, <3>2, SMTT(30)
  <2>2. ReplyFor(m, l)
    BY <1>1, <1>5, Zenon DEF ReplyFor
  <2>3. /\ next \in Nat /\ next <= m.PrevLogIndex + m.NEntries + 1
        /\ m.Success => next - 1 = m.PrevLogIndex + m.NEntries
    <3>1. m.PrevLogIndex \in Int /\ m.PrevLogIndex >= -1 /\ m.NEntries \in Nat
      BY <1>3 DEF ReplyOK
    <3>2. CASE m.Success
      <4>1. next = m.PrevLogIndex + 1 + m.NEntries
        BY <3>2, Zenon DEF nextIndexOnSuccess
      <4> QED
        BY <3>1, <4>1, SMTT(30)
    <3>3. CASE ~m.Success
      <4>1. next = nextIndexOnFailure(m)
        BY <3>3, Zenon
      <4>2. nextIndexOnFailure(m) \in 0 .. m.PrevLogIndex
        BY <1>1, <1>5, <2>1, <3>3, Zenon DEF BacktrackProgress
      <4> QED
        BY <3>1, <3>3, <4>1, <4>2, SMTT(30)
    <3> QED
      BY <3>2, <3>3, Zenon
  <2> HIDE DEF next, l
  <2>4. /\ matchIndex' \in [Server -> [Server -> Int]]
        /\ \A i, q \in Server : matchIndex'[i][q] = matchIndex[i][q]
              \/ (m.Success /\ i = l /\ q = m.src /\ matchIndex'[i][q] = next - 1)
    <3>1. CASE m.Success
      <4>1. matchIndex' = [matchIndex EXCEPT ![l][m.src] = next - 1] /\ next - 1 \in Int
        BY <1>5, <2>3, <3>1, SMTT(30)
      <4> QED
        BY <1>2, <3>1, <4>1, Zenon
    <3>2. CASE ~m.Success
      BY <1>5, <3>2, Zenon
    <3> QED
      BY <3>1, <3>2, Zenon
  <2>5. \A i, q \in Server : nextIndex'[i][q] = nextIndex[i][q]
              \/ (i = l /\ q = m.src /\ nextIndex'[i][q] = next)
    BY <1>2, <1>5, Zenon
  <2>6. \A i, q \in Server : MatchFrom(i, q)
    BY <2>2, <2>3, <2>4, Zenon DEF MatchFrom
  <2>7. \A i, q \in Server : NextFrom(i, q)
    BY <2>2, <2>3, <2>5, ZenonT(60) DEF NextFrom
  <2> QED
    BY <2>4, <2>6, <2>7, Zenon
<1> QED
  BY <1>1, <1>4, <1>5, Zenon

\* What i knows of others changes when i is elected, or as MatchFrom and
\* NextFrom say.
IndexesKept(i) ==
    \/ becomeLeader(i) \/ state'[i] # "LEADER"
    \/ \A q \in Server : MatchFrom(i, q) /\ NextFrom(i, q)

\* Elections, commitment, the service and all other handlers leave it.
LEMMA IndexStep ==
    ASSUME LogsStep, LeastExists, DiskInv, ChainInv, NoSnapshots,
           matchIndex \in [Server -> [Server -> Int]], [Next]_vars
    PROVE  /\ matchIndex' \in [Server -> [Server -> Int]]
           /\ \A i \in Server : IndexesKept(i)
<1>1. /\ \A k \in Server : IsChain(LogChain(k))
      /\ nextIndex \in [Server -> [Server -> Nat]] /\ starts \in Nat
      /\ state \in [Server -> {"FOLLOWER", "CANDIDATE", "LEADER"}]
  BY AreChains DEF ChainInv, DiskInv, ElectionTypeOK
<1>2. CASE UNCHANGED <<nextIndex, matchIndex>>
  BY <1>2, Zenon DEF IndexesKept, MatchFrom, NextFrom
<1>3. ASSUME NEW k \in Server, becomeLeader(k)
      PROVE  /\ matchIndex' \in [Server -> [Server -> Int]]
             /\ \A i \in Server : IndexesKept(i)
  <2>1. /\ nextIndex' = [nextIndex EXCEPT ![k] = [j \in Server |-> lastLogIndex(k) + 1]]
        /\ matchIndex' = [matchIndex EXCEPT ![k] =
                             [j \in Server |-> IF j = k THEN lastLogIndex(k) ELSE -1]]
    BY <1>3, Zenon DEF becomeLeader
  <2>2. lastLogIndex(k) \in Int
    BY <1>1, LogFacts, Zenon
  <2>3. matchIndex' \in [Server -> [Server -> Int]]
    BY <2>1, <2>2, SMTT(30)
  <2>4. ASSUME NEW i \in Server, i # k
        PROVE  \A q \in Server : /\ matchIndex'[i][q] = matchIndex[i][q]
                                 /\ nextIndex'[i][q] = nextIndex[i][q]
    BY <1>1, <2>1, <2>4, Zenon
  <2> QED
    BY <1>3, <2>3, <2>4, Zenon DEF IndexesKept, MatchFrom, NextFrom
<1>4. ASSUME NEW k \in Server, NEW stoppedOn, NEW t, Make(k, stoppedOn, t)
      PROVE  /\ matchIndex' \in [Server -> [Server -> Int]]
             /\ \A i \in Server : IndexesKept(i)
  <2>1. /\ nextIndex' = [nextIndex EXCEPT ![k] = [j \in Server |-> 0]]
        /\ matchIndex' = [matchIndex EXCEPT ![k] = [j \in Server |-> 0]]
        /\ state' = [state EXCEPT ![k] = "FOLLOWER"]
    BY <1>4, Zenon DEF Make
  <2>2. matchIndex' \in [Server -> [Server -> Int]] /\ state'[k] # "LEADER"
    BY <1>1, <2>1, SMTT(30)
  <2>3. ASSUME NEW i \in Server, i # k
        PROVE  \A q \in Server : /\ matchIndex'[i][q] = matchIndex[i][q]
                                 /\ nextIndex'[i][q] = nextIndex[i][q]
    BY <1>1, <2>1, <2>3, Zenon
  <2> QED
    BY <2>2, <2>3, Zenon DEF IndexesKept, MatchFrom, NextFrom
<1>5. ASSUME NEW k \in Server, Start(k)
      PROVE  /\ matchIndex' \in [Server -> [Server -> Int]]
             /\ \A i \in Server : IndexesKept(i)
  <2>1. /\ matchIndex' = [matchIndex EXCEPT ![k][k] = lastLogIndex(k) + 1]
        /\ nextIndex' = nextIndex
    BY <1>5, Zenon DEF Start
  <2>2. /\ lastLogIndex(k) \in Int /\ lastLogIndex(k) = top(LogChain(k))
        /\ top(LogChain(k)') = top(LogChain(k)) + 1
    BY <1>1, <1>5, LogFacts, StartChain, Zenon
  <2>3. matchIndex' \in [Server -> [Server -> Int]]
    BY <2>1, <2>2, SMTT(30)
  <2>4. ASSUME NEW i \in Server, NEW q \in Server
        PROVE  \/ matchIndex'[i][q] = matchIndex[i][q]
               \/ i = k /\ q = k /\ matchIndex'[i][q] = lastLogIndex(k) + 1
    BY <2>1, <2>4
  <2>5. ASSUME NEW i \in Server, NEW q \in Server PROVE MatchFrom(i, q) /\ NextFrom(i, q)
    <3>1. NextFrom(i, q)
      BY <2>1, Zenon DEF NextFrom
    <3>2. lastLogIndex(k) + 1 = top(LogChain(k)')
      BY <2>2, Zenon
    <3>3. CASE matchIndex'[i][q] = matchIndex[i][q]
      BY <3>1, <3>3, Zenon DEF MatchFrom
    <3>4. CASE i = k /\ q = k /\ matchIndex'[i][q] = lastLogIndex(k) + 1
      BY <1>5, <3>1, <3>2, <3>4, Zenon DEF MatchFrom
    <3> QED
      BY <2>4, <3>3, <3>4, Zenon
  <2> QED
    BY <2>3, <2>5, Zenon DEF IndexesKept
<1>6. ASSUME NEW m \in net, handleAppendReply(m)
      PROVE  /\ matchIndex' \in [Server -> [Server -> Int]]
             /\ \A i \in Server : IndexesKept(i)
  BY <1>6, ReplyIndexes, Zenon DEF IndexesKept, LogsStep
<1>7. ASSUME NEW i \in Server,
             \/ election(i) \/ advanceCommitIndex(i) \/ Snapshot(i) \/ apply(i)
             \/ serviceReceive(i) \/ \E j \in Server : appendMissingEntries(i, j)
      PROVE  UNCHANGED <<nextIndex, matchIndex>>
  BY <1>7, ZenonT(60) DEF election, advanceCommitIndex, Snapshot, apply, serviceReceive,
     appendMissingEntries, leaderVars
<1>8. ASSUME NEW m \in net,
             \/ RequestVote(m) \/ requestVoteReply(m) \/ AppendEntries(m)
             \/ InstallSnapshot(m) \/ installSnapshotReply(m) \/ LoseMessage(m)
      PROVE  UNCHANGED <<nextIndex, matchIndex>>
  BY <1>8, ZenonT(60) DEF RequestVote, requestVoteReply, AppendEntries, InstallSnapshot,
     installSnapshotReply, LoseMessage, leaderVars
<1>9. CASE UNCHANGED vars
  BY <1>2, <1>9, Zenon DEF vars, leaderVars
<1>10. \A m \in net : m.dst \in Server
  BY ZenonT(30) DEF DiskInv, ElectionTypeOK, MessageOK
<1> QED
  BY <1>2, <1>3, <1>4, <1>5, <1>6, <1>7, <1>8, <1>9, <1>10, ZenonT(60)
     DEF Next, ticker, appendMissingEntriesOnAll

\* A new acknowledgement comes from Start, or from a peer that compared its log
\* with a call of the leader.
LEMMA AckStep ==
    ASSUME LogsStep, LeastExists, DiskInv, ChainInv, NoSnapshots, ReplicationInv, [Next]_vars,
           NEW i \in Server, state'[i] = "LEADER", state[i] = "LEADER",
           currentTerm'[i] = currentTerm[i], NEW q \in Server, NEW idx \in Int, Acked(q, i, idx)'
    PROVE  \/ Acked(q, i, idx)
           \/ Start(i) /\ q = i /\ idx <= top(LogChain(i)')
           \/ \E m \in net : CallOf(m, i) /\ m.dst = q /\ Appends(m) /\ idx <= top(CallChain(m))
<1>1. MatchFrom(i, q) /\ matchIndex \in [Server -> [Server -> Int]] /\ ~becomeLeader(i)
  <2>1. ~becomeLeader(i)
    BY Zenon DEF becomeLeader
  <2> QED
    BY <2>1, IndexStep, Zenon DEF ReplicationInv, IndexesKept
<1>2. CASE matchIndex'[i][q] >= idx
  <2>1. CASE matchIndex'[i][q] = matchIndex[i][q]
    BY <1>2, <2>1, Zenon DEF Acked
  <2>2. CASE Start(i) /\ q = i /\ matchIndex'[i][q] = top(LogChain(i)')
    <3>1. top(LogChain(i)') \in Int
      <4>1. /\ top(LogChain(i)') = top(LogChain(i)) + 1 /\ top(LogChain(i)) \in Int
        BY <2>2, LogFromStart, StartChain, Zenon DEF ChainInv
      <4> QED
        BY <4>1
    <3> QED
      BY <1>2, <2>2, <3>1, ZenonT(30)
  <2>3. ASSUME NEW r \in net, ReplyFor(r, i), r.Success, r.src = q,
               matchIndex'[i][q] = r.PrevLogIndex + r.NEntries
        PROVE  Acked(q, i, idx)
    BY <1>2, <2>3, Zenon DEF Acked, AckReply
  <2> QED
    BY <1>1, <2>1, <2>2, <2>3, Zenon DEF MatchFrom
<1>3. ASSUME NEW r \in net', AckReply(r, q, i, idx)'
      PROVE  \/ Acked(q, i, idx)
             \/ \E m \in net : CallOf(m, i) /\ m.dst = q /\ Appends(m) /\ idx <= top(CallChain(m))
  <2>1. /\ r.type = "AppendEntriesReply" /\ r.dst = i /\ r.ArgsTerm = currentTerm[i]
        /\ r.Success /\ r.src = q /\ r.PrevLogIndex + r.NEntries >= idx
    BY <1>3, Zenon DEF AckReply, ReplyFor
  <2>2. CASE r \in net
    BY <2>1, <2>2, Zenon DEF Acked, AckReply, ReplyFor
  <2>3. CASE r \notin net
    <3>1. PICK m \in net : ReplyTo(r, m)
      BY <2>1, <2>3, NewReply, Zenon
    <3>2. m.type = "AppendEntries"
      BY <3>1, Zenon DEF ReplyTo, AppendEntries
    <3>3. CallOf(m, i) /\ m.dst = q /\ Appends(m)
      BY <2>1, <3>1, <3>2, Zenon DEF ReplyTo, CallOf
    <3>4. top(CallChain(m)) = m.PrevLogIndex + Len(m.Entries)
      BY <3>2, CallEnd, Zenon
    <3>5. top(CallChain(m)) >= idx /\ top(CallChain(m)) \in Int
      <4>1. CallOK(m)
        BY <3>2, Zenon DEF ChainInv, MessagesOK
      <4>2. m.PrevLogIndex \in Int /\ Len(m.Entries) \in Nat
        BY <4>1 DEF CallOK
      <4>3. top(CallChain(m)) = r.PrevLogIndex + r.NEntries
        BY <3>1, <3>4, Zenon DEF ReplyTo
      <4> QED
        BY <2>1, <3>4, <4>2, <4>3, SMTT(30)
    <3>6. idx <= top(CallChain(m))
      BY <3>5
    <3> QED
      BY <3>3, <3>6, Zenon
  <2> QED
    BY <2>2, <2>3, Zenon
<1> QED
  BY <1>2, <1>3, Zenon DEF Acked

-----------------------------------------------------------------------------
(* What is acknowledged is there.                                          *)

\* A peer that appends has then all that is in the call, and what it had
\* before the first entry that differs.
LEMMA Appended ==
    ASSUME LeastExists, DiskInv, ChainInv, NoSnapshots, CallsOK, NEW m \in net, Appends(m)
    PROVE  /\ m.type = "AppendEntries" /\ m.src \in Server /\ m.dst \in Server
           /\ IsChain(CallChain(m))
           /\ Overwrites(LogChain(m.dst)', LogChain(m.dst), CallChain(m))
           /\ HasTerm(LogChain(m.dst), CallChain(m).base, CallChain(m).term)
<1> DEFINE q == m.dst
           e == CallChain(m)
           n == LogChain(q)'
<1>1. m.type = "AppendEntries" /\ m.src \in Server /\ q \in Server
  BY Zenon DEF Appends, AppendEntries, DiskInv, ElectionTypeOK, MessageOK
<1>2. IsChain(e) /\ IsChain(LogChain(q)) /\ lastIncludedIndex[q] = -1
  BY <1>1, LogFromStart, Zenon DEF CallsOK
<1>3. e.base = m.PrevLogIndex /\ e.term = m.PrevLogTerm /\ e.entries = m.Entries
  BY <1>1, CallEnd, Zenon
<1>4. /\ m.PrevLogIndex >= lastIncludedIndex[q]
      /\ entryHasTerm(q, m.PrevLogIndex, m.PrevLogTerm)
      /\ log' = [log EXCEPT ![q] = appendEntriesLocal(q, m.Entries)]
      /\ UNCHANGED <<lastIncludedIndex, lastIncludedTerm>>
  BY ZenonT(30) DEF Appends, AppendEntries, appendMatches
<1>5. DOMAIN log = Server
  BY DEF DiskInv, PersistentDomains
<1>6. /\ n.base = lastIncludedIndex[q] /\ n.term = lastIncludedTerm[q]
      /\ n.entries = appendEntriesLocal(q, e.entries)
  <2>1. log'[q] = appendEntriesLocal(q, m.Entries)
    BY <1>1, <1>4, <1>5, ZenonT(30)
  <2>2. n.base = lastIncludedIndex'[q] /\ n.term = lastIncludedTerm'[q] /\ n.entries = log'[q]
    BY Zenon DEF LogChain
  <2> QED
    BY <1>3, <1>4, <2>1, <2>2, Zenon
<1>7. HasTerm(LogChain(q), e.base, e.term)
  <2>1. /\ e.base \in lastIncludedIndex[q] .. lastLogIndex(q)
    BY <1>2, <1>3, <1>4, SMTT(30) DEF entryHasTerm, IsChain
  <2>2. /\ Spans(LogChain(q)) = lastIncludedIndex[q] .. lastLogIndex(q)
        /\ \A k : TermAt(LogChain(q), k) = logTerm(q, k)
    BY <1>2, LogFacts, Zenon
  <2>3. logTerm(q, m.PrevLogIndex) = m.PrevLogTerm
    BY <1>4, Zenon DEF entryHasTerm
  <2> HIDE DEF e, q
  <2>4. TermAt(LogChain(q), e.base) = e.term
    BY <1>3, <2>2, <2>3, ZenonT(30)
  <2> QED
    BY <2>1, <2>2, <2>4, Zenon DEF HasTerm
<1>8. entryHasTerm(q, e.base, e.term) /\ e.base >= lastIncludedIndex[q]
  BY <1>3, <1>4, Zenon
<1> HIDE DEF q, e, n
<1>9. Overwrites(n, LogChain(q), e)
  BY <1>2, <1>6, <1>8, AppendLocal, Zenon
<1> QED
  BY <1>1, <1>2, <1>7, <1>9, ZenonT(30) DEF q, e, n

\* A call that a leader made in its term carries part of its log, and a peer
\* that takes it has then what the leader has, up to its end.
LEMMA AppendFromLeader ==
    ASSUME LeastExists, DiskInv, ChainInv, NoSnapshots, CallsOK, NEW m \in net, Appends(m),
           NEW l, IsChain(l), l.base = -1, Segment(CallChain(m), l),
           Match(LogChain(m.dst)', l), LogChain(m.dst)'.base = -1,
           IsChain(LogChain(m.dst)'), NEW idx \in Nat, idx <= top(CallChain(m))
    PROVE  HasTerm(LogChain(m.dst)', idx, TermAt(l, idx))
<1> DEFINE e == CallChain(m)
           n == LogChain(m.dst)'
<1>1. /\ IsChain(e) /\ \A k \in Spans(e) : HasTerm(n, k, TermAt(e, k))
  BY Appended, Zenon DEF Overwrites
<1>2. /\ e.base \in Int /\ e.base >= -1 /\ Len(e.entries) \in Nat /\ top(e) \in Int
  BY <1>1, ChainNumbers, Zenon
<1>3. \A k \in Spans(e) : k \in Spans(l) /\ k \in Spans(n) /\ TermAt(n, k) = TermAt(l, k)
  BY <1>1, Zenon DEF Segment, PartAt, HasTerm
<1>4. CASE idx \in Spans(e)
  BY <1>3, <1>4, Zenon DEF HasTerm
<1>5. CASE ~(idx \in Spans(e))
  <2>1. e.base \in Spans(e) /\ idx <= e.base
    BY <1>2, <1>5, SMTT(30) DEF Spans, top
  <2>2. idx \in Spans(l) /\ idx \in Spans(n)
    <3>1. e.base \in Spans(l) /\ e.base \in Spans(n)
      BY <1>3, <2>1, ZenonT(30)
    <3>2. /\ l.base = -1 /\ n.base = -1 /\ top(l) \in Int /\ top(n) \in Int
      BY DEF IsChain, top
    <3> QED
      BY <2>1, <3>1, <3>2, SMTT(30) DEF Spans
  <2>3. SameAt(n, l, idx)
    BY <1>3, <2>1, <2>2, Zenon DEF Match
  <2> QED
    BY <2>2, <2>3, Zenon DEF SameAt, HasTerm
<1> QED
  BY <1>4, <1>5, Zenon

\* What a peer has, the same as the leader, it keeps when it takes a call of
\* the leader: only what differs is cut.
LEMMA AppendKeeps ==
    ASSUME LeastExists, DiskInv, ChainInv, NoSnapshots, CallsOK, NEW m \in net, Appends(m),
           NEW l, Segment(CallChain(m), l), Match(LogChain(m.dst), l),
           NEW idx \in Nat, HasTerm(LogChain(m.dst), idx, TermAt(l, idx)), idx \in Spans(l)
    PROVE  HasTerm(LogChain(m.dst)', idx, TermAt(l, idx))
<1> DEFINE e == CallChain(m)
           c == LogChain(m.dst)
<1>1. /\ IsChain(e) /\ m.dst \in Server
      /\ Overwrites(LogChain(m.dst)', c, e)
  BY Appended, Zenon
<1>2. /\ c.base = -1 /\ IsChain(c) /\ Spans(c) = -1 .. top(c) /\ top(c) \in Int
  BY <1>1, LogFromStart, Zenon
<1>3. idx \in Spans(c) /\ TermAt(c, idx) = TermAt(l, idx)
  BY Zenon DEF HasTerm
<1>4. ASSUME NEW d \in Spans(e), d <= idx PROVE HasTerm(c, d, TermAt(e, d))
  <2>1. d \in Spans(l) /\ TermAt(e, d) = TermAt(l, d)
    BY Zenon DEF Segment, PartAt
  <2>2. d \in Spans(c)
    <3>1. d \in Int /\ d >= -1
      BY <1>1 DEF Spans, IsChain
    <3> QED
      BY <1>2, <1>3, <1>4, <3>1, SMTT(30)
  <2>3. SameAt(c, l, d)
    BY <1>3, <1>4, <2>1, <2>2, Zenon DEF Match
  <2> QED
    BY <2>1, <2>2, <2>3, Zenon DEF SameAt, HasTerm
<1>5. HasTerm(LogChain(m.dst)', idx, TermAt(c, idx))
  BY <1>1, <1>3, <1>4, Zenon DEF Overwrites
<1> QED
  BY <1>3, <1>5, Zenon

-----------------------------------------------------------------------------
(* Every step keeps this.                                                  *)

\* The layers below, for services that take no snapshots.
WholeLogInv ==
    /\ ElectionInv /\ ServiceInv /\ ChainInv /\ LogInv
    /\ TermsInv /\ NoSnapshots

\* What the lemmas take from elsewhere.
Facts == LeastExists /\ QuorumsMeet /\ ~Snapshotting

\* Nothing has happened yet.
LEMMA WholeLogInvInit ==
    ASSUME Init, ElectionInv, ServiceInv, ChainInv, LogInv, TermsInv
    PROVE  WholeLogInv
  BY NoSnapshotsInit DEF WholeLogInv

\* Every step keeps the layers below.
LEMMA WholeLogInvNext ==
    ASSUME Facts, WholeLogInv, LowerStep, [Next]_vars
    PROVE  WholeLogInv' /\ DiskInv /\ DiskInv' /\ VoteStep
<1>1. DiskInv /\ ServiceInv /\ ChainInv /\ NoSnapshots /\ ~Snapshotting
  BY Zenon DEF WholeLogInv, ElectionInv, Facts
<1>2. /\ VoteStep /\ DiskInv'
      /\ ElectionInv' /\ ServiceInv' /\ ChainInv' /\ LogInv' /\ TermsInv'
  BY Zenon DEF LowerStep, ElectionStep
<1>3. NoSnapshots'
  BY <1>1, NoSnapshotsNext, Zenon
<1> QED
  BY <1>1, <1>2, <1>3, Zenon DEF WholeLogInv

\* The leader i sends the call m to j, and nothing else happens.
NewEntries(m, i, j) ==
    /\ m = AppendEntriesArgs(i, j) /\ state[i] = "LEADER" /\ j # i
    /\ UNCHANGED <<termVars, votesGranted, matchIndex, nextIndex>> /\ LogsSame
    /\ net' = net \cup {m}

\* A new call comes from a leader, and changes nothing else.
LEMMA NewEntriesCall ==
    ASSUME Facts, WholeLogInv, [Next]_vars, NEW m \in net', m \notin net, m.type = "AppendEntries"
    PROVE  \E i, j \in Server : NewEntries(m, i, j)
<1>1. /\ DiskInv /\ ServiceInv /\ ChainInv /\ NoSnapshots /\ starts \in Nat
      /\ \A k \in Server : IsChain(LogChain(k))
  BY AreChains DEF WholeLogInv, ElectionInv, ChainInv
<1>2. IsCall(m) /\ ~NoNewCall
  BY Zenon DEF IsCall, NoNewCall
<1>3. ASSUME NEW i \in Server, Start(i) \/ Snapshot(i) PROVE NoNewCall
  BY <1>1, <1>3, StartChain, Zenon DEF Snapshot, Facts
<1>4. PICK i \in Server, j \in Server : i # j /\ appendMissingEntries(i, j)
  BY <1>1, <1>2, <1>3, LogStep, ZenonT(30)
<1>5. /\ net' = net \cup {AppendEntriesArgs(i, j)} /\ state[i] = "LEADER"
      /\ UNCHANGED <<termVars, votesGranted, matchIndex, nextIndex>> /\ LogsSame
  BY <1>1, <1>4, EntriesSent, ZenonT(30)
<1>6. m = AppendEntriesArgs(i, j)
  BY <1>5, Zenon
<1>7. net' = net \cup {m} /\ j # i
  BY <1>4, <1>5, <1>6, Zenon
<1> QED
  BY <1>5, <1>6, <1>7, Zenon DEF NewEntries

\* The call m of i to j carries the end of the log of i.
SentEnd(m, i, j) ==
    /\ IsChain(CallChain(m)) /\ Segment(CallChain(m), LogChain(i))
    /\ top(CallChain(m)) = top(LogChain(i))
    /\ m.type = "AppendEntries" /\ m.src = i /\ m.dst = j /\ m.Term = currentTerm[i]

\* What a leader sends is part of its log, and goes to its end.
LEMMA SentSegment ==
    ASSUME WholeLogInv, ReplicationInv, NEW i \in Server, NEW j \in Server, NEW m,
           NewEntries(m, i, j)
    PROVE  SentEnd(m, i, j)
<1> m = AppendEntriesArgs(i, j) /\ SentFromLog(i)
  BY Zenon DEF NewEntries, ReplicationInv
<1>1. /\ IsChain(LogChain(i)) /\ nextIndex[i][j] \in Nat
      /\ lastIncludedIndex[i] = -1 /\ top(LogChain(i)) = lastLogIndex(i)
  BY LogFromStart, ZenonT(30) DEF WholeLogInv, ChainInv
<1>2. nextIndex[i][j] - 1 >= lastIncludedIndex[i]
  BY <1>1
<1>3. nextIndex[i][j] <= lastLogIndex(i) + 1
  BY <1>1, Zenon DEF SentFromLog
<1>4. /\ IsChain(CallChain(m)) /\ Segment(CallChain(m), LogChain(i))
      /\ top(CallChain(m)) = top(LogChain(i))
  BY <1>1, <1>2, <1>3, AppendEntriesChain, Zenon
<1>5. m.type = "AppendEntries" /\ m.src = i /\ m.dst = j /\ m.Term = currentTerm[i]
  BY Zenon DEF AppendEntriesArgs
<1> QED
  BY <1>4, <1>5, Zenon DEF SentEnd

\* Calls are chains, and replies go to leaders.
LEMMA CallsOKNext ==
    ASSUME Facts, WholeLogInv, ReplicationInv, LowerStep, [Next]_vars
    PROVE  CallsOK'
<1>1. /\ DiskInv /\ ChainInv /\ NoSnapshots /\ SentByLeader /\ ElectionStep /\ LogsStep
      /\ \A m \in net : m.src \in Server /\ m.Term \in Nat /\ m.dst \in Server
  BY Zenon DEF WholeLogInv, LowerStep, LogInv, ElectionInv, DiskInv, ElectionTypeOK, MessageOK
<1>2. ASSUME NEW m \in net', m.type = "AppendEntries" PROVE IsChain(CallChain(m))
  <2>1. CASE m \in net
    BY <1>2, <2>1, Zenon DEF ReplicationInv, CallsOK
  <2>2. CASE m \notin net
    <3>1. PICK i \in Server, j \in Server : NewEntries(m, i, j)
      BY <1>2, <2>2, NewEntriesCall, Zenon
    <3> QED
      BY <3>1, SentSegment, Zenon DEF SentEnd
  <2> QED
    BY <2>1, <2>2, ZenonT(30)
<1>3. ASSUME NEW r \in net', r.type = "AppendEntriesReply" PROVE Elected(r.ArgsTerm, r.dst)'
  <2>1. /\ r.ArgsTerm \in Nat /\ r.dst \in Server /\ Elected(r.ArgsTerm, r.dst)
    <3>1. CASE r \in net
      <4>1. ReplyOK(r)
        BY <1>1, <1>3, <3>1, Zenon DEF ChainInv, MessagesOK
      <4> QED
        BY <1>1, <1>3, <3>1, <4>1, Zenon DEF ReplicationInv, CallsOK, ReplyOK
    <3>2. CASE r \notin net
      <4>1. PICK m \in net : ReplyTo(r, m)
        BY <1>1, <1>3, <3>2, NewReply, Zenon
      <4>2. Elected(m.Term, m.src)
        BY <1>1, <4>1, Zenon DEF ReplyTo, AppendEntries, SentByLeader
      <4> QED
        BY <1>1, <4>1, <4>2, Zenon DEF ReplyTo
    <3> QED
      BY <3>1, <3>2, ZenonT(30)
  <2> QED
    BY <1>1, <2>1, Zenon DEF ElectionStep
<1> QED
  BY <1>2, <1>3, ZenonT(30) DEF CallsOK, IsChain, CallChain

\* Part of a log stays part of it when the log gets longer.
LEMMA SegmentLonger ==
    ASSUME NEW e, NEW c, NEW n, Segment(e, c), Segment(c, n)
    PROVE  Segment(e, n)
  BY Zenon DEF Segment, PartAt

\* While i leads in one term, what it sends and is told stays within its log.
LEMMA SentFromLogNext ==
    ASSUME Facts, WholeLogInv, WholeLogInv', ReplicationInv, LowerStep, [Next]_vars, NEW i \in Server,
           state[i] = "LEADER", state'[i] = "LEADER", currentTerm'[i] = currentTerm[i]
    PROVE  SentFromLog(i)'
<1> DEFINE l == LogChain(i)
           n == LogChain(i)'
<1>1. /\ ElectionInv /\ DiskInv /\ ServiceInv /\ ChainInv /\ NoSnapshots /\ SentByLeader
      /\ LeastExists /\ QuorumsMeet /\ ~Snapshotting /\ LogsStep
  BY Zenon DEF WholeLogInv, LogInv, ElectionInv, Facts, LowerStep
<1>2. Segment(l, n) /\ top(l) <= top(n)
  BY <1>1, LeaderExtends, Zenon
<1>3. IsChain(l) /\ top(l) \in Int
  BY <1>1, LogFromStart, Zenon
<1>4. IsChain(n) /\ top(n) \in Int
  BY NextLogs, Zenon DEF WholeLogInv, WholeLog
<1>5. SentFromLog(i)
  BY Zenon DEF ReplicationInv
<1>6. \A q \in Server : MatchFrom(i, q) /\ NextFrom(i, q)
  <2>1. ~becomeLeader(i)
    BY ZenonT(30) DEF becomeLeader
  <2> QED
    BY <1>1, <2>1, IndexStep, Zenon DEF ReplicationInv, IndexesKept
<1>7. nextIndex \in [Server -> [Server -> Nat]] /\ matchIndex \in [Server -> [Server -> Int]]
  BY DEF WholeLogInv, ChainInv, ReplicationInv
<1>8. \A r \in net : r.type = "AppendEntriesReply" => r.PrevLogIndex \in Int /\ r.NEntries \in Nat
  BY <1>1, Zenon DEF ChainInv, MessagesOK, ReplyOK
<1>9. ASSUME NEW q \in Server PROVE nextIndex'[i][q] <= top(n) + 1 /\ matchIndex'[i][q] <= top(n)
  <2>1. nextIndex[i][q] <= top(l) + 1 /\ matchIndex[i][q] <= top(l)
    BY <1>5, Zenon DEF SentFromLog
  <2>2. nextIndex[i][q] \in Nat /\ matchIndex[i][q] \in Int
    BY <1>7, Zenon
  <2>3. ASSUME NEW r \in net, ReplyFor(r, i)
        PROVE  /\ r.PrevLogIndex + r.NEntries <= top(n)
               /\ r.PrevLogIndex + r.NEntries + 1 <= top(n) + 1
               /\ r.PrevLogIndex + r.NEntries \in Int
    <3>1. r.PrevLogIndex + r.NEntries <= top(l)
      BY <1>5, <2>3, Zenon DEF SentFromLog
    <3>2. r.PrevLogIndex \in Int /\ r.NEntries \in Nat
      BY <1>8, <2>3, Zenon DEF ReplyFor
    <3> QED
      BY <1>2, <1>3, <1>4, <3>1, <3>2, SMTT(30)
  <2> HIDE DEF l, n
  <2>4. nextIndex'[i][q] <= top(n) + 1
    <3>1. CASE nextIndex'[i][q] = nextIndex[i][q]
      BY <1>2, <1>3, <1>4, <2>1, <2>2, <3>1, SMTT(30)
    <3>2. ASSUME NEW r \in net, ReplyFor(r, i), nextIndex'[i][q] <= r.PrevLogIndex + r.NEntries + 1
          PROVE  nextIndex'[i][q] <= top(n) + 1
      <4>1. nextIndex'[i][q] \in Nat
        BY DEF WholeLogInv, ChainInv
      <4>2. r.PrevLogIndex + r.NEntries + 1 <= top(n) + 1 /\ r.PrevLogIndex + r.NEntries \in Int
        BY <2>3, <3>2
      <4> QED
        BY <1>4, <3>2, <4>1, <4>2, SMTT(30)
    <3> QED
      BY <1>6, <3>1, <3>2, Zenon DEF NextFrom
  <2>5. matchIndex'[i][q] <= top(n)
    <3>1. CASE matchIndex'[i][q] = matchIndex[i][q]
      BY <1>2, <1>3, <1>4, <2>1, <2>2, <3>1, SMTT(30)
    <3>2. CASE matchIndex'[i][q] = top(n)
      BY <1>4, <3>2, SMTT(30)
    <3> QED
      BY <1>6, <2>3, <3>1, <3>2, Zenon DEF MatchFrom, n
  <2> QED
    BY <2>4, <2>5, Zenon
<1>10. ASSUME NEW m \in net, CallOf(m, i)
       PROVE  Segment(CallChain(m), n) /\ top(CallChain(m)) <= top(n)
  <2>1. Segment(CallChain(m), l)
    BY <1>5, <1>10, Zenon DEF SentFromLog
  <2>2. Segment(CallChain(m), n)
    BY <1>2, <2>1, SegmentLonger, Zenon
  <2>3. IsChain(CallChain(m))
    BY <1>10, Zenon DEF ReplicationInv, CallsOK, CallOf
  <2>4. top(CallChain(m)) \in Spans(CallChain(m))
    BY <2>3 DEF IsChain, Spans, top
  <2>5. top(CallChain(m)) \in Spans(n)
    BY <2>2, <2>4, Zenon DEF Segment, PartAt
  <2> QED
    BY <2>2, <2>5, SMTT(30) DEF Spans
<1>11. ASSUME NEW r \in net', ReplyFor(r, i)' PROVE r.PrevLogIndex + r.NEntries <= top(n)
  <2>1. ReplyFor(r, i)
    BY <1>11, Zenon DEF ReplyFor
  <2>2. CASE r \in net
    <3>1. r.PrevLogIndex + r.NEntries <= top(l) /\ r.PrevLogIndex \in Int /\ r.NEntries \in Nat
      BY <1>5, <1>8, <2>1, <2>2, Zenon DEF SentFromLog, ReplyFor
    <3> QED
      BY <1>2, <1>3, <1>4, <3>1, SMTT(30)
  <2>3. CASE r \notin net
    <3>1. PICK m \in net : ReplyTo(r, m)
      BY <1>1, <2>1, <2>3, NewReply, Zenon DEF ReplyFor
    <3> HIDE DEF n, l
    <3>2. m.type = "AppendEntries"
      BY <3>1, Zenon DEF ReplyTo, AppendEntries
    <3>3. CallOf(m, i)
      BY <2>1, <3>1, <3>2, Zenon DEF ReplyTo, ReplyFor, CallOf
    <3>4. top(CallChain(m)) = m.PrevLogIndex + Len(m.Entries)
      BY <3>2, CallEnd, Zenon
    <3>5. top(CallChain(m)) <= top(n)
      BY <1>10, <3>3, Zenon
    <3>6. m.PrevLogIndex = r.PrevLogIndex /\ r.NEntries = Len(m.Entries)
      BY <3>1, Zenon DEF ReplyTo
    <3> QED
      BY <3>4, <3>5, <3>6, ZenonT(30)
  <2> QED
    BY <2>2, <2>3, SMTT(30)
<1>12. ASSUME NEW m \in net', CallOf(m, i)' PROVE Segment(CallChain(m), n)
  <2>1. CallOf(m, i)
    BY <1>12, Zenon DEF CallOf
  <2>2. CASE m \in net
    BY <1>10, <2>1, <2>2, Zenon
  <2>3. CASE m \notin net
    <3>1. PICK k \in Server, j \in Server : NewEntries(m, k, j)
      BY <2>1, <2>3, NewEntriesCall, Zenon DEF CallOf
    <3>2. SentEnd(m, k, j)
      BY <3>1, SentSegment, Zenon
    <3>3. Segment(CallChain(m), LogChain(k)) /\ k = i
      BY <2>1, <3>2, Zenon DEF CallOf, SentEnd
    <3> QED
      BY <3>1, <3>3, Zenon DEF LogsSame, NewEntries
  <2> QED
    BY <2>2, <2>3
<1>13. (\A r \in net : ReplyFor(r, i) => r.PrevLogIndex + r.NEntries <= top(LogChain(i)))'
  BY <1>11, Zenon DEF ReplyFor
<1>14. (\A m \in net : CallOf(m, i) => Segment(CallChain(m), LogChain(i)))'
  BY <1>12, Zenon DEF CallOf, CallChain
<1> QED
  BY <1>9, <1>13, <1>14, ZenonT(30) DEF SentFromLog

\* Whatever peer has acknowledged an index to the leader i has what i has there
\* after every step of any peer, or is in a later term.
LEMMA AckedHasNext ==
    ASSUME Facts, WholeLogInv, WholeLogInv', ReplicationInv, LowerStep, [Next]_vars, NEW i \in Server,
           state[i] = "LEADER", state'[i] = "LEADER", currentTerm'[i] = currentTerm[i],
           SentFromLog(i)', NEW q \in Server, NEW idx \in Nat, Acked(q, i, idx)'
    PROVE  /\ currentTerm'[q] >= currentTerm'[i]
           /\ currentTerm'[q] = currentTerm'[i] =>
                 HasTerm(LogChain(q)', idx, TermAt(LogChain(i)', idx))
<1> DEFINE l == LogChain(i)
           n == LogChain(i)'
           c == LogChain(q)
           p == LogChain(q)'
<1>1. /\ ElectionInv /\ DiskInv /\ ServiceInv /\ ChainInv /\ NoSnapshots /\ SentByLeader
      /\ AllMatch /\ CallsOK /\ LeastExists /\ QuorumsMeet /\ ~Snapshotting /\ LogsStep
  BY Zenon DEF WholeLogInv, LogInv, ElectionInv, Facts, ReplicationInv, LowerStep
<1>2. /\ Segment(l, n)
      /\ IsChain(l) /\ l.base = -1 /\ top(l) \in Int /\ Spans(l) = -1 .. top(l)
      /\ SentFromLog(i) /\ AckedHas(i)
  BY <1>1, LeaderExtends, LogFromStart, Zenon DEF ReplicationInv
<1>3. \A k \in Server : currentTerm[k] \in Nat /\ currentTerm'[k] \in Nat
                        /\ currentTerm[k] <= currentTerm'[k]
  <2>1. VotesKept /\ DiskInv'
    BY WholeLogInvNext, Zenon DEF VoteStep
  <2> QED
    BY <1>1, <2>1 DEF VotesKept, DiskInv, ElectionTypeOK
<1>4. ASSUME NEW m \in net, Appends(m), m.dst = q, currentTerm'[q] = currentTerm'[i]
      PROVE  CallOf(m, i) /\ Segment(CallChain(m), l)
  <2>1. m.type = "AppendEntries" /\ m.src \in Server
    BY <1>1, <1>4, Appended, Zenon
  <2>2. currentTerm'[q] = m.Term
    BY <1>1, <1>4, CallTerm, Zenon
  <2>3. m.Term = currentTerm[i] /\ Elected(m.Term, m.src)
    BY <1>1, <1>4, <2>1, <2>2, Zenon DEF SentByLeader
  <2>4. m.src = i
    BY <1>1, <2>1, <2>3, OnlyLeader, Zenon
  <2>5. CallOf(m, i)
    BY <2>1, <2>3, <2>4, Zenon DEF CallOf
  <2> QED
    BY <1>2, <2>5, Zenon DEF SentFromLog
<1>5. CASE Acked(q, i, idx)
  <2>1. currentTerm[q] >= currentTerm[i]
        /\ (currentTerm[q] = currentTerm[i] => HasTerm(c, idx, TermAt(l, idx)))
    BY <1>2, <1>5, Zenon DEF AckedHas
  <2>2. currentTerm'[q] >= currentTerm'[i]
    BY <1>3, <2>1, SMTT(30)
  <2>3. ASSUME currentTerm'[q] = currentTerm'[i] PROVE HasTerm(p, idx, TermAt(n, idx))
    <3>1. currentTerm[q] = currentTerm[i]
      BY <1>3, <2>1, <2>3, SMTT(30)
    <3>2. HasTerm(c, idx, TermAt(l, idx))
      BY <2>1, <3>1, ZenonT(30)
    <3>3. idx \in Spans(l)
      <4>1. idx <= top(l)
        <5>1. matchIndex[i][q] \in Int /\ matchIndex[i][q] <= top(l)
          BY <1>2, Zenon DEF SentFromLog, ReplicationInv
        <5>2. ASSUME NEW r \in net, AckReply(r, q, i, idx) PROVE idx <= top(l)
          <6>1. ReplyFor(r, i) /\ r.PrevLogIndex + r.NEntries >= idx
            BY <5>2, Zenon DEF AckReply
          <6>2. r.PrevLogIndex + r.NEntries <= top(l)
            BY <1>2, <6>1, Zenon DEF SentFromLog
          <6>3. r.PrevLogIndex \in Int /\ r.NEntries \in Nat
            BY <1>1, <6>1, Zenon DEF ReplyFor, ChainInv, MessagesOK, ReplyOK
          <6> QED
            BY <1>2, <6>1, <6>2, <6>3, SMTT(30)
        <5>3. CASE matchIndex[i][q] >= idx
          BY <1>2, <5>1, <5>3, SMTT(30)
        <5> QED
          BY <1>5, <5>2, <5>3, Zenon DEF Acked
      <4> QED
        BY <1>2, <4>1
    <3>4. TermAt(n, idx) = TermAt(l, idx)
      BY <1>2, <3>3, Zenon DEF Segment, PartAt
    <3>5. HasTerm(p, idx, TermAt(l, idx))
      <4>1. CASE p = c
        BY <3>2, <4>1, ZenonT(30)
      <4>2. CASE Start(q)
        <5>1. Segment(c, p)
          BY <1>1, <4>2, StartExtends, Zenon
        <5> QED
          BY <3>2, <5>1, Zenon DEF Segment, PartAt, HasTerm
      <4>3. ASSUME NEW m \in net, m.dst = q, Appends(m) PROVE HasTerm(p, idx, TermAt(l, idx))
        <5>1. Segment(CallChain(m), l)
          BY <1>4, <2>3, <4>3, ZenonT(30)
        <5>2. Match(c, l)
          BY <1>1, AreChains, ZenonT(30) DEF AllMatch
        <5> QED
          BY <1>1, <3>2, <3>3, <4>3, <5>1, <5>2, AppendKeeps, Zenon
      <4> QED
        BY <1>1, <4>1, <4>2, <4>3, PeerLog, Zenon
    <3> QED
      BY <3>4, <3>5, Zenon
  <2> QED
    BY <2>2, <2>3
<1>6. ASSUME Start(i), q = i, idx <= top(n)
      PROVE  /\ currentTerm'[q] >= currentTerm'[i]
             /\ HasTerm(p, idx, TermAt(n, idx))
  <2>1. top(n) \in Int /\ Spans(n) = -1 .. top(n)
    BY NextLogs, Zenon DEF WholeLogInv, WholeLog
  <2>2. idx \in Spans(n)
    BY <1>6, <2>1, SMTT(30)
  <2> QED
    BY <1>3, <1>6, <2>2, ZenonT(30) DEF HasTerm
<1>7. ASSUME NEW m \in net, CallOf(m, i), m.dst = q, Appends(m), idx <= top(CallChain(m))
      PROVE  /\ currentTerm'[q] >= currentTerm'[i]
             /\ HasTerm(p, idx, TermAt(n, idx))
  <2>1. Segment(CallChain(m), l) /\ currentTerm'[q] = m.Term /\ m.Term = currentTerm[i]
    BY <1>1, <1>2, <1>7, CallTerm, Zenon DEF SentFromLog, CallOf
  <2>2. Segment(CallChain(m), n)
    BY <1>2, <2>1, SegmentLonger, Zenon
  <2>3. WholeLog(n) /\ WholeLog(p) /\ Match(p, n)
    <3>1. n \in Chains' /\ p \in Chains' /\ WholeLog(n) /\ WholeLog(p)
      BY NextLogs, Zenon DEF WholeLogInv
    <3>2. AllMatch'
      BY Zenon DEF WholeLogInv, LogInv
    <3>3. Match(p, n)
      BY <3>1, <3>2 DEF AllMatch
    <3> QED
      BY <3>1, <3>3
  <2>4. HasTerm(p, idx, TermAt(n, idx))
    BY <1>1, <1>7, <2>2, <2>3, AppendFromLeader, Zenon DEF WholeLog
  <2> QED
    BY <1>3, <2>1, <2>4
<1> HIDE DEF l, n, c, p
<1>8. \/ Acked(q, i, idx)
      \/ Start(i) /\ q = i /\ idx <= top(LogChain(i)')
      \/ \E m \in net : CallOf(m, i) /\ m.dst = q /\ Appends(m) /\ idx <= top(CallChain(m))
  <2>1. idx \in Int
    OBVIOUS
  <2> QED
    BY <1>1, <2>1, AckStep, Zenon
<1> QED
  BY <1>5, <1>6, <1>7, <1>8, Zenon DEF n, p

\* A peer that has just been elected has neither called in its term nor been
\* answered, and knows of its own log only.
LEMMA NothingSent ==
    ASSUME Facts, WholeLogInv, ReplicationInv, NEW i \in Server, becomeLeader(i)
    PROVE  /\ \A r \in net : ~ReplyFor(r, i)
           /\ \A m \in net : ~CallOf(m, i)
           /\ UNCHANGED <<currentTerm, net, logVars>>
           /\ \A q \in Server : /\ nextIndex'[i][q] = top(LogChain(i)) + 1
                                /\ matchIndex'[i][q] = IF q = i THEN top(LogChain(i)) ELSE -1
<1>1. /\ DiskInv /\ SentByLeader /\ CallsOK /\ top(LogChain(i)) = lastLogIndex(i)
      /\ currentTerm[i] \in Nat
      /\ nextIndex \in [Server -> [Server -> Nat]] /\ matchIndex \in [Server -> [Server -> Int]]
  BY LogFromStart
     DEF WholeLogInv, LogInv, ElectionInv, ReplicationInv, ChainInv, DiskInv, ElectionTypeOK
<1>2. /\ state[i] = "CANDIDATE" /\ UNCHANGED <<currentTerm, net, logVars>>
      /\ nextIndex' = [nextIndex EXCEPT ![i] = [j \in Server |-> lastLogIndex(i) + 1]]
      /\ matchIndex' = [matchIndex EXCEPT ![i] =
                           [j \in Server |-> IF j = i THEN lastLogIndex(i) ELSE -1]]
  BY Zenon DEF becomeLeader
<1>3. ~Elected(currentTerm[i], i)
  BY <1>1, <1>2 DEF Elected
<1>4. \A r \in net : ~ReplyFor(r, i)
  BY <1>1, <1>3, Zenon DEF CallsOK, ReplyFor
<1>5. \A m \in net : ~CallOf(m, i)
  BY <1>1, <1>3, Zenon DEF SentByLeader, CallOf
<1>6. \A q \in Server : /\ nextIndex'[i][q] = top(LogChain(i)) + 1
                        /\ matchIndex'[i][q] = IF q = i THEN top(LogChain(i)) ELSE -1
  BY <1>1, <1>2
<1> QED
  BY <1>2, <1>4, <1>5, <1>6, Zenon

\* With that it starts.
LEMMA NewLeaderKnows ==
    ASSUME Facts, WholeLogInv, ReplicationInv, NEW i \in Server, becomeLeader(i)
    PROVE  SentFromLog(i)' /\ AckedHas(i)'
<1> DEFINE l == LogChain(i)
<1>1. /\ \A r \in net : ~ReplyFor(r, i)
      /\ \A m \in net : ~CallOf(m, i)
      /\ UNCHANGED <<currentTerm, net, logVars>>
      /\ \A q \in Server : /\ nextIndex'[i][q] = top(l) + 1
                           /\ matchIndex'[i][q] = IF q = i THEN top(l) ELSE -1
  BY NothingSent, Zenon
<1>2. l' = l /\ \A q \in Server : LogChain(q)' = LogChain(q)
  BY <1>1, Zenon DEF LogChain, logVars
<1>3. /\ top(l) \in Int /\ top(l) >= -1 /\ Spans(l) = -1 .. top(l) /\ currentTerm[i] \in Nat
  BY LogFromStart DEF WholeLogInv, ElectionInv, DiskInv, ElectionTypeOK
<1> HIDE DEF l
<1>4. (\A r \in net : ~ReplyFor(r, i))' /\ (\A m \in net : ~CallOf(m, i))'
  BY <1>1, Zenon DEF ReplyFor, CallOf
<1>5. ASSUME NEW q \in Server PROVE nextIndex'[i][q] <= top(l) + 1 /\ matchIndex'[i][q] <= top(l)
  <2>1. matchIndex'[i][q] = top(l) \/ matchIndex'[i][q] = -1
    BY <1>1
  <2> QED
    BY <1>1, <1>3, <2>1
<1>6. SentFromLog(i)'
  BY <1>2, <1>4, <1>5, Zenon DEF SentFromLog, l
<1>7. ASSUME NEW q \in Server, NEW idx \in Nat, Acked(q, i, idx)'
      PROVE  /\ currentTerm'[q] >= currentTerm'[i]
             /\ HasTerm(LogChain(q)', idx, TermAt(LogChain(i)', idx))
  <2>1. matchIndex'[i][q] >= idx
    BY <1>4, <1>7, Zenon DEF Acked, AckReply
  <2>2. q = i /\ idx \in Spans(l)
    BY <1>1, <1>3, <2>1
  <2> QED
    BY <1>1, <1>2, <1>3, <2>2 DEF HasTerm, l
<1>8. AckedHas(i)'
  BY <1>7, Zenon DEF AckedHas
<1> QED
  BY <1>6, <1>8

\* At first nobody leads.
LEMMA ReplicationInvInit == Init => ReplicationInv
  BY DEF Init, ReplicationInv, CallsOK

\* Every step keeps what leaders know true.
LEMMA ReplicationInvNext ==
    ASSUME Facts, WholeLogInv, ReplicationInv, LowerStep, [Next]_vars
    PROVE  ReplicationInv'
<1>1. WholeLogInv' /\ DiskInv
  BY WholeLogInvNext, Zenon
<1>2. CallsOK'
  BY CallsOKNext
<1>3. matchIndex' \in [Server -> [Server -> Int]]
  BY <1>1, IndexStep, Zenon DEF WholeLogInv, ReplicationInv, Facts, LowerStep
<1>4. ASSUME NEW i \in Server, state'[i] = "LEADER" PROVE SentFromLog(i)' /\ AckedHas(i)'
  <2>1. CASE becomeLeader(i)
    BY <2>1, NewLeaderKnows
  <2>2. CASE state[i] = "LEADER" /\ currentTerm'[i] = currentTerm[i]
    <3>1. SentFromLog(i)'
      BY <1>1, <1>4, <2>2, SentFromLogNext, Zenon
    <3>2. ASSUME NEW q \in Server, NEW idx \in Nat, Acked(q, i, idx)'
          PROVE  /\ currentTerm'[q] >= currentTerm'[i]
                 /\ currentTerm'[q] = currentTerm'[i] =>
                       HasTerm(LogChain(q)', idx, TermAt(LogChain(i)', idx))
      BY <1>1, <1>4, <2>2, <3>1, <3>2, AckedHasNext, Zenon
    <3>3. AckedHas(i)'
      BY <3>2, Zenon DEF AckedHas
    <3> QED
      BY <3>1, <3>3
  <2> QED
    BY <1>4, <2>1, <2>2, Zenon DEF LowerStep, ElectionStep, RoleStep
<1> QED
  BY <1>2, <1>3, <1>4, Zenon DEF ReplicationInv

\* Where two whole logs have the same term they have the same entry.
LEMMA HasEntry ==
    ASSUME WholeLogInv, NEW i \in Server, NEW j \in Server, NEW idx \in Nat, idx <= lastLogIndex(i),
           HasTerm(LogChain(j), idx, TermAt(LogChain(i), idx))
    PROVE  Holds(j, i, idx)
<1>1. /\ IsChain(LogChain(i)) /\ IsChain(LogChain(j)) /\ Match(LogChain(j), LogChain(i))
      /\ LogChain(i) \in Chains /\ LogChain(j) \in Chains
  BY AreChains DEF WholeLogInv, ChainInv, LogInv, AllMatch
<1>2. /\ LogChain(i).base = -1 /\ top(LogChain(i)) = lastLogIndex(i) /\ lastLogIndex(i) \in Int
      /\ Spans(LogChain(i)) = -1 .. top(LogChain(i)) /\ lastIncludedIndex[i] = -1
  BY LogFromStart, Zenon DEF WholeLogInv
<1>3. /\ LogChain(j).base = -1 /\ top(LogChain(j)) = lastLogIndex(j) /\ lastLogIndex(j) \in Int
      /\ Spans(LogChain(j)) = -1 .. top(LogChain(j)) /\ lastIncludedIndex[j] = -1
  BY LogFromStart, Zenon DEF WholeLogInv
<1>4. idx \in Spans(LogChain(i)) /\ idx \in Spans(LogChain(j)) /\ idx <= lastLogIndex(j)
  <2>1. idx \in Spans(LogChain(j))
    BY Zenon DEF HasTerm
  <2> QED
    BY <1>2, <1>3, <2>1
<1>5. SameAt(LogChain(j), LogChain(i), idx)
  BY <1>1, <1>4, SMTT(30) DEF HasTerm, Match
<1>6. EntryAt(LogChain(j), idx) = EntryAt(LogChain(i), idx)
  BY <1>2, <1>3, <1>5, SMTT(30) DEF SameAt
<1>7. EntryAt(LogChain(j), idx) = Entry(j, idx) /\ EntryAt(LogChain(i), idx) = Entry(i, idx)
  BY DEF EntryAt, Entry, LogChain
<1> QED
  BY <1>4, <1>6, <1>7, Zenon DEF Holds

\* A leader's matchIndex is never more than the truth.
LEMMA MatchIsSound == WholeLogInv /\ ReplicationInv => MatchIndexSound
<1> SUFFICES ASSUME WholeLogInv, ReplicationInv, NEW i \in Server, NEW j \in Server,
                    state[i] = "LEADER", currentTerm[j] = currentTerm[i],
                    NEW idx \in baseIndex(i) .. matchIndex[i][j]
             PROVE  Holds(j, i, idx)
  BY ZenonT(30) DEF MatchIndexSound
<1>1. /\ lastIncludedIndex[i] = -1 /\ matchIndex[i][j] \in Int /\ lastLogIndex(i) \in Int
      /\ top(LogChain(i)) = lastLogIndex(i)
  BY LogFromStart DEF WholeLogInv, ReplicationInv
<1>2. matchIndex[i][j] <= lastLogIndex(i) /\ AckedHas(i)
  BY <1>1, Zenon DEF ReplicationInv, SentFromLog
<1>3. idx \in Nat /\ idx <= lastLogIndex(i) /\ matchIndex[i][j] >= idx
  BY <1>1, <1>2 DEF baseIndex
<1>4. HasTerm(LogChain(j), idx, TermAt(LogChain(i), idx))
  BY <1>2, <1>3, Zenon DEF AckedHas, Acked
<1> QED
  BY <1>3, <1>4, HasEntry, Zenon
=============================================================================
