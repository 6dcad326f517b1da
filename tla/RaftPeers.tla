----------------------------- MODULE RaftPeers ------------------------------
(***************************************************************************)
(* The disk, the service and the votes of the Raft peers: the Persister is *)
(* never behind memory, what the service is given and the snapshots that   *)
(* peers keep and send fit together, and every vote is for one candidate,  *)
(* for any number of peers and any bounds.                                 *)
(***************************************************************************)
EXTENDS RaftInvariants, TLAPS

-----------------------------------------------------------------------------
(* Types and the disk.                                                     *)

\* Make starts every peer with what readPersist sets for an empty disk.
LEMMA DiskInvInit == Init => DiskInv
  BY NilAssumption, SMTT(60) DEF Init, DiskInv, ElectionTypeOK, PersistentDomains,
     PersistedCurrent, PersistentState

\* What is on disk stays current when a step at i changes nothing at the other
\* peers, and at i persists what it changed.
LEMMA PersistedKept ==
    ASSUME DiskInv, NEW i \in Server,
           \A k \in Server \ {i} : PersistentState(k)' = PersistentState(k),
           \/ persisted' = [persisted EXCEPT ![i] = PersistentState(i)']
           \/ persisted' = persisted /\ PersistentState(i)' = PersistentState(i)
    PROVE  PersistedCurrent'
<1> DEFINE now(k) == PersistentState(k)
           next(k) == PersistentState(k)'
<1>1. \A k \in Server : persisted[k] = now(k)
  BY Zenon DEF DiskInv, PersistedCurrent
<1>2. DOMAIN persisted = Server
  BY Zenon DEF DiskInv, PersistentDomains
<1>3. \A k \in Server \ {i} : next(k) = now(k)
  BY Zenon
<1>4. \/ persisted' = [persisted EXCEPT ![i] = next(i)]
      \/ persisted' = persisted /\ next(i) = now(i)
  BY Zenon
<1> HIDE DEF now, next
<1>5. \A k \in Server : persisted'[k] = next(k)
  BY <1>1, <1>2, <1>3, <1>4
<1> QED
  BY <1>5, Zenon DEF PersistedCurrent, next

\* A step at i assigns to the persistent state of i alone.
LEMMA OthersKept ==
    ASSUME DiskInv, NEW i \in Server, NEW k \in Server \ {i},
           \E x : currentTerm' = [currentTerm EXCEPT ![i] = x],
           \E x : votedFor' = [votedFor EXCEPT ![i] = x],
           log' = log \/ \E x : log' = [log EXCEPT ![i] = x],
           \/ UNCHANGED <<lastIncludedIndex, lastIncludedTerm, snapshot>>
           \/ /\ \E x : lastIncludedIndex' = [lastIncludedIndex EXCEPT ![i] = x]
              /\ \E x : lastIncludedTerm' = [lastIncludedTerm EXCEPT ![i] = x]
              /\ \E x : snapshot' = [snapshot EXCEPT ![i] = x]
    PROVE  PersistentState(k)' = PersistentState(k)
<1>1. /\ k \in DOMAIN currentTerm /\ k \in DOMAIN votedFor /\ k \in DOMAIN log
      /\ k \in DOMAIN lastIncludedIndex /\ k \in DOMAIN lastIncludedTerm
      /\ k \in DOMAIN snapshot /\ k # i
  BY Zenon DEF DiskInv, ElectionTypeOK, PersistentDomains
<1>2. currentTerm'[k] = currentTerm[k] /\ votedFor'[k] = votedFor[k] /\ log'[k] = log[k]
  BY <1>1, Zenon
<1>3. /\ lastIncludedIndex'[k] = lastIncludedIndex[k]
      /\ lastIncludedTerm'[k] = lastIncludedTerm[k] /\ snapshot'[k] = snapshot[k]
  BY <1>1, Zenon
<1> QED
  BY <1>2, <1>3, Zenon DEF PersistentState

\* No action leaves the disk behind: each one persists what it changed.
LEMMA DiskInvNext == DiskInv /\ [Next]_vars => DiskInv'
<1> SUFFICES ASSUME DiskInv, [Next]_vars PROVE DiskInv'
  OBVIOUS
<1> USE DEF DiskInv, ElectionTypeOK, PersistentDomains, PersistedCurrent,
            PersistentState, MessageOK
<1>1. CASE UNCHANGED vars
  BY <1>1, Zenon DEF vars, termVars, logVars
<1>2. ASSUME NEW i \in Server, election(i) PROVE DiskInv'
  BY <1>2, SMTT(30) DEF election, persist, Send, RequestVoteArgs, logVars
<1>3. ASSUME NEW i \in Server, becomeLeader(i) PROVE DiskInv'
  BY <1>3 DEF becomeLeader, logVars
<1>4. ASSUME NEW i \in Server, Start(i) PROVE DiskInv'
  BY <1>4, ZenonT(60) DEF Start, persist, termVars
<1>5. ASSUME NEW i \in Server, advanceCommitIndex(i) PROVE DiskInv'
  BY <1>5, Zenon DEF advanceCommitIndex, termVars, logVars
<1>6. ASSUME NEW i \in Server, Snapshot(i) PROVE DiskInv'
  BY <1>6, Zenon DEF Snapshot, persist, termVars
<1>7. ASSUME NEW i \in Server, apply(i) PROVE DiskInv'
  BY <1>7, SMTT(60) DEF apply, termVars, logVars
<1>8. ASSUME NEW i \in Server, serviceReceive(i) PROVE DiskInv'
  BY <1>8, Zenon DEF serviceReceive, termVars, logVars
<1>9. ASSUME NEW i \in Server, NEW j \in Server, appendMissingEntries(i, j)
      PROVE  DiskInv'
  BY <1>9, SMTT(60) DEF appendMissingEntries, Send, AppendEntriesArgs,
              InstallSnapshotArgs, termVars, logVars
<1>10. ASSUME NEW m \in net, RequestVote(m) PROVE DiskInv'
  <2> USE DEF RequestVote, termAfter, votedForAfter, stateAfter
  <2>1. \A r \in net' : MessageOK(r)
    <3>1. vote(m) \in BOOLEAN
      BY Zenon DEF vote
    <3> HIDE DEF MessageOK
    <3> DEFINE reply == [type |-> "RequestVoteReply", src |-> m.dst, dst |-> m.src,
                         ArgsTerm |-> m.Term, Term |-> termAfter(m.dst, m.Term),
                         VoteGranted |-> vote(m)]
    <3>2. MessageOK(reply)
      BY <3>1, SMTT(60) DEF MessageOK
    <3>3. net' \subseteq net \cup {reply}
      BY <1>10, ZenonT(60) DEF Reply
    <3> QED
      BY <3>2, <3>3, Zenon
  <2>2. (ElectionTypeOK /\ PersistentDomains)'
    BY <1>10, <2>1, ZenonT(60) DEF persist, logVars, vote
  <2>3. PersistedCurrent'
    BY <1>10, ZenonT(60) DEF persist, logVars
  <2> QED
    BY <2>2, <2>3
<1>11. ASSUME NEW m \in net, requestVoteReply(m) PROVE DiskInv'
  <2> USE DEF requestVoteReply, handleHigherTerm, termAfter, votedForAfter
  <2>1. \A r \in net' : MessageOK(r)
    BY <1>11, ZenonT(30) DEF Consume
  <2>2. currentTerm' \in [Server -> Nat] /\ votedFor' \in [Server -> Server \cup {Nil}]
    BY <1>11, ZenonT(60)
  <2>3. state' \in [Server -> {"FOLLOWER", "CANDIDATE", "LEADER"}]
    BY <1>11, ZenonT(60) DEF stateAfter
  <2>4. votesGranted' \in [Server -> SUBSET Server]
    BY <1>11, ZenonT(60) DEF gatherVotes
  <2>5. PersistentDomains'
    BY <1>11, ZenonT(60) DEF persist, logVars
  <2>6. PersistedCurrent'
    BY <1>11, ZenonT(60) DEF persist, logVars
  <2> QED
    BY <2>1, <2>2, <2>3, <2>4, <2>5, <2>6, Zenon
<1>12. ASSUME NEW m \in net, AppendEntries(m) PROVE DiskInv'
  <2> DEFINE i == m.dst
  <2> HIDE DEF DiskInv, ElectionTypeOK, PersistentDomains, PersistedCurrent,
               PersistentState, MessageOK
  <2>0. ElectionTypeOK /\ MessageOK(m) /\ i \in Server /\ m.src \in Server /\ m.Term \in Nat
        /\ currentTerm[i] \in Nat
    BY ZenonT(60) DEF DiskInv, ElectionTypeOK, MessageOK
  <2>1. ElectionTypeOK'
    <3>1. \A success, info : MessageOK(AppendEntriesReply(m, success, info))
      BY <2>0, SMTT(60) DEF MessageOK, AppendEntriesReply, termAfter
    <3>2. PICK success, info : Reply(m, AppendEntriesReply(m, success, info))
      BY <1>12, ZenonT(60) DEF AppendEntries
    <3>3. \A r \in net' : MessageOK(r)
      BY <2>0, <3>1, <3>2, ZenonT(60) DEF Reply, ElectionTypeOK
    <3> QED
      BY <1>12, <2>0, <3>3, ZenonT(60) DEF AppendEntries, ElectionTypeOK, termAfter,
         votedForAfter, stateAfter
  <2>2. /\ currentTerm' = [currentTerm EXCEPT ![i] = termAfter(i, m.Term)]
        /\ votedFor' = [votedFor EXCEPT ![i] = votedForAfter(i, m.Term)]
        /\ UNCHANGED <<lastIncludedIndex, lastIncludedTerm, snapshot>>
        /\ \/ persist(i, m.Term > currentTerm[i]) /\ UNCHANGED log
           \/ /\ persist(i, m.Term > currentTerm[i] \/ m.Entries # <<>>)
              /\ log' = [log EXCEPT ![i] = appendEntriesLocal(i, m.Entries)]
    BY <1>12, ZenonT(60) DEF AppendEntries
  <2>3. PersistentDomains'
    BY <2>2, ZenonT(60) DEF DiskInv, PersistentDomains, persist
  <2>4. m.Entries = <<>> => appendEntriesLocal(i, m.Entries) = log[i]
    BY SMTT(60) DEF appendEntriesLocal
  <2>5. \/ persisted' = [persisted EXCEPT ![i] = PersistentState(i)']
        \/ persisted' = persisted /\ PersistentState(i)' = PersistentState(i)
    <3>1. CASE m.Term > currentTerm[i]
      BY <2>2, <3>1, ZenonT(60) DEF persist
    <3>2. CASE m.Entries # <<>> /\ log' # log
      BY <2>2, <3>2, ZenonT(60) DEF persist
    <3>3. CASE ~(m.Term > currentTerm[i]) /\ (m.Entries = <<>> \/ log' = log)
      <4>1. currentTerm'[i] = currentTerm[i] /\ votedFor'[i] = votedFor[i]
        BY <2>0, <2>2, <3>3, ZenonT(60) DEF ElectionTypeOK, termAfter, votedForAfter
      <4>2. log'[i] = log[i]
        <5>1. i \in DOMAIN log
          BY <2>0, Zenon DEF DiskInv, PersistentDomains
        <5>2. CASE log' = log
          BY <5>2, Zenon
        <5>3. CASE m.Entries = <<>> /\ log' = [log EXCEPT ![i] = appendEntriesLocal(i, m.Entries)]
          BY <2>4, <5>1, <5>3, ZenonT(60)
        <5> QED
          BY <2>2, <3>3, <5>2, <5>3, ZenonT(60)
      <4>3. PersistentState(i)' = PersistentState(i)
        BY <2>2, <4>1, <4>2, ZenonT(60) DEF PersistentState
      <4> QED
        BY <2>2, <4>3, ZenonT(60) DEF persist
    <3> QED
      BY <3>1, <3>2, <3>3, ZenonT(60)
  <2>6. \A k \in Server \ {i} : PersistentState(k)' = PersistentState(k)
    BY <2>0, <2>2, OthersKept, ZenonT(60)
  <2> QED
    BY <2>0, <2>1, <2>3, <2>5, <2>6, PersistedKept, ZenonT(60) DEF DiskInv
<1>13. ASSUME NEW m \in net, handleAppendReply(m) PROVE DiskInv'
  BY <1>13, ZenonT(60) DEF handleAppendReply, Consume, handleHigherTerm, persist,
               termAfter, votedForAfter, stateAfter, logVars
<1>14. ASSUME NEW m \in net, InstallSnapshot(m) PROVE DiskInv'
  <2> DEFINE i == m.dst
             reply == [type |-> "InstallSnapshotReply", src |-> i, dst |-> m.src,
                       call |-> m.call, Term |-> termAfter(i, m.Term)]
  <2> HIDE DEF DiskInv, ElectionTypeOK, PersistentDomains, PersistedCurrent,
               PersistentState, MessageOK
  <2>1. ElectionTypeOK /\ MessageOK(m) /\ i \in Server /\ m.src \in Server /\ m.Term \in Nat
        /\ currentTerm[i] \in Nat
    BY ZenonT(60) DEF DiskInv, ElectionTypeOK, MessageOK
  <2>2. handleHigherTerm(i, m.Term) /\ Reply(m, reply) /\ UNCHANGED votesGranted
    BY <1>14, ZenonT(60) DEF InstallSnapshot
  <2>3. ElectionTypeOK'
    <3>1. MessageOK(reply)
      BY <2>1, SMTT(60) DEF MessageOK, termAfter
    <3> HIDE DEF reply
    <3>2. \A r \in net' : MessageOK(r)
      BY <2>1, <2>2, <3>1, ZenonT(60) DEF Reply, ElectionTypeOK
    <3> QED
      BY <2>1, <2>2, <3>2, ZenonT(60) DEF handleHigherTerm, ElectionTypeOK, termAfter,
         votedForAfter, stateAfter
  <2>4. \/ persist(i, m.Term > currentTerm[i]) /\ UNCHANGED logVars
        \/ /\ persist(i, TRUE)
           /\ \E x : log' = [log EXCEPT ![i] = x]
           /\ \E x : lastIncludedIndex' = [lastIncludedIndex EXCEPT ![i] = x]
           /\ \E x : lastIncludedTerm' = [lastIncludedTerm EXCEPT ![i] = x]
           /\ \E x : snapshot' = [snapshot EXCEPT ![i] = x]
    BY <1>14, ZenonT(60) DEF InstallSnapshot
  <2>5. PersistentDomains'
    BY <2>4, ZenonT(60) DEF DiskInv, PersistentDomains, persist, logVars
  <2>6. \/ persisted' = [persisted EXCEPT ![i] = PersistentState(i)']
        \/ persisted' = persisted /\ PersistentState(i)' = PersistentState(i)
    <3>1. CASE UNCHANGED logVars /\ ~(m.Term > currentTerm[i])
      <4>1. currentTerm'[i] = currentTerm[i] /\ votedFor'[i] = votedFor[i]
        BY <2>1, <2>2, <3>1, ZenonT(60) DEF handleHigherTerm, ElectionTypeOK, termAfter,
           votedForAfter
      <4>2. PersistentState(i)' = PersistentState(i)
        BY <3>1, <4>1, ZenonT(60) DEF PersistentState, logVars
      <4> QED
        BY <2>4, <4>2, ZenonT(60) DEF persist
    <3> QED
      BY <2>4, <3>1, ZenonT(60) DEF persist
  <2>7. \A k \in Server \ {i} : PersistentState(k)' = PersistentState(k)
    BY <2>1, <2>2, <2>4, OthersKept, ZenonT(60) DEF handleHigherTerm, logVars
  <2> QED
    BY <2>1, <2>3, <2>5, <2>6, <2>7, PersistedKept, ZenonT(60) DEF DiskInv
<1>15. ASSUME NEW m \in net, installSnapshotReply(m) PROVE DiskInv'
  BY <1>15, ZenonT(60) DEF installSnapshotReply, Consume, handleHigherTerm, persist,
               termAfter, votedForAfter, stateAfter, logVars
<1>16. ASSUME NEW m \in net, LoseMessage(m) PROVE DiskInv'
  BY <1>16, ZenonT(60) DEF LoseMessage, Consume, termVars, logVars
<1>17. ASSUME NEW i \in Server, NEW stoppedOn \in SUBSET net, NEW t \in Nat,
              Make(i, stoppedOn, t)
       PROVE  DiskInv'
  <2> HIDE DEF DiskInv, ElectionTypeOK, PersistentDomains, PersistedCurrent,
               PersistentState, MessageOK
  <2> DEFINE p == Saved(i, t)
  <2>1. /\ currentTerm' = [currentTerm EXCEPT ![i] = p.currentTerm]
        /\ votedFor' = [votedFor EXCEPT ![i] = p.votedFor]
        /\ log' = [log EXCEPT ![i] = p.log]
        /\ lastIncludedIndex' = [lastIncludedIndex EXCEPT ![i] = p.lastIncludedIndex]
        /\ lastIncludedTerm' = [lastIncludedTerm EXCEPT ![i] = p.lastIncludedTerm]
        /\ snapshot' = [snapshot EXCEPT ![i] = p.snapshot]
        /\ persisted' = [persisted EXCEPT ![i] = p]
        /\ state' = [state EXCEPT ![i] = "FOLLOWER"]
        /\ votesGranted' = [votesGranted EXCEPT ![i] = {}]
        /\ net' \subseteq net
    BY <1>17, ZenonT(60) DEF Make
  <2>2. p.currentTerm \in Nat /\ p.votedFor \in Server \cup {Nil}
    <3>1. /\ persisted[i].currentTerm = currentTerm[i] /\ persisted[i].votedFor = votedFor[i]
          /\ currentTerm[i] \in Nat /\ votedFor[i] \in Server \cup {Nil}
      <4>1. persisted[i] = PersistentState(i)
        BY ZenonT(60) DEF DiskInv, PersistedCurrent
      <4>2. currentTerm[i] \in Nat /\ votedFor[i] \in Server \cup {Nil}
        BY ZenonT(60) DEF DiskInv, ElectionTypeOK
      <4> QED
        BY <4>1, <4>2 DEF PersistentState
    <3>2. /\ p.currentTerm \in {t, persisted[i].currentTerm}
          /\ p.votedFor \in {Nil, persisted[i].votedFor}
      BY SMTT(60) DEF Saved
    <3> QED
      BY <3>1, <3>2, Zenon
  <2>3. p = [currentTerm |-> p.currentTerm, votedFor |-> p.votedFor, log |-> p.log,
             lastIncludedIndex |-> p.lastIncludedIndex,
             lastIncludedTerm |-> p.lastIncludedTerm, snapshot |-> p.snapshot]
    BY SMTT(60) DEF Saved
  <2> HIDE DEF p
  <2>4. (ElectionTypeOK /\ PersistentDomains)'
    BY <2>1, <2>2, SMTT(60) DEF DiskInv, ElectionTypeOK, PersistentDomains
  <2>5. PersistentState(i)' = p
    <3>1. /\ currentTerm'[i] = p.currentTerm /\ votedFor'[i] = p.votedFor /\ log'[i] = p.log
          /\ lastIncludedIndex'[i] = p.lastIncludedIndex
          /\ lastIncludedTerm'[i] = p.lastIncludedTerm /\ snapshot'[i] = p.snapshot
      BY <2>1, SMTT(60) DEF DiskInv, ElectionTypeOK, PersistentDomains
    <3> QED
      BY <2>3, <3>1, ZenonT(60) DEF PersistentState
  <2>6. \A k \in Server \ {i} : PersistentState(k)' = PersistentState(k)
    BY <2>1, OthersKept, ZenonT(60)
  <2> QED
    BY <2>1, <2>4, <2>5, <2>6, PersistedKept, ZenonT(60) DEF DiskInv
<1> QED
  BY <1>1, <1>2, <1>3, <1>4, <1>5, <1>6, <1>7, <1>8, <1>9, <1>10, <1>11, <1>12,
     <1>13, <1>14, <1>15, <1>16, <1>17, ZenonT(60) DEF Next, ticker,
     appendMissingEntriesOnAll

-----------------------------------------------------------------------------
(* Sequences.                                                              *)

\* What is a sequence of anything is a sequence of its elements.
LEMMA SequenceIs ==
    ASSUME NEW S, NEW s \in Seq(S)
    PROVE  IsSequence(s) /\ Len(s) \in Nat
  BY DEF IsSequence

\* A service that has received nothing.
LEMMA NothingReceived == IsSequence(<<>>) /\ Len(<<>>) = -1 + 1
  BY DEF IsSequence

\* A channel with one message.
LEMMA OneMessage == \A m : <<m>> # <<>> /\ Head(<<m>>) = m
  OBVIOUS

\* Receiving one command makes the service one longer.
LEMMA OneMore ==
    ASSUME NEW s, IsSequence(s), NEW x
    PROVE  IsSequence(s \o <<x>>) /\ Len(s \o <<x>>) = Len(s) + 1 /\ Len(s) \in Nat
<1> DEFINE T == {s[k] : k \in DOMAIN s} \cup {x}
<1>1. s \in Seq(T) /\ <<x>> \in Seq(T)
  BY DEF IsSequence
<1> HIDE DEF T
<1>2. s \o <<x>> \in Seq(T) /\ Len(s \o <<x>>) = Len(s) + 1 /\ Len(s) \in Nat
  BY <1>1
<1> QED
  BY <1>2, SequenceIs, Zenon

-----------------------------------------------------------------------------
(* Every step keeps the invariant.                                         *)

serviceVars ==
    <<service, applyCh, lastApplied, snapshotInstalled, lastIncludedIndex, snapshot>>

NoNewSnapshot == \A m \in net' : m.type = "InstallSnapshot" => m \in net

\* A step that changes no snapshot and nothing of the service keeps it.
LEMMA ServiceStutter ==
    ServiceInv /\ UNCHANGED serviceVars /\ NoNewSnapshot => ServiceInv'
<1> SUFFICES ASSUME ServiceInv, UNCHANGED serviceVars, NoNewSnapshot PROVE ServiceInv'
  OBVIOUS
<1>1. SentSnapshots'
  BY DEF NoNewSnapshot, ServiceInv, SentSnapshots
<1>2. KeptSnapshots' /\ ServiceDomains'
  BY Zenon DEF serviceVars, ServiceInv, KeptSnapshots, ServiceDomains
<1>3. ASSUME NEW i \in Server
      PROVE  IsSequence(service'[i]) /\ lastApplied'[i] \in Int /\ ServedSoFar(i)'
  BY DEF serviceVars, ServiceInv, ServedSoFar
<1> QED
  BY <1>1, <1>2, <1>3 DEF ServiceInv

\* Elections and replication change no snapshot and nothing of the service.
LEMMA ServiceQuiet ==
    ASSUME DiskInv, NEW i \in Server,
           \/ election(i) \/ becomeLeader(i) \/ Start(i) \/ advanceCommitIndex(i)
    PROVE  UNCHANGED serviceVars /\ NoNewSnapshot
<1>1. UNCHANGED serviceVars
  BY ZenonT(60) DEF election, becomeLeader, Start, advanceCommitIndex, serviceVars,
     logVars, applyVars
<1>2. NoNewSnapshot
  <2>1. CASE election(i)
    BY <2>1 DEF election, Send, RequestVoteArgs, NoNewSnapshot
  <2>2. CASE becomeLeader(i) \/ Start(i) \/ advanceCommitIndex(i)
    BY <2>2, ZenonT(60) DEF becomeLeader, Start, advanceCommitIndex, NoNewSnapshot
  <2> QED
    BY <2>1, <2>2, ZenonT(30)
<1> QED
  BY <1>1, <1>2

\* So does handling any message but a new snapshot.
LEMMA ServiceQuietMessage ==
    ASSUME DiskInv, NEW m \in net,
           \/ RequestVote(m) \/ requestVoteReply(m) \/ AppendEntries(m)
           \/ handleAppendReply(m) \/ installSnapshotReply(m) \/ LoseMessage(m)
           \/ InstallSnapshot(m) /\ ~snapshotIsNew(m)
    PROVE  UNCHANGED serviceVars /\ NoNewSnapshot
<1>1. UNCHANGED serviceVars
  <2>1. CASE InstallSnapshot(m) /\ ~snapshotIsNew(m)
    BY <2>1, ZenonT(60) DEF InstallSnapshot, serviceVars, logVars, applyVars
  <2>2. CASE AppendEntries(m)
    BY <2>2, ZenonT(60) DEF AppendEntries, serviceVars, applyVars
  <2>3. CASE \/ RequestVote(m) \/ requestVoteReply(m) \/ handleAppendReply(m)
             \/ installSnapshotReply(m) \/ LoseMessage(m)
    BY <2>3, ZenonT(60) DEF RequestVote, requestVoteReply, handleAppendReply,
       installSnapshotReply, LoseMessage, serviceVars, logVars, applyVars
  <2> QED
    BY <2>1, <2>2, <2>3
<1>2. NoNewSnapshot
  <2>1. CASE requestVoteReply(m) \/ handleAppendReply(m) \/ installSnapshotReply(m)
             \/ LoseMessage(m)
    BY <2>1, ZenonT(60) DEF requestVoteReply, handleAppendReply, installSnapshotReply,
       LoseMessage, Consume, NoNewSnapshot
  <2>2. ASSUME NEW r, Reply(m, r), r.type # "InstallSnapshot" PROVE NoNewSnapshot
    BY <2>2, ZenonT(60) DEF Reply, NoNewSnapshot
  <2>3. CASE RequestVote(m)
    BY <2>2, <2>3 DEF RequestVote
  <2>4. CASE AppendEntries(m)
    <3>1. \A b, info : AppendEntriesReply(m, b, info).type # "InstallSnapshot"
      BY Zenon DEF AppendEntriesReply
    <3> QED
      BY <2>2, <2>4, <3>1, ZenonT(60) DEF AppendEntries
  <2>5. CASE InstallSnapshot(m)
    BY <2>2, <2>5, Zenon DEF InstallSnapshot
  <2> QED
    BY <2>1, <2>3, <2>4, <2>5
<1> QED
  BY <1>1, <1>2

\* InstallSnapshot carries the snapshot the leader keeps.
LEMMA ServiceSend ==
    ASSUME DiskInv, ServiceInv, NEW i \in Server, NEW j \in Server,
           appendMissingEntries(i, j)
    PROVE  ServiceInv'
<1>1. UNCHANGED serviceVars
  BY ZenonT(60) DEF appendMissingEntries, serviceVars, logVars, applyVars
<1>2. ASSUME NEW m \in net', m.type = "InstallSnapshot", m \notin net
      PROVE  m.Snapshot = snapshot[i] /\ m.LastIncludedIndex = lastIncludedIndex[i]
  <2>1. AppendEntriesArgs(i, j).type = "AppendEntries"
    BY DEF AppendEntriesArgs
  <2>2. m = AppendEntriesArgs(i, j) \/ m = InstallSnapshotArgs(i, j)
    BY <1>2, ZenonT(60) DEF appendMissingEntries, Send
  <2>3. m = InstallSnapshotArgs(i, j)
    BY <1>2, <2>1, <2>2, Zenon
  <2> QED
    BY <2>3, Zenon DEF InstallSnapshotArgs
<1>3. SentSnapshots'
  BY <1>2, SMTT(60) DEF ServiceInv, SentSnapshots, KeptSnapshots
<1>4. KeptSnapshots' /\ ServiceDomains'
  BY <1>1, ZenonT(30) DEF serviceVars, ServiceInv, KeptSnapshots, ServiceDomains
<1>5. ASSUME NEW k \in Server
      PROVE  IsSequence(service'[k]) /\ lastApplied'[k] \in Int /\ ServedSoFar(k)'
  BY <1>1, Zenon DEF serviceVars, ServiceInv, ServedSoFar
<1> QED
  BY <1>3, <1>4, <1>5 DEF ServiceInv

\* The service hands over as many commands as the index it says.
LEMMA ServiceSnapshot ==
    ASSUME DiskInv, ServiceInv, NEW i \in Server, Snapshot(i)
    PROVE  ServiceInv'
<1>1. /\ UNCHANGED <<service, applyCh, lastApplied, snapshotInstalled, net>>
      /\ snapshot' = [snapshot EXCEPT ![i] = service[i]]
      /\ lastIncludedIndex' = [lastIncludedIndex EXCEPT ![i] = Len(service[i]) - 1]
  BY ZenonT(60) DEF Snapshot, applyVars
<1>2. EndsAt(service[i], Len(service[i]) - 1)
  <2>1. IsSequence(service[i])
    BY DEF ServiceInv
  <2>2. Len(service[i]) \in Nat
    BY <2>1, SequenceIs, Zenon DEF IsSequence
  <2> QED
    BY <2>1, <2>2 DEF EndsAt
<1>3. KeptSnapshots'
  BY <1>1, <1>2, Zenon DEF ServiceInv, KeptSnapshots, DiskInv, PersistentDomains
<1>4. SentSnapshots' /\ ServiceDomains'
  BY <1>1, ZenonT(30) DEF ServiceInv, SentSnapshots, ServiceDomains
<1>5. ASSUME NEW k \in Server
      PROVE  IsSequence(service'[k]) /\ lastApplied'[k] \in Int /\ ServedSoFar(k)'
  BY <1>1, Zenon DEF ServiceInv, ServedSoFar
<1> QED
  BY <1>3, <1>4, <1>5 DEF ServiceInv

\* apply sends the next command after those the service has, or the snapshot.
LEMMA ServiceApply ==
    ASSUME DiskInv, ServiceInv, NEW i \in Server, apply(i)
    PROVE  ServiceInv'
<1>1. /\ UNCHANGED <<service, lastIncludedIndex, snapshot, net>>
      /\ applyCh[i] = <<>>
      /\ applySnapshot(i) \/ applyCommand(i)
  BY ZenonT(60) DEF apply, logVars
<1>2. SentSnapshots' /\ KeptSnapshots' /\ ServiceDomains'
  BY <1>1, Zenon DEF ServiceInv, SentSnapshots, KeptSnapshots, ServiceDomains, applySnapshot,
     applyCommand
<1>3. /\ IsSequence(service[i]) /\ lastApplied[i] \in Int /\ ServedSoFar(i)
      /\ EndsAt(snapshot[i], lastIncludedIndex[i])
  BY DEF ServiceInv, KeptSnapshots
<1>4. lastApplied'[i] \in Int /\ ServedSoFar(i)'
  <2>1. CASE applySnapshot(i)
    <3> DEFINE m == [valid |-> "Snapshot", Index |-> lastIncludedIndex[i] + 1,
                     Data |-> snapshot[i]]
    <3>1. lastApplied'[i] = lastIncludedIndex[i] /\ applyCh'[i] = <<m>>
      BY <2>1 DEF applySnapshot, ServiceInv, ServiceDomains
    <3>2. m.valid = "Snapshot" /\ m.Index = lastIncludedIndex[i] + 1 /\ m.Data = snapshot[i]
      BY Zenon
    <3> HIDE DEF m
    <3>3. applyCh'[i] # <<>> /\ Head(applyCh'[i]) = m
      BY <3>1, OneMessage, Zenon
    <3>4. lastApplied'[i] \in Int
      BY <3>1, <1>3, Zenon DEF EndsAt
    <3> QED
      BY <1>3, <3>1, <3>2, <3>3, <3>4, Zenon DEF ServedSoFar
  <2>2. CASE applyCommand(i)
    <3> DEFINE c == logCommand(i, lastApplied[i] + 1)
    <3>1. /\ lastApplied'[i] = lastApplied[i] + 1
          /\ applyCh'[i] = <<[valid |-> "Command", Index |-> lastApplied[i] + 2,
                              Data |-> <<c>>]>>
          /\ Len(service[i]) = lastApplied[i] + 1
      BY <1>1, <1>3, <2>2, ZenonT(30) DEF applyCommand, ServiceInv, ServiceDomains, ServedSoFar
    <3> HIDE DEF c
    <3>2. /\ applyCh'[i] # <<>> /\ Head(applyCh'[i]).valid = "Command"
          /\ Head(applyCh'[i]).Index = lastApplied[i] + 2
          /\ Head(applyCh'[i]).Data = <<c>>
      BY <3>1
    <3>3. Head(applyCh'[i]).Data = <<Head(applyCh'[i]).Data[1]>>
      BY <3>2
    <3>4. /\ Len(service'[i]) = lastApplied'[i] /\ lastApplied'[i] \in Int
          /\ Head(applyCh'[i]).Index = lastApplied'[i] + 1
      BY <1>1, <1>3, <3>1, <3>2
    <3> QED
      BY <3>2, <3>3, <3>4, Zenon DEF ServedSoFar
  <2> QED
    BY <1>1, <2>1, <2>2, ZenonT(30)
<1>5. ASSUME NEW k \in Server
      PROVE  IsSequence(service'[k]) /\ lastApplied'[k] \in Int /\ ServedSoFar(k)'
  <2>1. CASE k = i
    BY <1>1, <1>3, <1>4, <2>1, Zenon
  <2>2. CASE k # i
    BY <1>1, <2>2, ZenonT(30) DEF ServiceInv, ServiceDomains, ServedSoFar, applySnapshot, applyCommand
  <2> QED
    BY <2>1, <2>2
<1> QED
  BY <1>2, <1>5 DEF ServiceInv

\* With the message that was sent, the service holds what is applied.
LEMMA ServiceReceives ==
    ASSUME DiskInv, ServiceInv, NEW i \in Server, serviceReceive(i)
    PROVE  ServiceInv'
<1> DEFINE m == Head(applyCh[i])
<1>1. /\ UNCHANGED <<lastApplied, snapshotInstalled, lastIncludedIndex, snapshot, net>>
      /\ applyCh[i] # <<>>
      /\ applyCh' = [applyCh EXCEPT ![i] = <<>>]
      /\ service' = [service EXCEPT ![i] = IF m.valid = "Snapshot" THEN m.Data
                                           ELSE service[i] \o m.Data]
  BY ZenonT(60) DEF serviceReceive, logVars
<1>2. SentSnapshots' /\ KeptSnapshots' /\ ServiceDomains'
  BY <1>1, Zenon DEF ServiceInv, SentSnapshots, KeptSnapshots, ServiceDomains
<1>3. /\ IsSequence(service[i]) /\ lastApplied[i] \in Int /\ ServedSoFar(i)
      /\ DOMAIN service = Server /\ DOMAIN applyCh = Server
  BY DEF ServiceInv, ServiceDomains
<1>4. IsSequence(service'[i]) /\ Len(service'[i]) = lastApplied[i] + 1
  <2>1. CASE m.valid = "Snapshot"
    BY <1>1, <1>3, <2>1, Zenon DEF ServedSoFar, EndsAt
  <2>2. CASE m.valid # "Snapshot"
    <3>1. /\ service'[i] = service[i] \o m.Data
          /\ Len(service[i]) = lastApplied[i] /\ m.Data = <<m.Data[1]>>
      BY <1>1, <1>3, <2>2, Zenon DEF ServedSoFar
    <3>2. service'[i] = service[i] \o <<m.Data[1]>>
      BY <3>1, Zenon
    <3> HIDE DEF m
    <3>3. /\ IsSequence(service[i] \o <<m.Data[1]>>)
          /\ Len(service[i] \o <<m.Data[1]>>) = Len(service[i]) + 1
      BY <1>3, OneMore, ZenonT(30)
    <3> QED
      BY <3>1, <3>2, <3>3, Zenon
  <2> QED
    BY <2>1, <2>2, Zenon
<1>5. ASSUME NEW k \in Server
      PROVE  IsSequence(service'[k]) /\ lastApplied'[k] \in Int /\ ServedSoFar(k)'
  <2>1. CASE k = i
    BY <1>1, <1>3, <1>4, <2>1, Zenon DEF ServedSoFar
  <2>2. CASE k # i
    <3>1. service'[k] = service[k] /\ applyCh'[k] = applyCh[k]
      BY <1>1, <1>3, <2>2, Zenon
    <3> QED
      BY <1>1, <3>1, Zenon DEF ServiceInv, ServedSoFar
  <2> QED
    BY <2>1, <2>2
<1> QED
  BY <1>2, <1>5 DEF ServiceInv

\* A snapshot that is installed ends where its index says; the service gets it
\* before any other message, whatever it holds meanwhile.
LEMMA ServiceInstall ==
    ASSUME DiskInv, ServiceInv, NEW m \in net, InstallSnapshot(m), snapshotIsNew(m)
    PROVE  ServiceInv'
<1> DEFINE i == m.dst
<1>1. /\ UNCHANGED <<lastApplied, applyCh, service>>
      /\ snapshot' = [snapshot EXCEPT ![i] = m.Snapshot]
      /\ lastIncludedIndex' = [lastIncludedIndex EXCEPT ![i] = m.LastIncludedIndex]
      /\ snapshotInstalled' = [snapshotInstalled EXCEPT ![i] = TRUE]
      /\ m.type = "InstallSnapshot"
  BY ZenonT(60) DEF InstallSnapshot
<1>2. NoNewSnapshot
  <2> DEFINE r == [type |-> "InstallSnapshotReply", src |-> i, dst |-> m.src,
                   call |-> m.call, Term |-> termAfter(i, m.Term)]
  <2>1. Reply(m, r) /\ r.type # "InstallSnapshot"
    BY ZenonT(60) DEF InstallSnapshot
  <2> QED
    BY <2>1, ZenonT(60) DEF Reply, NoNewSnapshot
<1>3. EndsAt(m.Snapshot, m.LastIncludedIndex)
  BY <1>1 DEF ServiceInv, SentSnapshots
<1>4. KeptSnapshots'
  BY <1>1, <1>3 DEF ServiceInv, KeptSnapshots, DiskInv, PersistentDomains
<1>5. SentSnapshots' /\ ServiceDomains'
  BY <1>1, <1>2, Zenon DEF ServiceInv, SentSnapshots, ServiceDomains, NoNewSnapshot
<1>6. ASSUME NEW k \in Server
      PROVE  IsSequence(service'[k]) /\ lastApplied'[k] \in Int /\ ServedSoFar(k)'
  <2>1. snapshotInstalled[k] => snapshotInstalled'[k]
    BY <1>1, Zenon DEF ServiceInv, ServiceDomains
  <2> QED
    BY <1>1, <2>1, Zenon DEF ServiceInv, ServedSoFar
<1> QED
  BY <1>4, <1>5, <1>6 DEF ServiceInv

\* After a restart the service is empty, as many commands as are applied,
\* unless there is a snapshot on disk; then it gets that first.
LEMMA ServiceRestart ==
    ASSUME DiskInv, ServiceInv, NEW i \in Server, NEW stoppedOn \in SUBSET net, NEW t \in Nat,
           Make(i, stoppedOn, t)
    PROVE  ServiceInv'
<1>1. persisted[i].snapshot = snapshot[i] /\ persisted[i].lastIncludedIndex = lastIncludedIndex[i]
  <2>1. persisted[i] = PersistentState(i)
    BY DEF DiskInv, PersistedCurrent
  <2> QED
    BY <2>1 DEF PersistentState
<1>2. /\ lastIncludedIndex' = [lastIncludedIndex EXCEPT ![i] = lastIncludedIndex[i]]
      /\ snapshot' = [snapshot EXCEPT ![i] = snapshot[i]]
      /\ snapshotInstalled' = [snapshotInstalled EXCEPT ![i] = (snapshot[i] # <<>>)]
      /\ lastApplied' = [lastApplied EXCEPT ![i] = lastIncludedIndex[i]]
      /\ applyCh' = [applyCh EXCEPT ![i] = <<>>]
      /\ service' = [service EXCEPT ![i] = <<>>]
      /\ net' \subseteq net
  <2>1. /\ Saved(i, t).snapshot = snapshot[i]
        /\ Saved(i, t).lastIncludedIndex = lastIncludedIndex[i]
    BY <1>1, Zenon DEF Saved
  <2> QED
    BY <2>1, ZenonT(60) DEF Make, snapshotToApply
<1>3. EndsAt(snapshot[i], lastIncludedIndex[i])
  BY DEF ServiceInv, KeptSnapshots
<1>4. \A k \in Server : /\ lastIncludedIndex'[k] = lastIncludedIndex[k]
                        /\ snapshot'[k] = snapshot[k]
  BY <1>2 DEF DiskInv, PersistentDomains
<1>5. SentSnapshots' /\ KeptSnapshots' /\ ServiceDomains'
  BY <1>2, <1>4 DEF ServiceInv, SentSnapshots, KeptSnapshots, ServiceDomains
<1>6. ASSUME NEW k \in Server
      PROVE  IsSequence(service'[k]) /\ lastApplied'[k] \in Int /\ ServedSoFar(k)'
  <2>1. CASE k = i
    <3>1. /\ service'[i] = <<>> /\ applyCh'[i] = <<>>
          /\ lastApplied'[i] = lastIncludedIndex[i]
          /\ snapshotInstalled'[i] = (snapshot[i] # <<>>)
      BY <1>2, Zenon DEF ServiceInv, ServiceDomains
    <3>2. lastIncludedIndex[i] \in Int /\ Len(snapshot[i]) = lastIncludedIndex[i] + 1
      BY <1>3 DEF EndsAt
    <3>3. snapshot[i] = <<>> => lastIncludedIndex[i] = -1
      BY <3>2
    <3>4. IsSequence(<<>>)
      BY NothingReceived, Zenon
    <3> QED
      BY <2>1, <3>1, <3>2, <3>3, <3>4, Zenon DEF ServedSoFar
  <2>2. CASE k # i
    BY <1>2, <2>2 DEF ServiceInv, ServiceDomains, ServedSoFar
  <2> QED
    BY <2>1, <2>2
<1> QED
  BY <1>5, <1>6, Zenon DEF ServiceInv

\* At the start there is no snapshot, and nothing is applied.
LEMMA ServiceInvInit == Init => ServiceInv
<1> SUFFICES ASSUME Init PROVE ServiceInv
  OBVIOUS
<1>1. IsSequence(<<>>) /\ EndsAt(<<>>, -1)
  BY DEF IsSequence, EndsAt
<1> QED
  <2>1. /\ service = [i \in Server |-> <<>>] /\ applyCh = [i \in Server |-> <<>>]
        /\ lastApplied = [i \in Server |-> -1]
        /\ snapshotInstalled = [i \in Server |-> FALSE]
        /\ snapshot = [i \in Server |-> <<>>] /\ lastIncludedIndex = [i \in Server |-> -1]
        /\ net = {}
    BY Zenon DEF Init
  <2>2. SentSnapshots /\ KeptSnapshots /\ ServiceDomains
    BY <1>1, <2>1, ZenonT(60) DEF SentSnapshots, KeptSnapshots, ServiceDomains
  <2>3. \A i \in Server : lastApplied[i] = -1 /\ applyCh[i] = <<>> /\ service[i] = <<>>
    BY <2>1, ZenonT(30)
  <2>4. \A i \in Server : ServedSoFar(i)
    BY <2>3, NothingReceived, Zenon DEF ServedSoFar
  <2>5. -1 \in Int
    OBVIOUS
  <2> QED
    BY <1>1, <2>2, <2>3, <2>4, <2>5, ZenonT(60) DEF ServiceInv

\* Every step of the peers and of the network keeps the service invariant.
LEMMA ServiceInvNext == DiskInv /\ ServiceInv /\ [Next]_vars => ServiceInv'
<1> SUFFICES ASSUME DiskInv, ServiceInv, [Next]_vars PROVE ServiceInv'
  OBVIOUS
<1>1. CASE UNCHANGED vars
  <2>1. UNCHANGED serviceVars /\ NoNewSnapshot
    BY <1>1, ZenonT(60) DEF vars, serviceVars, applyVars, logVars, NoNewSnapshot
  <2> QED
    BY <2>1, ServiceStutter
<1>2. ASSUME NEW i \in Server,
             \/ election(i) \/ becomeLeader(i) \/ Start(i) \/ advanceCommitIndex(i)
      PROVE  ServiceInv'
  BY <1>2, ServiceQuiet, ServiceStutter, Zenon
<1>3. ASSUME NEW i \in Server, Snapshot(i) \/ apply(i) \/ serviceReceive(i)
      PROVE  ServiceInv'
  BY <1>3, ServiceSnapshot, ServiceApply, ServiceReceives, Zenon
<1>4. ASSUME NEW i \in Server, NEW j \in Server, appendMissingEntries(i, j)
      PROVE  ServiceInv'
  BY <1>4, ServiceSend, Zenon
<1>5. ASSUME NEW i \in Server, NEW stoppedOn \in SUBSET net, NEW t \in Nat,
             Make(i, stoppedOn, t)
      PROVE  ServiceInv'
  BY <1>5, ServiceRestart, Zenon
<1>6. ASSUME NEW m \in net,
             \/ RequestVote(m) \/ requestVoteReply(m) \/ AppendEntries(m)
             \/ handleAppendReply(m) \/ InstallSnapshot(m) \/ installSnapshotReply(m)
             \/ LoseMessage(m)
      PROVE  ServiceInv'
  BY <1>6, ServiceQuietMessage, ServiceStutter, ServiceInstall, Zenon
<1>7. ASSUME NEW m \in net PROVE m.dst \in Server /\ m.Term \in Nat
  BY <1>7, Zenon DEF DiskInv, ElectionTypeOK, MessageOK
<1> QED
  BY <1>1, <1>2, <1>3, <1>4, <1>5, <1>6, <1>7, ZenonT(60) DEF Next, ticker,
     appendMissingEntriesOnAll

-----------------------------------------------------------------------------
(* Votes.                                                                  *)

\* The term and the vote that a restart reads are those the peer had in
\* memory.
LEMMA PersistedTerm ==
    DiskInv => \A i \in Server : /\ persisted[i].currentTerm = currentTerm[i]
                                 /\ persisted[i].votedFor = votedFor[i]
<1> SUFFICES ASSUME DiskInv, NEW i \in Server
             PROVE  /\ persisted[i].currentTerm = currentTerm[i]
                    /\ persisted[i].votedFor = votedFor[i]
  OBVIOUS
<1>1. persisted[i] = PersistentState(i)
  BY DEF DiskInv, PersistedCurrent
<1> QED
  BY <1>1 DEF PersistentState

\* A step that at i sets the term to t and the vote to v, and raises the term
\* unless it keeps a vote, keeps the votes.
LEMMA VotesKeptAt ==
    ASSUME DiskInv, NEW i \in Server, NEW t \in Nat, NEW v,
           currentTerm' = [currentTerm EXCEPT ![i] = t],
           votedFor' = [votedFor EXCEPT ![i] = v],
           t >= currentTerm[i],
           t = currentTerm[i] /\ votedFor[i] \in Server => v = votedFor[i]
    PROVE  VotesKept
<1>1. currentTerm \in [Server -> Nat] /\ DOMAIN votedFor = Server
  BY Zenon DEF DiskInv, ElectionTypeOK
<1> QED
  BY <1>1 DEF VotesKept

\* handleHigherTerm raises the term or leaves term, vote and state alone.
LEMMA AfterHigherTerm ==
    ASSUME DiskInv, NEW i \in Server, NEW t \in Nat
    PROVE  /\ currentTerm[i] \in Nat /\ termAfter(i, t) \in Nat
           /\ termAfter(i, t) >= currentTerm[i]
           /\ termAfter(i, t) = currentTerm[i] =>
                 votedForAfter(i, t) = votedFor[i] /\ stateAfter(i, t) = state[i]
           /\ termAfter(i, t) # currentTerm[i] => stateAfter(i, t) = "FOLLOWER"
<1>1. currentTerm[i] \in Nat
  BY DEF DiskInv, ElectionTypeOK
<1> QED
  BY <1>1, SMTT(30) DEF termAfter, votedForAfter, stateAfter

\* A term that is not lower is the term afterwards.
LEMMA AtLeastTerm ==
    ASSUME DiskInv, NEW i \in Server, NEW t \in Nat, t >= currentTerm[i]
    PROVE  termAfter(i, t) = t
<1>1. currentTerm[i] \in Nat
  BY DEF DiskInv, ElectionTypeOK
<1> QED
  BY <1>1, SMTT(30) DEF termAfter

\* Votes are counted for the term in which they were cast when a step leaves
\* alone, at every peer that is then a candidate or a leader, its term, its
\* state and its votes.
LEMMA CountsKept ==
    ASSUME \A k \in Server : Active(k)' =>
              /\ Active(k) /\ currentTerm'[k] = currentTerm[k]
              /\ votesGranted'[k] \subseteq votesGranted[k]
    PROVE  VotesCounted
  BY Zenon DEF VotesCounted, CountedFrom

\* So it is when only i changes, and keeps its state with its term.
LEMMA CountsKeptAt ==
    ASSUME DiskInv, NEW i \in Server, NEW t, NEW s,
           currentTerm' = [currentTerm EXCEPT ![i] = t],
           state' = [state EXCEPT ![i] = s],
           s = "FOLLOWER" \/ (t = currentTerm[i] /\ s = state[i]),
           UNCHANGED votesGranted
    PROVE  VotesCounted
<1>1. DOMAIN currentTerm = Server /\ DOMAIN state = Server
  BY DEF DiskInv, ElectionTypeOK
<1>2. ASSUME NEW k \in Server, Active(k)'
      PROVE  Active(k) /\ currentTerm'[k] = currentTerm[k]
  <2>1. state'[k] # "FOLLOWER"
    BY <1>2 DEF Active
  <2>2. state'[k] = state[k] /\ currentTerm'[k] = currentTerm[k]
    BY <1>1, <2>1
  <2> QED
    BY <1>2, <2>2 DEF Active
<1> QED
  BY <1>2, CountsKept, Zenon

\* A step that only raises a term touches no vote.
LEMMA QuietStep ==
    ASSUME DiskInv, NEW i \in Server, NEW t \in Nat, handleHigherTerm(i, t),
           UNCHANGED votesGranted, \A r \in net' : Grant(r) => r \in net
    PROVE  VoteStep
<1>1. /\ currentTerm' = [currentTerm EXCEPT ![i] = termAfter(i, t)]
      /\ votedFor' = [votedFor EXCEPT ![i] = votedForAfter(i, t)]
      /\ state' = [state EXCEPT ![i] = stateAfter(i, t)]
  BY Zenon DEF handleHigherTerm
<1>2. VotesKept
  BY <1>1, AfterHigherTerm, VotesKeptAt, Zenon
<1>3. VotesCounted
  BY <1>1, AfterHigherTerm, CountsKeptAt, Zenon
<1> QED
  BY <1>2, <1>3, Zenon DEF VoteStep, VotesCast

\* A step that changes no term, vote or state, and sends no vote, touches none.
LEMMA StillStep ==
    ASSUME DiskInv, UNCHANGED <<termVars, votesGranted>>,
           \A r \in net' : Grant(r) => r \in net
    PROVE  VoteStep
<1>1. UNCHANGED <<currentTerm, votedFor, state, votesGranted>>
  BY Zenon DEF termVars
<1>2. \A q \in Server : currentTerm[q] \in Nat
  BY DEF DiskInv, ElectionTypeOK
<1>3. VotesKept
  BY <1>1, <1>2 DEF VotesKept
<1>4. VotesCounted
  BY <1>1, CountsKept, Zenon DEF Active
<1> QED
  BY <1>3, <1>4, Zenon DEF VoteStep, VotesCast

\* Handling a snapshot, or the reply to one or to an append, is such a step.
LEMMA QuietHandlers ==
    ASSUME DiskInv, NEW m \in net,
           handleAppendReply(m) \/ InstallSnapshot(m) \/ installSnapshotReply(m)
    PROVE  VoteStep
<1>1. m.dst \in Server /\ m.Term \in Nat
  BY DEF DiskInv, ElectionTypeOK, MessageOK
<1>2. handleHigherTerm(m.dst, m.Term) /\ UNCHANGED votesGranted
  BY ZenonT(60) DEF handleAppendReply, InstallSnapshot, installSnapshotReply
<1>3. \A r \in net' : Grant(r) => r \in net
  <2>1. CASE handleAppendReply(m) \/ installSnapshotReply(m)
    BY <2>1, ZenonT(60) DEF handleAppendReply, installSnapshotReply, Consume
  <2>2. CASE InstallSnapshot(m)
    <3> DEFINE reply == [type |-> "InstallSnapshotReply", src |-> m.dst, dst |-> m.src,
                         call |-> m.call, Term |-> termAfter(m.dst, m.Term)]
    <3>1. Reply(m, reply)
      BY <2>2, Zenon DEF InstallSnapshot
    <3>2. ~Grant(reply)
      BY DEF Grant
    <3> HIDE DEF reply
    <3> QED
      BY <3>1, <3>2, Zenon DEF Reply
  <2> QED
    BY <2>1, <2>2
<1> QED
  BY <1>1, <1>2, <1>3, QuietStep, Zenon

\* A candidate votes for itself in a new term.
LEMMA ElectionVotes == ASSUME DiskInv, NEW i \in Server, election(i) PROVE VoteStep
<1>1. /\ currentTerm' = [currentTerm EXCEPT ![i] = currentTerm[i] + 1]
      /\ votedFor' = [votedFor EXCEPT ![i] = i]
      /\ state' = [state EXCEPT ![i] = "CANDIDATE"]
      /\ votesGranted' = [votesGranted EXCEPT ![i] = {i}]
      /\ net' = net \cup {RequestVoteArgs(i, j) : j \in Server \ {i}}
  BY Zenon DEF election, Send
<1>2. /\ currentTerm[i] \in Nat /\ DOMAIN currentTerm = Server /\ DOMAIN votedFor = Server
      /\ DOMAIN state = Server /\ DOMAIN votesGranted = Server
  BY DEF DiskInv, ElectionTypeOK
<1>3. VotesKept
  <2>1. currentTerm[i] + 1 \in Nat /\ currentTerm[i] + 1 >= currentTerm[i]
    BY <1>2
  <2>2. currentTerm[i] + 1 # currentTerm[i]
    BY <1>2
  <2> QED
    BY <1>1, <2>1, <2>2, VotesKeptAt, Zenon
<1>4. ASSUME NEW k \in Server, Active(k)', NEW q \in votesGranted'[k]
      PROVE  CountedFrom(k, q)
  <2>1. CASE k = i
    <3>1. q = k /\ currentTerm'[k] = currentTerm[k] + 1 /\ votedFor'[k] = k
      BY <1>1, <1>2, <1>4, <2>1
    <3> QED
      BY <3>1, Zenon DEF CountedFrom
  <2>2. CASE k # i
    <3>1. /\ state'[k] = state[k] /\ currentTerm'[k] = currentTerm[k]
          /\ votesGranted'[k] = votesGranted[k]
      BY <1>1, <1>2, <2>2, ZenonT(30)
    <3> QED
      BY <1>4, <3>1, Zenon DEF CountedFrom, Active
  <2> QED
    BY <2>1, <2>2
<1>5. \A j : ~Grant(RequestVoteArgs(i, j))
  BY ZenonT(30) DEF RequestVoteArgs, Grant
<1> QED
  BY <1>1, <1>3, <1>4, <1>5, Zenon DEF VoteStep, VotesCounted, VotesCast

\* RequestVote votes at most once in a term.
LEMMA RequestVoteVotes == ASSUME DiskInv, NEW m \in net, RequestVote(m) PROVE VoteStep
<1> DEFINE i == m.dst
           t == m.Term
           v == IF vote(m) THEN m.src ELSE votedForAfter(i, t)
           reply == [type |-> "RequestVoteReply", src |-> i, dst |-> m.src,
                     ArgsTerm |-> t, Term |-> termAfter(i, t), VoteGranted |-> vote(m)]
<1>1. i \in Server /\ t \in Nat /\ m.src \in Server
  BY DEF DiskInv, ElectionTypeOK, MessageOK
<1>2. /\ currentTerm' = [currentTerm EXCEPT ![i] = termAfter(i, t)]
      /\ state' = [state EXCEPT ![i] = stateAfter(i, t)]
      /\ votedFor' = [votedFor EXCEPT ![i] = v]
      /\ Reply(m, reply) /\ UNCHANGED votesGranted
  BY Zenon DEF RequestVote
<1>3. vote(m) => t >= currentTerm[i] /\ votedForAfter(i, t) \in {Nil, m.src}
  BY Zenon DEF vote
<1>4. vote(m) => termAfter(i, t) = t
  BY <1>1, <1>3, AtLeastTerm, Zenon
<1>5. votedFor[i] \in Server /\ termAfter(i, t) = currentTerm[i] => v = votedFor[i]
  <2>1. termAfter(i, t) = currentTerm[i] => votedForAfter(i, t) = votedFor[i]
    BY <1>1, AfterHigherTerm, Zenon
  <2> QED
    BY <1>3, <2>1, NilAssumption, Zenon
<1>6. VotesKept
  <2> HIDE DEF v
  <2> QED
    BY <1>1, <1>2, <1>5, AfterHigherTerm, VotesKeptAt, Zenon
<1>7. VotesCounted
  BY <1>1, <1>2, AfterHigherTerm, CountsKeptAt, Zenon
<1>8. VotesCast
  <2>1. /\ reply.src = i /\ reply.dst = m.src /\ reply.ArgsTerm = t
        /\ Grant(reply) => vote(m)
    BY DEF Grant
  <2>2. ASSUME vote(m)
        PROVE  /\ currentTerm'[i] = t /\ votedFor'[i] = m.src
               /\ \/ currentTerm[i] < t
                  \/ currentTerm[i] = t /\ votedFor[i] \in {Nil, m.src}
    <3>1. DOMAIN currentTerm = Server /\ DOMAIN votedFor = Server /\ currentTerm[i] \in Nat
      BY <1>1 DEF DiskInv, ElectionTypeOK
    <3>2. currentTerm'[i] = t /\ votedFor'[i] = m.src
      BY <1>1, <1>2, <1>4, <2>2, <3>1, ZenonT(30)
    <3>3. currentTerm[i] < t \/ currentTerm[i] = t
      BY <1>1, <1>3, <2>2, <3>1, SMTT(30)
    <3>4. ASSUME currentTerm[i] = t PROVE votedForAfter(i, t) = votedFor[i]
      <4>1. termAfter(i, t) = currentTerm[i]
        BY <1>4, <2>2, <3>4, Zenon
      <4> QED
        BY <1>1, <4>1, AfterHigherTerm, Zenon
    <3> QED
      BY <1>3, <2>2, <3>2, <3>3, <3>4, Zenon
  <2> HIDE DEF reply, i, t
  <2> QED
    BY <1>2, <2>1, <2>2, Zenon DEF VotesCast, Reply
<1> QED
  BY <1>6, <1>7, <1>8, Zenon DEF VoteStep

\* A reply is counted for the candidate that it was sent to.
LEMMA ReplyVotes == ASSUME DiskInv, NEW m \in net, requestVoteReply(m) PROVE VoteStep
<1> DEFINE i == m.dst
           t == m.Term
<1>1. i \in Server /\ t \in Nat /\ m.type = "RequestVoteReply"
  BY Zenon DEF DiskInv, ElectionTypeOK, MessageOK, requestVoteReply
<1>2. /\ currentTerm' = [currentTerm EXCEPT ![i] = termAfter(i, t)]
      /\ votedFor' = [votedFor EXCEPT ![i] = votedForAfter(i, t)]
      /\ state' = [state EXCEPT ![i] = stateAfter(i, t)]
      /\ votesGranted' = [votesGranted EXCEPT ![i] = gatherVotes(i, m)]
      /\ net' = net \ {m}
  BY Zenon DEF requestVoteReply, handleHigherTerm, Consume
<1>3. VotesKept
  BY <1>1, <1>2, AfterHigherTerm, VotesKeptAt, Zenon
<1>4. ASSUME NEW k \in Server, Active(k)', NEW q \in votesGranted'[k]
      PROVE  CountedFrom(k, q)
  <2>1. /\ DOMAIN currentTerm = Server /\ DOMAIN state = Server
        /\ DOMAIN votesGranted = Server
    BY DEF DiskInv, ElectionTypeOK
  <2>2. Active(k) /\ currentTerm'[k] = currentTerm[k]
    <3>1. state'[k] # "FOLLOWER"
      BY <1>4, Zenon DEF Active
    <3>2. state'[k] = state[k] /\ currentTerm'[k] = currentTerm[k]
      <4>1. CASE k = i
        <5>1. state'[i] = stateAfter(i, t) /\ currentTerm'[i] = termAfter(i, t)
          BY <1>1, <1>2, <2>1, Zenon
        <5> QED
          BY <1>1, <3>1, <4>1, <5>1, AfterHigherTerm, Zenon
      <4>2. CASE k # i
        BY <1>2, <2>1, <4>2, Zenon
      <4> QED
        BY <4>1, <4>2, Zenon
    <3> QED
      BY <1>4, <3>2, Zenon DEF Active
  <2>3. \/ q \in votesGranted[k]
        \/ k = i /\ q = m.src /\ m.VoteGranted /\ m.ArgsTerm = currentTerm[k]
    BY <1>1, <1>2, <1>4, <2>1 DEF gatherVotes
  <2> QED
    BY <1>1, <2>2, <2>3, Zenon DEF CountedFrom, Grant
<1> QED
  BY <1>2, <1>3, <1>4, Zenon DEF VoteStep, VotesCounted, VotesCast

\* AppendEntries at most raises a term and makes a candidate a follower.
LEMMA AppendVotes == ASSUME DiskInv, NEW m \in net, AppendEntries(m) PROVE VoteStep
<1> DEFINE i == m.dst
           t == m.Term
<1>1. i \in Server /\ t \in Nat
  BY DEF DiskInv, ElectionTypeOK, MessageOK
<1>2. /\ currentTerm' = [currentTerm EXCEPT ![i] = termAfter(i, t)]
      /\ votedFor' = [votedFor EXCEPT ![i] = votedForAfter(i, t)]
      /\ UNCHANGED votesGranted
  BY Zenon DEF AppendEntries
<1>3. PICK s \in {"FOLLOWER", stateAfter(i, t)} : state' = [state EXCEPT ![i] = s]
  BY ZenonT(60) DEF AppendEntries
<1>4. VotesKept
  BY <1>1, <1>2, AfterHigherTerm, VotesKeptAt, Zenon
<1>5. VotesCounted
  BY <1>1, <1>2, <1>3, AfterHigherTerm, CountsKeptAt, Zenon
<1>6. VotesCast
  <2>1. PICK success, info : Reply(m, AppendEntriesReply(m, success, info))
    BY ZenonT(60) DEF AppendEntries
  <2>2. ~Grant(AppendEntriesReply(m, success, info))
    BY DEF AppendEntriesReply, Grant
  <2> QED
    BY <2>1, <2>2, Zenon DEF Reply, VotesCast
<1> QED
  BY <1>4, <1>5, <1>6, Zenon DEF VoteStep

\* A restarted peer has the term and the vote that it had, or a higher term.
LEMMA RestartVotes ==
    ASSUME DiskInv, NEW i \in Server, NEW stoppedOn, NEW t \in Nat, Make(i, stoppedOn, t)
    PROVE  VoteStep
<1> DEFINE term == Saved(i, t).currentTerm
           vote1 == Saved(i, t).votedFor
<1>1. /\ currentTerm' = [currentTerm EXCEPT ![i] = term]
      /\ votedFor' = [votedFor EXCEPT ![i] = vote1]
      /\ state' = [state EXCEPT ![i] = "FOLLOWER"]
      /\ votesGranted' = [votesGranted EXCEPT ![i] = {}]
      /\ net' \subseteq net
  BY Zenon DEF Make
<1>2. currentTerm[i] \in Nat /\ DOMAIN state = Server /\ DOMAIN currentTerm = Server
  BY Zenon DEF DiskInv, ElectionTypeOK
<1>3. /\ term \in Nat /\ term >= currentTerm[i]
      /\ term = currentTerm[i] => vote1 = votedFor[i]
  <2>1. persisted[i].currentTerm = currentTerm[i] /\ persisted[i].votedFor = votedFor[i]
    BY PersistedTerm, ZenonT(30)
  <2>2. /\ term = IF t > persisted[i].currentTerm THEN t ELSE persisted[i].currentTerm
        /\ vote1 = IF t > persisted[i].currentTerm THEN Nil ELSE persisted[i].votedFor
    BY ZenonT(30) DEF Saved
  <2> HIDE DEF term, vote1
  <2>3. /\ term = IF t > currentTerm[i] THEN t ELSE currentTerm[i]
        /\ vote1 = IF t > currentTerm[i] THEN Nil ELSE votedFor[i]
    BY <2>1, <2>2, Zenon
  <2> QED
    BY <1>2, <2>3, SMTT(30)
<1>4. VotesKept
  <2> HIDE DEF term, vote1
  <2> QED
    BY <1>1, <1>3, VotesKeptAt, Zenon
<1>5. VotesCounted
  <2> HIDE DEF term, vote1
  <2>1. ASSUME NEW k \in Server, Active(k)'
        PROVE  /\ Active(k) /\ currentTerm'[k] = currentTerm[k]
               /\ votesGranted'[k] \subseteq votesGranted[k]
    <3>1. state'[k] # "FOLLOWER"
      BY <2>1 DEF Active
    <3>2. k # i
      BY <1>1, <1>2, <3>1, Zenon
    <3>3. state'[k] = state[k] /\ currentTerm'[k] = currentTerm[k]
      BY <1>1, <1>2, <3>2, Zenon
    <3>4. votesGranted'[k] = votesGranted[k]
      BY <1>1, <3>2 DEF DiskInv, ElectionTypeOK
    <3> QED
      BY <2>1, <3>3, <3>4, Zenon DEF Active
  <2> QED
    BY <2>1, CountsKept, Zenon
<1> QED
  BY <1>1, <1>4, <1>5, Zenon DEF VoteStep, VotesCast

\* election, RequestVote, requestVoteReply and Make are the only steps that
\* touch votes; every other one at most raises a term and drops a message.
LEMMA VoteStepNext == DiskInv /\ [Next]_vars => VoteStep
<1> SUFFICES ASSUME DiskInv, [Next]_vars PROVE VoteStep
  BY Zenon
<1>1. CASE UNCHANGED vars
  BY <1>1, StillStep, Zenon DEF vars
<1>2. ASSUME NEW i \in Server, becomeLeader(i) PROVE VoteStep
  <2>1. /\ UNCHANGED <<currentTerm, votedFor, votesGranted, net>>
        /\ state[i] = "CANDIDATE" /\ state' = [state EXCEPT ![i] = "LEADER"]
    BY <1>2, Zenon DEF becomeLeader
  <2>2. DOMAIN state = Server /\ \A q \in Server : currentTerm[q] \in Nat
    BY DEF DiskInv, ElectionTypeOK
  <2>3. \A k \in Server : Active(k)' => Active(k)
    BY <2>1, <2>2 DEF Active
  <2>4. VotesKept
    BY <2>1, <2>2 DEF VotesKept
  <2>5. VotesCounted
    BY <2>1, <2>3, CountsKept, Zenon
  <2> QED
    BY <2>1, <2>4, <2>5, Zenon DEF VoteStep, VotesCast
<1>3. ASSUME NEW i \in Server,
             Start(i) \/ advanceCommitIndex(i) \/ Snapshot(i) \/ apply(i) \/ serviceReceive(i)
      PROVE  VoteStep
  <2>1. UNCHANGED <<termVars, votesGranted, net>>
    BY <1>3, ZenonT(60) DEF Start, advanceCommitIndex, Snapshot, apply, serviceReceive
  <2> QED
    BY <2>1, StillStep, Zenon
<1>4. ASSUME NEW i \in Server, NEW j \in Server, appendMissingEntries(i, j)
      PROVE  VoteStep
  <2>1. /\ UNCHANGED <<termVars, votesGranted>>
        /\ \A r \in net' : r \in net \/ r = InstallSnapshotArgs(i, j) \/ r = AppendEntriesArgs(i, j)
    BY <1>4, Zenon DEF appendMissingEntries, Send
  <2>2. ~Grant(InstallSnapshotArgs(i, j))
    BY ZenonT(30) DEF InstallSnapshotArgs, Grant
  <2>3. ~Grant(AppendEntriesArgs(i, j))
    BY ZenonT(30) DEF AppendEntriesArgs, Grant
  <2> QED
    BY <2>1, <2>2, <2>3, StillStep, Zenon
<1>5. ASSUME NEW m \in net, LoseMessage(m) PROVE VoteStep
  <2>1. UNCHANGED <<termVars, votesGranted>> /\ net' \subseteq net
    BY <1>5, Zenon DEF LoseMessage, Consume
  <2> QED
    BY <2>1, StillStep, Zenon
<1>6. 0 \in Nat /\ \A m \in net : m.dst \in Server /\ m.Term \in Nat
  BY DEF DiskInv, ElectionTypeOK, MessageOK
<1> QED
  BY <1>1, <1>2, <1>3, <1>4, <1>5, <1>6, ElectionVotes, RequestVoteVotes, ReplyVotes, AppendVotes,
     QuietHandlers, RestartVotes, ZenonT(60) DEF Next, ticker, appendMissingEntriesOnAll

\* Who has voted in a term, or is past it, stays so.
LEMMA VotedKept ==
    ASSUME DiskInv, DiskInv', VoteStep, NEW q \in Server, NEW t \in Nat, NEW s \in Server,
           VotedOrPast(q, t, s)
    PROVE  VotedOrPast(q, t, s)'
<1>1. currentTerm[q] \in Nat /\ currentTerm'[q] \in Nat
  BY DEF DiskInv, ElectionTypeOK
<1>2. /\ currentTerm'[q] >= currentTerm[q]
      /\ currentTerm'[q] = currentTerm[q] /\ votedFor[q] \in Server =>
            votedFor'[q] = votedFor[q]
  BY Zenon DEF VoteStep, VotesKept
<1> QED
  BY <1>1, <1>2, SMTT(30) DEF VotedOrPast

\* A pledge holds for ever.
LEMMA PledgeKept ==
    ASSUME DiskInv, DiskInv', VoteStep, NEW q \in Server, NEW t \in Nat, NEW s \in Server,
           Pledged(q, t, s)
    PROVE  Pledged(q, t, s)'
<1>0. /\ VotedOrPast(q, t, s)
      /\ \A k \in Server : Active(k) /\ currentTerm[k] = t /\ q \in votesGranted[k] => k = s
      /\ \A m \in net : Grant(m) /\ m.src = q /\ m.ArgsTerm = t => m.dst = s
  BY Zenon DEF Pledged
<1>1. VotedOrPast(q, t, s)'
  BY <1>0, VotedKept, Zenon
<1>2. currentTerm[q] \in Nat /\ currentTerm'[q] \in Nat
  BY DEF DiskInv, ElectionTypeOK
<1>3. ASSUME NEW k \in Server, Active(k)', currentTerm'[k] = t, q \in votesGranted'[k]
      PROVE  k = s
  <2>1. CountedFrom(k, q)
    BY <1>3, Zenon DEF VoteStep, VotesCounted
  <2>2. ASSUME q = k, currentTerm'[k] = currentTerm[k] + 1 PROVE FALSE
    BY <1>0, <1>2, <1>3, <2>2 DEF VotedOrPast
  <2> QED
    BY <1>0, <1>3, <2>1, <2>2, Zenon DEF CountedFrom
<1>4. ASSUME NEW m \in net', Grant(m), m.src = q, m.ArgsTerm = t
      PROVE  m.dst = s
  <2>1. CASE m \in net
    BY <1>0, <1>4, <2>1, Zenon
  <2>2. CASE m \notin net
    <3>1. /\ votedFor'[q] = m.dst
          /\ currentTerm[q] < t \/ (currentTerm[q] = t /\ votedFor[q] \in {Nil, m.dst})
      BY <1>4, <2>2, Zenon DEF VoteStep, VotesCast
    <3>2. ~(currentTerm[q] < t) /\ (currentTerm[q] = t => votedFor[q] = s)
      BY <1>0, <1>2 DEF VotedOrPast
    <3> QED
      BY <3>1, <3>2, NilAssumption, Zenon
  <2> QED
    BY <2>1, <2>2
<1> QED
  BY <1>1, <1>3, <1>4, Zenon DEF Pledged, Active, Grant

\* A candidate that starts an election is the only one that has its own vote
\* in the new term.
LEMMA OwnVotePledged ==
    ASSUME ElectionInv, DiskInv', VoteStep, NEW i \in Server, NEW t \in Nat,
           t = currentTerm[i] + 1, currentTerm'[i] = t, votedFor'[i] = i
    PROVE  Pledged(i, t, i)'
<1>0. currentTerm[i] \in Nat /\ VotesPledged
  BY Zenon DEF ElectionInv, DiskInv, ElectionTypeOK
<1>1. \A s \in Server : ~VotedOrPast(i, t, s)
  BY <1>0 DEF VotedOrPast
<1>2. VotedOrPast(i, t, i)'
  BY Zenon DEF VotedOrPast
<1>3. ASSUME NEW k \in Server, Active(k)', currentTerm'[k] = t, i \in votesGranted'[k]
      PROVE  k = i
  <2>1. CountedFrom(k, i)
    BY <1>3, Zenon DEF VoteStep, VotesCounted
  <2>2. ASSUME Active(k), currentTerm'[k] = currentTerm[k], i \in votesGranted[k]
        PROVE  FALSE
    <3>1. Pledged(i, currentTerm[k], k) /\ currentTerm[k] = t
      BY <1>0, <1>3, <2>2, Zenon DEF VotesPledged
    <3> QED
      BY <1>1, <3>1, Zenon DEF Pledged
  <2>3. ASSUME NEW m \in net, Grant(m), m.src = i, m.dst = k, m.ArgsTerm = currentTerm'[k]
        PROVE  FALSE
    <3>1. Pledged(m.src, m.ArgsTerm, m.dst)
      BY <1>0, <2>3, Zenon DEF VotesPledged
    <3> QED
      BY <1>1, <1>3, <2>3, <3>1, Zenon DEF Pledged
  <2> QED
    BY <2>1, <2>2, <2>3, Zenon DEF CountedFrom
<1>4. ASSUME NEW m \in net', Grant(m), m.src = i, m.ArgsTerm = t
      PROVE  m.dst = i
  <2>1. CASE m \in net
    <3>1. Pledged(i, t, m.dst) /\ m.dst \in Server
      BY <1>0, <1>4, <2>1, Zenon DEF VotesPledged, ElectionInv, DiskInv, ElectionTypeOK, MessageOK
    <3> QED
      BY <1>1, <3>1, Zenon DEF Pledged
  <2>2. CASE m \notin net
    BY <1>4, <2>2, Zenon DEF VoteStep, VotesCast
  <2> QED
    BY <2>1, <2>2
<1> QED
  BY <1>2, <1>3, <1>4, Zenon DEF Pledged, Active, Grant

\* A vote cast in a step is for the only candidate that can have it.
LEMMA CastVotePledged ==
    ASSUME ElectionInv, DiskInv', VoteStep, NEW m \in net', Grant(m), m \notin net
    PROVE  Pledged(m.src, m.ArgsTerm, m.dst)'
<1> DEFINE q == m.src
           t == m.ArgsTerm
<1>0. VotesPledged /\ \A k \in Server : currentTerm[k] \in Nat
  BY DEF ElectionInv, DiskInv, ElectionTypeOK
<1>1. q \in Server /\ t \in Nat /\ m.dst \in Server
  BY DEF DiskInv, ElectionTypeOK, MessageOK, Grant
<1>2. /\ currentTerm'[q] = t /\ votedFor'[q] = m.dst
      /\ \/ currentTerm[q] < t
         \/ currentTerm[q] = t /\ votedFor[q] \in {Nil, m.dst}
  BY Zenon DEF VoteStep, VotesCast
<1>3. \A s \in Server : VotedOrPast(q, t, s) => s = m.dst
  <2>1. currentTerm[q] < t => ~(currentTerm[q] > t) /\ currentTerm[q] # t
    BY <1>0, <1>1
  <2>2. currentTerm[q] = t => ~(currentTerm[q] > t)
    BY <1>0, <1>1
  <2> QED
    BY <1>2, <2>1, <2>2, NilAssumption, Zenon DEF VotedOrPast
<1>4. VotedOrPast(q, t, m.dst)'
  BY <1>2, Zenon DEF VotedOrPast
<1>5. ASSUME NEW k \in Server, Active(k)', currentTerm'[k] = t, q \in votesGranted'[k]
      PROVE  k = m.dst
  <2>1. CountedFrom(k, q)
    BY <1>5, Zenon DEF VoteStep, VotesCounted
  <2> QED
    <3>1. CASE Active(k) /\ currentTerm'[k] = currentTerm[k] /\ q \in votesGranted[k]
      <4>0. currentTerm[k] = t
        BY <1>5, <3>1, Zenon
      <4>1. VotedOrPast(q, t, k)
        <5>1. Pledged(q, currentTerm[k], k)
          BY <1>0, <3>1, Zenon DEF VotesPledged
        <5> QED
          BY <4>0, <5>1, Zenon DEF Pledged
      <4> QED
        BY <1>3, <4>1, Zenon
    <3>2. CASE q = k /\ votedFor'[k] = k
      BY <1>2, <3>2, Zenon
    <3>3. CASE \E r \in net : /\ Grant(r) /\ r.src = q /\ r.dst = k
                              /\ r.ArgsTerm = currentTerm'[k]
      <4>1. VotedOrPast(q, t, k)
        <5>1. PICK r \in net : Grant(r) /\ r.src = q /\ r.dst = k /\ r.ArgsTerm = t
          BY <1>5, <3>3, Zenon
        <5>2. Pledged(r.src, r.ArgsTerm, r.dst)
          BY <1>0, <5>1, Zenon DEF VotesPledged
        <5> QED
          BY <5>1, <5>2, Zenon DEF Pledged
      <4> QED
        BY <1>3, <4>1, Zenon
    <3> QED
      BY <2>1, <3>1, <3>2, <3>3, ZenonT(60) DEF CountedFrom
<1>6. ASSUME NEW r \in net', Grant(r), r.src = q, r.ArgsTerm = t
      PROVE  r.dst = m.dst
  <2>1. CASE r \in net
    <3>1. Pledged(q, t, r.dst) /\ r.dst \in Server
      BY <1>0, <1>6, <2>1, Zenon DEF VotesPledged, ElectionInv, DiskInv, ElectionTypeOK, MessageOK
    <3> QED
      BY <1>3, <3>1, Zenon DEF Pledged
  <2>2. CASE r \notin net
    BY <1>2, <1>6, <2>2, ZenonT(30) DEF VoteStep, VotesCast
  <2> QED
    BY <2>1, <2>2
<1> QED
  BY <1>4, <1>5, <1>6, Zenon DEF Pledged, Active, Grant

\* Every vote that a step counts, or sends, was cast for its candidate alone.
LEMMA VotesPledgedNext == ElectionInv /\ [Next]_vars => VotesPledged'
<1> SUFFICES ASSUME ElectionInv, [Next]_vars PROVE VotesPledged'
  OBVIOUS
<1>1. DiskInv /\ DiskInv' /\ VoteStep
  BY DiskInvNext, VoteStepNext, Zenon DEF ElectionInv
<1>2. ASSUME NEW i \in Server, Active(i)', NEW q \in votesGranted'[i]
      PROVE  Pledged(q, currentTerm[i], i)'
  <2>1. PICK t \in Nat : t = currentTerm'[i]
    BY <1>1 DEF DiskInv, ElectionTypeOK
  <2>2. CountedFrom(i, q) /\ q \in Server
    <3>1. q \in Server
      BY <1>1, <1>2 DEF DiskInv, ElectionTypeOK
    <3> QED
      BY <1>1, <1>2, <3>1, Zenon DEF VoteStep, VotesCounted
  <2>3. ASSUME Active(i), currentTerm'[i] = currentTerm[i], q \in votesGranted[i]
        PROVE  Pledged(q, t, i)'
    <3>1. Pledged(q, t, i)
      BY <2>1, <2>3, Zenon DEF ElectionInv, VotesPledged
    <3> QED
      BY <1>1, <2>2, <3>1, PledgeKept, Zenon
  <2>4. ASSUME q = i, currentTerm'[i] = currentTerm[i] + 1, votedFor'[i] = i
        PROVE  Pledged(q, t, i)'
    BY <1>1, <2>1, <2>4, OwnVotePledged, Zenon
  <2>5. ASSUME NEW m \in net, Grant(m), m.src = q, m.dst = i, m.ArgsTerm = currentTerm'[i]
        PROVE  Pledged(q, t, i)'
    <3>1. Pledged(q, t, i)
      BY <2>1, <2>5, Zenon DEF ElectionInv, VotesPledged
    <3> QED
      BY <1>1, <2>2, <3>1, PledgeKept, Zenon
  <2>6. Pledged(q, t, i)'
    BY <2>2, <2>3, <2>4, <2>5, Zenon DEF CountedFrom
  <2> QED
    BY <2>1, <2>6, Zenon
<1>3. ASSUME NEW m \in net', Grant(m) PROVE Pledged(m.src, m.ArgsTerm, m.dst)'
  <2>1. CASE m \notin net
    BY <1>1, <1>3, <2>1, CastVotePledged, Zenon
  <2>2. CASE m \in net
    <3>1. m.src \in Server /\ m.dst \in Server /\ m.ArgsTerm \in Nat
      BY <1>1, <1>3, <2>2 DEF DiskInv, ElectionTypeOK, MessageOK, Grant
    <3>2. Pledged(m.src, m.ArgsTerm, m.dst)
      BY <1>3, <2>2, Zenon DEF ElectionInv, VotesPledged
    <3> QED
      BY <1>1, <3>1, <3>2, PledgeKept, ZenonT(30)
  <2> QED
    BY <2>1, <2>2, Zenon
<1> QED
  BY <1>2, <1>3, Zenon DEF VotesPledged, Active, Grant, Pledged, VotedOrPast

\* A leader has counted a majority, and counts no vote less while it leads.
LEMMA LeaderHasQuorumNext == ElectionInv /\ [Next]_vars => LeaderHasQuorum'
<1> SUFFICES ASSUME ElectionInv, [Next]_vars, NEW i \in Server, state'[i] = "LEADER"
             PROVE  \E Q \in SUBSET votesGranted'[i] : Cardinality(Q) >= majority
  BY SMTT(60) DEF LeaderHasQuorum, majority
<1> DEFINE Leads == state[i] = "LEADER" /\ votesGranted[i] \subseteq votesGranted'[i]
<1>0. /\ DOMAIN state = Server /\ DOMAIN votesGranted = Server
      /\ \A m \in net : m.dst \in Server
  BY DEF ElectionInv, DiskInv, ElectionTypeOK, MessageOK
<1>1. Leads \/ becomeLeader(i)
  <2>1. CASE UNCHANGED vars
    BY <2>1, ZenonT(60) DEF vars, termVars
  <2>2. ASSUME NEW j \in Server, election(j) PROVE Leads
    <3>1. /\ state' = [state EXCEPT ![j] = "CANDIDATE"]
          /\ votesGranted' = [votesGranted EXCEPT ![j] = {j}]
      BY <2>2, Zenon DEF election
    <3> QED
      BY <1>0, <3>1
  <2>3. ASSUME NEW j \in Server, becomeLeader(j), j # i PROVE Leads
    <3>1. state' = [state EXCEPT ![j] = "LEADER"] /\ UNCHANGED votesGranted
      BY <2>3, Zenon DEF becomeLeader
    <3> QED
      BY <1>0, <2>3, <3>1
  <2>4. ASSUME NEW j \in Server,
               \/ Start(j) \/ advanceCommitIndex(j) \/ Snapshot(j) \/ apply(j)
               \/ serviceReceive(j) \/ \E k \in Server : appendMissingEntries(j, k)
        PROVE  Leads
    BY <2>4, ZenonT(60) DEF Start, advanceCommitIndex, Snapshot, apply, serviceReceive,
                appendMissingEntries, termVars
  <2>5. ASSUME NEW m \in net, UNCHANGED votesGranted,
               NEW new \in {"FOLLOWER", stateAfter(m.dst, m.Term)},
               state' = [state EXCEPT ![m.dst] = new]
        PROVE  Leads
    BY <1>0, <2>5, Zenon DEF stateAfter
  <2>6. ASSUME NEW m \in net, requestVoteReply(m) PROVE Leads
    <3>1. /\ state' = [state EXCEPT ![m.dst] = stateAfter(m.dst, m.Term)]
          /\ votesGranted' = [votesGranted EXCEPT ![m.dst] = gatherVotes(m.dst, m)]
      BY <2>6, Zenon DEF requestVoteReply, handleHigherTerm
    <3> QED
      BY <1>0, <3>1 DEF gatherVotes, stateAfter
  <2>7. ASSUME NEW m \in net, RequestVote(m) \/ AppendEntries(m) PROVE Leads
    <3>1. UNCHANGED votesGranted
      BY <2>7, ZenonT(60) DEF RequestVote, AppendEntries
    <3>2. PICK new \in {"FOLLOWER", stateAfter(m.dst, m.Term)} :
             state' = [state EXCEPT ![m.dst] = new]
      BY <2>7, ZenonT(60) DEF RequestVote, AppendEntries
    <3> QED
      BY <2>5, <3>1, <3>2, Zenon
  <2>8. ASSUME NEW m \in net,
               handleAppendReply(m) \/ InstallSnapshot(m) \/ installSnapshotReply(m)
        PROVE  Leads
    <3>1. /\ state' = [state EXCEPT ![m.dst] = stateAfter(m.dst, m.Term)]
          /\ UNCHANGED votesGranted
      BY <2>8, ZenonT(60) DEF handleAppendReply, InstallSnapshot, installSnapshotReply,
         handleHigherTerm
    <3> QED
      BY <2>5, <3>1, Zenon
  <2>9. ASSUME NEW m \in net, LoseMessage(m) PROVE Leads
    BY <2>9, Zenon DEF LoseMessage, termVars
  <2>10. ASSUME NEW j \in Server, NEW stoppedOn, NEW t, Make(j, stoppedOn, t)
         PROVE  Leads
    <3>1. /\ state' = [state EXCEPT ![j] = "FOLLOWER"]
          /\ votesGranted' = [votesGranted EXCEPT ![j] = {}]
      BY <2>10, Zenon DEF Make
    <3> QED
      BY <1>0, <3>1
  <2> HIDE DEF Leads
  <2> QED
    BY <1>0, <2>1, <2>2, <2>3, <2>4, <2>6, <2>7, <2>8, <2>9, <2>10, ZenonT(60)
       DEF Next, ticker, appendMissingEntriesOnAll
<1>2. CASE state[i] = "LEADER" /\ votesGranted[i] \subseteq votesGranted'[i]
  BY <1>2, SMTT(60) DEF ElectionInv, LeaderHasQuorum
<1>3. CASE becomeLeader(i)
  <2>1. votesGranted[i] \in SUBSET votesGranted'[i] /\ Cardinality(votesGranted[i]) >= majority
    BY <1>3, Zenon DEF becomeLeader
  <2> QED
    BY <2>1, Zenon
<1> QED
  BY <1>1, <1>2, <1>3, ZenonT(60)

\* At the start nobody has voted.
LEMMA ElectionInvInit == Init => ElectionInv
<1>1. Init => VotesPledged /\ LeaderHasQuorum
  BY DEF Init, VotesPledged, LeaderHasQuorum, Active
<1> QED
  BY <1>1, DiskInvInit, SMTT(60) DEF ElectionInv

\* Every step of the peers and of the network keeps the election invariant.
LEMMA ElectionInvNext == ElectionInv /\ [Next]_vars => ElectionInv'
  BY DiskInvNext, VotesPledgedNext, LeaderHasQuorumNext DEF ElectionInv

-----------------------------------------------------------------------------
(* Who leads.                                                              *)

\* What a handler does to the term and the state of its peer is such a step.
LEMMA HandlerRole ==
    ASSUME DiskInv, NEW j \in Server, NEW t \in Nat, NEW new \in {"FOLLOWER", stateAfter(j, t)},
           currentTerm' = [currentTerm EXCEPT ![j] = termAfter(j, t)],
           state' = [state EXCEPT ![j] = new], NEW i \in Server
    PROVE  RoleStep(i)
<1>1. /\ currentTerm[j] \in Nat /\ DOMAIN currentTerm = Server /\ DOMAIN state = Server
      /\ state[j] \in {"FOLLOWER", "CANDIDATE", "LEADER"}
  BY DEF DiskInv, ElectionTypeOK
<1>2. CASE i # j
  BY <1>1, <1>2 DEF RoleStep
<1>3. CASE i = j
  BY <1>1, <1>3 DEF RoleStep, termAfter, stateAfter
<1> QED
  BY <1>2, <1>3, Zenon

\* election raises the term; becomeLeader is the only way to lead.
LEMMA RoleStepNext ==
    ASSUME DiskInv, [Next]_vars, NEW i \in Server
    PROVE  RoleStep(i)
<1>1. CASE UNCHANGED vars
  BY <1>1, Zenon DEF vars, termVars, RoleStep
<1>2. ASSUME NEW j \in Server, election(j) PROVE RoleStep(i)
  <2>1. /\ currentTerm' = [currentTerm EXCEPT ![j] = @ + 1]
        /\ state' = [state EXCEPT ![j] = "CANDIDATE"]
    BY <1>2 DEF election
  <2>2. currentTerm[j] \in Nat /\ DOMAIN currentTerm = Server /\ DOMAIN state = Server
    BY DEF DiskInv, ElectionTypeOK
  <2> QED
    BY <2>1, <2>2, SMTT(30) DEF RoleStep
<1>3. ASSUME NEW j \in Server, becomeLeader(j) PROVE RoleStep(i)
  <2>1. UNCHANGED currentTerm /\ state' = [state EXCEPT ![j] = "LEADER"]
    BY <1>3, Zenon DEF becomeLeader
  <2>2. DOMAIN state = Server
    BY DEF DiskInv, ElectionTypeOK
  <2>3. CASE i = j
    BY <1>3, <2>1, <2>2, <2>3, Zenon DEF RoleStep
  <2>4. CASE i # j
    BY <2>1, <2>2, <2>4 DEF RoleStep
  <2> QED
    BY <2>3, <2>4
<1>4. ASSUME NEW j \in Server,
             \/ Start(j) \/ advanceCommitIndex(j) \/ Snapshot(j) \/ apply(j)
             \/ serviceReceive(j) \/ \E k \in Server : appendMissingEntries(j, k)
      PROVE  RoleStep(i)
  <2>1. UNCHANGED termVars
    BY <1>4, ZenonT(60) DEF Start, advanceCommitIndex, Snapshot, apply, serviceReceive,
       appendMissingEntries
  <2> QED
    BY <2>1, Zenon DEF termVars, RoleStep
<1>5. ASSUME NEW m \in net PROVE m.dst \in Server /\ m.Term \in Nat
  BY DEF DiskInv, ElectionTypeOK, MessageOK
<1>6. ASSUME NEW m \in net, RequestVote(m) PROVE RoleStep(i)
  BY <1>5, <1>6, HandlerRole, Zenon DEF RequestVote
<1>7. ASSUME NEW m \in net, AppendEntries(m) PROVE RoleStep(i)
  <2>1. PICK new \in {"FOLLOWER", stateAfter(m.dst, m.Term)} :
           state' = [state EXCEPT ![m.dst] = new]
    BY <1>7, ZenonT(60) DEF AppendEntries
  <2>2. currentTerm' = [currentTerm EXCEPT ![m.dst] = termAfter(m.dst, m.Term)]
    BY <1>7, Zenon DEF AppendEntries
  <2> QED
    BY <1>5, <2>1, <2>2, HandlerRole, Zenon
<1>8. ASSUME NEW m \in net,
             \/ requestVoteReply(m) \/ handleAppendReply(m)
             \/ InstallSnapshot(m) \/ installSnapshotReply(m)
      PROVE  RoleStep(i)
  <2>1. handleHigherTerm(m.dst, m.Term)
    BY <1>8, ZenonT(60) DEF requestVoteReply, handleAppendReply, InstallSnapshot,
       installSnapshotReply
  <2> QED
    BY <1>5, <2>1, HandlerRole, Zenon DEF handleHigherTerm
<1>9. ASSUME NEW m \in net, LoseMessage(m) PROVE RoleStep(i)
  BY <1>9, Zenon DEF LoseMessage, termVars, RoleStep
<1>10. ASSUME NEW j \in Server, NEW stoppedOn, NEW t, Make(j, stoppedOn, t)
       PROVE  RoleStep(i)
  <2>1. /\ state' = [state EXCEPT ![j] = "FOLLOWER"]
        /\ \E x : currentTerm' = [currentTerm EXCEPT ![j] = x]
    BY <1>10, Zenon DEF Make
  <2>2. DOMAIN currentTerm = Server /\ DOMAIN state = Server
    BY DEF DiskInv, ElectionTypeOK
  <2> QED
    BY <2>1, <2>2 DEF RoleStep
<1> QED
  BY <1>1, <1>2, <1>3, <1>4, <1>5, <1>6, <1>7, <1>8, <1>9, <1>10, ZenonT(60)
     DEF Next, ticker, appendMissingEntriesOnAll

\* Who has led in a term has led in it for ever.
LEMMA ElectedKept ==
    ASSUME ElectionInv, [Next]_vars, NEW t \in Nat, NEW s \in Server, Elected(t, s)
    PROVE  Elected(t, s)'
<1>1. DiskInv /\ DiskInv' /\ VoteStep
  BY DiskInvNext, VoteStepNext, Zenon DEF ElectionInv
<1>2. PICK Q \in SUBSET Server :
         Cardinality(Q) >= majority /\ \A q \in Q : Pledged(q, t, s)
  BY DEF Elected
<1>3. \A q \in Q : Pledged(q, t, s)'
  BY <1>1, <1>2, PledgeKept
<1>4. RoleStep(s)
  BY <1>1, RoleStepNext, ZenonT(30)
<1>5. /\ currentTerm[s] \in Nat /\ currentTerm'[s] \in Nat
      /\ currentTerm'[s] >= currentTerm[s]
  BY <1>1 DEF DiskInv, ElectionTypeOK, VoteStep, VotesKept
<1>6. currentTerm'[s] > t \/ (currentTerm'[s] = t /\ state'[s] # "CANDIDATE")
  <2>1. currentTerm[s] > t \/ (currentTerm[s] = t /\ state[s] # "CANDIDATE")
    BY Zenon DEF Elected
  <2>2. currentTerm'[s] = currentTerm[s] /\ state'[s] = "CANDIDATE" => state[s] = "CANDIDATE"
    BY <1>4, Zenon DEF RoleStep
  <2>3. CASE currentTerm'[s] = currentTerm[s]
    BY <2>1, <2>2, <2>3, Zenon
  <2>4. CASE currentTerm'[s] # currentTerm[s]
    <3>1. \A a, b \in Nat : b >= a /\ b # a /\ (a > t \/ a = t) => b > t
      BY SMTT(30)
    <3> QED
      BY <1>5, <2>1, <2>4, <3>1, Zenon
  <2> QED
    BY <2>3, <2>4, Zenon
<1> QED
  BY <1>2, <1>3, <1>6, Zenon DEF Elected

\* Who leads is elected.
LEMMA LeaderElected ==
    ASSUME ElectionInv, NEW i \in Server, state[i] = "LEADER"
    PROVE  Elected(currentTerm[i], i)
<1>1. PICK Q \in SUBSET votesGranted[i] : Cardinality(Q) >= majority
  BY DEF ElectionInv, LeaderHasQuorum
<1>2. \A q \in Q : Pledged(q, currentTerm[i], i)
  BY DEF ElectionInv, VotesPledged, Active
<1>3. Q \in SUBSET Server
  BY DEF ElectionInv, DiskInv, ElectionTypeOK
<1> QED
  BY <1>1, <1>2, <1>3, ZenonT(30) DEF Elected

\* This is what the layers above take from elections.
LEMMA ElectionStepNext == ElectionInv /\ [Next]_vars => ElectionStep
<1> SUFFICES ASSUME ElectionInv, [Next]_vars PROVE ElectionStep
  BY Zenon
<1>1. DiskInv /\ DiskInv' /\ VoteStep
  BY DiskInvNext, VoteStepNext, Zenon DEF ElectionInv
<1>2. \A i \in Server : RoleStep(i)
  BY <1>1, RoleStepNext, Zenon
<1>3. \A i \in Server : state[i] = "LEADER" => Elected(currentTerm[i], i)
  BY LeaderElected, Zenon
<1>4. \A t \in Nat, s \in Server : Elected(t, s) => Elected(t, s)'
  BY ElectedKept, Zenon
<1> QED
  BY <1>1, <1>2, <1>3, <1>4, Zenon DEF ElectionStep

-----------------------------------------------------------------------------

\* The snapshot that a peer keeps ends at its lastIncludedIndex, through
\* Snapshot, InstallSnapshot and restarts.
THEOREM SpecSnapshotMatchesLog == Spec => []SnapshotMatchesLog
<1>1. ServiceInv => SnapshotMatchesLog
  BY Zenon DEF ServiceInv, KeptSnapshots, EndsAt, SnapshotMatchesLog
<1> QED
  BY <1>1, DiskInvInit, DiskInvNext, ServiceInvInit, ServiceInvNext, PTL DEF Spec

\* What apply sends follows what the service holds: the next command, or a
\* snapshot with as many commands as its index says, although apply lets go
\* of rf.mu to send and snapshots are taken and installed meanwhile.
THEOREM SpecAppliedInOrder == Spec => []AppliedInOrder
<1>1. ServiceInv => AppliedInOrder
  <2> SUFFICES ASSUME ServiceInv, NEW i \in Server, applyCh[i] # <<>>
               PROVE  LET m == Head(applyCh[i]) IN
                      \/ m.valid = "Command" /\ m.Index = Len(service[i]) + 1
                      \/ m.valid = "Snapshot" /\ m.Index = Len(m.Data)
    BY DEF AppliedInOrder
  <2>1. lastApplied[i] \in Int /\ ServedSoFar(i)
    BY DEF ServiceInv
  <2> QED
    BY <2>1, Zenon DEF ServedSoFar, EndsAt
<1> QED
  BY <1>1, DiskInvInit, DiskInvNext, ServiceInvInit, ServiceInvNext, PTL DEF Spec
=============================================================================
