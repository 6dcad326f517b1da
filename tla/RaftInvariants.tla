--------------------------- MODULE RaftInvariants ---------------------------
(***************************************************************************)
(* The inductive invariants of the Raft peers: what the disk, elections,   *)
(* services and logs keep through every step, and what a step of one of    *)
(* these layers promises the ones above it.                                *)
(***************************************************************************)
EXTENDS RaftProps

-----------------------------------------------------------------------------
(* The parts of the state that elections are about.                        *)

\* The fields of messages that elections read.
MessageOK(m) ==
    /\ {"type", "src", "dst", "Term"} \subseteq DOMAIN m
    /\ m.src \in Server /\ m.dst \in Server /\ m.Term \in Nat
    /\ m.type = "RequestVoteReply" =>
          m.ArgsTerm \in Nat /\ m.VoteGranted \in BOOLEAN

\* The types of the variables that elections are about.
ElectionTypeOK ==
    /\ currentTerm \in [Server -> Nat]
    /\ votedFor \in [Server -> Server \cup {Nil}]
    /\ state \in [Server -> {"FOLLOWER", "CANDIDATE", "LEADER"}]
    /\ votesGranted \in [Server -> SUBSET Server]
    /\ \A m \in net : MessageOK(m)

\* The other persistent variables are functions on Server.
PersistentDomains ==
    /\ DOMAIN log = Server
    /\ DOMAIN lastIncludedIndex = Server
    /\ DOMAIN lastIncludedTerm = Server
    /\ DOMAIN snapshot = Server
    /\ DOMAIN persisted = Server

\* Types, and what is on disk is what is in memory.
DiskInv == ElectionTypeOK /\ PersistentDomains /\ PersistedCurrent

-----------------------------------------------------------------------------
(* What the service is given, and snapshots.                               *)

\* s is a sequence.
IsSequence(s) == s \in Seq({s[k] : k \in DOMAIN s})

\* data is the snapshot that ends at index.
EndsAt(data, index) == index \in Int /\ IsSequence(data) /\ Len(data) = index + 1

\* Snapshots on their way.
SentSnapshots ==
    \A m \in net : m.type = "InstallSnapshot" => EndsAt(m.Snapshot, m.LastIncludedIndex)

\* The snapshot that a peer keeps ends at lastIncludedIndex.
KeptSnapshots == \A i \in Server : EndsAt(snapshot[i], lastIncludedIndex[i])

\* Between two messages the service of i holds what is applied, unless a
\* snapshot replaces that next; else the message in applyCh makes it so.
ServedSoFar(i) ==
    LET m == Head(applyCh[i]) IN
    \/ /\ applyCh[i] = <<>>
       /\ snapshotInstalled[i] \/ Len(service[i]) = lastApplied[i] + 1
    \/ /\ applyCh[i] # <<>> /\ m.valid = "Command"
       /\ Len(service[i]) = lastApplied[i]
       /\ m.Index = lastApplied[i] + 1 /\ m.Data = <<m.Data[1]>>
    \/ /\ applyCh[i] # <<>> /\ m.valid = "Snapshot"
       /\ m.Index = lastApplied[i] + 1 /\ EndsAt(m.Data, lastApplied[i])

\* What the service is given is a function on Server.
ServiceDomains ==
    /\ DOMAIN service = Server /\ DOMAIN applyCh = Server
    /\ DOMAIN lastApplied = Server /\ DOMAIN snapshotInstalled = Server

\* Snapshots have the length their index says, and no command is skipped.
ServiceInv ==
    /\ SentSnapshots /\ KeptSnapshots /\ ServiceDomains
    /\ \A i \in Server :
          IsSequence(service[i]) /\ lastApplied[i] \in Int /\ ServedSoFar(i)

-----------------------------------------------------------------------------
(* Elections.                                                              *)

\* Who leads has counted the votes of a majority.
LeaderHasQuorum ==
    \A i \in Server : state[i] = "LEADER" =>
        \E Q \in SUBSET votesGranted[i] : Cardinality(Q) >= majority

\* Two majorities of the peers have a peer in common.  The lemmas that need
\* this assume it; module RaftProofs proves it.
QuorumsMeet ==
    \A P, Q \in SUBSET Server :
        Cardinality(P) >= majority /\ Cardinality(Q) >= majority => P \cap Q # {}

\* The disk keeps votes, votes are pledges, and leaders have a majority.
ElectionInv == DiskInv /\ VotesPledged /\ LeaderHasQuorum

\* A step never lowers a term, nor changes a vote within a term.
VotesKept ==
    \A q \in Server :
        /\ currentTerm'[q] >= currentTerm[q]
        /\ currentTerm'[q] = currentTerm[q] /\ votedFor[q] \in Server =>
              votedFor'[q] = votedFor[q]

\* A vote counted after a step was counted before, or is the one that a new
\* candidate casts for itself, or was on its way.
CountedFrom(k, q) ==
    \/ Active(k) /\ currentTerm'[k] = currentTerm[k] /\ q \in votesGranted[k]
    \/ q = k /\ currentTerm'[k] = currentTerm[k] + 1 /\ votedFor'[k] = k
    \/ \E m \in net : /\ Grant(m) /\ m.src = q /\ m.dst = k
                      /\ m.ArgsTerm = currentTerm'[k]

\* That is so for every vote of every candidate and leader.
VotesCounted ==
    \A k \in Server : Active(k)' => \A q \in votesGranted'[k] : CountedFrom(k, q)

\* A vote on its way after a step was so before, or is cast in the step.
VotesCast ==
    \A m \in net' : Grant(m) /\ m \notin net =>
        /\ currentTerm'[m.src] = m.ArgsTerm /\ votedFor'[m.src] = m.dst
        /\ \/ currentTerm[m.src] < m.ArgsTerm
           \/ currentTerm[m.src] = m.ArgsTerm /\ votedFor[m.src] \in {Nil, m.dst}

\* What a step does with votes.
VoteStep == VotesKept /\ VotesCounted /\ VotesCast

\* A majority is pledged to s in term t, and s has led in t.
Elected(t, s) ==
    /\ \E Q \in SUBSET Server :
          Cardinality(Q) >= majority /\ \A q \in Q : Pledged(q, t, s)
    /\ currentTerm[s] > t \/ (currentTerm[s] = t /\ state[s] # "CANDIDATE")

\* Within a term nobody becomes a candidate, and only a candidate a leader.
RoleStep(i) ==
    /\ state'[i] = "CANDIDATE" /\ currentTerm'[i] = currentTerm[i] => state[i] = "CANDIDATE"
    /\ state'[i] = "LEADER" =>
          becomeLeader(i) \/ (state[i] = "LEADER" /\ currentTerm'[i] = currentTerm[i])

\* What elections promise of a step: votes are kept, nobody leads who was not
\* elected, and who has led in a term has led in it for ever.
ElectionStep ==
    /\ DiskInv' /\ VoteStep
    /\ \A i \in Server : RoleStep(i)
    /\ \A i \in Server : state[i] = "LEADER" => Elected(currentTerm[i], i)
    /\ \A t \in Nat, s \in Server : Elected(t, s) => Elected(t, s)'

-----------------------------------------------------------------------------
(* A chain is a run of entries after a base of which only the index and    *)
(* the term are known: a log after its snapshot, the entries of a call     *)
(* after PrevLogIndex, or a snapshot that is sent.                         *)

\* The entries of logs (LogEntry of module Raft).
ChainEntry == [Index : Nat, Term : Nat, Command : Nat]

\* Its last index.
top(c) == c.base + Len(c.entries)

\* The indexes that it knows a term for.
Spans(c) == c.base .. top(c)

\* Its term at index k.
TermAt(c, k) == IF k = c.base THEN c.term ELSE c.entries[k - c.base].Term

\* Its entry at index k.
EntryAt(c, k) == c.entries[k - c.base]

\* Indexes go up by one from the base on; before the first entry is term 0.
IsChain(c) ==
    /\ c.base \in Int /\ c.base >= -1
    /\ c.term \in Nat /\ (c.base = -1 => c.term = 0)
    /\ c.entries \in Seq(ChainEntry)
    /\ \A k \in 1 .. Len(c.entries) : c.entries[k].Index = c.base + k

\* c and d have the same at k, as far as both know it.
SameAt(c, d, k) ==
    /\ TermAt(c, k) = TermAt(d, k)
    /\ k > c.base /\ k > d.base => EntryAt(c, k) = EntryAt(d, k)

\* Where the terms of two chains agree, all before agrees.
Match(c, d) ==
    \A idx \in Spans(c) \cap Spans(d) : TermAt(c, idx) = TermAt(d, idx) =>
        \A k \in Spans(c) \cap Spans(d) : k <= idx => SameAt(c, d, k)

\* n has at k what c has there.
PartAt(n, c, k) ==
    /\ k \in Spans(c) /\ TermAt(n, k) = TermAt(c, k)
    /\ k > n.base => k > c.base /\ EntryAt(n, k) = EntryAt(c, k)

\* n is part of c.
Segment(n, c) == \A k \in Spans(n) : PartAt(n, c, k)

\* n is c up to j and d from there on, where they have the same term.
Joined(n, c, d, j) ==
    /\ j \in Spans(c) /\ j \in Spans(d) /\ TermAt(c, j) = TermAt(d, j)
    /\ \A k \in Spans(n) : (k <= j => PartAt(n, c, k)) /\ (k > j => PartAt(n, d, k))

\* n goes on with d to its end.
JoinedToEnd(n, c, d, j) == Joined(n, c, d, j) /\ top(n) = top(d)

\* c has the term t at index k.
HasTerm(c, k, t) == k \in Spans(c) /\ TermAt(c, k) = t

\* Terms never fall along c.
SortedChain(c) == \A a, b \in Spans(c) : a <= b => TermAt(c, a) <= TermAt(c, b)

\* No term in c is later than t.
BoundedBy(c, t) == \A k \in Spans(c) : TermAt(c, k) <= t

\* Some naturals have a least one.  The lemmas that need this assume it;
\* module RaftProofs proves it.
LeastExists == \A S \in SUBSET Nat : S # {} => \E x \in S : \A y \in S : x <= y

-----------------------------------------------------------------------------
(* The chains of the peers.                                                *)

\* The chain of a peer, and that of a call.  A call without entries, a
\* heartbeat, changes no log.
LogChain(i) ==
    [base |-> lastIncludedIndex[i], term |-> lastIncludedTerm[i], entries |-> log[i]]

CallChain(m) ==
    IF m.type = "AppendEntries"
    THEN [base |-> m.PrevLogIndex, term |-> m.PrevLogTerm, entries |-> m.Entries]
    ELSE [base |-> m.LastIncludedIndex, term |-> m.LastIncludedTerm, entries |-> <<>>]

\* m carries entries or a snapshot.
HasChain(m) ==
    \/ m.type = "AppendEntries" /\ m.Entries # <<>>
    \/ m.type = "InstallSnapshot"

\* Every log and every call with a chain.
Chains == {LogChain(i) : i \in Server} \cup {CallChain(m) : m \in {n \in net : HasChain(n)}}

-----------------------------------------------------------------------------
(* The form of logs and of the calls about them, and who made entries.     *)

\* PrevLogIndex and PrevLogTerm are those of an entry, or before the first.
CallOK(m) ==
    /\ m.PrevLogIndex \in Int /\ m.PrevLogIndex >= -1
    /\ m.PrevLogIndex = -1 => m.PrevLogTerm = 0
    /\ m.Entries \in Seq(ChainEntry)

\* A failed call tells the leader to go back: to the end of the follower's
\* log, or to the first entry of a term before the one that failed.
ReplyOK(m) ==
    /\ m.ArgsTerm \in Nat /\ m.Term >= m.ArgsTerm
    /\ m.PrevLogIndex \in Int /\ m.PrevLogIndex >= -1 /\ m.NEntries \in Nat
    /\ ~m.Success /\ m.Term = m.ArgsTerm =>
          /\ m.LogInfo.Len \in Nat
          /\ m.PrevLogIndex < m.LogInfo.Len => m.LogInfo.Index \in 0 .. m.PrevLogIndex

\* Calls for entries, and the replies to them, have this form.
MessagesOK ==
    \A m \in net : /\ m.type = "AppendEntries" => CallOK(m)
                   /\ m.type = "AppendEntriesReply" => ReplyOK(m)

\* All logs and calls are chains.
ChainInv ==
    /\ starts \in Nat
    /\ nextIndex \in [Server -> [Server -> Nat]]
    /\ \A c \in Chains : IsChain(c)
    /\ MessagesOK

\* Later entries are of no earlier terms, and none is of a later term than
\* that of the peer, or of the call, that has it.
TermsInv ==
    /\ \A c \in Chains : SortedChain(c)
    /\ \A i \in Server : BoundedBy(LogChain(i), currentTerm[i])
    /\ \A m \in net : HasChain(m) => BoundedBy(CallChain(m), m.Term)

\* Who sends entries or a snapshot in a term was elected in it.
SentByLeader ==
    \A m \in net : m.type \in {"AppendEntries", "InstallSnapshot"} =>
        m.src # m.dst /\ Elected(m.Term, m.src)

\* Entries of term t are made by a leader of t, and while it leads its log has
\* the last of them.
MadeByLeader ==
    \A c \in Chains : \A k \in Spans(c) : k >= 0 =>
        /\ \E s \in Server : Elected(TermAt(c, k), s)
        /\ \A i \in Server : state[i] = "LEADER" /\ currentTerm[i] = TermAt(c, k) =>
              k <= top(LogChain(i))

\* Any two logs, or calls with entries, match.
AllMatch == \A c, d \in Chains : Match(c, d)

\* Who sends calls, who made their entries, and that they match.
LogInv == SentByLeader /\ MadeByLeader /\ AllMatch

\* The branch of AppendEntries that appends.
Appends(m) ==
    /\ AppendEntries(m) /\ m.PrevLogIndex >= lastIncludedIndex[m.dst]
    /\ appendMatches(m) /\ log' = [log EXCEPT ![m.dst] = appendEntriesLocal(m.dst, m.Entries)]

\* What the logs promise of a step: Start, Snapshot, AppendEntries and
\* InstallSnapshot are all that changes the log of a peer; only its own Start
\* and Snapshot change the log of a leader, which gets no shorter; only
\* AppendEntries answers a call for entries; and what a refusal tells the
\* leader moves nextIndex back.
LogsStep ==
    /\ \A q \in Server :
          \/ LogChain(q)' = LogChain(q) \/ Start(q) \/ Snapshot(q)
          \/ \E m \in net : m.dst = q /\ Appends(m)
          \/ \E m \in net : m.dst = q /\ InstallSnapshot(m) /\ snapshotIsNew(m)
    /\ \A i \in Server : state[i] = "LEADER" /\ currentTerm'[i] = currentTerm[i] =>
          /\ LogChain(i)' = LogChain(i) \/ Start(i) \/ Snapshot(i)
          /\ top(LogChain(i)) <= top(LogChain(i)')
    /\ \A r \in net' : r.type = "AppendEntriesReply" =>
          r \in net \/ \E m \in net : AppendEntries(m)
    /\ BacktrackProgress

\* What the layers up to the logs promise of a step.
LowerStep ==
    /\ ElectionInv' /\ ServiceInv' /\ ChainInv' /\ LogInv' /\ TermsInv'
    /\ ElectionStep /\ LogsStep
=============================================================================
