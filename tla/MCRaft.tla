------------------------------- MODULE MCRaft -------------------------------
(* State-space reductions for checking Raft with TLC.                      *)
EXTENDS RaftRefinement, TLC

Symmetry == Permutations(Server)

\* The network without what only tells messages apart: how often each message
\* is in it, with whether the caller of a call is still there.
NetView ==
    LET seen(m) == [f \in DOMAIN m \ {"call"} |->
                       IF f = "caller" THEN m.caller = restarts[m.src] ELSE m[f]]
        all == {seen(m) : m \in net}
    IN  <<all, IF Cardinality(all) = Cardinality(net) THEN <<>>
               ELSE [n \in all |-> Cardinality({m \in net : seen(m) = n})]>>

\* Peers that do not lead get a new nextIndex and matchIndex before they read
\* the old ones, except to see what is on a majority.
NextView == [i \in Server |-> IF state[i] = "LEADER" THEN nextIndex[i] ELSE <<>>]

MatchView ==
    [i \in Server |-> IF state[i] = "LEADER" THEN matchIndex[i]
                      ELSE {idx \in 0 .. MaxStarts : nReplicated(i, idx) >= majority}]

\* The votes matter until the candidate leads or gives up.
VotesView == [i \in Server |-> IF state[i] = "CANDIDATE" THEN votesGranted[i] ELSE {}]

\* Without snapshots nothing reads what the services were given.
ApplyView == IF Snapshotting THEN applyVars ELSE <<>>

\* Of restarts only the number matters.  What is on disk is what is in memory
\* (SpecPersistedCurrent).
View ==
    <<termVars, VotesView, logVars, commitIndex, NextView, MatchView, ApplyView,
      NetView, elections, starts, crashes, losses>>

\* For the properties of elections, where that is to be shown and the votes of
\* a peer that leads matter.
ElectionView ==
    <<View, persisted, [i \in Server |-> IF Active(i) THEN votesGranted[i] ELSE {}]>>
=============================================================================
