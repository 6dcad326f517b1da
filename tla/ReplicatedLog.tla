--------------------------- MODULE ReplicatedLog ----------------------------
(***************************************************************************)
(* What the services built on Raft rely on: one sequence of chosen         *)
(* commands that only grows, of which every peer knows a prefix.  A peer   *)
(* may learn that more is chosen, or start over from an earlier prefix,    *)
(* but never takes for chosen what another peer may contradict.            *)
(***************************************************************************)
EXTENDS Sequences, SequencesExt

CONSTANT Server

VARIABLE known      \* the commands that each peer knows to be chosen

\* All that is chosen: what the peers that know most know.
chosen == known[CHOOSE i \in Server :
                    \A j \in Server : Len(known[j]) <= Len(known[i])]

Init == known = [i \in Server |-> <<>>]

\* Peer i learns that some commands are chosen, perhaps in this very step and
\* then after those that already are, or it forgets some.
Learn(i) ==
    /\ \A j \in Server \ {i} : known'[j] = known[j]
    /\ IsPrefix(chosen, chosen')
    /\ IsPrefix(known'[i], chosen')

Next == known' # known /\ \E i \in Server : Learn(i)

Spec == Init /\ [][Next]_known
=============================================================================
