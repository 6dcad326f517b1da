--------------------------- MODULE RaftRefinement ---------------------------
(***************************************************************************)
(* The Raft peers implement the abstract log of ReplicatedLog.             *)
(***************************************************************************)
EXTENDS RaftProps

Abstract == INSTANCE ReplicatedLog WITH known <- [i \in Server |-> Committed(i)]

\* The peers implement one growing sequence of commands, of which each takes a
\* prefix for committed ("some server has already committed a different value
\* for this entry!" in the tester cannot happen).
ImplementsReplicatedLog == Abstract!Spec
=============================================================================
