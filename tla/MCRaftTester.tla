--------------------------- MODULE MCRaftTester -----------------------------
(* The tests TLC runs the tester with: two commands one after the other,    *)
(* entries of which snapshots are taken with a restart, one command with    *)
(* two restarts or changes of a connection, and such changes alone.         *)
EXTENDS RaftTester

Test(started, commands, indexes, nChange) ==
    [started |-> started, commands |-> commands, indexes |-> indexes, changes |-> nChange]

MCTests == {Test(0, 2, 2, 0), Test(3, 0, 3, 1), Test(0, 1, 1, 2), Test(0, 0, 0, 4)}
=============================================================================
