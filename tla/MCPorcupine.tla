---------------------------- MODULE MCPorcupine -----------------------------
(* Histories for checking Porcupine with TLC.                              *)
EXTENDS Porcupine

MCKeys == <<"x", "y">>

Operation(op, key, value, output, time) ==
    [Op |-> op, Key |-> key, Value |-> value, Output |-> output,
     Call |-> time[1], Return |-> time[2]]

Times(n) == {t \in (1 .. n) \X (1 .. n) : t[1] <= t[2]}

\* A put, an append and a get, in any order and overlap.
OneKey ==
    {<<Operation("put", "x", 1, <<>>, t1), Operation("append", "x", 2, <<>>, t2),
       Operation("get", "x", 0, v, t3)>> :
        t1 \in Times(3), t2 \in Times(3), t3 \in Times(3),
        v \in {<<>>, <<1>>, <<2>>, <<1, 2>>}}

\* Two keys, on each of which a get may have read what it should not.
TwoKeys ==
    {<<Operation("append", "x", 1, <<>>, <<1, 2>>), Operation("get", "y", 0, w, <<1, 1>>),
       Operation("get", "x", 0, v, t)>> :
        t \in Times(3), v \in {<<>>, <<1>>}, w \in {<<>>, <<1>>}}

MCHistories == OneKey \cup TwoKeys \cup {<<>>}
=============================================================================
