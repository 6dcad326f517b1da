----------------------------- MODULE Porcupine ------------------------------
(***************************************************************************)
(* The linearizability checker of src/porcupine with the key/value model   *)
(* of src/models: a history is split by key, one goroutine searches a      *)
(* linearization of each part, and checkParallel collects their results    *)
(* or times out.  A search keeps the entries in a doubly linked list, from *)
(* which it takes the operations it linearizes and to which it puts them   *)
(* back.  One turn of a search's loop is a step.                           *)
(***************************************************************************)
EXTENDS Integers, Sequences, FiniteSets, SequencesExt, FiniteSetsExt, TLC

CONSTANTS
    Histories,      \* sequences of operations
    Keys,           \* the keys of their operations, sorted
    WordBits        \* the bits of a word in a bitset: 64

Nil == -1           \* no node

ASSUME HistoriesAssumption ==
    /\ WordBits \in Nat \ {0}
    /\ \A h \in Histories : \A k \in DOMAIN h :
          h[k].Call <= h[k].Return /\ \E i \in DOMAIN Keys : Keys[i] = h[k].Key

VARIABLES
    history,        \* the operations
    parts,          \* for each part, its operations and sorted entries
    verbose,        \* computeInfo
    timer,          \* timeoutChan is not nil
    search,         \* the goroutines, one for each part
    results,        \* the channel, with room for all of them
    kill,
    main            \* checkParallel: its pc, count, ok, timedOut and result

vars == <<history, parts, verbose, timer, search, results, kill, main>>
input == <<history, parts, verbose, timer>>

-----------------------------------------------------------------------------
(* Operations and entries.                                                 *)

\* KvModel.Step: whether the operation can return what it did, and the new state.
Step(state, op) ==
    CASE op.Op = "get" -> [ok |-> op.Output = state, state |-> state]
      [] op.Op = "put" -> [ok |-> TRUE, state |-> <<op.Value>>]
      [] op.Op = "append" -> [ok |-> TRUE, state |-> Append(state, op.Value)]

\* KvModel.Partition: the operations on each key, in the order of keys.
Partition(h) ==
    LET on(key) == SelectSeq(h, LAMBDA op : op.Key = key)
    IN  SelectSeq([k \in DOMAIN Keys |-> on(Keys[k])], LAMBDA ops : ops # <<>>)

NoPartition(h) == <<h>>

\* Mutant: calls and returns at the same time are not told apart.
Less_ByTime(a, b) == a.time < b.time

\* byTime
Less(a, b) ==
    \/ a.time < b.time
    \/ a.time = b.time /\ a.kind = "call" /\ b.kind = "return"

\* Short slices are sorted by insertion, which keeps the order of equal entries.
makeEntries(ops) ==
    LET entry(k) == IF k % 2 = 1
                    THEN [kind |-> "call", id |-> k \div 2, time |-> ops[k \div 2 + 1].Call]
                    ELSE [kind |-> "return", id |-> k \div 2 - 1, time |-> ops[k \div 2].Return]
    IN  SortSeq([k \in 1 .. 2 * Len(ops) |-> entry(k)], Less)

\* Ids are replaced by 0, 1, ... in the order in which they appear.
renumber(events) ==
    LET first(id) == Min({k \in DOMAIN events : events[k].id = id})
        number(id) == Cardinality({events[k].id : k \in 1 .. first(id) - 1})
    IN  [k \in DOMAIN events |-> [events[k] EXCEPT !.id = number(@)]]

\* The place of an event is its time.
convertEntries(events) == [k \in DOMAIN events |-> [events[k] EXCEPT !.time = k]]

\* makeLinkedEntries: the nodes are the places of the entries; the node of a call
\* matches that of its return.
match(p, n) ==
    LET e == parts[p].entries IN
    IF e[n].kind = "return" THEN Nil
    ELSE CHOOSE m \in DOMAIN e : e[m].kind = "return" /\ e[m].id = e[n].id

idOf(p, n) == parts[p].entries[n].id

opOf(p, id) == parts[p].ops[id + 1]

\* The list of n nodes after the head, which is 0.
linked(n) ==
    [next |-> [k \in 0 .. n |-> IF k = n THEN Nil ELSE k + 1],
     prev |-> [k \in 0 .. n |-> k - 1]]

\* Node n is taken out of list l, or put back.
unlink(l, n) ==
    [next |-> [l.next EXCEPT ![l.prev[n]] = l.next[n]],
     prev |-> IF l.next[n] = Nil THEN l.prev ELSE [l.prev EXCEPT ![l.next[n]] = l.prev[n]]]

relink(l, n) ==
    [next |-> [l.next EXCEPT ![l.prev[n]] = n],
     prev |-> IF l.next[n] = Nil THEN l.prev ELSE [l.prev EXCEPT ![l.next[n]] = n]]

lift(l, entry, return) == unlink(unlink(l, entry), return)

\* Mutant: the return is not put back.
unlift_OnlyCall(l, entry, return) == relink(l, entry)

unlift(l, entry, return) == relink(relink(l, return), entry)

-----------------------------------------------------------------------------
(* Bitsets: words, each of which is the set of its bits that are 1.        *)

newBitset(bits) == [w \in 0 .. (bits + WordBits - 1) \div WordBits - 1 |-> {}]

bitsetIndex(pos) == <<pos \div WordBits, pos % WordBits>>

setBit(b, pos) == [b EXCEPT ![bitsetIndex(pos)[1]] = @ \cup {bitsetIndex(pos)[2]}]

clearBit(b, pos) == [b EXCEPT ![bitsetIndex(pos)[1]] = @ \ {bitsetIndex(pos)[2]}]

getBit(b, pos) == bitsetIndex(pos)[2] \in b[bitsetIndex(pos)[1]]

popcnt(b) == Cardinality({x \in (DOMAIN b) \X (0 .. WordBits - 1) : x[2] \in b[x[1]]})

\* The exclusive or of the words and of popcnt, in one word.
hash(b) ==
    {k \in 0 .. WordBits - 1 :
        (Cardinality({w \in DOMAIN b : k \in b[w]}) + popcnt(b) \div 2 ^ k) % 2 = 1}

equals(b, b2) == DOMAIN b = DOMAIN b2 /\ \A w \in DOMAIN b : b[w] = b2[w]

-----------------------------------------------------------------------------
(* A search.                                                               *)

newSearch(part) ==
    LET n == Len(part.entries) IN
    [pc |-> "search", entry |-> 1, state |-> <<>>, linearized |-> newBitset(n \div 2),
     cache |-> {}, calls |-> <<>>, list |-> linked(n), longest |-> [id \in 0 .. n \div 2 - 1 |-> <<>>]]

\* The ids of the operations linearized so far, in order.
linearization(p) ==
    [k \in DOMAIN search[p].calls |-> idOf(p, search[p].calls[k].entry)]

checkSingleReturns(p, ok) ==
    /\ search' = [search EXCEPT ![p].pc = "done",
                                ![p].longest = IF ok THEN [id \in DOMAIN @ |-> linearization(p)]
                                               ELSE @]
    /\ results' = Append(results, ok)
    /\ UNCHANGED <<input, kill, main>>

cacheEntry(linearized, state) ==
    [hash |-> hash(linearized), linearized |-> linearized, state |-> state]

\* Only entries with the same hash are looked at.
cacheContains(cache, entry) ==
    \E elem \in cache : /\ elem.hash = entry.hash
                        /\ equals(entry.linearized, elem.linearized)
                        /\ entry.state = elem.state

\* The entry is a call: it is linearized, or the next entry is tried.
tryCall(p) ==
    LET s == search[p]
        return == match(p, s.entry)
        id == idOf(p, s.entry)
        r == Step(s.state, opOf(p, id))
        linearized == setBit(s.linearized, id)
        new == cacheEntry(linearized, r.state)
        list == lift(s.list, s.entry, return)
    IN
    /\ return # Nil
    /\ search' = [search EXCEPT ![p] =
          IF r.ok /\ ~cacheContains(s.cache, new)
          THEN [s EXCEPT !.cache = @ \cup {new},
                         !.calls = Append(@, [entry |-> s.entry, state |-> s.state]),
                         !.state = r.state, !.linearized = linearized, !.list = list,
                         !.entry = list.next[0]]
          ELSE [s EXCEPT !.entry = s.list.next[s.entry]]]
    /\ UNCHANGED <<input, results, kill, main>>

\* longest, when the operations in seq are linearized and no more can be.
extended(longest, seq) ==
    [id \in DOMAIN longest |->
        IF Contains(seq, id) /\ Len(seq) > Len(longest[id]) THEN seq ELSE longest[id]]

\* The entry is a return whose call is not linearized: the last operation that
\* is linearized is taken back.
backtrack(p) ==
    LET s == search[p]
        top == Last(s.calls)
        list == unlift(s.list, top.entry, match(p, top.entry))
    IN
    /\ match(p, s.entry) = Nil /\ s.calls # <<>>
    /\ search' = [search EXCEPT ![p] =
          [s EXCEPT !.longest = IF verbose THEN extended(@, linearization(p)) ELSE @,
                    !.state = top.state, !.linearized = clearBit(@, idOf(p, top.entry)),
                    !.calls = Front(@), !.list = list,
                    !.entry = list.next[top.entry]]]
    /\ UNCHANGED <<input, results, kill, main>>

checkSingle(p) ==
    LET s == search[p]
        empty == s.list.next[0] = Nil
    IN
    /\ s.pc = "search"
    /\ \/ empty /\ checkSingleReturns(p, TRUE)
       \/ ~empty /\ kill /\ checkSingleReturns(p, FALSE)
       \/ ~empty /\ ~kill /\ \/ tryCall(p) \/ backtrack(p)
                             \/ /\ match(p, s.entry) = Nil /\ s.calls = <<>>
                                /\ checkSingleReturns(p, FALSE)

-----------------------------------------------------------------------------
(* checkParallel.                                                          *)

verdict(ok, timedOut) == IF ~ok THEN "Illegal" ELSE IF timedOut THEN "Unknown" ELSE "Ok"

\* Mutant: one result more is waited for.
allReceived_More(count) == count > Len(parts)

allReceived(count) == count >= Len(parts)

receiveResult ==
    LET ok == main.ok /\ Head(results)
        count == main.count + 1
    IN
    /\ main.pc = "loop" /\ results # <<>>
    /\ results' = Tail(results)
    /\ kill' = (kill \/ (~ok /\ ~verbose))
    /\ main' = [main EXCEPT !.ok = ok, !.count = count,
                            !.pc = IF (~ok /\ ~verbose) \/ allReceived(count)
                                   THEN "collect" ELSE "loop"]
    /\ UNCHANGED <<input, search>>

timeout ==
    /\ main.pc = "loop" /\ timer
    /\ kill' = TRUE
    /\ main' = [main EXCEPT !.timedOut = TRUE, !.pc = "collect"]
    /\ UNCHANGED <<input, search, results>>

\* With computeInfo the other goroutines are waited for; their results do not count.
drain ==
    /\ main.pc = "collect" /\ verbose /\ main.count < Len(parts) /\ results # <<>>
    /\ results' = Tail(results)
    /\ main' = [main EXCEPT !.count = @ + 1]
    /\ UNCHANGED <<input, search, kill>>

\* Mutant: longest is read while searches go on.
return_Early ==
    /\ main.pc = "collect"
    /\ main' = [main EXCEPT !.pc = "done", !.result = verdict(main.ok, main.timedOut)]
    /\ UNCHANGED <<input, search, results, kill>>

return ==
    /\ main.pc = "collect" /\ (verbose => main.count >= Len(parts))
    /\ main' = [main EXCEPT !.pc = "done", !.result = verdict(main.ok, main.timedOut)]
    /\ UNCHANGED <<input, search, results, kill>>

checkParallel == receiveResult \/ timeout \/ drain \/ return

\* checkOperations: a sorted list of entries for each key.
checkOperations(h) ==
    parts = [p \in DOMAIN Partition(h) |->
                [ops |-> Partition(h)[p], entries |-> makeEntries(Partition(h)[p])]]

\* checkEvents, with the events of the history: KvModel has no PartitionEvent, so
\* it is for histories on one key.  Operations are identified by odd numbers.
checkEvents(h) ==
    LET events(ops) == [k \in 1 .. 2 * Len(ops) |->
                           [makeEntries(ops)[k] EXCEPT !.id = 2 * @ + 1]]
        renumbered(ops) == renumber(events(ops))
        opAt(ops, id) ==
            LET k == CHOOSE k \in 1 .. 2 * Len(ops) : renumbered(ops)[k].id = id
            IN  ops[(events(ops)[k].id - 1) \div 2 + 1]
    IN
    /\ h # <<>> /\ \A k \in DOMAIN h : h[k].Key = h[1].Key
    /\ parts = [p \in DOMAIN NoPartition(h) |->
                   LET ops == NoPartition(h)[p] IN
                   [ops |-> [k \in DOMAIN ops |-> opAt(ops, k - 1)],
                    entries |-> convertEntries(renumbered(ops))]]

\* The functions of porcupine.go: for operations or events, with a timeout that
\* may be 0, with information on the linearizations or not.
Check ==
    /\ checkOperations(history) \/ checkEvents(history)
    /\ verbose \in BOOLEAN /\ timer \in BOOLEAN

Init ==
    /\ history \in Histories
    /\ Check
    /\ search = [p \in DOMAIN parts |-> newSearch(parts[p])]
    /\ results = <<>> /\ kill = FALSE
    /\ main = [pc |-> "loop", count |-> 0, ok |-> TRUE, timedOut |-> FALSE, result |-> "none"]

Next == checkParallel \/ \E p \in DOMAIN parts : checkSingle(p)

Spec == Init /\ [][Next]_vars

FairSpec == Spec /\ WF_vars(checkParallel) /\ WF_vars(\E p \in DOMAIN parts : checkSingle(p))

-----------------------------------------------------------------------------
(* Properties.                                                             *)

\* The operations at the places in order, a sequence, could have been executed in
\* this order: the map they start from is empty, and no operation is put before
\* one that had returned when it was called.
Legal(ops, order) ==
    LET value[k \in 0 .. Len(order)] ==
            IF k = 0 THEN [key \in Range(Keys) |-> <<>>]
            ELSE LET op == ops[order[k]] IN
                 [value[k - 1] EXCEPT ![op.Key] = Step(@, op).state]
    IN  /\ \A k \in DOMAIN order :
              LET op == ops[order[k]] IN Step(value[k - 1][op.Key], op).ok
        /\ \A j, k \in DOMAIN order : j < k => ~(ops[order[k]].Return < ops[order[j]].Call)

Linearizable(ops) ==
    \E order \in SetToSeqs(DOMAIN ops) : Legal(ops, order)

\* The verdict is true of the whole history, which is compared with a definition of
\* linearizability that knows no keys, lists and caches: Illegal is not reported
\* because a search was killed or timed out, and Ok not when one has not ended.
VerdictIsTrue ==
    /\ main.result = "Ok" => Linearizable(history)
    /\ main.result = "Illegal" => ~Linearizable(history)

\* Nodes of list l after n, at most k of them.
Following(l, n, k) ==
    LET path[j \in 0 .. k] == IF j = 0 THEN n
                              ELSE IF path[j - 1] = Nil THEN Nil ELSE l.next[path[j - 1]]
    IN  SelectSeq([j \in 1 .. k |-> path[j]], LAMBDA m : m # Nil)

\* However often operations were lifted and put back, the list holds, in both
\* directions, the entries of the operations that are not linearized, in order; and
\* the search never runs off its end.
ListIsRest ==
    \A p \in DOMAIN parts :
        LET s == search[p]
            n == Len(parts[p].entries)
            rest == SelectSeq([k \in 1 .. n |-> k], LAMBDA k : ~getBit(s.linearized, idOf(p, k)))
        IN  /\ Following(s.list, 0, n) = rest
            /\ \A k \in DOMAIN rest : s.list.prev[rest[k]] = IF k = 1 THEN 0 ELSE rest[k - 1]
            /\ s.pc = "search" /\ rest # <<>> => Contains(rest, s.entry)

\* When checkParallel returns with computeInfo, no search writes to longest any
\* more; what it holds for an operation is an order with that operation in which
\* some of the operations could have been executed.
PartialsAreLegal ==
    main.pc = "done" /\ verbose =>
        \A p \in DOMAIN parts :
            /\ search[p].pc = "done"
            /\ \A id \in DOMAIN search[p].longest :
                  LET seq == search[p].longest[id] IN
                  /\ seq # <<>> => Contains(seq, id)
                  /\ Legal(parts[p].ops, [k \in DOMAIN seq |-> seq[k] + 1])

\* The check returns, and every search ends, killed or not: none waits for a
\* receiver of its result.  With nothing to check and no timeout, checkParallel
\* waits for ever.
CheckEnds ==
    <>(/\ main.pc = "done" \/ (parts = <<>> /\ ~timer)
       /\ \A p \in DOMAIN parts : search[p].pc = "done")
=============================================================================
