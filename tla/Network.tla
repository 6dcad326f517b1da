------------------------------ MODULE Network -------------------------------
(***************************************************************************)
(* The simulated network of src/labrpc: calls that are carried by one      *)
(* goroutine each (processReq) from a ClientEnd to the server the end is   *)
(* connected to, and may be lost on either way.  Delays are not counted: a *)
(* step may be taken at any time.  Ends, names and instances of servers    *)
(* are whatever the user of the network passes to it.                      *)
(***************************************************************************)
EXTENDS Naturals, FiniteSets

CONSTANTS
    CallId,         \* the calls that may be made
    None            \* no server, no end

VARIABLES
    reliable,       \* requests and replies are not dropped
    enabled,        \* for each end that was made
    connections,    \* the name each end is connected to
    servers,        \* the instance that has each name, or None
    listening,      \* the goroutine that takes requests is running
    done,           \* the channel done is closed
    calls           \* the calls, with their goroutines

netVars == <<reliable, enabled, connections, servers, listening, done, calls>>
config == <<reliable, enabled, connections, servers, done>>

\* A call is sending until the network takes it, then taken, in delivery, waiting
\* for its handler and answered; the handler is started and has run.
NoCall == [end |-> None, pc |-> "idle", name |-> None, server |-> None,
           reliable |-> TRUE, handler |-> "none", ok |-> FALSE]

Become(k, c) == calls' = [calls EXCEPT ![k] = c] /\ UNCHANGED config

-----------------------------------------------------------------------------
(* The state of the network, each operation under one hold of rn.mu.       *)

\* MakeEnd and Connect for new ends, each to the server to[e].
Connected(to) ==
    [e \in DOMAIN connections \cup DOMAIN to |->
        IF e \in DOMAIN to THEN to[e] ELSE connections[e]]

MadeEnds(ends) ==
    [e \in DOMAIN enabled \cup ends |-> IF e \in ends THEN FALSE ELSE enabled[e]]

\* Enable(e, yes) for each of some ends.
Enable(state, ends, yes) == [e \in DOMAIN state |-> IF e \in ends THEN yes ELSE state[e]]

AddServer(name, server) == servers' = [servers EXCEPT ![name] = server]

DeleteServer(name) == servers' = [servers EXCEPT ![name] = None]

Cleanup ==
    /\ ~done /\ done' = TRUE
    /\ UNCHANGED <<reliable, enabled, connections, servers, listening, calls>>

\* Mutant: only the end is looked at.
isServerDead_OnlyEnd(c) == ~enabled[c.end]

isServerDead(c) == ~enabled[c.end] \/ servers[c.name] # c.server

-----------------------------------------------------------------------------
(* A call.                                                                 *)

Call(k, e) ==
    /\ calls[k].pc = "idle"
    /\ Become(k, [NoCall EXCEPT !.pc = "sending", !.end = e])
    /\ UNCHANGED listening

\* The network's goroutine receives the request, as long as it has not seen
\* done, which it may choose to do late.
receive(k) ==
    /\ listening /\ calls[k].pc = "sending"
    /\ Become(k, [calls[k] EXCEPT !.pc = "taken"])
    /\ UNCHANGED listening

stopListening ==
    /\ listening /\ done
    /\ listening' = FALSE
    /\ UNCHANGED <<config, calls>>

\* The other case of the select in Call.
giveUp(k) ==
    /\ done /\ calls[k].pc = "sending"
    /\ Become(k, [calls[k] EXCEPT !.pc = "returned"])
    /\ UNCHANGED listening

\* processReq reads what it needs to know of the end, once.
readEndnameInfo(k) ==
    LET c == calls[k]
        server == servers[connections[c.end]]
    IN
    /\ c.pc = "taken"
    /\ Become(k, IF enabled[c.end] /\ server # None
                 THEN [c EXCEPT !.pc = "delivery", !.name = connections[c.end],
                                !.server = server, !.reliable = reliable]
                 ELSE [c EXCEPT !.pc = "lost"])
    /\ UNCHANGED listening

dropRequest(k) ==
    /\ calls[k].pc = "delivery" /\ ~calls[k].reliable
    /\ Become(k, [calls[k] EXCEPT !.pc = "lost"])
    /\ UNCHANGED listening

\* The handler is started in a goroutine of its own.
startHandler(k) ==
    /\ calls[k].pc = "delivery"
    /\ Become(k, [calls[k] EXCEPT !.pc = "waiting", !.handler = "started"])
    /\ UNCHANGED listening

\* Server.dispatch and Service.dispatch: the method is called and its reply encoded.
dispatch(k) ==
    /\ calls[k].handler = "started"
    /\ Become(k, [calls[k] EXCEPT !.handler = "ran"])
    /\ UNCHANGED listening

\* The handler's reply comes first.
receiveReply(k) ==
    /\ calls[k].pc = "waiting" /\ calls[k].handler = "ran"
    /\ Become(k, [calls[k] EXCEPT !.pc = "replied"])
    /\ UNCHANGED listening

\* 100 ms have passed and the server is found dead.
timeout(k) ==
    /\ calls[k].pc = "waiting" /\ isServerDead(calls[k])
    /\ Become(k, [calls[k] EXCEPT !.pc = "lost"])
    /\ UNCHANGED listening

\* The server is looked at once more; then the reply may be dropped.
checkReply(k) ==
    /\ calls[k].pc = "replied"
    /\ \/ ~isServerDead(calls[k]) /\ Become(k, [calls[k] EXCEPT !.pc = "answered"])
       \/ isServerDead(calls[k]) /\ Become(k, [calls[k] EXCEPT !.pc = "lost"])
       \/ ~calls[k].reliable /\ Become(k, [calls[k] EXCEPT !.pc = "lost"])
    /\ UNCHANGED listening

\* The answer reaches Call at once, or after a delay during which the network
\* may have changed.
return(k) ==
    /\ calls[k].pc \in {"lost", "answered"}
    /\ Become(k, [calls[k] EXCEPT !.pc = "returned", !.ok = calls[k].pc = "answered"])
    /\ UNCHANGED listening

\* The steps of the goroutines of a call, but for its handler.
processReq(k) ==
    \/ receive(k) \/ giveUp(k) \/ readEndnameInfo(k) \/ dropRequest(k) \/ startHandler(k)
    \/ receiveReply(k) \/ timeout(k) \/ checkReply(k) \/ return(k)
=============================================================================
