--------------------------- MODULE TestbedProofs ----------------------------
(***************************************************************************)
(* What the tester of src/kvraft/config.go and the network guarantee for   *)
(* any number of servers, clients, calls and restarts: an acknowledged     *)
(* call is in the persister that is used next, the ends of an instance     *)
(* that was shut down are disabled, and calls between servers that are     *)
(* connected again get through.                                            *)
(***************************************************************************)
EXTENDS Testbed, SequenceTheorems, TLAPS

(***************************************************************************)
(* The inductive invariant.  Up and Down say where a server is between     *)
(* ShutdownServer and StartServer, Phase how the tester goes through the   *)
(* servers, CallsOK what a call knows of its server, EndsOK which ends can *)
(* be enabled.                                                             *)
(***************************************************************************)
Up(i) == servers[i] = saved(i) /\ endnames[i] = saved(i)

Down(i) == servers[i] = None

Typed ==
    /\ persister \in [All -> Seq(SUBSET CallId)]
    /\ \A i \in All : Len(persister[i]) >= 1
    /\ servers \in [All -> Nat \cup {None}]
    /\ endnames \in [All -> Nat]
    /\ test \in [pc : {"run", "check", "connect", "disconnect", "delete", "copy",
                       "start", "add"}, i : All]

Phase ==
    /\ test.pc \in {"run", "check", "connect"} => \A i \in All : Up(i)
    /\ test.pc \in {"disconnect", "delete"} =>
          \A i \in All : IF i < test.i THEN Down(i) ELSE Up(i)
    /\ test.pc = "copy" => \A i \in All : IF i <= test.i THEN Down(i) ELSE Up(i)
    /\ test.pc = "start" => \A i \in All : IF i < test.i THEN Up(i) ELSE Down(i)
    /\ test.pc = "add" =>
          /\ \A i \in All : IF i < test.i THEN Up(i) ELSE Down(i)
          /\ endnames[test.i] = saved(test.i)

\* What call k, c, knows: its server was once added with that number.
Carried(ends, held, k, c) ==
    /\ c.pc # "idle" => c.end \in ends
    /\ c.pc \in {"idle", "sending", "taken", "delivery"} => c.handler = "none" /\ c.ok = FALSE
    /\ c.pc \in {"delivery", "waiting", "replied", "answered"} \/ c.handler # "none" =>
          c.name \in All /\ c.server \in 1 .. Len(held[c.name])
    /\ c.handler = "ran" => k \in held[c.name][c.server]
    /\ c.pc = "replied" => c.handler = "ran"
    /\ c.ok \in BOOLEAN
    /\ c.pc = "answered" \/ c.ok = TRUE => c.name \in All /\ k \in held[c.name][Len(held[c.name])]

\* c has the fields of a call.
IsCall(c) == DOMAIN c = {"end", "pc", "name", "server", "reliable", "handler", "ok"}

CallsOK ==
    /\ calls = [k \in CallId |-> calls[k]]
    /\ \A k \in CallId : /\ IsCall(calls[k])
                         /\ Carried(DOMAIN connections, persister, k, calls[k])

EndsOK ==
    /\ connections = [e \in DOMAIN connections |-> connections[e]]
    /\ enabled = [e \in DOMAIN connections |-> enabled[e]]
    /\ \A e \in DOMAIN connections :
          /\ e = End(e.from, e.instance, e.to) /\ e.instance \in Nat /\ e.to \in All
          /\ connections[e] = e.to
          /\ enabled[e] /\ e.from \in All =>
                /\ servers[e.from] = e.instance
                /\ ~(test.pc = "delete" /\ e.from = test.i)

TInv == Typed /\ Phase /\ CallsOK /\ EndsOK

(***************************************************************************)
(* What persisters hold only grows, and Copy keeps what the last one held. *)
(***************************************************************************)
Grows(held, held2) ==
    \A i \in All :
        /\ Len(held[i]) \in Nat \ {0} /\ Len(held2[i]) \in Nat
        /\ Len(held[i]) <= Len(held2[i])
        /\ \A n \in 1 .. Len(held[i]) : held[i][n] \subseteq held2[i][n]
        /\ held[i][Len(held[i])] \subseteq held2[i][Len(held2[i])]

\* A call keeps what it knows of its server when ends are made and when
\* persisters are written or copied.
LEMMA CarriedStays ==
    ASSUME NEW ends, NEW ends2, ends \subseteq ends2,
           NEW held, NEW held2, Grows(held, held2),
           NEW k, NEW c, Carried(ends, held, k, c)
    PROVE  Carried(ends2, held2, k, c)
BY DEF Carried, Grows

\* Persister.Copy appends a persister that holds what the last one holds.
LEMMA CopyGrows ==
    ASSUME Typed, NEW i \in All, Copy(i)
    PROVE  /\ persister' \in [All -> Seq(SUBSET CallId)]
           /\ \A j \in All : Len(persister'[j]) >= 1
           /\ \A j \in All \ {i} : persister'[j] = persister[j]
           /\ Len(persister'[i]) = Len(persister[i]) + 1
           /\ Grows(persister, persister')
<1> DEFINE s == persister[i]
<1>1. s \in Seq(SUBSET CallId) /\ Len(s) \in Nat /\ Len(s) >= 1 /\ s[Len(s)] \in SUBSET CallId
  BY DEF Typed
<1>2. persister' = [persister EXCEPT ![i] = Append(s, s[Len(s)])]
  BY DEF Copy, Typed
<1>3. /\ Append(s, s[Len(s)]) \in Seq(SUBSET CallId)
      /\ Len(Append(s, s[Len(s)])) = Len(s) + 1
      /\ \A n \in 1 .. Len(s) : Append(s, s[Len(s)])[n] = s[n]
      /\ Append(s, s[Len(s)])[Len(s) + 1] = s[Len(s)]
  BY <1>1, AppendProperties
<1>4. \A j \in All \ {i} : persister'[j] = persister[j]
  BY <1>2 DEF Typed
<1>5. persister'[i] = Append(s, s[Len(s)])
  BY <1>2 DEF Typed
<1>6. persister' \in [All -> Seq(SUBSET CallId)]
  BY <1>2, <1>3 DEF Typed
<1> HIDE DEF s
<1>7. \A j \in All : Len(persister[j]) \in Nat /\ Len(persister[j]) >= 1
  BY DEF Typed
<1>8. Grows(persister, persister')
  <2> SUFFICES ASSUME NEW j \in All
               PROVE  /\ Len(persister[j]) \in Nat \ {0} /\ Len(persister'[j]) \in Nat
                      /\ Len(persister[j]) <= Len(persister'[j])
                      /\ \A n \in 1 .. Len(persister[j]) : persister[j][n] \subseteq persister'[j][n]
                      /\ persister[j][Len(persister[j])] \subseteq persister'[j][Len(persister'[j])]
    BY DEF Grows
  <2>1. CASE j = i
    BY <2>1, <1>1, <1>3, <1>5 DEF s
  <2>2. CASE j # i
    BY <2>2, <1>4, <1>7
  <2> QED BY <2>1, <2>2
<1> QED BY <1>1, <1>3, <1>4, <1>5, <1>6, <1>7, <1>8, SMTT(60) DEF s

\* A handler adds its call to the persister of the instance that runs it.
LEMMA HandlerGrows ==
    ASSUME Typed, NEW k \in CallId, NEW i \in All, NEW n \in 1 .. Len(persister[i]),
           persister' = [persister EXCEPT ![i][n] = @ \cup {k}]
    PROVE  /\ persister' \in [All -> Seq(SUBSET CallId)]
           /\ \A j \in All : Len(persister'[j]) = Len(persister[j])
           /\ k \in persister'[i][n]
           /\ Grows(persister, persister')
<1> DEFINE s == persister[i]
           t == [s EXCEPT ![n] = s[n] \cup {k}]
<1>1. s \in Seq(SUBSET CallId) /\ s[n] \cup {k} \in SUBSET CallId
  BY DEF Typed
<1>2. persister' = [persister EXCEPT ![i] = t]
  BY DEF Typed
<1>3. /\ t \in Seq(SUBSET CallId) /\ Len(t) = Len(s)
      /\ \A m \in 1 .. Len(s) : t[m] = IF m = n THEN s[n] \cup {k} ELSE s[m]
  BY <1>1, ExceptSeq
<1>4. persister'[i] = t /\ \A j \in All \ {i} : persister'[j] = persister[j]
  BY <1>2 DEF Typed
<1>5. persister' \in [All -> Seq(SUBSET CallId)]
  BY <1>2, <1>3 DEF Typed
<1> HIDE DEF t
<1>6. \A j \in All : Len(persister[j]) \in Nat /\ Len(persister[j]) >= 1
  BY DEF Typed
<1>7. \A j \in All : Len(persister'[j]) = Len(persister[j])
  BY <1>3, <1>4
<1>8. Grows(persister, persister')
  <2> SUFFICES ASSUME NEW j \in All
               PROVE  \A m \in 1 .. Len(persister[j]) : persister[j][m] \subseteq persister'[j][m]
    BY <1>6, <1>7 DEF Grows
  <2> QED BY <1>3, <1>4
<1> QED BY <1>3, <1>4, <1>5, <1>7, <1>8

(***************************************************************************)
(* The invariant is preserved.                                             *)
(***************************************************************************)
\* make_config starts all servers, with their first ends and empty persisters.
LEMMA TInvInit == make_config => TInv
<1> SUFFICES ASSUME make_config PROVE TInv
  OBVIOUS
<1> USE TestbedAssumption DEF All
<1>1. \A i \in All : persister[i] = << {} >> /\ Len(persister[i]) = 1
  BY DEF make_config
<1>2. Typed
  BY <1>1 DEF make_config, Typed
<1>3. Phase
  BY <1>1 DEF make_config, Phase, Up, saved
<1>4. CallsOK
  BY ZenonT(60) DEF make_config, CallsOK, IsCall, Carried, NoCall
<1>5. EndsOK
  <2> DEFINE ends == {End(i, 1, j) : i, j \in All}
  <2>1. \A e \in ends : /\ e = End(e.from, e.instance, e.to)
                        /\ e.from \in All /\ e.instance = 1 /\ e.to \in All
    BY DEF End
  <2> HIDE DEF ends
  <2>2. connections = [e \in ends |-> e.to] /\ enabled = [e \in ends |-> TRUE]
    BY DEF make_config, ends
  <2>3. DOMAIN connections = ends
    BY <2>2
  <2>4. servers = [i \in All |-> 1] /\ test.pc = "run"
    BY DEF make_config
  <2> QED BY <2>1, <2>2, <2>3, <2>4 DEF EndsOK
<1> QED BY <1>2, <1>3, <1>4, <1>5 DEF TInv

\* A server that has its name is the instance with the last persister: the
\* tester makes a new persister only while the name is free.
LEMMA NamesAreCurrent ==
    ASSUME Typed, Phase, NEW i \in All, servers[i] # None
    PROVE  servers[i] = Len(persister[i]) /\ servers[i] \in 1 .. Len(persister[i])
<1>1. test.pc \in {"run", "check", "connect", "disconnect", "delete", "copy", "start", "add"}
  BY DEF Typed
<1>2. servers[i] = Len(persister[i])
  BY <1>1 DEF Phase, Up, Down, saved
<1>3. Len(persister[i]) \in Nat /\ Len(persister[i]) >= 1
  BY DEF Typed
<1> QED BY <1>2, <1>3

\* A step of a call changes what the call knows, and nothing the tester does.
LEMMA CallStep ==
    ASSUME TInv, NEW k \in CallId, NEW c,
           Become(k, c), UNCHANGED <<persister, endnames, test>>,
           IsCall(c), Carried(DOMAIN connections, persister, k, c)
    PROVE  TInv'
<1>1. UNCHANGED <<enabled, connections, servers>>
  BY DEF Become, config
<1>2. Typed' /\ Phase'
  BY <1>1 DEF TInv, Typed, Phase, Up, Down, saved
<1>3. EndsOK'
  BY <1>1 DEF TInv, EndsOK
<1>4. calls' = [calls EXCEPT ![k] = c]
  BY DEF Become
<1>5. CallsOK'
  BY <1>1, <1>4 DEF TInv, CallsOK
<1> QED BY <1>2, <1>3, <1>5 DEF TInv

\* No step of processReq lets a call lose or invent what it knows: a reply is
\* passed on only when the server that handled it still has its name.
LEMMA ProcessReqStep ==
    ASSUME TInv, NEW k \in CallId, networkStep(k)
    PROVE  TInv'
<1> DEFINE c == calls[k]
           OK(d) == IsCall(d) /\ Carried(DOMAIN connections, persister, k, d)
<1>0. OK(c) /\ UNCHANGED <<persister, endnames, test>>
  BY DEF TInv, CallsOK, networkStep, testVars
<1>1. ASSUME NEW d, Become(k, d), OK(d) PROVE TInv'
  BY <1>0, <1>1, CallStep
<1>2. CASE receive(k)
  <2>1. OK([c EXCEPT !.pc = "taken"])
    BY <1>0, <1>2 DEF receive, IsCall, Carried
  <2> QED BY <1>1, <1>2, <2>1 DEF receive
<1>3. CASE giveUp(k)
  <2>1. OK([c EXCEPT !.pc = "returned"])
    BY <1>0, <1>3 DEF giveUp, IsCall, Carried
  <2> QED BY <1>1, <1>3, <2>1, Zenon DEF giveUp
<1>4. CASE readEndnameInfo(k)
  <2> DEFINE name == connections[c.end]
             d == [c EXCEPT !.pc = "delivery", !.name = name, !.server = servers[name],
                            !.reliable = reliable]
  <2>1. c.end \in DOMAIN connections /\ name \in All
    BY <1>0, <1>4 DEF readEndnameInfo, Carried, TInv, EndsOK
  <2>2. servers[name] # None => servers[name] \in 1 .. Len(persister[name])
    BY <2>1, NamesAreCurrent DEF TInv
  <2>3. CASE enabled[c.end] /\ servers[name] # None
    <3>0. /\ IsCall(d) /\ d.pc = "delivery" /\ d.handler = c.handler /\ d.end = c.end
          /\ d.name = name /\ d.server = servers[name] /\ d.ok = c.ok
      BY <1>0 DEF IsCall
    <3>1. Become(k, d)
      BY <1>4, <2>3, SMTT(60) DEF readEndnameInfo
    <3> HIDE DEF d
    <3>2. OK(d)
      BY <1>0, <1>4, <2>1, <2>2, <2>3, <3>0, Zenon DEF readEndnameInfo, Carried
    <3> QED BY <1>1, <3>1, <3>2
  <2>4. CASE ~(enabled[c.end] /\ servers[name] # None)
    <3>1. OK([c EXCEPT !.pc = "lost"])
      BY <1>0, <1>4, Zenon DEF readEndnameInfo, IsCall, Carried
    <3> QED BY <1>1, <1>4, <2>4, <3>1, SMTT(60) DEF readEndnameInfo
  <2> QED BY <2>3, <2>4, Zenon
<1>5. CASE dropRequest(k)
  <2>1. OK([c EXCEPT !.pc = "lost"])
    BY <1>0, <1>5 DEF dropRequest, IsCall, Carried
  <2> QED BY <1>1, <1>5, <2>1, Zenon DEF dropRequest
<1>6. CASE startHandler(k)
  <2> DEFINE d == [c EXCEPT !.pc = "waiting", !.handler = "started"]
  <2>0. /\ IsCall(d) /\ d.pc = "waiting" /\ d.handler = "started" /\ d.end = c.end
        /\ d.name = c.name /\ d.server = c.server /\ d.ok = c.ok
    BY <1>0, Zenon DEF IsCall
  <2> HIDE DEF d
  <2>1. OK(d)
    BY <1>0, <1>6, <2>0 DEF startHandler, Carried
  <2> QED BY <1>1, <1>6, <2>1 DEF startHandler, d
<1>7. CASE receiveReply(k)
  <2>1. OK([c EXCEPT !.pc = "replied"])
    BY <1>0, <1>7 DEF receiveReply, IsCall, Carried
  <2> QED BY <1>1, <1>7, <2>1, Zenon DEF receiveReply
<1>8. CASE timeout(k)
  <2>1. OK([c EXCEPT !.pc = "lost"])
    BY <1>0, <1>8 DEF timeout, IsCall, Carried
  <2> QED BY <1>1, <1>8, <2>1, Zenon DEF timeout
<1>9. CASE checkReply(k)
  <2>1. c.name \in All /\ c.server \in 1 .. Len(persister[c.name])
        /\ k \in persister[c.name][c.server]
    BY <1>0, <1>9 DEF checkReply, Carried
  <2>2. ~isServerDead(c) => c.server = Len(persister[c.name])
    BY <2>1, NamesAreCurrent, TestbedAssumption, SMTT(60) DEF isServerDead, TInv
  <2>3. ~isServerDead(c) => OK([c EXCEPT !.pc = "answered"])
    BY <1>0, <1>9, <2>1, <2>2, ZenonT(30) DEF checkReply, IsCall, Carried
  <2>4. OK([c EXCEPT !.pc = "lost"])
    BY <1>0, <1>9 DEF checkReply, IsCall, Carried
  <2> QED BY <1>1, <1>9, <2>3, <2>4, SMTT(60) DEF checkReply
<1>10. CASE return(k)
  <2> DEFINE d(ok) == [c EXCEPT !.pc = "returned", !.ok = ok]
  <2>1. \A ok \in BOOLEAN :
          /\ IsCall(d(ok)) /\ d(ok).pc = "returned" /\ d(ok).handler = c.handler
          /\ d(ok).end = c.end /\ d(ok).name = c.name /\ d(ok).server = c.server
          /\ d(ok).ok = ok
    BY <1>0 DEF IsCall
  <2>2. c.pc \in {"lost", "answered"} /\ Become(k, d(c.pc = "answered"))
    BY <1>10, ZenonT(30) DEF return
  <2> HIDE DEF d
  <2>3. ASSUME NEW ok \in BOOLEAN, ok = TRUE => c.pc = "answered" PROVE OK(d(ok))
    BY <1>0, <2>1, <2>2, <2>3 DEF Carried
  <2> QED BY <1>1, <2>2, <2>3, ZenonT(60)
<1> QED BY <1>2, <1>3, <1>4, <1>5, <1>6, <1>7, <1>8, <1>9, <1>10 DEF networkStep, processReq

\* The ends the tester connects and disconnects are those of the instances in use.
LEMMA BetweenEnds ==
    ASSUME NEW i \in All, NEW S \in SUBSET All, NEW e \in between(i, S)
    PROVE  e.from \in All /\ e.instance = endnames[e.from]
BY DEF between, End

\* Making ends, and writing and copying persisters, leaves the calls right.
LEMMA CallsStay ==
    ASSUME CallsOK, calls' = calls, DOMAIN connections \subseteq DOMAIN connections',
           Grows(persister, persister')
    PROVE  CallsOK'
<1>1. \A k \in CallId : Carried(DOMAIN connections', persister', k, calls[k])
  BY CarriedStays DEF CallsOK
<1> QED BY <1>1 DEF CallsOK

\* Persisters that are left alone hold what they held.
LEMMA GrowsReflexive == Typed => Grows(persister, persister)
BY DEF Typed, Grows

\* Enabling ends of instances that run, and disabling any, keeps EndsOK.
LEMMA EnableStep ==
    ASSUME Typed, EndsOK, NEW on, NEW off,
           enabled' = Enable(Enable(enabled, off, FALSE), on, TRUE),
           \A e \in on : e.from \in All => servers[e.from] = e.instance,
           UNCHANGED <<connections, servers>>, test.pc # "delete", test'.pc # "delete"
    PROVE  EndsOK'
<1>1. enabled' = [e \in DOMAIN connections |-> IF e \in on THEN TRUE
                                               ELSE IF e \in off THEN FALSE ELSE enabled[e]]
  BY DEF EndsOK, Enable
<1> QED BY <1>1, ZenonT(60) DEF EndsOK

\* partition, between two restarts.
LEMMA PartitionStep ==
    ASSUME TInv, NEW p1 \in SUBSET All, partition(p1)
    PROVE  TInv'
<1> DEFINE p2 == All \ p1
           cut == UNION {between(i, p2) : i \in p1}
           own == UNION ({between(i, p1) : i \in p1} \cup {between(i, p2) : i \in p2})
<1>1. /\ enabled' = Enable(Enable(enabled, cut, FALSE), own, TRUE)
      /\ UNCHANGED <<connections, servers, calls, persister, endnames, test>>
      /\ test.pc = "run"
  BY DEF partition
<1>2. \A e \in own : e.from \in All /\ e.instance = endnames[e.from]
  BY BetweenEnds
<1>3. \A i \in All : Up(i)
  BY <1>1 DEF TInv, Phase
<1> HIDE DEF own, cut
<1>4. EndsOK'
  BY <1>1, <1>2, <1>3, EnableStep, ZenonT(60) DEF TInv, Up
<1>5. Typed' /\ Phase'
  BY <1>1 DEF TInv, Typed, Phase, Up, Down, saved
<1>6. CallsOK'
  BY <1>1, CallsStay, GrowsReflexive DEF TInv
<1> QED BY <1>4, <1>5, <1>6 DEF TInv

\* ConnectAll, before the shutdown and after the restart of the servers.
LEMMA ConnectAllStep ==
    ASSUME TInv, ConnectAll
    PROVE  TInv'
<1> DEFINE on == UNION {between(i, All) : i \in All}
<1>1. /\ enabled' = Enable(enabled, on, TRUE)
      /\ UNCHANGED <<connections, servers, calls, persister, endnames>>
      /\ test.pc \in {"run", "connect"}
      /\ test' = [pc |-> "disconnect", i |-> 0] \/ test' = [pc |-> "check", i |-> 0]
  BY DEF ConnectAll, connectAll, Goto
<1>2. \A e \in on : e.from \in All /\ e.instance = endnames[e.from]
  BY BetweenEnds
<1>3. \A i \in All : Up(i)
  BY <1>1 DEF TInv, Phase
<1> HIDE DEF on
<1>4. enabled' = Enable(Enable(enabled, {}, FALSE), on, TRUE)
  BY <1>1 DEF TInv, EndsOK, Enable
<1>5. EndsOK'
  <2>1. \A e \in on : e.from \in All => servers[e.from] = e.instance
    BY <1>2, <1>3 DEF Up
  <2>2. test.pc # "delete" /\ test'.pc # "delete"
    BY <1>1
  <2> QED BY <1>1, <1>4, <2>1, <2>2, EnableStep, ZenonT(60) DEF TInv
<1>6. 0 \in All /\ \A i \in All : ~(i < 0)
  BY TestbedAssumption DEF All
<1>7. Typed' /\ Phase'
  BY <1>1, <1>3, <1>6 DEF TInv, Typed, Phase, Up, Down, saved
<1>8. CallsOK'
  BY <1>1, CallsStay, GrowsReflexive DEF TInv
<1> QED BY <1>5, <1>7, <1>8 DEF TInv

\* The ends of a client do not belong to a server.
LEMMA ClientStep ==
    ASSUME TInv, NEW c \in Client, NEW to \in SUBSET All,
           makeClient(c, to) \/ \E yes \in BOOLEAN : ConnectClient(c, to, yes)
    PROVE  TInv'
<1> DEFINE ends == {End(c, 0, j) : j \in All}
           some == {End(c, 0, j) : j \in to}
<1>1. c \notin All
  BY TestbedAssumption DEF All
<1>2. \A e \in ends : e.from = c /\ e = End(e.from, e.instance, e.to)
                     /\ e.instance \in Nat /\ e.to \in All
  BY DEF End
<1>3. \A e \in some : e.from = c
  BY DEF End
<1>4. UNCHANGED <<servers, calls, persister, endnames, test>>
  BY ZenonT(60) DEF makeClient, ConnectClient, testVars
<1>5. test.pc = "run"
  BY ZenonT(60) DEF makeClient, ConnectClient
<1>6. EndsOK' /\ DOMAIN connections \subseteq DOMAIN connections'
  <2>1. CASE makeClient(c, to)
    <3>1. /\ connections' = Connected([e \in ends |-> e.to])
          /\ enabled' = Enable(MadeEnds(ends), some, TRUE)
      BY <2>1 DEF makeClient
    <3> HIDE DEF ends, some
    <3>2. connections' = [e \in DOMAIN connections \cup ends |->
                            IF e \in ends THEN e.to ELSE connections[e]]
      BY <3>1 DEF Connected
    <3>3. enabled' = [e \in DOMAIN connections \cup ends |->
                        IF e \in some THEN TRUE ELSE IF e \in ends THEN FALSE ELSE enabled[e]]
      BY <3>1, ZenonT(60) DEF MadeEnds, Enable, TInv, EndsOK
    <3> QED BY <1>1, <1>2, <1>3, <1>4, <3>2, <3>3, ZenonT(60) DEF TInv, EndsOK
  <2>2. ASSUME NEW yes \in BOOLEAN, ConnectClient(c, to, yes) PROVE EndsOK' /\ connections' = connections
    <3>1. enabled' = Enable(enabled, some, yes) /\ connections' = connections
      BY <2>2 DEF ConnectClient
    <3> HIDE DEF some
    <3>2. enabled' = [e \in DOMAIN connections |-> IF e \in some THEN yes ELSE enabled[e]]
      BY <3>1 DEF Enable, TInv, EndsOK
    <3> QED BY <1>1, <1>3, <1>4, <3>1, <3>2 DEF TInv, EndsOK
  <2> QED BY <2>1, <2>2
<1>7. Typed' /\ Phase'
  BY <1>4 DEF TInv, Typed, Phase, Up, Down, saved
<1>8. CallsOK'
  BY <1>4, <1>6, CallsStay, GrowsReflexive DEF TInv
<1> QED BY <1>6, <1>7, <1>8 DEF TInv

\* ShutdownServer disconnects the instance in use before it deletes it, so that
\* no end of it is enabled when its name becomes free.
LEMMA ShutdownStep ==
    ASSUME TInv, shutdownDisconnect \/ shutdownDelete
    PROVE  TInv'
<1> DEFINE i == test.i
<1>0. i \in All /\ i \in Nat /\ \A j \in All : j \in Nat
  BY TestbedAssumption DEF TInv, Typed, All
<1>1. UNCHANGED <<connections, calls, persister, endnames>>
  BY DEF shutdownDisconnect, shutdownDelete
<1>2. CallsOK'
  BY <1>1, CallsStay, GrowsReflexive DEF TInv
<1>3. CASE shutdownDisconnect
  <2> DEFINE off == between(i, All)
  <2>1. /\ enabled' = Enable(enabled, off, FALSE) /\ servers' = servers
        /\ test.pc = "disconnect" /\ test' = [pc |-> "delete", i |-> i]
    BY <1>3 DEF shutdownDisconnect, disconnectUnlocked, Goto
  <2>2. Typed' /\ Phase'
    BY <1>0, <1>1, <2>1, SMTT(60) DEF TInv, Typed, Phase, Up, Down, saved
  <2>3. servers[i] = endnames[i]
    BY <1>0, <2>1 DEF TInv, Phase, Up
  <2>4. \A j \in All : End(i, endnames[i], j) \in off
    BY <1>0 DEF between
  <2> HIDE DEF off
  <2>5. enabled' = [e \in DOMAIN connections |-> IF e \in off THEN FALSE ELSE enabled[e]]
    BY <2>1 DEF TInv, EndsOK, Enable
  <2>6. EndsOK'
    <3>1. test'.pc = "delete" /\ test'.i = i /\ test.pc = "disconnect"
      BY <2>1
    <3>2. ASSUME NEW e \in DOMAIN connections, enabled'[e], e.from \in All
          PROVE  servers[e.from] = e.instance /\ e.from # i
      <4>1. e \notin off /\ enabled[e]
        BY <2>5, <3>2
      <4>2. servers[e.from] = e.instance /\ e = End(e.from, e.instance, e.to) /\ e.to \in All
        BY <3>2, <4>1 DEF TInv, EndsOK
      <4> QED BY <2>3, <2>4, <4>1, <4>2
    <3> QED BY <1>1, <2>1, <2>5, <3>1, <3>2, ZenonT(60) DEF TInv, EndsOK
  <2> QED BY <1>2, <2>2, <2>6 DEF TInv
<1>4. CASE shutdownDelete
  <2>1. /\ servers' = [servers EXCEPT ![i] = None] /\ enabled' = enabled
        /\ test.pc = "delete" /\ test' = [pc |-> "copy", i |-> i]
    BY <1>4 DEF shutdownDelete, DeleteServer, Goto
  <2>2. servers'[i] = None /\ \A j \in All \ {i} : servers'[j] = servers[j]
    BY <1>0, <2>1 DEF TInv, Typed
  <2>3. Typed'
    BY <1>0, <1>1, <2>1, Zenon DEF TInv, Typed
  <2>4. \A j \in All : IF j <= i THEN Down(j)' ELSE Up(j)'
    BY <1>0, <1>1, <2>1, <2>2, SMTT(30) DEF TInv, Phase, Up, Down, saved
  <2>5. Phase'
    BY <2>1, <2>4 DEF Phase
  <2>6. EndsOK'
    BY <1>1, <2>1, <2>2 DEF TInv, EndsOK
  <2> QED BY <1>2, <2>3, <2>5, <2>6 DEF TInv
<1> QED BY <1>3, <1>4

\* The persister is copied while the name of the server is free.
LEMMA CopyStep ==
    ASSUME TInv, shutdownCopy
    PROVE  TInv'
<1> DEFINE i == test.i
<1>0. i \in All /\ i \in Nat /\ N \in Nat \ {0} /\ \A j : j \in All <=> j \in Nat /\ j < N
  BY TestbedAssumption, SMTT(60) DEF TInv, Typed, All
<1>1. /\ UNCHANGED <<enabled, connections, servers, calls, endnames>>
      /\ test.pc = "copy" /\ Copy(i)
      /\ test' = IF i + 1 < N THEN [pc |-> "disconnect", i |-> i + 1]
                              ELSE [pc |-> "start", i |-> 0]
  BY DEF shutdownCopy, netVars, Goto
<1>2. /\ persister' \in [All -> Seq(SUBSET CallId)]
      /\ \A j \in All : Len(persister'[j]) >= 1
      /\ \A j \in All \ {i} : persister'[j] = persister[j]
      /\ Grows(persister, persister')
  BY <1>0, <1>1, CopyGrows, Zenon DEF TInv
<1>3. Typed'
  <2>1. test' \in [pc : {"disconnect", "start"}, i : All]
    <3>1. CASE i + 1 < N
      BY <1>0, <1>1, <3>1
    <3>2. CASE ~(i + 1 < N)
      BY <1>0, <1>1, <3>2, SMTT(60)
    <3> QED BY <3>1, <3>2, Zenon
  <2> QED BY <1>1, <1>2, <2>1, SMTT(60) DEF TInv, Typed
<1>4. \A j \in All : IF j <= i THEN Down(j)' ELSE Up(j)'
  BY <1>0, <1>1, <1>2, SMTT(60) DEF TInv, Phase, Up, Down, saved
<1>5. Phase'
  BY <1>0, <1>1, <1>4 DEF Phase
<1>6. CallsOK'
  BY <1>1, <1>2, CallsStay DEF TInv
<1>7. EndsOK'
  BY <1>1 DEF TInv, EndsOK
<1> QED BY <1>3, <1>5, <1>6, <1>7 DEF TInv

\* StartServer makes ends that are disabled, and adds the instance that has the
\* last persister.
LEMMA StartStep ==
    ASSUME TInv, startEnds \/ startAdd
    PROVE  TInv'
<1> DEFINE i == test.i
<1>0. i \in All /\ i \in Nat /\ N \in Nat \ {0} /\ \A j : j \in All <=> j \in Nat /\ j < N
  BY TestbedAssumption, SMTT(60) DEF TInv, Typed, All
<1>1. Len(persister[i]) \in Nat
  BY <1>0 DEF TInv, Typed
<1>2. CASE startEnds
  <2> DEFINE ends == {End(i, saved(i) + 1, j) : j \in All}
  <2>1. /\ UNCHANGED <<servers, calls>> /\ test.pc = "start" /\ Copy(i)
        /\ endnames' = [endnames EXCEPT ![i] = saved(i) + 1]
        /\ connections' = Connected([e \in ends |-> e.to])
        /\ enabled' = MadeEnds(ends) /\ test' = [pc |-> "add", i |-> i]
    BY <1>2, Zenon DEF startEnds, Goto
  <2>2. /\ persister' \in [All -> Seq(SUBSET CallId)]
        /\ \A j \in All : Len(persister'[j]) >= 1
        /\ \A j \in All \ {i} : persister'[j] = persister[j]
        /\ Len(persister'[i]) = Len(persister[i]) + 1
        /\ Grows(persister, persister')
    BY <1>0, <2>1, CopyGrows, Zenon DEF TInv
  <2>3. Typed'
    <3>1. endnames' \in [All -> Nat]
      BY <1>1, <2>1, SMTT(30) DEF TInv, Typed, saved
    <3>2. test' \in [pc : {"add"}, i : All]
      BY <1>0, <2>1, Zenon
    <3> QED BY <2>1, <2>2, <3>1, <3>2, Zenon DEF TInv, Typed
  <2>4. /\ \A j \in All : IF j < i THEN Up(j)' ELSE Down(j)'
        /\ endnames'[i] = saved(i)'
    BY <1>0, <2>1, <2>2, SMTT(60) DEF TInv, Phase, Typed, Up, Down, saved
  <2>5. Phase'
    BY <2>1, <2>4 DEF Phase
  <2>6. \A e \in ends : e = End(e.from, e.instance, e.to) /\ e.instance \in Nat /\ e.to \in All
    BY <1>1 DEF End, saved
  <2> HIDE DEF ends
  <2>7. connections' = [e \in DOMAIN connections \cup ends |->
                          IF e \in ends THEN e.to ELSE connections[e]]
    BY <2>1 DEF Connected
  <2>8. enabled' = [e \in DOMAIN connections \cup ends |->
                      IF e \in ends THEN FALSE ELSE enabled[e]]
    BY <2>1 DEF MadeEnds, TInv, EndsOK
  <2>9. EndsOK'
    <3>1. DOMAIN connections' = DOMAIN connections \cup ends
      BY <2>7
    <3>2. test'.pc = "add" /\ test.pc = "start" /\ servers' = servers
      BY <2>1
    <3>3. \A e \in ends : connections'[e] = e.to /\ enabled'[e] = FALSE
      BY <2>7, <2>8
    <3>4. \A e \in DOMAIN connections \ ends :
             connections'[e] = connections[e] /\ enabled'[e] = enabled[e]
      BY <2>7, <2>8
    <3>5. /\ connections' = [e \in DOMAIN connections' |-> connections'[e]]
          /\ enabled' = [e \in DOMAIN connections' |-> enabled'[e]]
      BY <2>7, <2>8, <3>1, ZenonT(60)
    <3>6. ASSUME NEW e \in DOMAIN connections'
          PROVE  /\ e = End(e.from, e.instance, e.to) /\ e.instance \in Nat /\ e.to \in All
                 /\ connections'[e] = e.to
                 /\ enabled'[e] /\ e.from \in All => servers[e.from] = e.instance
      <4>1. CASE e \in ends
        BY <2>6, <3>3, <4>1
      <4>2. CASE e \notin ends
        BY <3>1, <3>4, <4>2, Zenon DEF TInv, EndsOK
      <4> QED BY <4>1, <4>2
    <3> QED BY <3>2, <3>5, <3>6 DEF EndsOK
  <2>10. CallsOK'
    BY <2>1, <2>2, <2>7, CallsStay, Zenon DEF TInv
  <2> QED BY <2>3, <2>5, <2>9, <2>10 DEF TInv
<1>3. CASE startAdd
  <2>1. /\ UNCHANGED <<connections, enabled, calls, persister, endnames>> /\ test.pc = "add"
        /\ servers' = [servers EXCEPT ![i] = saved(i)]
        /\ test' = IF i + 1 < N THEN [pc |-> "start", i |-> i + 1]
                                ELSE [pc |-> "connect", i |-> 0]
    BY <1>3 DEF startAdd, AddServer, Goto
  <2>2. servers'[i] = saved(i) /\ \A j \in All \ {i} : servers'[j] = servers[j]
    BY <1>0, <2>1 DEF TInv, Typed
  <2>3. Typed'
    <3>1. servers' \in [All -> Nat \cup {None}]
      BY <1>1, <2>1 DEF TInv, Typed, saved
    <3>2. test' \in [pc : {"start", "connect"}, i : All]
      <4>1. CASE i + 1 < N
        BY <1>0, <2>1, <4>1, SMTT(60)
      <4>2. CASE ~(i + 1 < N)
        BY <1>0, <2>1, <4>2, SMTT(60)
      <4> QED BY <4>1, <4>2
    <3> QED BY <2>1, <3>1, <3>2 DEF TInv, Typed
  <2>4. \A j \in All : IF j <= i THEN Up(j)' ELSE Down(j)'
    BY <1>0, <2>1, <2>2, SMTT(60) DEF TInv, Phase, Up, Down, saved
  <2>5. Phase'
    BY <1>0, <2>1, <2>4, SMTT(60) DEF Phase
  <2>6. servers[i] = None
    BY <1>0, <2>1, SMTT(60) DEF TInv, Phase, Down
  <2>7. EndsOK'
    BY <2>1, <2>2, <2>6, TestbedAssumption, ZenonT(60) DEF TInv, EndsOK
  <2>8. CallsOK'
    BY <2>1, CallsStay, GrowsReflexive DEF TInv
  <2> QED BY <2>3, <2>5, <2>7, <2>8 DEF TInv
<1> QED BY <1>2, <1>3

\* A call is made with an end that exists; its handler writes to the persister
\* of the instance it was dispatched to.
LEMMA CallerStep ==
    ASSUME TInv, NEW k \in CallId, CallAny(k) \/ handle(k)
    PROVE  TInv'
<1> DEFINE c == calls[k]
<1>0. IsCall(c) /\ Carried(DOMAIN connections, persister, k, c)
  BY SMTT(60) DEF TInv, CallsOK
<1>1. CASE CallAny(k)
  <2>1. PICK e \in DOMAIN enabled : Call(k, e)
    BY <1>1, SMTT(60) DEF CallAny
  <2> DEFINE d == [NoCall EXCEPT !.pc = "sending", !.end = e]
  <2>2. Become(k, d) /\ UNCHANGED <<persister, endnames, test>> /\ e \in DOMAIN connections
    BY <1>1, <2>1, ZenonT(60) DEF Call, CallAny, TInv, EndsOK
  <2>3. IsCall(d) /\ d.pc = "sending" /\ d.end = e /\ d.handler = "none" /\ d.ok = FALSE
    BY SMTT(60) DEF IsCall, NoCall
  <2> HIDE DEF d
  <2>4. Carried(DOMAIN connections, persister, k, d)
    BY <2>2, <2>3, ZenonT(60) DEF Carried
  <2> QED BY <2>2, <2>3, <2>4, CallStep, Zenon
<1>2. CASE handle(k)
  <2> DEFINE d == [c EXCEPT !.handler = "ran"]
  <2>1. /\ c.handler = "started" /\ calls' = [calls EXCEPT ![k] = d]
        /\ persister' = [persister EXCEPT ![c.name][c.server] = @ \cup {k}]
        /\ UNCHANGED <<enabled, connections, servers, endnames, test>>
    BY <1>2, Zenon DEF handle, dispatch, Become, config
  <2>2. c.name \in All /\ c.server \in 1 .. Len(persister[c.name])
    BY <1>0, <2>1 DEF Carried
  <2>3. /\ persister' \in [All -> Seq(SUBSET CallId)]
        /\ \A j \in All : Len(persister'[j]) = Len(persister[j])
        /\ k \in persister'[c.name][c.server]
        /\ Grows(persister, persister')
    BY <2>1, <2>2, HandlerGrows, ZenonT(60) DEF TInv
  <2>4. Typed' /\ Phase'
    BY <2>1, <2>3, ZenonT(60) DEF TInv, Typed, Phase, Up, Down, saved
  <2>5. EndsOK'
    BY <2>1 DEF TInv, EndsOK
  <2>6. \A j \in CallId : Carried(DOMAIN connections, persister', j, calls[j])
    BY <2>3, CarriedStays DEF TInv, CallsOK
  <2>7. IsCall(d) /\ d.pc = c.pc /\ d.end = c.end /\ d.name = c.name
        /\ d.server = c.server /\ d.ok = c.ok /\ d.handler = "ran"
    BY <1>0, SMTT(60) DEF IsCall
  <2> HIDE DEF d
  <2>8. Carried(DOMAIN connections, persister', k, d)
    BY <2>1, <2>2, <2>3, <2>6, <2>7, ZenonT(60) DEF Carried
  <2>9. CallsOK'
    BY <2>1, <2>6, <2>7, <2>8, ZenonT(60) DEF TInv, CallsOK
  <2> QED BY <2>4, <2>5, <2>9, Zenon DEF TInv
<1> QED BY <1>1, <1>2

\* Steps that change neither servers nor ends nor calls.
LEMMA OtherStep ==
    ASSUME TInv,
           \/ iterate \/ cleanup \/ (stopListening /\ UNCHANGED testVars) \/ UNCHANGED vars
    PROVE  TInv'
<1>1. UNCHANGED <<enabled, connections, servers, calls, persister, endnames>>
  BY DEF iterate, cleanup, Cleanup, stopListening, config, testVars, netVars, vars
<1>2. test' = test \/ (test.pc = "check" /\ test' = [pc |-> "run", i |-> 0])
  BY DEF iterate, cleanup, stopListening, testVars, vars, Goto
<1>3. 0 \in All
  BY TestbedAssumption, SMTT(30) DEF All
<1>4. Typed' /\ Phase'
  <2>1. CASE test' = test
    BY <1>1, <2>1, ZenonT(30) DEF TInv, Typed, Phase, Up, Down, saved
  <2>2. CASE test.pc = "check" /\ test' = [pc |-> "run", i |-> 0]
    <3>1. test'.pc = "run" /\ \A i \in All : Up(i)
      BY <2>2, Zenon DEF TInv, Phase
    <3>2. Phase'
      BY <1>1, <3>1, ZenonT(30) DEF Phase, Up, saved
    <3> QED
      BY <1>1, <1>3, <2>2, <3>2, SMTT(30) DEF TInv, Typed
  <2> QED
    BY <1>2, <2>1, <2>2, Zenon
<1>5. EndsOK'
  BY <1>1, <1>2 DEF TInv, EndsOK
<1>6. CallsOK'
  BY <1>1, CallsStay, GrowsReflexive DEF TInv
<1> QED BY <1>4, <1>5, <1>6, Zenon DEF TInv

\* The invariant holds in every behaviour of the tester, the network, the
\* clients and the servers.
THEOREM TestbedInvariant == Spec => []TInv
<1>1. TInv /\ [Next]_vars => TInv'
  BY PartitionStep, ClientStep, ConnectAllStep, ShutdownStep, CopyStep, StartStep, OtherStep,
     CallerStep, ProcessReqStep, SMTT(60)
     DEF Next, testerStep
<1> QED BY <1>1, TInvInit, PTL DEF Spec

\* For any number of servers, calls and restarts: a call that returned true was
\* saved with the persister from which the next instance of its server starts,
\* although old instances go on handling calls (processReq, ShutdownServer).
THEOREM AcknowledgedCallsAreSaved == Spec => []AcknowledgedIsSaved
<1>1. TInv => AcknowledgedIsSaved
  BY Zenon DEF TInv, CallsOK, Carried, AcknowledgedIsSaved, saved
<1> QED BY <1>1, TestbedInvariant, PTL

\* For any number of servers, clients and restarts: the ends of an instance that
\* was shut down stay disabled through every partition, ConnectAll and restart.
THEOREM OldEndsStayDisabled == Spec => []OldEndsDisabled
<1>1. TInv => OldEndsDisabled
  BY DEF TInv, EndsOK, OldEndsDisabled
<1> QED BY <1>1, TestbedInvariant, PTL

-----------------------------------------------------------------------------
(* The calls made once the tester has connected everything again.          *)

\* A call over an end that is enabled, to the instance that is in the network:
\* on a reliable network nothing stops it.
OnItsWay(c) ==
    /\ c.pc # "idle"
    /\ c.end \in DOMAIN connections /\ enabled[c.end]
    /\ c.pc \in {"delivery", "waiting", "replied"} =>
          c.reliable = reliable /\ servers[c.name] = c.server
    /\ reliable => c.pc # "lost" /\ (c.pc = "returned" => c.ok = TRUE)

\* ConnectAll has enabled the ends in use when the tester checks, and the calls
\* counted as healthy were made since then.
HealthyInv ==
    /\ test.pc = "check" =>
          \A e \in DOMAIN connections : e.from \in All /\ e \in EndsOf(e.from) => enabled[e]
    /\ healthy # {} => test.pc = "check" /\ ~done
    /\ healthy \subseteq CallId
    /\ \A k \in healthy : OnItsWay(calls[k])

\* A step of one call leaves the others on their way.
LEMMA HealthyCallStep ==
    ASSUME TInv, HealthyInv, NEW k \in CallId, NEW d, Become(k, d),
           UNCHANGED <<endnames, test>>, healthy' \subseteq healthy \cup {k},
           k \in healthy' => OnItsWay(d) /\ test.pc = "check" /\ ~done
    PROVE  HealthyInv'
<1>1. /\ calls' = [calls EXCEPT ![k] = d] /\ DOMAIN calls = CallId
      /\ UNCHANGED <<reliable, enabled, connections, servers, done>>
  BY ZenonT(60) DEF Become, config, TInv, CallsOK
<1>2. \A c : OnItsWay(c) => OnItsWay(c)'
  BY <1>1, ZenonT(60) DEF OnItsWay
<1>3. ASSUME NEW j \in healthy' PROVE OnItsWay(calls[j])'
  <2>1. CASE j = k
    <3>1. calls'[j] = d
      BY <1>1, <2>1, Zenon
    <3>2. OnItsWay(d)
      BY <1>3, <2>1, Zenon
    <3> QED
      BY <1>1, <3>1, <3>2, ZenonT(60) DEF OnItsWay
  <2>2. CASE j # k
    <3>1. j \in healthy /\ j \in CallId
      BY <1>3, <2>2, Zenon DEF HealthyInv
    <3>2. calls'[j] = calls[j] /\ OnItsWay(calls[j])
      BY <1>1, <2>2, <3>1, Zenon DEF HealthyInv
    <3> QED
      BY <1>1, <3>2, ZenonT(60) DEF OnItsWay
  <2> QED
    BY <2>1, <2>2, Zenon
<1>4. \A i : EndsOf(i)' = EndsOf(i)
  BY Zenon DEF EndsOf, End
<1> QED
  BY <1>1, <1>3, <1>4, ZenonT(60) DEF HealthyInv

\* The end and the server of a call that is on its way are there: processReq
\* finds the end enabled and its server in the network, and not dead later.
LEMMA HealthyProcessReq ==
    ASSUME TInv, HealthyInv, NEW k \in CallId, networkStep(k)
    PROVE  HealthyInv'
<1> DEFINE c == calls[k]
<1>0. /\ IsCall(c) /\ Carried(DOMAIN connections, persister, k, c)
      /\ UNCHANGED <<endnames, test, healthy>>
      /\ k \in healthy => OnItsWay(c) /\ test.pc = "check" /\ ~done
  BY ZenonT(60) DEF TInv, CallsOK, networkStep, testVars, HealthyInv
<1>1. ASSUME NEW d, Become(k, d), k \in healthy => OnItsWay(d) PROVE HealthyInv'
  BY <1>0, <1>1, HealthyCallStep, ZenonT(60)
<1>2. ASSUME NEW p, OnItsWay(c), p # "idle",
             p \in {"delivery", "waiting", "replied"} =>
                c.reliable = reliable /\ servers[c.name] = c.server,
             reliable => p # "lost" /\ p # "returned"
      PROVE  OnItsWay([c EXCEPT !.pc = p])
  BY <1>0, <1>2, SMTT(60) DEF OnItsWay, IsCall
<1>3. CASE receive(k)
  <2>1. OnItsWay(c) => OnItsWay([c EXCEPT !.pc = "taken"])
    BY <1>2, ZenonT(60)
  <2> QED
    BY <1>0, <1>1, <1>3, <2>1, ZenonT(60) DEF receive
<1>4. CASE giveUp(k)
  BY <1>0, <1>1, <1>4, ZenonT(60) DEF giveUp
<1>5. CASE readEndnameInfo(k)
  <2> DEFINE name == connections[c.end]
             d == [c EXCEPT !.pc = "delivery", !.name = name, !.server = servers[name],
                            !.reliable = reliable]
  <2>1. CASE k \in healthy
    <3>1. OnItsWay(c) /\ test.pc = "check" /\ c.end \in DOMAIN connections /\ enabled[c.end]
      BY <1>0, <2>1, Zenon DEF OnItsWay
    <3>2. name \in All
      BY <3>1, Zenon DEF TInv, EndsOK
    <3>3. servers[name] # None
      <4>1. servers[name] = saved(name) /\ saved(name) \in Nat
        BY <3>1, <3>2, SMTT(60) DEF TInv, Phase, Up, saved, Typed
      <4> QED
        BY <4>1, TestbedAssumption, Zenon
    <3>4. Become(k, d)
      BY <1>5, <3>1, <3>3, ZenonT(60) DEF readEndnameInfo
    <3>5. /\ d.pc = "delivery" /\ d.end = c.end /\ d.reliable = reliable
          /\ d.server = servers[d.name]
      BY <1>0, SMTT(60) DEF IsCall
    <3> HIDE DEF d
    <3>6. OnItsWay(d)
      BY <3>1, <3>5, ZenonT(60) DEF OnItsWay
    <3> QED
      BY <1>1, <3>4, <3>6, Zenon
  <2>2. CASE k \notin healthy
    <3>1. \E e : Become(k, e)
      BY <1>5, ZenonT(60) DEF readEndnameInfo
    <3> QED
      BY <1>1, <2>2, <3>1, Zenon
  <2> QED
    BY <2>1, <2>2, Zenon
<1>6. CASE dropRequest(k)
  <2>1. k \in healthy => OnItsWay(c) /\ ~reliable
    BY <1>0, <1>6, ZenonT(60) DEF dropRequest, OnItsWay
  <2> QED
    BY <1>1, <1>2, <1>6, <2>1, ZenonT(60) DEF dropRequest
<1>7. CASE startHandler(k)
  <2> DEFINE d == [c EXCEPT !.pc = "waiting", !.handler = "started"]
  <2>1. /\ d.pc = "waiting" /\ d.end = c.end /\ d.reliable = c.reliable /\ d.name = c.name
        /\ d.server = c.server
    BY <1>0, SMTT(60) DEF IsCall
  <2>2. Become(k, d) /\ c.pc = "delivery"
    BY <1>7, ZenonT(60) DEF startHandler
  <2> HIDE DEF d
  <2>3. OnItsWay(c) => OnItsWay(d)
    BY <2>1, <2>2, ZenonT(60) DEF OnItsWay
  <2> QED
    BY <1>0, <1>1, <2>2, <2>3, Zenon
<1>8. CASE receiveReply(k)
  <2>1. k \in healthy => OnItsWay(c) /\ c.reliable = reliable /\ servers[c.name] = c.server
    BY <1>0, <1>8, ZenonT(60) DEF receiveReply, OnItsWay
  <2> QED
    BY <1>1, <1>2, <1>8, <2>1, ZenonT(60) DEF receiveReply
<1>9. CASE timeout(k)
  <2>1. k \notin healthy
    BY <1>0, <1>9, ZenonT(60) DEF timeout, OnItsWay, isServerDead
  <2> QED
    BY <1>1, <1>9, <2>1, ZenonT(60) DEF timeout
<1>10. CASE checkReply(k)
  <2>1. k \in healthy => /\ OnItsWay(c) /\ c.reliable = reliable /\ ~isServerDead(c)
    BY <1>0, <1>10, ZenonT(60) DEF checkReply, OnItsWay, isServerDead
  <2>2. k \in healthy => OnItsWay([c EXCEPT !.pc = "answered"])
    BY <1>2, <2>1, ZenonT(60)
  <2>3. k \in healthy /\ ~reliable => OnItsWay([c EXCEPT !.pc = "lost"])
    BY <1>2, <2>1, ZenonT(60)
  <2>4. \/ Become(k, [c EXCEPT !.pc = "answered"])
        \/ (isServerDead(c) \/ ~c.reliable) /\ Become(k, [c EXCEPT !.pc = "lost"])
    BY <1>10, ZenonT(60) DEF checkReply
  <2> QED
    BY <1>1, <2>1, <2>2, <2>3, <2>4, ZenonT(60)
<1>11. CASE return(k)
  <2> DEFINE d == [c EXCEPT !.pc = "returned", !.ok = c.pc = "answered"]
  <2>1. c.pc \in {"lost", "answered"} /\ Become(k, d)
    BY <1>11, ZenonT(60) DEF return
  <2>2. /\ d.pc = "returned" /\ d.end = c.end /\ d.ok = (c.pc = "answered")
    BY <1>0, SMTT(60) DEF IsCall
  <2> HIDE DEF d
  <2>3. OnItsWay(c) => OnItsWay(d)
    BY <2>1, <2>2, ZenonT(60) DEF OnItsWay
  <2> QED
    BY <1>0, <1>1, <2>1, <2>3, Zenon
<1> QED
  BY <1>3, <1>4, <1>5, <1>6, <1>7, <1>8, <1>9, <1>10, <1>11, Zenon DEF networkStep, processReq

\* A call that is counted as healthy is made over an end that is enabled; a
\* handler changes nothing that the network looks at.
LEMMA HealthyCallerStep ==
    ASSUME TInv, HealthyInv, NEW k \in CallId, CallAny(k) \/ handle(k)
    PROVE  HealthyInv'
<1> DEFINE c == calls[k]
<1>1. CASE CallAny(k)
  <2>1. PICK e \in DOMAIN enabled :
           /\ Call(k, e)
           /\ healthy' = IF test.pc = "check" /\ ~done
                            /\ IF e.from \in All THEN e \in EndsOf(e.from) ELSE enabled[e]
                         THEN healthy \cup {k} ELSE healthy
    BY <1>1, ZenonT(60) DEF CallAny
  <2> DEFINE d == [NoCall EXCEPT !.pc = "sending", !.end = e]
  <2>2. Become(k, d) /\ c.pc = "idle" /\ UNCHANGED <<endnames, test>>
    BY <1>1, <2>1, ZenonT(60) DEF Call, CallAny
  <2>3. d.pc = "sending" /\ d.end = e
    BY SMTT(60) DEF NoCall
  <2> HIDE DEF d
  <2>4. k \notin healthy
    BY <2>2, ZenonT(60) DEF HealthyInv, OnItsWay
  <2>5. e \in DOMAIN connections
    BY <2>1, ZenonT(60) DEF TInv, EndsOK
  <2>6. CASE k \in healthy'
    <3>1. /\ test.pc = "check" /\ ~done
          /\ IF e.from \in All THEN e \in EndsOf(e.from) ELSE enabled[e]
      BY <2>1, <2>4, <2>6, ZenonT(60)
    <3>2. enabled[e]
      BY <2>5, <3>1, ZenonT(60) DEF HealthyInv
    <3>3. OnItsWay(d)
      BY <2>3, <2>5, <3>2, ZenonT(60) DEF OnItsWay
    <3>4. healthy' \subseteq healthy \cup {k}
      BY <2>1, Zenon
    <3> QED
      BY <2>2, <3>1, <3>3, <3>4, HealthyCallStep, ZenonT(60)
  <2>7. CASE k \notin healthy'
    <3>1. healthy' \subseteq healthy \cup {k}
      BY <2>1, Zenon
    <3> QED
      BY <2>2, <2>7, <3>1, HealthyCallStep, ZenonT(60)
  <2> QED
    BY <2>6, <2>7, Zenon
<1>2. CASE handle(k)
  <2> DEFINE d == [c EXCEPT !.handler = "ran"]
  <2>1. Become(k, d) /\ UNCHANGED <<endnames, test, healthy>>
    BY <1>2, ZenonT(60) DEF handle, dispatch
  <2>2. IsCall(c)
    BY Zenon DEF TInv, CallsOK
  <2>3. /\ d.pc = c.pc /\ d.end = c.end /\ d.reliable = c.reliable /\ d.name = c.name
        /\ d.server = c.server /\ d.ok = c.ok
    BY <2>2, SMTT(60) DEF IsCall
  <2> HIDE DEF d
  <2>4. OnItsWay(c) => OnItsWay(d)
    BY <2>3, ZenonT(60) DEF OnItsWay
  <2>5. k \in healthy' => OnItsWay(d) /\ test.pc = "check" /\ ~done
    BY <2>1, <2>4, Zenon DEF HealthyInv
  <2>6. healthy' \subseteq healthy \cup {k}
    BY <2>1, Zenon
  <2> QED
    BY <2>1, <2>5, <2>6, HealthyCallStep, Zenon
<1> QED
  BY <1>1, <1>2, Zenon

\* The tester changes nothing while calls are counted as healthy, and it starts
\* to count them when ConnectAll has enabled every end in use.
LEMMA HealthyTesterStep ==
    ASSUME TInv, HealthyInv, testerStep
    PROVE  HealthyInv'
<1>1. CASE iterate \/ cleanup
  <2>1. /\ healthy' = {} /\ UNCHANGED <<connections, enabled, endnames>>
        /\ UNCHANGED test \/ test' = [pc |-> "run", i |-> 0]
    BY <1>1, ZenonT(60) DEF iterate, cleanup, Cleanup, netVars, Goto
  <2>2. [pc |-> "run", i |-> 0].pc # "check"
    OBVIOUS
  <2>3. \A i : EndsOf(i)' = EndsOf(i)
    BY <2>1, Zenon DEF EndsOf, End
  <2>4. test'.pc = "check" => test.pc = "check"
    BY <2>1, <2>2, Zenon
  <2> QED
    BY <2>1, <2>3, <2>4, ZenonT(60) DEF HealthyInv
<1>2. ASSUME test.pc # "check", UNCHANGED healthy, test'.pc # "check" PROVE HealthyInv'
  BY <1>2, ZenonT(60) DEF HealthyInv
<1>3. CASE ConnectAll
  <2> DEFINE on == UNION {between(i, All) : i \in All}
  <2>1. /\ UNCHANGED <<connections, endnames, healthy>> /\ test.pc # "check"
        /\ enabled' = Enable(enabled, on, TRUE)
    BY <1>3, ZenonT(60) DEF ConnectAll, connectAll
  <2>2. healthy' = {}
    BY <2>1, Zenon DEF HealthyInv
  <2>3. ASSUME NEW e \in DOMAIN connections', e.from \in All, e \in EndsOf(e.from)'
        PROVE  enabled'[e]
    <3>1. e \in EndsOf(e.from) /\ e \in DOMAIN enabled
      BY <2>1, <2>3, ZenonT(60) DEF EndsOf, End, TInv, EndsOK
    <3>2. e \in between(e.from, All)
      BY <3>1, Zenon DEF EndsOf, between
    <3>3. e \in on
      BY <2>3, <3>2, Zenon
    <3> QED
      BY <2>1, <3>1, <3>3, ZenonT(60) DEF Enable
  <2> QED
    BY <2>2, <2>3, ZenonT(60) DEF HealthyInv
<1>4. ASSUME NEW p1 \in SUBSET All, partition(p1) PROVE HealthyInv'
  BY <1>2, <1>4, ZenonT(60) DEF partition
<1>5. ASSUME NEW x \in Client, NEW to \in SUBSET All, NEW yes \in BOOLEAN,
             makeClient(x, to) \/ ConnectClient(x, to, yes)
      PROVE  HealthyInv'
  BY <1>2, <1>5, ZenonT(60) DEF makeClient, ConnectClient, testVars
<1>6. \A p, i : [pc |-> p, i |-> i].pc = p
  OBVIOUS
<1>7. ASSUME NEW p, NEW i, Goto(p, i), p # "check" PROVE test'.pc # "check"
  BY <1>6, <1>7, Zenon DEF Goto
<1>8. CASE shutdownDisconnect \/ shutdownDelete \/ shutdownCopy
  <2>1. test'.pc # "check"
    BY <1>7, <1>8, ZenonT(60) DEF shutdownDisconnect, shutdownDelete, shutdownCopy
  <2> QED
    BY <1>2, <1>8, <2>1, ZenonT(60) DEF shutdownDisconnect, shutdownDelete, shutdownCopy
<1>9. CASE startEnds \/ startAdd
  <2>1. test'.pc # "check"
    BY <1>7, <1>9, ZenonT(60) DEF startEnds, startAdd
  <2> QED
    BY <1>2, <1>9, <2>1, ZenonT(60) DEF startEnds, startAdd
<1>10. TRUE \in BOOLEAN
  OBVIOUS
<1> QED
  BY <1>1, <1>3, <1>4, <1>5, <1>8, <1>9, <1>10, ZenonT(60) DEF testerStep

\* Once ConnectAll has connected the servers again, whatever partitions and
\* restarts came before, every call over an end in use gets through on a reliable
\* network: readEndnameInfo finds its server, and isServerDead stays false.
THEOREM HealthyCallsGetThrough == Spec => []HealthyCallsSucceed
<1>1. make_config => HealthyInv
  <2> SUFFICES ASSUME make_config PROVE HealthyInv
    OBVIOUS
  <2>1. healthy = {} /\ test = [pc |-> "run", i |-> 0]
    BY Zenon DEF make_config
  <2>2. test.pc # "check"
    BY <2>1
  <2> QED
    BY <2>1, <2>2, Zenon DEF HealthyInv
<1>2. TInv /\ HealthyInv /\ [Next]_vars => HealthyInv'
  <2> SUFFICES ASSUME TInv, HealthyInv, [Next]_vars PROVE HealthyInv'
    OBVIOUS
  <2>1. CASE UNCHANGED vars \/ (stopListening /\ UNCHANGED testVars)
    <3>1. UNCHANGED <<reliable, enabled, connections, servers, done, calls, testVars>>
      BY <2>1, ZenonT(60) DEF vars, netVars, stopListening, config
    <3>2. \A i : EndsOf(i)' = EndsOf(i)
      BY <3>1, Zenon DEF EndsOf, End, testVars
    <3>3. \A k : OnItsWay(calls[k])' <=> OnItsWay(calls[k])
      BY <3>1, Zenon DEF OnItsWay
    <3> QED
      BY <3>1, <3>2, <3>3, ZenonT(60) DEF HealthyInv, testVars
  <2> QED
    BY <2>1, HealthyProcessReq, HealthyCallerStep, HealthyTesterStep, ZenonT(60) DEF Next
<1>3. HealthyInv => HealthyCallsSucceed
  BY ZenonT(60) DEF HealthyInv, OnItsWay, HealthyCallsSucceed
<1> QED
  BY <1>1, <1>2, <1>3, TestbedInvariant, PTL DEF Spec
=============================================================================
