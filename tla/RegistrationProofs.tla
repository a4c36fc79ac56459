------------------------- MODULE RegistrationProofs -------------------------
(***************************************************************************)
(* Proofs about Registration, for all hosts, consumers, numbers of devices *)
(* and of starts of the agent, with and without load balancing.            *)
(***************************************************************************)
EXTENDS Registration, FiniteSetTheorems, SequenceTheorems, TLAPS

(***************************************************************************)
(* The inductive invariant.  What the agent and a provider believe of each *)
(* other depends on the messages between them, so that the invariant is    *)
(* about one session at a time (SessionAt): where its first message is,    *)
(* what can be on its way in each direction, and how far the registration  *)
(* is while both ends are there (Phase).  A session that the agent ended   *)
(* may go on at the provider for a while; it has no end at the agent any   *)
(* more (Held) and says nothing new.                                       *)
(***************************************************************************)

\* a queue has a message of a type
Has(q, type) == \E n \in 1..Len(q) : q[n].type = type

\* the first message of a session, before the agent's main loop reads it and
\* before it answers it
Greeting(c) ==
  /\ InInbox(c) => hd[c] = "none" /\ answer.to # c
  /\ Live(c) /\ (InInbox(c) \/ answer.to = c) => st[c[1]] = "hello" /\ down[c] = <<>>
  /\ Live(c) /\ answer.to = c => hd[c] = IF answer.type = "ACK" THEN "register" ELSE "none"

\* a session without one of its ends, and what the agent keeps of it
Ends(c) ==
  /\ ~Live(c) => down[c] = <<>>
  /\ hd[c] = "none" => up[c] = <<>> /\ reg[c] = 0
  /\ c \in listed <=> hd[c] \in {"register", "sleep", "await", "detach"}
  /\ hd[c] \in {"sleep", "await"} => reg[c] = NDevices + 1
  /\ Live(c) /\ hd[c] \in {"sleep", "await", "detach", "destroy"} => st[c[1]] = "serve"

\* a provider announces one item at a time, and after the last one that it is done
Announced(c) ==
  /\ \A n \in 1..Len(up[c]) :
       /\ up[c][n].type \in {"INFO", "IDLE"} => n = 1 /\ hd[c] = "register"
       /\ up[c][n].type = "IDLE" => reg[c] = NDevices + 1
       /\ up[c][n].type = "INFO" => up[c][n].n = reg[c]
  /\ Live(c) =>
       /\ ~Has(up[c], "SHUTDOWN")
       /\ Has(up[c], "IDLE") => st[c[1]] = "serve"
       /\ Has(up[c], "INFO") =>
            st[c[1]] = "awaitId" /\ reg[c] = Len(known[c[1]]) /\ ~Has(down[c], "ID")
       /\ st[c[1]] \in {"hello", "announce"} => up[c] = <<>>
       /\ st[c[1]] = "awaitId" => \A n \in 1..Len(up[c]) : up[c][n].type = "INFO"

\* what a provider can read
Told(c) ==
  Live(c) =>
    /\ \A n \in 1..Len(down[c]) : down[c][n].type = "ID" =>
         /\ st[c[1]] = "awaitId" /\ down[c][n].n = Len(known[c[1]])
         /\ \A m \in 1..Len(down[c]) : down[c][m].type = "ID" => m = n
    /\ balancing /\ Has(down[c], "REQUEST") => st[c[1]] = "serve"
    /\ Has(down[c], "SHUTDOWN") \/ c[1] \in missed => ~Held(c)
    /\ Has(down[c], "REST") => c[1] \in missed

\* both ends are there
Connected(c) == Live(c) /\ ~Has(down[c], "SHUTDOWN") /\ c[1] \notin missed

Phase(c) ==
  Connected(c) =>
    /\ st[c[1]] = "hello" => reg[c] = 0 /\ (Has(down[c], "ACK") => hd[c] = "register")
    /\ st[c[1]] = "announce" => hd[c] = "register" /\ reg[c] = Len(known[c[1]])
    /\ st[c[1]] = "awaitId" =>
         hd[c] = "register" /\ (Has(down[c], "ID") => reg[c] = Len(known[c[1]]) + 1)
    /\ st[c[1]] = "serve" => hd[c] \in {"register", "sleep", "await"} /\ reg[c] = NDevices + 1

SessionAt(c) == Greeting(c) /\ Ends(c) /\ Announced(c) /\ Told(c) /\ Phase(c)

SessionInv == \A c \in Sessions : SessionAt(c)

\* no association has two first messages
InboxInv == \A m, n \in 1..Len(inbox) : inbox[m] = inbox[n] /\ inbox[m] \in Sessions => m = n

\* the ids a provider was told are those of its items, in order
KnownInv ==
  \A h \in Hosts :
    /\ st[h] \in InSession <=> cur[h] # 0
    /\ st[h] = "hello" => known[h] = <<>>
    /\ st[h] \in InSession /\ h \notin missed => \A n \in 1..Len(known[h]) : known[h][n] = n - 1
    /\ st[h] = "awaitId" => Len(known[h]) \in Items
    /\ st[h] = "serve" => Len(known[h]) = NDevices + 1

\* the sessions whose platform the load-balancer has, and a consumer can have
PlatformInv ==
  /\ \A c \in lb : hd[c] \in {"sleep", "await", "detach"} /\ reg[c] = NDevices + 1
  /\ \A u \in Consumers, c \in Sessions : chosen[u] = c =>
       reg[c] > 0 /\ (balancing => hd[c] \in {"sleep", "await", "detach", "destroy"})
  /\ balancing => \A u \in Consumers, c \in Sessions : chosen[u] = c <=> user[c] = u

\* who has the lock of a session
LockInv ==
  /\ \A u \in Consumers : th[u] = "call" => chosen[u] \in Sessions /\ lock[chosen[u]] = u
  /\ \A c \in Sessions : hd[c] = "await" => lock[c] = "ping"

OneOfHost == \A c, d \in listed : c[1] = d[1] => c = d

NeverMixed == balancing => crash \notin {"garbled", "mixed"}

IInv == /\ TypeOK /\ SessionInv /\ InboxInv /\ KnownInv /\ PlatformInv /\ LockInv /\ OneOfHost
        /\ NeverMixed

-----------------------------------------------------------------------------
(* Queues and messages *)

\* what is left of a queue when one message is taken from it
LEMMA Taken ==
  ASSUME NEW S, NEW s \in Seq(S), s # <<>>
  PROVE  /\ Len(s) \in Nat \ {0} /\ Head(s) = s[1] /\ Head(s) \in S
         /\ Tail(s) \in Seq(S) /\ Len(Tail(s)) = Len(s) - 1
         /\ \A n \in 1..(Len(s) - 1) : Tail(s)[n] = s[n + 1]
BY HeadTailProperties, EmptySeq

\* and what it is when one is added
LEMMA Sent ==
  ASSUME NEW S, NEW s \in Seq(S), NEW e \in S
  PROVE  /\ Append(s, e) \in Seq(S) /\ Append(s, e) # <<>>
         /\ Len(s) \in Nat /\ Len(Append(s, e)) = Len(s) + 1
         /\ \A n \in 1..Len(s) : Append(s, e)[n] = s[n]
         /\ Append(s, e)[Len(s) + 1] = e
BY AppendProperties, LenProperties

LEMMA EmptyHas == \A type : ~Has(<<>>, type)
BY DEF Has

\* the head of a queue, and its rest, have the types of its messages
LEMMA HasTaken ==
  ASSUME NEW s \in Seq(Msg), s # <<>>, NEW type
  PROVE  /\ Has(s, Head(s).type)
         /\ Has(Tail(s), type) => Has(s, type)
         /\ Has(s, type) => Head(s).type = type \/ Has(Tail(s), type)
<1>1. /\ Len(s) \in Nat \ {0} /\ Head(s) = s[1] /\ Len(Tail(s)) = Len(s) - 1
      /\ \A n \in 1..(Len(s) - 1) : Tail(s)[n] = s[n + 1]
  BY Taken
<1>2. Has(s, Head(s).type)
  BY <1>1 DEF Has
<1>3. ASSUME Has(Tail(s), type) PROVE Has(s, type)
  <2>1. PICK n \in 1..(Len(s) - 1) : Tail(s)[n].type = type
    BY <1>1, <1>3 DEF Has
  <2>2. n + 1 \in 1..Len(s) /\ s[n + 1].type = type
    BY <1>1, <2>1
  <2> QED
    BY <2>2 DEF Has
<1>4. ASSUME Has(s, type), Head(s).type # type PROVE Has(Tail(s), type)
  <2>1. PICK n \in 1..Len(s) : s[n].type = type
    BY <1>4 DEF Has
  <2>2. n # 1
    BY <1>1, <1>4, <2>1
  <2>3. n - 1 \in 1..(Len(s) - 1) /\ n = (n - 1) + 1
    BY <1>1, <2>2
  <2>4. Tail(s)[n - 1].type = type
    BY <1>1, <2>1, <2>3
  <2> QED
    BY <1>1, <2>3, <2>4 DEF Has
<1> QED
  BY <1>2, <1>3, <1>4

LEMMA HasSent ==
  ASSUME NEW s \in Seq(Msg), NEW m \in Msg, NEW type
  PROVE  Has(Append(s, m), type) <=> Has(s, type) \/ m.type = type
<1>1. /\ Len(s) \in Nat /\ Len(Append(s, m)) = Len(s) + 1
      /\ \A n \in 1..Len(s) : Append(s, m)[n] = s[n]
      /\ Append(s, m)[Len(s) + 1] = m
  BY Sent
<1>2. ASSUME Has(s, type) PROVE Has(Append(s, m), type)
  <2>1. PICK n \in 1..Len(s) : s[n].type = type
    BY <1>2 DEF Has
  <2>2. n \in 1..(Len(s) + 1) /\ Append(s, m)[n].type = type
    BY <1>1, <2>1
  <2> QED
    BY <1>1, <2>2 DEF Has
<1>3. ASSUME m.type = type PROVE Has(Append(s, m), type)
  <2>1. Len(s) + 1 \in 1..(Len(s) + 1) /\ Append(s, m)[Len(s) + 1].type = type
    BY <1>1, <1>3
  <2> QED
    BY <1>1, <2>1 DEF Has
<1>4. ASSUME Has(Append(s, m), type), m.type # type PROVE Has(s, type)
  <2>1. PICK n \in 1..(Len(s) + 1) : Append(s, m)[n].type = type
    BY <1>1, <1>4 DEF Has
  <2>2. n # Len(s) + 1
    BY <1>1, <1>4, <2>1
  <2>3. n \in 1..Len(s)
    BY <1>1, <2>2
  <2> QED
    BY <1>1, <2>1, <2>3 DEF Has
<1> QED
  BY <1>2, <1>3, <1>4

\* the messages of a session
LEMMA Messages ==
  /\ 0 \in Items /\ NoId \notin Items
  /\ \A type \in {"ACK", "NACK", "PING", "REQUEST", "SHUTDOWN", "REST", "IDLE", "PONG", "ANSWER"} :
       M(type) \in Msg /\ M(type).type = type
  /\ \A n \in Items : Id(n) \in Msg /\ Id(n).type = "ID" /\ Id(n).n = n
  /\ \A n \in Items : [type |-> "INFO", n |-> n] \in Msg
  /\ \A m \in Msg : m.n \in Items
BY RegistrationAssumption DEF Items, M, Id, Msg, NoId

\* a session is a host's, and neither a consumer nor what is no pointer
LEMMA Pairs ==
  /\ \A c \in Sessions : /\ c[1] \in Hosts /\ c[2] \in {1, 2} /\ c = <<c[1], c[2]>>
                         /\ c \notin Consumers /\ c # None /\ c # Freed
  /\ \A h \in Hosts, k \in {1, 2} : <<h, k>> \in Sessions
  /\ \A u \in Consumers : u # None /\ u # Freed /\ u # "ping"
  /\ None # "ping"
BY RegistrationAssumption DEF Sessions

\* the session of a provider that has one
LEMMA Current ==
  ASSUME TypeOK, NEW h \in Hosts, cur[h] # 0
  PROVE  Session(h) \in Sessions /\ Session(h)[1] = h /\ Live(Session(h))
<1>1. cur[h] \in {1, 2}
  BY DEF TypeOK
<1> QED
  BY <1>1, Pairs DEF Session, Live

-----------------------------------------------------------------------------
(* Types *)

\* The empty tuple is a queue of anything.
LEMMA TypeInit == Init => TypeOK
BY RegistrationAssumption, EmptySeq DEF Init, TypeOK, Sessions, Items, InSession, Ended, Starting

\* what is to be shown of the queues of the sessions
LEMMA SendsTyped ==
  ASSUME TypeOK, NEW c \in Sessions, NEW m \in Msg
  PROVE  /\ ToProvider(c, m) => down' \in [Sessions -> Seq(Msg)]
         /\ ToAgent(c, m) => up' \in [Sessions -> Seq(Msg)]
<1>1. Append(down[c], m) \in Seq(Msg) /\ Append(up[c], m) \in Seq(Msg)
  BY Sent DEF TypeOK
<1> QED
  BY <1>1 DEF TypeOK, ToProvider, ToAgent

LEMMA TakesTyped ==
  ASSUME TypeOK, NEW c \in Sessions
  PROVE  /\ up[c] # <<>> => /\ [up EXCEPT ![c] = Tail(@)] \in [Sessions -> Seq(Msg)]
                            /\ Head(up[c]) \in Msg
         /\ down[c] # <<>> => /\ [down EXCEPT ![c] = Tail(@)] \in [Sessions -> Seq(Msg)]
                              /\ Head(down[c]) \in Msg
BY Taken DEF TypeOK

LEMMA AgentEndsTyped ==
  ASSUME TypeOK, AgentEnds
  PROVE  TypeOK'
<1>1. M("SHUTDOWN") \in Msg
  BY Messages
<1>2. down' \in [Sessions -> Seq(Msg)]
  <2>1. PICK late \in BOOLEAN :
          down' = [c \in Sessions |->
                     IF Live(c) /\ Attached(c)
                     THEN Append(IF late THEN down[c] ELSE <<>>, M("SHUTDOWN")) ELSE down[c]]
    BY DEF AgentEnds
  <2>2. ASSUME NEW c \in Sessions
        PROVE  Append(IF late THEN down[c] ELSE <<>>, M("SHUTDOWN")) \in Seq(Msg) /\ down[c] \in Seq(Msg)
    BY <1>1, Sent, EmptySeq DEF TypeOK
  <2> QED
    BY <2>1, <2>2
<1>3. up' \in [Sessions -> Seq(Msg)]
  BY EmptySeq DEF AgentEnds
<1>4. inbox' \in Seq(Sessions \union Consumers)
  BY EmptySeq DEF AgentEnds
<1>5. reg' \in [Sessions -> 0..(NDevices + 1)]
  BY RegistrationAssumption DEF AgentEnds
<1> QED
  BY <1>2, <1>3, <1>4, <1>5 DEF TypeOK, AgentEnds, provVars

LEMMA LeaveTyped ==
  ASSUME TypeOK, NEW h \in Hosts, cur[h] # 0, LeaveSession(h)
  PROVE  /\ cur' \in [Hosts -> 0..2]
         /\ up' \in [Sessions -> Seq(Msg)] /\ down' \in [Sessions -> Seq(Msg)]
<1>1. Session(h) \in Sessions /\ M("SHUTDOWN") \in Msg
  BY Current, Messages
<1>2. Append(up[Session(h)], M("SHUTDOWN")) \in Seq(Msg) /\ <<>> \in Seq(Msg)
  BY <1>1, Sent, EmptySeq DEF TypeOK
<1> QED
  BY <1>1, <1>2 DEF TypeOK, LeaveSession

LEMMA MainTyped ==
  ASSUME TypeOK, AgentMain \/ AgentKilled \/ AgentStarts
  PROVE  TypeOK'
<1>1. CASE AcceptProvider
  <2>1. Head(inbox) \in Sessions \union Consumers /\ Tail(inbox) \in Seq(Sessions \union Consumers)
    BY <1>1, Taken DEF AcceptProvider, TypeOK
  <2>2. answer' \in [to : Sessions \union Consumers \union {None}, type : {"ACK", "NACK"}]
    BY <1>1 DEF AcceptProvider
  <2>3. /\ listed' \subseteq Sessions
        /\ hd' \in [Sessions -> {"none", "register", "sleep", "await", "detach", "destroy"}]
    <3>1. CASE FindProvider(Head(inbox)[1])
      BY <1>1, <3>1 DEF AcceptProvider, TypeOK
    <3>2. CASE ~FindProvider(Head(inbox)[1])
      <4>1. /\ hd' = [hd EXCEPT ![Head(inbox)] = "register"]
            /\ listed' = listed \union {Head(inbox)} /\ Head(inbox) \in Sessions
        BY <1>1, <3>2 DEF AcceptProvider, AttachProvider
      <4> QED
        BY <4>1 DEF TypeOK
    <3> QED
      BY <3>1, <3>2
  <2> QED
    BY <1>1, <2>1, <2>2, <2>3 DEF AcceptProvider, TypeOK, provVars, consVars
<1>2. CASE AcceptConsumer
  <2>1. Head(inbox) \in Sessions \union Consumers /\ Tail(inbox) \in Seq(Sessions \union Consumers)
    BY <1>2, Taken DEF AcceptConsumer, TypeOK
  <2> QED
    BY <1>2, <2>1 DEF AcceptConsumer, AttachConsumer, TypeOK, provVars, sessVars
<1>3. CASE AnswerFails
  BY <1>3, AgentEndsTyped DEF AnswerFails
<1>4. CASE AnswerProvider
  <2>1. M(answer.type) \in Msg
    BY Messages DEF TypeOK
  <2>2. Append(down[answer.to], M(answer.type)) \in Seq(Msg)
    BY <1>4, <2>1, Sent DEF AnswerProvider, TypeOK
  <2> QED
    BY <1>4, <2>2 DEF AnswerProvider, TypeOK, provVars, sessVars, consVars
<1>5. CASE AnswerConsumer
  BY <1>5 DEF AnswerConsumer, TypeOK, provVars, sessVars
<1>6. CASE AgentKilled
  BY <1>6, AgentEndsTyped DEF AgentKilled
<1>7. CASE AgentStarts
  <2>1. starts' \in 1..MaxStarts
    BY <1>7, RegistrationAssumption DEF AgentStarts, TypeOK
  <2> QED
    BY <1>7, <2>1 DEF AgentStarts, TypeOK, provVars, sessVars, consVars
<1> QED
  BY <1>1, <1>2, <1>3, <1>4, <1>5, <1>6, <1>7 DEF AgentMain

\* An item is registered by its number, so that there are no more than the items.
LEMMA HandlerTyped ==
  ASSUME IInv, NEW c \in Sessions, HandlerStep(c)
  PROVE  TypeOK'
<1> TypeOK
  BY DEF IInv
<1>1. CASE RegisterItem(c)
  <2>1. Head(up[c]) \in Msg /\ Head(up[c]) = up[c][1] /\ 1 \in 1..Len(up[c])
    BY <1>1, Taken DEF RegisterItem, TypeOK
  <2>2. reg[c] = Head(up[c]).n
    BY <1>1, <2>1 DEF RegisterItem, IInv, SessionInv, SessionAt, Announced
  <2>3. reg[c] + 1 \in 0..(NDevices + 1) /\ Id(Head(up[c]).n) \in Msg
    BY <2>1, <2>2, Messages, RegistrationAssumption DEF Items
  <2>4. down' \in [Sessions -> Seq(Msg)]
    BY <1>1, <2>3, SendsTyped DEF RegisterItem
  <2>5. up' \in [Sessions -> Seq(Msg)]
    BY <1>1, TakesTyped DEF RegisterItem
  <2>6. reg' \in [Sessions -> 0..(NDevices + 1)]
    BY <1>1, <2>3 DEF RegisterItem, TypeOK
  <2> QED
    BY <1>1, <2>4, <2>5, <2>6 DEF RegisterItem, TypeOK, agentVars, provVars, consVars
<1>2. CASE RegisterIdle(c)
  <2>1. up' \in [Sessions -> Seq(Msg)]
    BY <1>2, TakesTyped DEF RegisterIdle
  <2> QED
    BY <1>2, <2>1 DEF RegisterIdle, AddPlatform, TypeOK, agentVars, provVars, consVars
<1>3. CASE RegisterLost(c)
  <2>1. up' \in [Sessions -> Seq(Msg)]
    BY <1>3, TakesTyped DEF RegisterLost, TypeOK
  <2> QED
    BY <1>3, <2>1 DEF RegisterLost, TypeOK, agentVars, provVars, consVars
<1>4. CASE Ping(c)
  <2>1. down' \in [Sessions -> Seq(Msg)]
    BY <1>4, SendsTyped, Messages DEF Ping
  <2> QED
    BY <1>4, <2>1 DEF Ping, TypeOK, agentVars, provVars, consVars
<1>5. CASE Pong(c)
  <2>1. up' \in [Sessions -> Seq(Msg)]
    BY <1>5, TakesTyped, ZenonT(60) DEF Pong, TypeOK
  <2> QED
    BY <1>5, <2>1 DEF Pong, TypeOK, agentVars, provVars, consVars
<1>6. CASE Detach(c)
  BY <1>6 DEF Detach, TypeOK, agentVars, provVars, consVars
<1>7. CASE Destroy(c)
  <2>1. up' \in [Sessions -> Seq(Msg)] /\ reg' \in [Sessions -> 0..(NDevices + 1)]
    BY <1>7, EmptySeq, RegistrationAssumption DEF Destroy, TypeOK
  <2> QED
    BY <1>7, <2>1 DEF Destroy, TypeOK, agentVars, provVars
<1> QED
  BY <1>1, <1>2, <1>3, <1>4, <1>5, <1>6, <1>7 DEF HandlerStep

\* An id is one of an item, or NoId, and there is one for each item at most.
LEMMA KnownTyped ==
  ASSUME TypeOK, KnownInv, NEW h \in Hosts, st[h] = "awaitId", NEW id \in Items \union {NoId}
  PROVE  /\ Append(known[h], id) \in Seq(Items \union {NoId})
         /\ Len(Append(known[h], id)) <= NDevices + 1
<1>1. known[h] \in Seq(Items \union {NoId}) /\ Len(known[h]) \in Items
  BY DEF TypeOK, KnownInv
<1>2. /\ Append(known[h], id) \in Seq(Items \union {NoId})
      /\ Len(Append(known[h], id)) = Len(known[h]) + 1
  BY <1>1, Sent
<1> QED
  BY <1>1, <1>2, RegistrationAssumption DEF Items

LEMMA ProviderTyped ==
  ASSUME IInv, NEW h \in Hosts, ProviderStep(h) \/ Connect(h) \/ ConnectFails(h)
                                  \/ StartupFails(h) \/ ProviderEnds(h)
  PROVE  TypeOK'
<1> TypeOK /\ KnownInv
  BY DEF IInv
<1>0. st[h] \in InSession => Session(h) \in Sessions /\ cur[h] # 0
  BY Current DEF KnownInv
<1>1. CASE RecvAck(h)
  <2>1. down' \in [Sessions -> Seq(Msg)]
    BY <1>0, <1>1, TakesTyped DEF RecvAck, Prov, InSession
  <2> QED
    BY <1>1, <2>1 DEF RecvAck, TypeOK, agentVars, sessVars, consVars, InSession, Starting
<1>2. CASE RecvNack(h)
  <2>1. /\ cur' \in [Hosts -> 0..2]
        /\ up' \in [Sessions -> Seq(Msg)] /\ down' \in [Sessions -> Seq(Msg)]
    BY <1>0, <1>2, LeaveTyped DEF RecvNack, Prov, InSession
  <2> QED
    BY <1>2, <2>1 DEF RecvNack, TypeOK, agentVars, sessVars, consVars, Ended
<1>3. CASE Announce(h)
  <2>1. /\ Len(known[h]) \in Items => [type |-> "INFO", n |-> Len(known[h])] \in Msg
        /\ M("IDLE") \in Msg /\ Session(h) \in Sessions
    BY <1>0, <1>3, Messages DEF Announce, Prov, InSession, Starting
  <2>2. up' \in [Sessions -> Seq(Msg)]
    BY <1>3, <2>1, SendsTyped DEF Announce
  <2>3. st' \in [Hosts -> InSession \union Ended \union {"sleep"}]
    BY <1>3 DEF Announce, TypeOK, InSession, Starting
  <2> QED
    BY <1>3, <2>2, <2>3 DEF Announce, TypeOK, agentVars, sessVars, consVars
<1>4. CASE RecvId(h)
  <2>1. /\ down' \in [Sessions -> Seq(Msg)] /\ Head(down[Session(h)]) \in Msg
    BY <1>0, <1>4, TakesTyped DEF RecvId, Prov, InSession, Starting
  <2>2. Head(down[Session(h)]).n \in Items
    BY <2>1, Messages
  <2>3. /\ known' \in [Hosts -> Seq(Items \union {NoId})]
        /\ \A g \in Hosts : Len(known'[g]) <= NDevices + 1
    BY <1>4, <2>2, KnownTyped DEF RecvId, Prov, TypeOK
  <2> QED
    BY <1>4, <2>1, <2>3 DEF RecvId, TypeOK, agentVars, sessVars, consVars, InSession, Starting
<1>5. CASE RecvNoId(h)
  <2>1. missed' \subseteq Hosts
    BY <1>5 DEF RecvNoId, TypeOK
  <2>2. CASE \E n \in 1..Len(known[h]) : known[h][n] = NoId
    <3>1. LeaveSession(h) /\ cur[h] # 0 /\ known' = known
      BY <1>0, <1>5, <2>2 DEF RecvNoId, Prov, InSession, Starting
    <3>2. /\ cur' \in [Hosts -> 0..2]
          /\ up' \in [Sessions -> Seq(Msg)] /\ down' \in [Sessions -> Seq(Msg)]
      BY <3>1, LeaveTyped
    <3>3. st' \in [Hosts -> InSession \union Ended \union {"sleep"}]
      BY <1>5, <2>2 DEF RecvNoId, TypeOK, Ended
    <3> QED
      BY <1>5, <2>1, <3>1, <3>2, <3>3 DEF RecvNoId, TypeOK, agentVars, sessVars, consVars
  <2>3. CASE ~\E n \in 1..Len(known[h]) : known[h][n] = NoId
    <3>1. st' \in [Hosts -> InSession \union Ended \union {"sleep"}]
      BY <1>5, <2>3 DEF RecvNoId, TypeOK, InSession, Starting
    <3>2. down' \in [Sessions -> Seq(Msg)]
      <4>1. <<M("REST")>> \in Seq(Msg) /\ <<>> \in Seq(Msg)
        BY Messages, EmptySeq, Sent
      <4> QED
        BY <1>5, <2>3, <4>1, ZenonT(60) DEF RecvNoId, TypeOK
    <3>3. /\ known' \in [Hosts -> Seq(Items \union {NoId})]
          /\ \A g \in Hosts : Len(known'[g]) <= NDevices + 1
      <4>1. st[h] = "awaitId" /\ known' = [known EXCEPT ![h] = Append(known[h], NoId)]
        BY <1>5, <2>3 DEF RecvNoId, Prov
      <4>2. /\ Append(known[h], NoId) \in Seq(Items \union {NoId})
            /\ Len(Append(known[h], NoId)) <= NDevices + 1
        BY <4>1, KnownTyped
      <4> QED
        BY <4>1, <4>2 DEF TypeOK
    <3>4. cur' = cur /\ up' = up
      BY <1>5, <2>3 DEF RecvNoId
    <3> QED
      BY <1>5, <2>1, <3>1, <3>2, <3>3, <3>4 DEF RecvNoId, TypeOK, agentVars, sessVars, consVars
  <2> QED
    BY <2>2, <2>3
<1>6. CASE RecvRequestForId(h)
  BY <1>6 DEF RecvRequestForId, Crash, TypeOK, agentVars, provVars, sessVars, consVars
<1>7. CASE Serve(h)
  <2>1. Session(h) \in Sessions /\ M("PONG") \in Msg /\ M("ANSWER") \in Msg
    BY <1>0, <1>7, Messages DEF Serve, Prov, InSession
  <2>2. up' \in [Sessions -> Seq(Msg)]
    BY <1>7, <2>1, SendsTyped DEF Serve, TypeOK
  <2>3. down' \in [Sessions -> Seq(Msg)]
    BY <1>7, <2>1, TakesTyped DEF Serve
  <2> QED
    BY <1>7, <2>2, <2>3 DEF Serve, TypeOK, agentVars, provVars, sessVars, consVars
<1>8. CASE ServeLost(h)
  <2>1. /\ cur' \in [Hosts -> 0..2]
        /\ up' \in [Sessions -> Seq(Msg)] /\ down' \in [Sessions -> Seq(Msg)]
    BY <1>0, <1>8, LeaveTyped DEF ServeLost, Prov, InSession
  <2> QED
    BY <1>8, <2>1 DEF ServeLost, TypeOK, agentVars, sessVars, consVars
<1>9. CASE Connect(h)
  <2>1. PICK k \in {1, 2} : cur' = [cur EXCEPT ![h] = k] /\ inbox' = Append(inbox, <<h, k>>)
    BY <1>9 DEF Connect
  <2>2. inbox' \in Seq(Sessions \union Consumers)
    BY <2>1, Pairs, Sent DEF TypeOK
  <2>3. /\ known' \in [Hosts -> Seq(Items \union {NoId})]
        /\ \A g \in Hosts : Len(known'[g]) <= NDevices + 1
    <3>1. <<>> \in Seq(Items \union {NoId}) /\ Len(<<>>) = 0
      BY EmptySeq
    <3> QED
      BY <1>9, <3>1, RegistrationAssumption DEF Connect, InitProvider, TypeOK
  <2>4. cur' \in [Hosts -> 0..2]
    BY <2>1 DEF TypeOK
  <2>5. missed' \subseteq Hosts /\ st' \in [Hosts -> InSession \union Ended \union {"sleep"}]
    BY <1>9 DEF Connect, InitProvider, TypeOK, InSession
  <2> QED
    BY <1>9, <2>2, <2>3, <2>4, <2>5 DEF Connect, TypeOK, sessVars, consVars
<1>10. CASE ConnectFails(h)
  BY <1>10 DEF ConnectFails, TypeOK, agentVars, sessVars, consVars, Ended
<1>11. CASE StartupFails(h)
  <2>1. /\ cur' \in [Hosts -> 0..2]
        /\ up' \in [Sessions -> Seq(Msg)] /\ down' \in [Sessions -> Seq(Msg)]
    BY <1>0, <1>11, LeaveTyped DEF StartupFails, Prov, InSession, Starting
  <2> QED
    BY <1>11, <2>1 DEF StartupFails, TypeOK, agentVars, sessVars, consVars, Ended
<1>12. CASE ProviderEnds(h)
  <2>1. /\ cur' \in [Hosts -> 0..2]
        /\ up' \in [Sessions -> Seq(Msg)] /\ down' \in [Sessions -> Seq(Msg)]
    BY <1>0, <1>12, LeaveTyped DEF ProviderEnds
  <2> QED
    BY <1>12, <2>1 DEF ProviderEnds, TypeOK, agentVars, sessVars, consVars, Ended
<1> QED
  BY <1>1, <1>2, <1>3, <1>4, <1>5, <1>6, <1>7, <1>8, <1>9, <1>10, <1>11, <1>12 DEF ProviderStep

LEMMA ConsumerTyped ==
  ASSUME IInv, NEW u \in Consumers,
         \/ ConsumerStep(u) \/ ConsumerConnects(u) \/ AllocatePlatform(u) \/ ListPlatforms(u)
         \/ CallSend(u) \/ CallFreed(u) \/ ConsumerEnds(u)
  PROVE  TypeOK'
<1> TypeOK /\ LockInv
  BY DEF IInv
<1>1. CASE CallRecv(u)
  <2>1. chosen[u] \in Sessions
    BY <1>1 DEF CallRecv, Thread, LockInv
  <2>2. CASE Head(up[chosen[u]]).type \in {"INFO", "IDLE"}
    BY <1>1, <2>2 DEF CallRecv, Crash, TypeOK, agentVars, provVars, sessVars, consVars
  <2>3. CASE Head(up[chosen[u]]).type \notin {"INFO", "IDLE"}
    <3>1. up' \in [Sessions -> Seq(Msg)]
      BY <1>1, <2>1, <2>3, TakesTyped DEF CallRecv
    <3> QED
      BY <1>1, <2>3, <3>1, ZenonT(60) DEF CallRecv, TypeOK, agentVars, provVars
  <2> QED
    BY <2>2, <2>3
<1>2. CASE CallFails(u)
  BY <1>2, AgentEndsTyped DEF CallFails
<1>3. CASE DetachConsumer(u)
  <2>1. user' \in [Sessions -> Consumers \union {None}]
    BY <1>3 DEF DetachConsumer, ReleasePlatform, TypeOK
  <2> QED
    BY <1>3, <2>1 DEF DetachConsumer, TypeOK, agentVars, provVars, sessVars
<1>4. CASE ConsumerConnects(u)
  <2>1. inbox' \in Seq(Sessions \union Consumers)
    BY <1>4, Sent DEF ConsumerConnects, TypeOK
  <2> QED
    BY <1>4, <2>1 DEF ConsumerConnects, TypeOK, provVars, sessVars
<1>5. CASE AllocatePlatform(u)
  BY <1>5 DEF AllocatePlatform, TypeOK, agentVars, provVars, sessVars
<1>6. CASE ListPlatforms(u)
  BY <1>6 DEF ListPlatforms, TypeOK, agentVars, provVars, sessVars
<1>7. CASE CallSend(u)
  <2>1. down' \in [Sessions -> Seq(Msg)]
    BY <1>7, SendsTyped, Messages DEF CallSend
  <2> QED
    BY <1>7, <2>1 DEF CallSend, TypeOK, agentVars, provVars
<1>8. CASE CallFreed(u)
  BY <1>8 DEF CallFreed, Crash, TypeOK, agentVars, provVars, sessVars, consVars
<1>9. CASE ConsumerEnds(u)
  BY <1>9 DEF ConsumerEnds, TypeOK, agentVars, provVars, sessVars
<1> QED
  BY <1>1, <1>2, <1>3, <1>4, <1>5, <1>6, <1>7, <1>8, <1>9 DEF ConsumerStep

LEMMA TypeStep ==
  ASSUME IInv, [Next]_vars
  PROVE  TypeOK'
<1>1. CASE Next
  BY <1>1, MainTyped, HandlerTyped, ProviderTyped, ConsumerTyped DEF Next, IInv
<1>2. CASE UNCHANGED vars
  BY <1>2 DEF IInv, TypeOK, vars, agentVars, provVars, sessVars, consVars
<1> QED
  BY <1>1, <1>2

-----------------------------------------------------------------------------
(* The listening socket *)

\* what a step does to the first messages
LEMMA InboxMoves ==
  ASSUME IInv, [Next]_vars
  PROVE  \/ inbox' = inbox
         \/ inbox' = <<>>
         \/ inbox # <<>> /\ inbox' = Tail(inbox)
         \/ \E x \in Sessions \union Consumers : ~InInbox(x) /\ inbox' = Append(inbox, x)
<1>1. CASE AgentMain \/ AgentKilled \/ AgentStarts
  BY <1>1 DEF AgentMain, AgentKilled, AgentStarts, AcceptProvider, AcceptConsumer, AnswerFails,
              AnswerProvider, AnswerConsumer, AgentEnds
<1>2. CASE \E c \in Sessions : HandlerStep(c)
  BY <1>2 DEF HandlerStep, RegisterItem, RegisterIdle, RegisterLost, Ping, Pong, Detach, Destroy,
              agentVars
<1>3. CASE \E h \in Hosts : ProviderStep(h) \/ ConnectFails(h) \/ StartupFails(h) \/ ProviderEnds(h)
  BY <1>3 DEF ProviderStep, RecvAck, RecvNack, Announce, RecvId, RecvNoId, RecvRequestForId, Serve,
              ServeLost, ConnectFails, StartupFails, ProviderEnds, Crash, agentVars
<1>4. CASE \E h \in Hosts : Connect(h)
  <2>1. PICK h \in Hosts, k \in {1, 2} : ~Held(<<h, k>>) /\ inbox' = Append(inbox, <<h, k>>)
    BY <1>4 DEF Connect
  <2> QED
    BY <2>1, Pairs DEF Held
<1>5. CASE \E u \in Consumers : ConsumerConnects(u)
  BY <1>5 DEF ConsumerConnects
<1>6. CASE \E u \in Consumers : CallFails(u)
  BY <1>6 DEF CallFails, AgentEnds
<1>7. CASE \E u \in Consumers : \/ CallRecv(u) \/ DetachConsumer(u) \/ AllocatePlatform(u)
                                \/ ListPlatforms(u) \/ CallSend(u) \/ CallFreed(u) \/ ConsumerEnds(u)
  BY <1>7 DEF CallRecv, DetachConsumer, AllocatePlatform, ListPlatforms, CallSend, CallFreed,
              ConsumerEnds, Crash, agentVars
<1>8. CASE UNCHANGED vars
  BY <1>8 DEF vars, agentVars
<1> QED
  BY <1>1, <1>2, <1>3, <1>4, <1>5, <1>6, <1>7, <1>8 DEF Next, ConsumerStep

LEMMA InboxStep ==
  ASSUME IInv, [Next]_vars
  PROVE  InboxInv'
<1>0. inbox \in Seq(Sessions \union Consumers) /\ InboxInv
  BY DEF IInv, TypeOK
<1>1. CASE inbox' = inbox
  BY <1>0, <1>1 DEF InboxInv
<1>2. CASE inbox' = <<>>
  BY <1>2 DEF InboxInv
<1>3. CASE inbox # <<>> /\ inbox' = Tail(inbox)
  <2>1. /\ Len(inbox) \in Nat \ {0} /\ Len(inbox') = Len(inbox) - 1
        /\ \A n \in 1..(Len(inbox) - 1) : inbox'[n] = inbox[n + 1]
    BY <1>0, <1>3, Taken
  <2> SUFFICES ASSUME NEW m \in 1..(Len(inbox) - 1), NEW n \in 1..(Len(inbox) - 1),
                      inbox'[m] = inbox'[n], inbox'[m] \in Sessions
               PROVE  m = n
    BY <2>1 DEF InboxInv
  <2>2. m + 1 \in 1..Len(inbox) /\ n + 1 \in 1..Len(inbox)
    BY <2>1
  <2>3. inbox[m + 1] = inbox[n + 1] /\ inbox[m + 1] \in Sessions
    BY <2>1
  <2>4. m + 1 = n + 1
    BY <1>0, <2>2, <2>3 DEF InboxInv
  <2> QED
    BY <2>4
<1>4. CASE \E x \in Sessions \union Consumers : ~InInbox(x) /\ inbox' = Append(inbox, x)
  <2>1. PICK x \in Sessions \union Consumers : ~InInbox(x) /\ inbox' = Append(inbox, x)
    BY <1>4
  <2>2. /\ Len(inbox) \in Nat /\ Len(inbox') = Len(inbox) + 1
        /\ \A n \in 1..Len(inbox) : inbox'[n] = inbox[n]
        /\ inbox'[Len(inbox) + 1] = x
    BY <1>0, <2>1, Sent
  <2>3. \A n \in 1..Len(inbox) : inbox[n] # x
    BY <2>1 DEF InInbox
  <2> SUFFICES ASSUME NEW m \in 1..(Len(inbox) + 1), NEW n \in 1..(Len(inbox) + 1),
                      inbox'[m] = inbox'[n], inbox'[m] \in Sessions
               PROVE  m = n
    BY <2>2 DEF InboxInv
  <2>4. m = Len(inbox) + 1 \/ m \in 1..Len(inbox)
    BY <2>2
  <2>5. n = Len(inbox) + 1 \/ n \in 1..Len(inbox)
    BY <2>2
  <2> QED
    BY <1>0, <2>2, <2>3, <2>4, <2>5 DEF InboxInv
<1> QED
  BY <1>1, <1>2, <1>3, <1>4, InboxMoves

-----------------------------------------------------------------------------
(* What a provider knows *)

\* A provider that leaves its session is in none.
LEMMA KnownLeft ==
  ASSUME TypeOK, KnownInv, NEW h \in Hosts, LeaveSession(h),
         NEW s \in Ended \union {"sleep"}, st' = [st EXCEPT ![h] = s], known' = known,
         \A g \in Hosts \ {h} : g \in missed' <=> g \in missed
  PROVE  KnownInv'
<1>1. s \notin InSession /\ s \notin {"hello", "awaitId", "serve"}
  BY DEF Ended, InSession, Starting
<1>2. /\ st'[h] = s /\ cur'[h] = 0
      /\ \A g \in Hosts \ {h} : st'[g] = st[g] /\ cur'[g] = cur[g]
  BY DEF LeaveSession, TypeOK
<1> QED
  BY <1>1, <1>2 DEF KnownInv

LEMMA KnownStep ==
  ASSUME IInv, [Next]_vars
  PROVE  KnownInv'
<1> TypeOK /\ KnownInv
  BY DEF IInv
<1>0. ASSUME UNCHANGED provVars PROVE KnownInv'
  BY <1>0 DEF KnownInv, provVars
<1>1. CASE AgentMain \/ AgentKilled \/ AgentStarts
  BY <1>0, <1>1 DEF AgentMain, AgentKilled, AgentStarts, AcceptProvider, AcceptConsumer, AnswerFails,
              AnswerProvider, AnswerConsumer, AgentEnds
<1>2. CASE \E c \in Sessions : HandlerStep(c)
  BY <1>0, <1>2 DEF HandlerStep, RegisterItem, RegisterIdle, RegisterLost, Ping, Pong, Detach, Destroy
<1>3. CASE \E u \in Consumers :
              \/ ConsumerStep(u) \/ ConsumerConnects(u) \/ AllocatePlatform(u) \/ ListPlatforms(u)
              \/ CallSend(u) \/ CallFreed(u) \/ ConsumerEnds(u)
  BY <1>0, <1>3 DEF ConsumerStep, CallRecv, CallFails, AgentEnds, DetachConsumer, ConsumerConnects,
              AllocatePlatform, ListPlatforms, CallSend, CallFreed, ConsumerEnds, Crash
<1>4. CASE UNCHANGED vars
  BY <1>0, <1>4 DEF vars
<1>5. ASSUME NEW h \in Hosts, ProviderStep(h) \/ Connect(h) \/ ConnectFails(h)
                                 \/ StartupFails(h) \/ ProviderEnds(h)
      PROVE  KnownInv'
  <2>1. CASE RecvRequestForId(h) \/ Serve(h)
    BY <1>0, <2>1 DEF RecvRequestForId, Serve, Crash
  <2>2. CASE RecvNack(h) \/ ServeLost(h) \/ StartupFails(h) \/ ProviderEnds(h)
    <3>1. /\ LeaveSession(h) /\ known' = known /\ missed' = missed
          /\ \E s \in Ended \union {"sleep"} : st' = [st EXCEPT ![h] = s]
      BY <2>2 DEF RecvNack, ServeLost, StartupFails, ProviderEnds, Ended
    <3> QED
      BY <3>1, KnownLeft
  <2>3. CASE RecvAck(h)
    <3>1. /\ st[h] = "hello" /\ st' = [st EXCEPT ![h] = "announce"]
          /\ cur' = cur /\ known' = known /\ missed' = missed
      BY <2>3 DEF RecvAck, Prov
    <3> QED
      BY <3>1 DEF KnownInv, TypeOK, InSession, Starting
  <2>4. CASE Announce(h)
    <3>1. /\ st[h] = "announce"
          /\ cur' = cur /\ known' = known /\ missed' = missed
      BY <2>4 DEF Announce, Prov
    <3>2. /\ Len(known[h]) \in Items => st' = [st EXCEPT ![h] = "awaitId"]
          /\ Len(known[h]) \notin Items => st' = [st EXCEPT ![h] = "serve"]
      BY <2>4 DEF Announce
    <3>3. Len(known[h]) \in Nat /\ Len(known[h]) <= NDevices + 1
      BY DEF TypeOK
    <3>4. Len(known[h]) \notin Items => Len(known[h]) = NDevices + 1
      BY <3>3, RegistrationAssumption DEF Items
    <3> QED
      BY <3>1, <3>2, <3>4 DEF KnownInv, TypeOK, InSession, Starting
  <2>5. CASE RecvId(h)
    <3> DEFINE c == Session(h)
               id == Head(down[c]).n
    <3>1. /\ st[h] = "awaitId" /\ st' = [st EXCEPT ![h] = "announce"]
          /\ cur' = cur /\ missed' = missed /\ known' = [known EXCEPT ![h] = Append(@, id)]
          /\ down[c] # <<>> /\ Head(down[c]).type = "ID"
      BY <2>5 DEF RecvId, Prov
    <3>2. c \in Sessions /\ Live(c) /\ c[1] = h
      BY <3>1, Current DEF KnownInv, InSession, Starting
    <3>3. /\ Head(down[c]) \in Msg /\ Head(down[c]) = down[c][1] /\ 1 \in 1..Len(down[c])
      BY <3>1, <3>2, Taken DEF TypeOK
    <3>4. id = Len(known[h])
      BY <3>1, <3>2, <3>3 DEF IInv, SessionInv, SessionAt, Told
    <3>5. known[h] \in Seq(Items \union {NoId}) /\ id \in Items
      BY <3>3, Messages DEF TypeOK
    <3>6. /\ known'[h] = Append(known[h], id)
          /\ \A g \in Hosts \ {h} : known'[g] = known[g] /\ st'[g] = st[g]
          /\ st'[h] = "announce"
      BY <3>1 DEF TypeOK
    <3>7. /\ Len(known[h]) \in Nat /\ Len(known'[h]) = Len(known[h]) + 1
          /\ \A n \in 1..Len(known[h]) : known'[h][n] = known[h][n]
          /\ known'[h][Len(known[h]) + 1] = Len(known[h])
      BY <3>4, <3>5, <3>6, Sent
    <3>8. ASSUME h \notin missed, NEW n \in 1..Len(known'[h])
          PROVE  known'[h][n] = n - 1
      <4>1. \A m \in 1..Len(known[h]) : known[h][m] = m - 1
        BY <3>1, <3>8 DEF KnownInv, InSession, Starting
      <4>2. n \in 1..Len(known[h]) \/ n = Len(known[h]) + 1
        BY <3>7
      <4> QED
        BY <3>7, <4>1, <4>2
    <3> HIDE DEF c, id
    <3>9. cur[h] # 0 /\ st'[h] \in InSession
      BY <3>1, <3>6 DEF KnownInv, InSession, Starting
    <3> QED
      BY <3>1, <3>6, <3>8, <3>9 DEF KnownInv
  <2>6. CASE RecvNoId(h)
    <3>1. /\ st[h] = "awaitId" /\ missed' = missed \union {h}
      BY <2>6 DEF RecvNoId, Prov
    <3>2. CASE \E n \in 1..Len(known[h]) : known[h][n] = NoId
      <4>1. LeaveSession(h) /\ known' = known /\ st' = [st EXCEPT ![h] = "aborted"]
        BY <2>6, <3>2 DEF RecvNoId
      <4> QED
        BY <3>1, <4>1, KnownLeft DEF Ended
    <3>3. CASE ~\E n \in 1..Len(known[h]) : known[h][n] = NoId
      <4>1. /\ st' = [st EXCEPT ![h] = "announce"] /\ cur' = cur
            /\ known' = [known EXCEPT ![h] = Append(known[h], NoId)]
        BY <2>6, <3>3 DEF RecvNoId
      <4>2. /\ st'[h] = "announce" /\ cur'[h] # 0 /\ h \in missed'
            /\ \A g \in Hosts \ {h} : /\ st'[g] = st[g] /\ known'[g] = known[g]
                                      /\ cur'[g] = cur[g] /\ (g \in missed' <=> g \in missed)
        BY <3>1, <4>1 DEF TypeOK, KnownInv, InSession, Starting
      <4> QED
        BY <4>2 DEF KnownInv, InSession, Starting
    <3> QED
      BY <3>2, <3>3
  <2>7. CASE Connect(h)
    <3>1. PICK k \in {1, 2} : cur' = [cur EXCEPT ![h] = k]
      BY <2>7 DEF Connect
    <3>2. /\ st'[h] = "hello" /\ cur'[h] # 0 /\ known'[h] = <<>>
          /\ \A g \in Hosts \ {h} : /\ st'[g] = st[g] /\ known'[g] = known[g]
                                    /\ cur'[g] = cur[g] /\ (g \in missed' <=> g \in missed)
      BY <2>7, <3>1 DEF Connect, InitProvider, TypeOK
    <3> QED
      BY <3>2 DEF KnownInv, InSession
  <2>8. CASE ConnectFails(h)
    <3>1. PICK s \in {"sleep", "off"} : st' = [st EXCEPT ![h] = s]
      BY <2>8 DEF ConnectFails
    <3>2. st[h] \notin InSession /\ s \notin InSession
      BY <2>8 DEF ConnectFails, InSession, Starting, Ended
    <3>3. /\ st'[h] = s /\ cur' = cur /\ known' = known /\ missed' = missed
          /\ \A g \in Hosts \ {h} : st'[g] = st[g]
      BY <2>8, <3>1 DEF ConnectFails, TypeOK
    <3> QED
      BY <3>2, <3>3 DEF KnownInv, InSession, Starting
  <2> QED
    BY <1>5, <2>1, <2>2, <2>3, <2>4, <2>5, <2>6, <2>7, <2>8 DEF ProviderStep
<1> QED
  BY <1>1, <1>2, <1>3, <1>4, <1>5 DEF Next

-----------------------------------------------------------------------------
(* Platforms and the locks of the sessions *)

\* the actions that leave alone what the agent keeps of the sessions
LEMMA RecordsKept ==
  ASSUME TypeOK,
         \/ AcceptConsumer \/ AnswerProvider \/ AnswerConsumer \/ AgentStarts
         \/ \E h \in Hosts : ProviderStep(h) \/ Connect(h) \/ ConnectFails(h) \/ StartupFails(h)
                               \/ ProviderEnds(h)
         \/ \E u \in Consumers : \/ ConsumerConnects(u) \/ CallFreed(u) \/ ConsumerEnds(u)
         \/ UNCHANGED vars
  PROVE  /\ UNCHANGED <<balancing, sessVars, chosen, user>>
         /\ \A u \in Consumers : th'[u] = "call" => th[u] = "call"
<1>1. CASE AcceptConsumer \/ AnswerProvider \/ AnswerConsumer \/ AgentStarts
  BY <1>1 DEF AcceptConsumer, AttachConsumer, AnswerProvider, AnswerConsumer, AgentStarts, consVars,
              TypeOK
<1>2. CASE \E h \in Hosts : ProviderStep(h) \/ Connect(h) \/ ConnectFails(h) \/ StartupFails(h)
                              \/ ProviderEnds(h)
  BY <1>2 DEF ProviderStep, RecvAck, RecvNack, Announce, RecvId, RecvNoId, RecvRequestForId, Serve,
              ServeLost, Connect, ConnectFails, StartupFails, ProviderEnds, Crash, agentVars, consVars
<1>3. CASE \E u \in Consumers : \/ ConsumerConnects(u) \/ CallFreed(u) \/ ConsumerEnds(u)
  BY <1>3 DEF ConsumerConnects, CallFreed, ConsumerEnds, Crash, agentVars, consVars
<1>4. CASE UNCHANGED vars
  BY <1>4 DEF vars, agentVars, consVars
<1> QED
  BY <1>1, <1>2, <1>3, <1>4

\* Nothing chooses a session before it is registered, or after it is destroyed.
LEMMA PlatformStep ==
  ASSUME IInv, [Next]_vars
  PROVE  PlatformInv'
<1> TypeOK /\ PlatformInv /\ \A c \in Sessions : Ends(c)
  BY DEF IInv, SessionInv, SessionAt
<1>n. \A u \in Consumers, c \in Sessions : u # None /\ c # None /\ c # Freed
  BY Pairs
<1>r. NDevices \in Nat /\ reg \in [Sessions -> Nat]
  BY RegistrationAssumption DEF TypeOK
<1>1. ASSUME UNCHANGED <<balancing, sessVars, chosen, user>> PROVE PlatformInv'
  BY <1>1 DEF PlatformInv, sessVars
<1>2. ASSUME AgentEnds PROVE PlatformInv'
  BY <1>2, <1>n DEF PlatformInv, AgentEnds
<1>3. CASE AcceptProvider
  <2>1. UNCHANGED <<balancing, reg, lb, chosen, user>>
    BY <1>3 DEF AcceptProvider, consVars
  <2>2. CASE FindProvider(Head(inbox)[1])
    BY <1>3, <2>1, <2>2 DEF AcceptProvider, PlatformInv
  <2>3. CASE ~FindProvider(Head(inbox)[1])
    <3> DEFINE c == Head(inbox)
    <3>1. c \in Sessions /\ hd' = [hd EXCEPT ![c] = "register"]
      BY <1>3, <2>3 DEF AcceptProvider, AttachProvider
    <3>2. inbox \in Seq(Sessions \union Consumers) /\ inbox # <<>>
      BY <1>3 DEF AcceptProvider, TypeOK
    <3>3. Len(inbox) \in Nat \ {0} /\ c = inbox[1]
      BY <3>2, Taken
    <3>4. InInbox(c)
      BY <3>3 DEF InInbox
    <3>5. hd[c] = "none" /\ reg[c] = 0
      BY <3>1, <3>4 DEF IInv, SessionInv, SessionAt, Greeting, Ends
    <3> HIDE DEF c
    <3>6. \A d \in Sessions : d # c => hd'[d] = hd[d]
      BY <3>1 DEF TypeOK
    <3>7. c \notin lb /\ \A u \in Consumers : chosen[u] # c
      BY <3>1, <3>5 DEF PlatformInv
    <3>8. lb \subseteq Sessions
      BY DEF TypeOK
    <3> QED
      BY <2>1, <3>6, <3>7, <3>8 DEF PlatformInv
  <2> QED
    BY <2>2, <2>3
<1>4. ASSUME NEW c \in Sessions, HandlerStep(c) PROVE PlatformInv'
  <2>0. balancing' = balancing /\ \A d \in Sessions : d # c => hd'[d] = hd[d] /\ reg'[d] = reg[d]
    BY <1>4 DEF HandlerStep, RegisterItem, RegisterIdle, RegisterLost, Ping, Pong, Detach, Destroy,
                agentVars, TypeOK
  <2>1. hd[c] = "register" => c \notin lb /\ (balancing => \A u \in Consumers : chosen[u] # c)
    BY DEF PlatformInv
  <2>2. lb \subseteq Sessions
    BY DEF TypeOK
  <2>3. CASE RegisterItem(c)
    <3>1. hd[c] = "register" /\ UNCHANGED <<lb, chosen, user, hd>> /\ reg'[c] = reg[c] + 1
      BY <2>3 DEF RegisterItem, Handler, consVars, TypeOK
    <3> QED
      BY <1>r, <2>0, <2>1, <2>2, <3>1 DEF PlatformInv
  <2>4. CASE RegisterIdle(c)
    <3>1. /\ hd[c] = "register" /\ UNCHANGED <<chosen, user, reg>> /\ hd'[c] = "sleep"
          /\ lb' = lb \/ lb' = lb \union {c}
      BY <2>4 DEF RegisterIdle, AddPlatform, Handler, consVars, TypeOK
    <3>2. reg[c] = NDevices + 1
      <4>1. Head(up[c]).type = "IDLE" /\ Head(up[c]) = up[c][1] /\ 1 \in 1..Len(up[c])
        BY <2>4, Taken DEF RegisterIdle, TypeOK
      <4> QED
        BY <4>1 DEF IInv, SessionInv, SessionAt, Announced
    <3> QED
      BY <1>r, <2>0, <2>1, <2>2, <3>1, <3>2 DEF PlatformInv
  <2>5. CASE RegisterLost(c)
    <3>1. hd[c] = "register" /\ UNCHANGED <<lb, chosen, user, reg>> /\ hd'[c] = "detach"
      BY <2>5 DEF RegisterLost, Handler, consVars, TypeOK
    <3> QED
      BY <1>r, <2>0, <2>1, <2>2, <3>1 DEF PlatformInv
  <2>6. CASE Ping(c) \/ Pong(c)
    <3>1. hd'[c] \in {"sleep", "await", "detach"} /\ UNCHANGED <<lb, chosen, user, reg>>
      BY <2>6 DEF Ping, Pong, consVars, TypeOK
    <3> QED
      BY <1>r, <2>0, <2>2, <3>1 DEF PlatformInv
  <2>7. CASE Detach(c)
    <3>1. hd'[c] = "destroy" /\ lb' = lb \ {c} /\ UNCHANGED <<chosen, user, reg>>
      BY <2>7 DEF Detach, consVars, TypeOK
    <3> QED
      BY <1>r, <2>0, <2>2, <3>1 DEF PlatformInv
  <2>8. CASE Destroy(c)
    <3>1. /\ hd[c] = "destroy" /\ lb' = lb /\ user' = [user EXCEPT ![c] = None]
          /\ chosen' = [u \in Consumers |-> IF chosen[u] = c THEN Freed ELSE chosen[u]]
      BY <2>8 DEF Destroy, Handler
    <3>2. c \notin lb
      BY <3>1 DEF PlatformInv
    <3>3. \A u \in Consumers, d \in Sessions : chosen'[u] = d <=> d # c /\ chosen[u] = d
      BY <1>n, <3>1
    <3>4. \A u \in Consumers, d \in Sessions : user'[d] = u <=> d # c /\ user[d] = u
      BY <1>n, <3>1 DEF TypeOK
    <3> QED
      BY <2>0, <2>2, <3>1, <3>2, <3>3, <3>4 DEF PlatformInv
  <2> QED
    BY <1>4, <2>3, <2>4, <2>5, <2>6, <2>7, <2>8 DEF HandlerStep
<1>5. ASSUME NEW u \in Consumers, AllocatePlatform(u) PROVE PlatformInv'
  <2>1. PICK c \in lb : /\ user[c] = None /\ user' = [user EXCEPT ![c] = u]
                        /\ chosen' = [chosen EXCEPT ![u] = c]
    BY <1>5 DEF AllocatePlatform
  <2>2. /\ UNCHANGED <<balancing, hd, reg, lb>> /\ chosen[u] = None /\ balancing /\ c \in Sessions
    BY <1>5 DEF AllocatePlatform, NeedsPlatform, agentVars, sessVars, TypeOK
  <2>3. \A v \in Consumers : chosen'[v] = IF v = u THEN c ELSE chosen[v]
    BY <2>1 DEF TypeOK
  <2>4. \A d \in Sessions : user'[d] = IF d = c THEN u ELSE user[d]
    BY <2>1 DEF TypeOK
  <2>5. \A d \in Sessions : user[d] # u
    BY <1>n, <2>2 DEF PlatformInv
  <2>6. \A v \in Consumers : chosen[v] # c
    BY <1>n, <2>1, <2>2 DEF PlatformInv
  <2>7. reg[c] > 0
    BY <1>r, <2>1 DEF PlatformInv
  <2> QED
    BY <2>1, <2>2, <2>3, <2>4, <2>5, <2>6, <2>7 DEF PlatformInv
<1>6. ASSUME NEW u \in Consumers, ListPlatforms(u) PROVE PlatformInv'
  <2>1. PICK c \in listed : reg[c] > 0 /\ chosen' = [chosen EXCEPT ![u] = c]
    BY <1>6 DEF ListPlatforms
  <2>2. UNCHANGED <<balancing, hd, reg, lb>> /\ ~balancing
    BY <1>6 DEF ListPlatforms, agentVars, sessVars
  <2> QED
    BY <2>1, <2>2 DEF PlatformInv, TypeOK
<1>7. ASSUME NEW u \in Consumers, DetachConsumer(u) PROVE PlatformInv'
  <2>1. /\ UNCHANGED <<balancing, hd, reg, lb>> /\ chosen' = [chosen EXCEPT ![u] = None]
        /\ ReleasePlatform(u)
    BY <1>7 DEF DetachConsumer, agentVars, sessVars
  <2>2. \A v \in Consumers, d \in Sessions : chosen'[v] = d <=> v # u /\ chosen[v] = d
    BY <1>n, <2>1 DEF TypeOK
  <2>3. CASE chosen[u] \in Sessions /\ user[chosen[u]] = u
    <3>1. \A d \in Sessions : user'[d] = IF d = chosen[u] THEN None ELSE user[d]
      BY <2>1, <2>3 DEF ReleasePlatform, TypeOK
    <3> QED
      BY <1>n, <2>1, <2>2, <2>3, <3>1 DEF PlatformInv
  <2>4. CASE ~(chosen[u] \in Sessions /\ user[chosen[u]] = u)
    <3>1. user' = user
      BY <2>1, <2>4 DEF ReleasePlatform
    <3> QED
      BY <2>1, <2>2, <2>4, <3>1 DEF PlatformInv
  <2> QED
    BY <2>3, <2>4
<1>8. ASSUME NEW u \in Consumers, CallRecv(u) \/ CallSend(u) PROVE PlatformInv'
  <2>1. UNCHANGED <<balancing, hd, reg, lb, chosen, user>>
    BY <1>8 DEF CallRecv, CallSend, Crash, agentVars, sessVars, consVars
  <2> QED
    BY <2>1 DEF PlatformInv
<1>9. ASSUME NEW u \in Consumers, CallFails(u) PROVE PlatformInv'
  BY <1>2, <1>9 DEF CallFails
<1>10. CASE AnswerFails \/ AgentKilled
  BY <1>2, <1>10 DEF AnswerFails, AgentKilled
<1> QED
  BY <1>1, <1>3, <1>4, <1>5, <1>6, <1>7, <1>8, <1>9, <1>10, RecordsKept DEF Next, AgentMain, ConsumerStep

LEMMA LockStep ==
  ASSUME IInv, [Next]_vars
  PROVE  LockInv'
<1> TypeOK /\ LockInv
  BY DEF IInv
<1>n. None # "ping" /\ \A u \in Consumers, c \in Sessions : u # None /\ u # "ping" /\ c # Freed
  BY Pairs
<1>1. ASSUME UNCHANGED <<balancing, sessVars, chosen, user>>,
             \A u \in Consumers : th'[u] = "call" => th[u] = "call"
      PROVE  LockInv'
  BY <1>1 DEF LockInv, sessVars
<1>2. ASSUME AgentEnds PROVE LockInv'
  BY <1>2 DEF LockInv, AgentEnds
<1>3. CASE AcceptProvider
  <2>1. UNCHANGED <<lock, th, chosen>>
    BY <1>3 DEF AcceptProvider, consVars
  <2>2. \A c \in Sessions : hd'[c] = "await" => hd[c] = "await"
    BY <1>3 DEF AcceptProvider, AttachProvider, TypeOK
  <2> QED
    BY <2>1, <2>2 DEF LockInv
<1>4. ASSUME NEW c \in Sessions, HandlerStep(c) PROVE LockInv'
  <2>1. CASE RegisterItem(c) \/ RegisterIdle(c) \/ RegisterLost(c) \/ Detach(c)
    <3>1. UNCHANGED <<lock, th, chosen>> /\ \A d \in Sessions : hd'[d] = "await" => hd[d] = "await"
      BY <2>1 DEF RegisterItem, RegisterIdle, RegisterLost, Detach, consVars, TypeOK
    <3> QED
      BY <3>1 DEF LockInv
  <2>2. CASE Ping(c)
    <3>1. /\ lock[c] = None /\ UNCHANGED <<th, chosen>>
          /\ \A d \in Sessions : lock'[d] = IF d = c THEN "ping" ELSE lock[d]
          /\ \A d \in Sessions : d # c /\ hd'[d] = "await" => hd[d] = "await"
      BY <2>2 DEF Ping, consVars, TypeOK
    <3> QED
      BY <1>n, <3>1 DEF LockInv
  <2>3. CASE Pong(c)
    <3>1. /\ hd[c] = "await" /\ UNCHANGED <<th, chosen>>
          /\ \A d \in Sessions : lock'[d] = IF d = c THEN None ELSE lock[d]
          /\ \A d \in Sessions : hd'[d] = "await" => d # c /\ hd[d] = "await"
      BY <2>3 DEF Pong, Handler, consVars, TypeOK
    <3> QED
      BY <1>n, <3>1 DEF LockInv
  <2>4. CASE Destroy(c)
    <3>1. /\ lock[c] = None /\ UNCHANGED <<th, lock>>
          /\ chosen' = [u \in Consumers |-> IF chosen[u] = c THEN Freed ELSE chosen[u]]
          /\ \A d \in Sessions : hd'[d] = "await" => hd[d] = "await"
      BY <2>4 DEF Destroy, TypeOK
    <3> QED
      BY <1>n, <3>1 DEF LockInv
  <2> QED
    BY <1>4, <2>1, <2>2, <2>3, <2>4 DEF HandlerStep
<1>5. ASSUME NEW u \in Consumers, AllocatePlatform(u) \/ ListPlatforms(u) \/ DetachConsumer(u)
      PROVE  LockInv'
  <2>1. /\ th[u] # "call" /\ UNCHANGED <<lock, hd>>
        /\ \A v \in Consumers : th'[v] = "call" => v # u /\ th[v] = "call"
        /\ \A v \in Consumers : v # u => chosen'[v] = chosen[v]
    BY <1>5 DEF AllocatePlatform, ListPlatforms, DetachConsumer, NeedsPlatform, Thread, sessVars, TypeOK
  <2> QED
    BY <2>1 DEF LockInv
<1>6. ASSUME NEW u \in Consumers, CallSend(u) PROVE LockInv'
  <2>1. /\ chosen[u] \in Sessions /\ lock[chosen[u]] = None /\ UNCHANGED <<hd, chosen>>
        /\ \A c \in Sessions : lock'[c] = IF c = chosen[u] THEN u ELSE lock[c]
        /\ \A v \in Consumers : th'[v] = "call" => v = u \/ th[v] = "call"
    BY <1>6 DEF CallSend, TypeOK
  <2> QED
    BY <1>n, <2>1 DEF LockInv
<1>7. ASSUME NEW u \in Consumers, CallRecv(u) PROVE LockInv'
  <2>1. CASE Head(up[chosen[u]]).type \in {"INFO", "IDLE"}
    BY <1>1, <1>7, <2>1 DEF CallRecv, Crash, agentVars, consVars
  <2>2. CASE Head(up[chosen[u]]).type \notin {"INFO", "IDLE"}
    <3>1. /\ th[u] = "call" /\ UNCHANGED <<hd, chosen>> /\ lock' = [lock EXCEPT ![chosen[u]] = None]
          /\ th' = [th EXCEPT ![u] = "idle"]
      BY <1>7, <2>2 DEF CallRecv, Thread
    <3>2. chosen[u] \in Sessions /\ lock[chosen[u]] = u
      BY <3>1 DEF LockInv
    <3>3. /\ \A c \in Sessions : lock'[c] = IF c = chosen[u] THEN None ELSE lock[c]
          /\ \A v \in Consumers : th'[v] = "call" => v # u /\ th[v] = "call"
      BY <3>1, <3>2 DEF TypeOK
    <3> QED
      BY <1>n, <3>1, <3>2, <3>3 DEF LockInv
  <2> QED
    BY <2>1, <2>2
<1>8. ASSUME NEW u \in Consumers, CallFails(u) PROVE LockInv'
  BY <1>2, <1>8 DEF CallFails
<1>9. CASE AnswerFails \/ AgentKilled
  BY <1>2, <1>9 DEF AnswerFails, AgentKilled
<1> QED
  BY <1>1, <1>3, <1>4, <1>5, <1>6, <1>7, <1>8, <1>9, RecordsKept DEF Next, AgentMain, ConsumerStep

LEMMA OneOfHostStep ==
  ASSUME IInv, [Next]_vars
  PROVE  OneOfHost'
<1> OneOfHost
  BY DEF IInv
<1>1. ASSUME listed' \subseteq listed PROVE OneOfHost'
  BY <1>1 DEF OneOfHost
<1>2. CASE AcceptProvider
  <2>1. CASE FindProvider(Head(inbox)[1])
    BY <1>1, <1>2, <2>1 DEF AcceptProvider
  <2>2. CASE ~FindProvider(Head(inbox)[1])
    BY <1>2, <2>2 DEF AcceptProvider, AttachProvider, FindProvider, OneOfHost
  <2> QED
    BY <2>1, <2>2
<1>3. CASE AnswerFails \/ AgentKilled \/ \E u \in Consumers : CallFails(u)
  BY <1>1, <1>3 DEF AnswerFails, AgentKilled, CallFails, AgentEnds
<1>4. CASE \E c \in Sessions : HandlerStep(c)
  BY <1>1, <1>4 DEF HandlerStep, RegisterItem, RegisterIdle, RegisterLost, Ping, Pong, Detach, Destroy
<1>5. CASE \E u \in Consumers : \/ CallRecv(u) \/ DetachConsumer(u) \/ AllocatePlatform(u)
                                \/ ListPlatforms(u) \/ CallSend(u)
  BY <1>1, <1>5 DEF CallRecv, DetachConsumer, AllocatePlatform, ListPlatforms, CallSend, Crash, sessVars
<1>6. ASSUME UNCHANGED <<balancing, sessVars, chosen, user>> PROVE OneOfHost'
  BY <1>1, <1>6 DEF sessVars
<1> QED
  BY <1>2, <1>3, <1>4, <1>5, <1>6, RecordsKept DEF Next, AgentMain, ConsumerStep, IInv

\* A platform that is there for consumers is registered, and its provider serves.
LEMMA NeverMixedStep ==
  ASSUME IInv, [Next]_vars
  PROVE  NeverMixed'
<1> TypeOK /\ NeverMixed
  BY DEF IInv
<1>1. ASSUME balancing' = balancing, crash' = crash PROVE NeverMixed'
  BY <1>1 DEF NeverMixed
<1>2. CASE AgentMain \/ AgentKilled \/ AgentStarts
  BY <1>1, <1>2 DEF AgentMain, AgentKilled, AgentStarts, AcceptProvider, AcceptConsumer, AnswerFails,
              AnswerProvider, AnswerConsumer, AgentEnds
<1>3. CASE \E c \in Sessions : HandlerStep(c)
  BY <1>1, <1>3 DEF HandlerStep, RegisterItem, RegisterIdle, RegisterLost, Ping, Pong, Detach, Destroy,
              agentVars
<1>4. CASE \E h \in Hosts :
             \/ RecvAck(h) \/ RecvNack(h) \/ Announce(h) \/ RecvId(h) \/ RecvNoId(h) \/ Serve(h)
             \/ ServeLost(h) \/ Connect(h) \/ ConnectFails(h) \/ StartupFails(h) \/ ProviderEnds(h)
  BY <1>1, <1>4 DEF RecvAck, RecvNack, Announce, RecvId, RecvNoId, Serve, ServeLost, Connect,
              ConnectFails, StartupFails, ProviderEnds, agentVars
<1>5. ASSUME NEW h \in Hosts, RecvRequestForId(h) PROVE NeverMixed'
  <2> DEFINE c == Session(h)
  <2>1. /\ balancing' = balancing /\ st[h] = "awaitId" /\ down[c] # <<>>
        /\ Head(down[c]).type = "REQUEST"
    BY <1>5 DEF RecvRequestForId, Prov, Crash, agentVars
  <2>2. c \in Sessions /\ Live(c) /\ c[1] = h
    BY <2>1, Current DEF IInv, KnownInv, InSession, Starting
  <2>3. Has(down[c], "REQUEST")
    BY <2>1, <2>2, HasTaken DEF TypeOK
  <2>4. ~balancing
    BY <2>1, <2>2, <2>3 DEF IInv, SessionInv, SessionAt, Told
  <2> QED
    BY <2>1, <2>4 DEF NeverMixed
<1>6. CASE \E u \in Consumers : \/ ConsumerConnects(u) \/ CallFails(u) \/ DetachConsumer(u)
                                \/ AllocatePlatform(u) \/ ListPlatforms(u) \/ CallSend(u)
                                \/ ConsumerEnds(u)
  BY <1>1, <1>6 DEF ConsumerConnects, CallFails, AgentEnds, DetachConsumer, AllocatePlatform,
              ListPlatforms, CallSend, ConsumerEnds, agentVars
<1>7. CASE \E u \in Consumers : CallFreed(u)
  BY <1>7 DEF CallFreed, Crash, agentVars, NeverMixed
<1>8. ASSUME NEW u \in Consumers, CallRecv(u) PROVE NeverMixed'
  <2>1. CASE Head(up[chosen[u]]).type \in {"INFO", "IDLE"}
    <3>1. /\ balancing' = balancing /\ th[u] = "call" /\ up[chosen[u]] # <<>>
      BY <1>8, <2>1 DEF CallRecv, Thread, Crash, agentVars
    <3>2. PICK c \in Sessions : chosen[u] = c
      BY <3>1 DEF IInv, LockInv
    <3>3. Head(up[c]) = up[c][1] /\ 1 \in 1..Len(up[c])
      BY <3>1, <3>2, Taken DEF TypeOK
    <3>4. hd[c] = "register"
      BY <2>1, <3>2, <3>3 DEF IInv, SessionInv, SessionAt, Announced
    <3>5. ~balancing
      BY <3>2, <3>4 DEF IInv, PlatformInv
    <3> QED
      BY <3>1, <3>5 DEF NeverMixed
  <2>2. CASE Head(up[chosen[u]]).type \notin {"INFO", "IDLE"}
    BY <1>1, <1>8, <2>2 DEF CallRecv, agentVars
  <2> QED
    BY <2>1, <2>2
<1>9. CASE UNCHANGED vars
  BY <1>1, <1>9 DEF vars, agentVars
<1> QED
  BY <1>2, <1>3, <1>4, <1>5, <1>6, <1>7, <1>8, <1>9 DEF Next, ProviderStep, ConsumerStep

-----------------------------------------------------------------------------
(* Sessions that a step leaves alone *)

\* A step keeps what a session is, or only what the agent's main loop has of it
\* goes.
SameSession(c) ==
  /\ balancing' = balancing
  /\ up'[c] = up[c] /\ down'[c] = down[c] /\ hd'[c] = hd[c] /\ reg'[c] = reg[c]
  /\ c \in listed' <=> c \in listed
  /\ InInbox(c)' => InInbox(c)
  /\ answer'.to = c => answer' = answer
  /\ Live(c)' <=> Live(c)
  /\ Live(c) => /\ st'[c[1]] = st[c[1]] /\ known'[c[1]] = known[c[1]]
                /\ c[1] \in missed' <=> c[1] \in missed

LEMMA Apart ==
  ASSUME NEW c \in Sessions, SessionAt(c), SameSession(c)
  PROVE  SessionAt(c)'
<1>1. Held(c)' => Held(c)
  BY DEF Held, SameSession
<1>2. Greeting(c)'
  BY DEF SameSession, SessionAt, Greeting
<1>3. Ends(c)'
  BY DEF SameSession, SessionAt, Ends
<1>4. Announced(c)'
  BY DEF SameSession, SessionAt, Announced
<1>5. Told(c)'
  BY <1>1 DEF SameSession, SessionAt, Told
<1>6. Phase(c)'
  BY DEF SameSession, SessionAt, Phase, Connected
<1> QED
  BY <1>2, <1>3, <1>4, <1>5, <1>6 DEF SessionAt

LEMMA InboxKept ==
  ASSUME TypeOK, inbox' = inbox \/ inbox' = <<>> \/ (inbox # <<>> /\ inbox' = Tail(inbox)), NEW x
  PROVE  InInbox(x)' => InInbox(x)
<1>1. CASE inbox' = inbox
  BY <1>1 DEF InInbox
<1>2. CASE inbox' = <<>>
  BY <1>2 DEF InInbox
<1>3. CASE inbox # <<>> /\ inbox' = Tail(inbox)
  <2>1. /\ Len(inbox) \in Nat \ {0} /\ Len(inbox') = Len(inbox) - 1
        /\ \A n \in 1..(Len(inbox) - 1) : inbox'[n] = inbox[n + 1]
    BY <1>3, Taken DEF TypeOK
  <2> SUFFICES ASSUME NEW n \in 1..(Len(inbox) - 1), inbox'[n] = x
               PROVE  InInbox(x)
    BY <2>1 DEF InInbox
  <2>2. n + 1 \in 1..Len(inbox) /\ inbox[n + 1] = x
    BY <2>1
  <2> QED
    BY <2>2 DEF InInbox
<1> QED
  BY <1>1, <1>2, <1>3

LEMMA InboxGrown ==
  ASSUME TypeOK, NEW y \in Sessions \union Consumers, inbox' = Append(inbox, y), NEW x
  PROVE  InInbox(x)' => InInbox(x) \/ x = y
<1>1. /\ Len(inbox) \in Nat /\ Len(inbox') = Len(inbox) + 1
      /\ \A n \in 1..Len(inbox) : inbox'[n] = inbox[n]
      /\ inbox'[Len(inbox) + 1] = y
  BY Sent DEF TypeOK
<1> SUFFICES ASSUME NEW n \in 1..(Len(inbox) + 1), inbox'[n] = x, x # y
             PROVE  InInbox(x)
  BY <1>1 DEF InInbox
<1>2. n # Len(inbox) + 1
  BY <1>1
<1>3. n \in 1..Len(inbox)
  BY <1>1, <1>2
<1> QED
  BY <1>1, <1>3 DEF InInbox

\* the steps that leave every session alone
LEMMA SessionsKept ==
  ASSUME IInv,
         \/ UNCHANGED vars \/ AcceptConsumer \/ AnswerConsumer \/ AgentStarts
         \/ \E h \in Hosts : ConnectFails(h) \/ RecvRequestForId(h)
         \/ \E u \in Consumers : \/ DetachConsumer(u) \/ ConsumerConnects(u) \/ AllocatePlatform(u)
                                 \/ ListPlatforms(u) \/ CallFreed(u) \/ ConsumerEnds(u)
  PROVE  SessionInv'
<1> TypeOK
  BY DEF IInv
<1> SUFFICES ASSUME NEW c \in Sessions PROVE SameSession(c)
  BY Apart DEF SessionInv, IInv
<1>n. c \notin Consumers /\ c # None /\ c[1] \in Hosts
  BY Pairs
<1>1. ASSUME UNCHANGED <<balancing, up, down, hd, reg, listed, provVars>>, answer'.to = c => answer' = answer,
             InInbox(c)' => InInbox(c)
      PROVE  SameSession(c)
  BY <1>1 DEF SameSession, Live, provVars
<1>2. inbox' = inbox => (InInbox(c)' => InInbox(c))
  BY InboxKept
<1>3. CASE UNCHANGED vars
  BY <1>1, <1>2, <1>3 DEF vars, agentVars, sessVars
<1>4. CASE AcceptConsumer
  <2>1. InInbox(c)' => InInbox(c)
    BY <1>4, InboxKept DEF AcceptConsumer
  <2> QED
    BY <1>1, <1>4, <1>n, <2>1 DEF AcceptConsumer, sessVars
<1>5. CASE AnswerConsumer \/ AgentStarts
  BY <1>1, <1>2, <1>5, <1>n DEF AnswerConsumer, AgentStarts, sessVars
<1>6. ASSUME NEW h \in Hosts, ConnectFails(h) PROVE SameSession(c)
  <2>1. st[h] \notin InSession
    BY <1>6 DEF ConnectFails, Ended, InSession, Starting
  <2>2. cur[h] = 0
    BY <2>1 DEF IInv, KnownInv
  <2>3. c[1] = h => ~Live(c)
    BY <2>2 DEF Live, Sessions
  <2>4. c[1] # h => st'[c[1]] = st[c[1]]
    BY <1>6, <1>n DEF ConnectFails, TypeOK
  <2>5. UNCHANGED <<balancing, up, down, hd, reg, listed, cur, known, missed, answer, inbox>>
    BY <1>6 DEF ConnectFails, agentVars, sessVars
  <2> QED
    BY <1>2, <2>3, <2>4, <2>5 DEF SameSession, Live
<1>7. CASE \E h \in Hosts : RecvRequestForId(h)
  BY <1>1, <1>2, <1>7 DEF RecvRequestForId, Crash, agentVars, sessVars
<1>8. ASSUME NEW u \in Consumers, ConsumerConnects(u) PROVE SameSession(c)
  <2>1. InInbox(c)' => InInbox(c)
    BY <1>8, <1>n, InboxGrown DEF ConsumerConnects
  <2> QED
    BY <1>1, <1>8, <2>1 DEF ConsumerConnects, sessVars
<1>9. CASE \E u \in Consumers : \/ DetachConsumer(u) \/ AllocatePlatform(u)
                                \/ ListPlatforms(u) \/ CallFreed(u) \/ ConsumerEnds(u)
  BY <1>1, <1>2, <1>9 DEF DetachConsumer, AllocatePlatform, ListPlatforms, CallFreed, ConsumerEnds, Crash,
     agentVars, sessVars
<1> QED
  BY <1>3, <1>4, <1>5, <1>6, <1>7, <1>8, <1>9

-----------------------------------------------------------------------------
(* Sessions that a step changes: the agent's main loop *)

\* The first message is read: nothing is on its way in the session.
LEMMA AcceptSession ==
  ASSUME IInv, AcceptProvider
  PROVE  SessionInv'
<1> TypeOK
  BY DEF IInv
<1>0. PICK c \in Sessions : c = Head(inbox)
  BY DEF AcceptProvider
<1>1. /\ inbox # <<>> /\ inbox' = Tail(inbox) /\ Live(c)
      /\ answer' = [to |-> c, type |-> IF FindProvider(c[1]) THEN "NACK" ELSE "ACK"]
      /\ UNCHANGED <<balancing, provVars, up, down, reg>>
      /\ IF FindProvider(c[1]) THEN UNCHANGED <<hd, listed>> ELSE AttachProvider(c)
  BY <1>0 DEF AcceptProvider
<1>2. /\ inbox \in Seq(Sessions \union Consumers) /\ Len(inbox) \in Nat \ {0} /\ c = inbox[1]
      /\ Len(inbox') = Len(inbox) - 1
      /\ \A n \in 1..(Len(inbox) - 1) : inbox'[n] = inbox[n + 1]
  BY <1>0, <1>1, Taken DEF TypeOK
<1>3. InInbox(c)
  BY <1>2 DEF InInbox
<1>4. ~InInbox(c)'
  <2> SUFFICES ASSUME NEW n \in 1..(Len(inbox) - 1), inbox'[n] = c
               PROVE  FALSE
    BY <1>2 DEF InInbox
  <2>1. n + 1 \in 1..Len(inbox) /\ 1 \in 1..Len(inbox) /\ inbox[n + 1] = inbox[1]
    BY <1>2
  <2>2. n + 1 = 1
    BY <1>1, <1>2, <2>1 DEF IInv, InboxInv
  <2> QED
    BY <2>2
<1>5. \A d \in Sessions : InInbox(d)' => InInbox(d)
  BY <1>1, InboxKept
<1>6. \A d \in Sessions : Live(d)' <=> Live(d)
  BY <1>1 DEF Live, provVars
<1>7. /\ SessionAt(c) /\ hd[c] = "none" /\ st[c[1]] = "hello" /\ down[c] = <<>>
      /\ up[c] = <<>> /\ reg[c] = 0 /\ c \notin listed
  BY <1>1, <1>3 DEF IInv, SessionInv, SessionAt, Greeting, Ends
<1>8. ASSUME NEW d \in Sessions, d # c PROVE SameSession(d)
  <2>1. hd'[d] = hd[d] /\ (d \in listed' <=> d \in listed)
    BY <1>1, <1>8 DEF AttachProvider, TypeOK
  <2> QED
    BY <1>1, <1>5, <1>6, <1>8, <2>1 DEF SameSession, provVars
<1>9. SessionAt(c)'
  <2>1. /\ answer'.to = c /\ hd'[c] = IF answer'.type = "ACK" THEN "register" ELSE "none"
        /\ c \in listed' <=> hd'[c] = "register"
    BY <1>1, <1>7 DEF AttachProvider, TypeOK
  <2>2. Greeting(c)'
    BY <1>1, <1>4, <1>7, <2>1 DEF Greeting, provVars
  <2>3. Ends(c)'
    BY <1>1, <1>6, <1>7, <2>1 DEF Ends, provVars
  <2>4. Announced(c)'
    BY <1>1, <1>7 DEF Announced, provVars, Has
  <2>5. Told(c)'
    <3>1. Live(c)' /\ c[1] \notin missed
      <4>1. Held(c)
        BY <1>3 DEF Held
      <4> QED
        BY <1>1, <1>6, <1>7, <4>1 DEF SessionAt, Told
    <3> QED
      BY <1>1, <1>7, <3>1 DEF Told, provVars, Has
  <2>6. Phase(c)'
    BY <1>1, <1>7 DEF Phase, provVars, Has
  <2> QED
    BY <2>2, <2>3, <2>4, <2>5, <2>6 DEF SessionAt
<1> QED
  BY <1>8, <1>9, Apart DEF IInv, SessionInv

\* The answer is the first message a provider can read.
LEMMA AnswerSession ==
  ASSUME IInv, AnswerProvider
  PROVE  SessionInv'
<1> DEFINE m == M(answer.type)
<1> TypeOK
  BY DEF IInv
<1>0. PICK c \in Sessions : c = answer.to
  BY DEF AnswerProvider
<1>1. /\ Live(c) /\ down' = [down EXCEPT ![c] = Append(@, m)]
      /\ answer' = [to |-> None, type |-> "ACK"]
      /\ UNCHANGED <<balancing, inbox, provVars, up, hd, listed, reg>>
  BY <1>0 DEF AnswerProvider, sessVars
<1>2. m \in Msg /\ m.type = answer.type /\ answer.type \in {"ACK", "NACK"}
  BY Messages DEF TypeOK
<1>3. hd[c] = IF answer.type = "ACK" THEN "register" ELSE "none"
  BY <1>0, <1>1 DEF IInv, SessionInv, SessionAt, Greeting
<1> HIDE DEF m
<1>4. SessionAt(c) /\ ~InInbox(c) /\ st[c[1]] = "hello" /\ down[c] = <<>> /\ up[c] = <<>>
  BY <1>0, <1>1 DEF IInv, SessionInv, SessionAt, Greeting, Announced
<1>5. \A d \in Sessions : (InInbox(d)' => InInbox(d)) /\ (Live(d)' <=> Live(d)) /\ d # None
  BY <1>1, InboxKept, Pairs DEF Live, provVars
<1>6. \A d \in Sessions : d # c => SameSession(d)
  BY <1>0, <1>1, <1>5 DEF SameSession, provVars, TypeOK
<1>7. SessionAt(c)'
  <2>1. down'[c] = Append(<<>>, m) /\ Len(down'[c]) = 1 /\ down'[c][1] = m
    BY <1>1, <1>4 DEF TypeOK
  <2>2. \A n \in 1..Len(down'[c]) : down'[c][n].type = answer.type
    BY <1>2, <2>1
  <2>3. Greeting(c)'
    BY <1>1, <1>4, <1>5 DEF Greeting
  <2>4. Ends(c)'
    BY <1>1, <1>4, <1>5 DEF SessionAt, Ends, provVars
  <2>5. Announced(c)'
    BY <1>1, <1>4 DEF Announced, provVars, Has
  <2>6. Told(c)'
    <3>1. Held(c)
      BY <1>0 DEF Held
    <3>2. c[1] \notin missed
      BY <1>1, <1>4, <3>1 DEF SessionAt, Told
    <3> QED
      BY <1>1, <1>2, <2>2, <3>2 DEF Told, provVars, Has
  <2>7. Phase(c)'
    <3>1. Held(c)
      BY <1>0 DEF Held
    <3>2. c[1] \notin missed
      BY <1>1, <1>4, <3>1 DEF SessionAt, Told
    <3>3. Connected(c)
      BY <1>1, <1>4, <3>2, EmptyHas DEF Connected
    <3>4. reg[c] = 0
      BY <1>4, <3>3 DEF SessionAt, Phase
    <3> QED
      BY <1>1, <1>2, <1>3, <1>4, <2>2, <3>4 DEF Phase, provVars, Has
  <2> QED
    BY <2>3, <2>4, <2>5, <2>6, <2>7 DEF SessionAt
<1> QED
  BY <1>6, <1>7, Apart DEF IInv, SessionInv

\* The agent is over: a session keeps what is on its way to the provider, before
\* the event that ends it, if it has not ended before.
LEMMA EndsSession ==
  ASSUME IInv, AgentEnds
  PROVE  SessionInv'
<1> SUFFICES ASSUME NEW c \in Sessions PROVE SessionAt(c)'
  BY DEF SessionInv
<1> TypeOK
  BY DEF IInv
<1>1. /\ answer' = [to |-> None, type |-> "ACK"] /\ inbox' = <<>> /\ up'[c] = <<>>
      /\ hd'[c] = "none" /\ listed' = {} /\ reg'[c] = 0
      /\ UNCHANGED <<balancing, provVars>>
  BY DEF AgentEnds
<1>2. (Live(c)' <=> Live(c)) /\ ~InInbox(c)' /\ answer'.to # c /\ ~Held(c)'
  BY <1>1, Pairs DEF Live, InInbox, Held, provVars
<1>3. SessionAt(c)
  BY DEF IInv, SessionInv
<1> DEFINE Kept == down'[c] = down[c]
           Late == down'[c] = Append(down[c], M("SHUTDOWN"))
           Only == down'[c] = Append(<<>>, M("SHUTDOWN"))
<1>4. /\ Live(c) /\ Attached(c) => Late \/ Only
      /\ ~Live(c) \/ ~Attached(c) => Kept
  BY DEF AgentEnds
<1>5. M("SHUTDOWN") \in Msg /\ M("SHUTDOWN").type = "SHUTDOWN" /\ down[c] \in Seq(Msg)
  BY Messages DEF TypeOK
<1>6. Late => /\ Len(down[c]) \in Nat /\ Len(down'[c]) = Len(down[c]) + 1
              /\ \A n \in 1..Len(down[c]) : down'[c][n] = down[c][n]
              /\ down'[c][Len(down[c]) + 1] = M("SHUTDOWN")
              /\ \A type : Has(down'[c], type) <=> Has(down[c], type) \/ type = "SHUTDOWN"
  BY <1>5, Sent, HasSent
<1>7. Only => Len(down'[c]) = 1 /\ down'[c][1] = M("SHUTDOWN")
  OBVIOUS
<1>8. Only => \A type : Has(down'[c], type) <=> type = "SHUTDOWN"
  BY <1>5, <1>7 DEF Has
<1> HIDE DEF Kept, Late, Only
<1>9. Greeting(c)'
  BY <1>1, <1>2 DEF Greeting
<1>10. Ends(c)'
  BY <1>1, <1>2, <1>3, <1>4 DEF Ends, SessionAt, Kept
<1>11. Announced(c)'
  BY <1>1 DEF Announced, Has
<1>12. Told(c)'
  <2> SUFFICES ASSUME Live(c) PROVE Told(c)'
    BY <1>2 DEF Told
  <2>1. CASE Kept
    BY <1>1, <1>2, <1>3, <2>1 DEF Told, SessionAt, Kept, provVars
  <2>2. CASE Late
    <3>1. ASSUME NEW n \in 1..Len(down'[c]), down'[c][n].type = "ID"
          PROVE  n \in 1..Len(down[c]) /\ down'[c][n] = down[c][n]
      BY <1>5, <1>6, <2>2, <3>1
    <3>2. ASSUME NEW n \in 1..Len(down'[c]), down'[c][n].type = "ID"
          PROVE  /\ st[c[1]] = "awaitId" /\ down'[c][n].n = Len(known[c[1]])
                 /\ \A k \in 1..Len(down'[c]) : down'[c][k].type = "ID" => k = n
      BY <1>3, <3>1, <3>2 DEF Told, SessionAt
    <3> QED
      BY <1>1, <1>2, <1>3, <1>6, <2>2, <3>2 DEF Told, SessionAt, provVars
  <2>3. CASE Only
    <3>1. \A n \in 1..Len(down'[c]) : down'[c][n].type # "ID"
      BY <1>5, <1>7, <2>3
    <3> QED
      BY <1>1, <1>2, <1>8, <2>3, <3>1 DEF Told, provVars
  <2> QED
    BY <1>4, <2>1, <2>2, <2>3
<1>13. Phase(c)'
  <2> SUFFICES ASSUME Connected(c)' PROVE Phase(c)'
    BY DEF Phase
  <2>1. Live(c) /\ ~Late /\ ~Only
    BY <1>2, <1>6, <1>8 DEF Connected
  <2>2. Kept /\ ~Held(c)
    BY <1>4, <2>1 DEF Attached
  <2>3. Connected(c)
    BY <1>1, <2>1, <2>2 DEF Connected, Kept, provVars
  <2>4. hd[c] = "none" /\ reg[c] = 0
    BY <1>3, <2>2 DEF SessionAt, Ends, Held
  <2> QED
    BY <1>1, <1>3, <2>2, <2>3, <2>4 DEF SessionAt, Phase, Kept, provVars
<1> QED
  BY <1>9, <1>10, <1>11, <1>12, <1>13 DEF SessionAt

-----------------------------------------------------------------------------
(* Sessions that a step changes: the agent's handlers *)

\* what a handler leaves alone
LEMMA HandlerApart ==
  ASSUME TypeOK, NEW c \in Sessions, HandlerStep(c)
  PROVE  /\ UNCHANGED <<balancing, answer, inbox, provVars>>
         /\ \A d \in Sessions : (InInbox(d)' => InInbox(d)) /\ (Live(d)' <=> Live(d))
         /\ \A d \in Sessions \ {c} : SameSession(d)
<1>1. UNCHANGED <<balancing, answer, inbox, provVars>>
  BY DEF HandlerStep, RegisterItem, RegisterIdle, RegisterLost, Ping, Pong, Detach, Destroy, agentVars
<1>2. \A d \in Sessions : (InInbox(d)' => InInbox(d)) /\ (Live(d)' <=> Live(d))
  BY <1>1, InboxKept DEF Live, provVars
<1>3. ASSUME NEW d \in Sessions \ {c}
      PROVE  /\ up'[d] = up[d] /\ down'[d] = down[d] /\ hd'[d] = hd[d] /\ reg'[d] = reg[d]
             /\ d \in listed' <=> d \in listed
  BY DEF HandlerStep, RegisterItem, RegisterIdle, RegisterLost, Ping, Pong, Detach, Destroy,
         ToProvider, TypeOK
<1> QED
  BY <1>1, <1>2, <1>3 DEF SameSession, provVars

\* The id of the item answers the provider, which waits for it.
LEMMA ItemSession ==
  ASSUME IInv, NEW c \in Sessions, RegisterItem(c)
  PROVE  SessionAt(c)'
<1> TypeOK
  BY DEF IInv
<1>0. SessionAt(c) /\ up[c] \in Seq(Msg) /\ down[c] \in Seq(Msg)
  BY DEF IInv, SessionInv, TypeOK
<1>1. UNCHANGED <<balancing, answer, inbox, provVars>> /\ (InInbox(c)' => InInbox(c)) /\ (Live(c)' <=> Live(c))
  BY HandlerApart DEF HandlerStep
<1>2. /\ hd[c] = "register" /\ up[c] # <<>> /\ Head(up[c]).type = "INFO"
      /\ UNCHANGED <<hd, listed>> /\ reg'[c] = reg[c] + 1 /\ up'[c] = Tail(up[c])
      /\ down'[c] = IF Live(c) THEN Append(down[c], Id(Head(up[c]).n)) ELSE down[c]
  BY DEF RegisterItem, Handler, ToProvider, TypeOK
<1>3. /\ Len(up[c]) \in Nat \ {0} /\ Head(up[c]) = up[c][1] /\ Head(up[c]) \in Msg
      /\ Len(Tail(up[c])) = Len(up[c]) - 1
      /\ \A n \in 1..(Len(up[c]) - 1) : Tail(up[c])[n] = up[c][n + 1]
  BY <1>0, <1>2, Taken
<1>4. Head(up[c]).n = reg[c] /\ reg[c] \in Nat
  BY <1>0, <1>2, <1>3 DEF SessionAt, Announced, TypeOK
<1>5. Id(reg[c]) \in Msg /\ Id(reg[c]).type = "ID" /\ Id(reg[c]).n = reg[c]
  BY <1>3, <1>4, Messages
<1>6. ASSUME NEW n \in 1..Len(up'[c]) PROVE up'[c][n].type \notin {"INFO", "IDLE"}
  <2>1. n + 1 \in 1..Len(up[c]) /\ n + 1 # 1 /\ up'[c][n] = up[c][n + 1]
    BY <1>2, <1>3
  <2> QED
    BY <1>0, <2>1 DEF SessionAt, Announced
<1>7. Has(up[c], "INFO") /\ (Has(up'[c], "SHUTDOWN") => Has(up[c], "SHUTDOWN"))
  BY <1>0, <1>2, HasTaken
<1>8. ~Has(up'[c], "INFO") /\ ~Has(up'[c], "IDLE")
  BY <1>6 DEF Has
<1>9. Live(c) => /\ st[c[1]] = "awaitId" /\ reg[c] = Len(known[c[1]]) /\ ~Has(down[c], "ID")
                 /\ \A n \in 1..Len(up[c]) : up[c][n].type = "INFO"
  BY <1>0, <1>7 DEF SessionAt, Announced
<1>10. Live(c) => up'[c] = <<>>
  <2> SUFFICES ASSUME Live(c), up'[c] # <<>> PROVE FALSE
    OBVIOUS
  <2>1. Tail(up[c]) \in Seq(Msg) /\ up'[c] = Tail(up[c])
    BY <1>0, <1>2, Taken
  <2>2. Len(up'[c]) \in Nat \ {0}
    BY <2>1, Taken
  <2>3. 1 \in 1..Len(up'[c]) /\ 1 + 1 \in 1..Len(up[c]) /\ up'[c][1] = up[c][1 + 1]
    BY <1>2, <1>3, <2>2
  <2> QED
    BY <1>6, <1>9, <2>3
<1>11. Live(c) => /\ Len(down[c]) \in Nat /\ Len(down'[c]) = Len(down[c]) + 1
                  /\ \A n \in 1..Len(down[c]) : down'[c][n] = down[c][n]
                  /\ down'[c][Len(down[c]) + 1] = Id(reg[c])
  BY <1>0, <1>2, <1>4, <1>5, Sent
<1>12. Live(c) => \A type : Has(down'[c], type) <=> Has(down[c], type) \/ type = "ID"
  BY <1>0, <1>2, <1>4, <1>5, HasSent
<1>13. Greeting(c)'
  BY <1>0, <1>1, <1>2, <1>9 DEF SessionAt, Greeting, provVars
<1>14. Ends(c)'
  BY <1>0, <1>1, <1>2, <1>9 DEF SessionAt, Ends, provVars
<1>15. Announced(c)'
  BY <1>0, <1>1, <1>2, <1>6, <1>7, <1>8, <1>9, <1>10 DEF SessionAt, Announced, provVars
<1>16. Told(c)'
  <2> SUFFICES ASSUME Live(c) PROVE Told(c)'
    BY <1>1 DEF Told
  <2>1. ASSUME NEW n \in 1..Len(down'[c]), down'[c][n].type = "ID"
        PROVE  n = Len(down[c]) + 1
    BY <1>9, <1>11, <2>1 DEF Has
  <2>2. \A n \in 1..Len(down'[c]) : down'[c][n].type = "ID" =>
          /\ st[c[1]] = "awaitId" /\ down'[c][n].n = Len(known[c[1]])
          /\ \A k \in 1..Len(down'[c]) : down'[c][k].type = "ID" => k = n
    BY <1>5, <1>9, <1>11, <2>1
  <2>3. Held(c)' => Held(c)
    BY <1>1, <1>2 DEF Held
  <2> QED
    BY <1>0, <1>1, <1>12, <2>2, <2>3 DEF SessionAt, Told, provVars
<1>17. Phase(c)'
  <2> SUFFICES ASSUME Connected(c)' PROVE Phase(c)'
    BY DEF Phase
  <2>1. Live(c) /\ reg'[c] = Len(known[c[1]]) + 1 /\ st[c[1]] = "awaitId"
    BY <1>1, <1>2, <1>9 DEF Connected
  <2> QED
    BY <1>1, <1>2, <2>1 DEF Phase, provVars
<1> QED
  BY <1>13, <1>14, <1>15, <1>16, <1>17 DEF SessionAt

\* A handler whose session has changed nothing but the queue to it, which it reads.
\* Nothing that registers an item is left in the queue.
LEMMA ReadSession ==
  ASSUME IInv, NEW c \in Sessions, RegisterIdle(c) \/ RegisterLost(c) \/ Pong(c)
  PROVE  SessionAt(c)'
<1> TypeOK
  BY DEF IInv
<1>0. SessionAt(c) /\ up[c] \in Seq(Msg) /\ NDevices + 1 # 0
  BY RegistrationAssumption DEF IInv, SessionInv, TypeOK
<1>1. UNCHANGED <<balancing, answer, inbox, provVars>> /\ (InInbox(c)' => InInbox(c)) /\ (Live(c)' <=> Live(c))
  BY HandlerApart DEF HandlerStep
<1>2. /\ UNCHANGED <<down, listed, reg>> /\ hd[c] \in {"register", "await"}
      /\ \/ up[c] = <<>> /\ ~Live(c) /\ up'[c] = <<>>
         \/ up[c] # <<>> /\ up'[c] = Tail(up[c])
  BY DEF RegisterIdle, RegisterLost, Pong, Handler, TypeOK
<1>3. ASSUME NEW n \in 1..Len(up'[c]) PROVE up'[c][n].type \notin {"INFO", "IDLE"}
  <2>1. /\ Len(up[c]) \in Nat \ {0} /\ Len(up'[c]) = Len(up[c]) - 1
        /\ \A k \in 1..(Len(up[c]) - 1) : up'[c][k] = up[c][k + 1]
    <3>1. up[c] # <<>>
      BY <1>2, <1>3
    <3> QED
      BY <1>0, <1>2, <3>1, Taken
  <2>2. n + 1 \in 1..Len(up[c]) /\ n + 1 # 1 /\ up'[c][n] = up[c][n + 1]
    BY <2>1
  <2> QED
    BY <1>0, <2>2 DEF SessionAt, Announced
<1>4. ~Has(up'[c], "INFO") /\ ~Has(up'[c], "IDLE") /\ (Has(up'[c], "SHUTDOWN") => Has(up[c], "SHUTDOWN"))
  <2>1. ~Has(up'[c], "INFO") /\ ~Has(up'[c], "IDLE")
    BY <1>3 DEF Has
  <2>2. Has(up'[c], "SHUTDOWN") => Has(up[c], "SHUTDOWN")
    BY <1>0, <1>2, HasTaken, EmptyHas
  <2> QED
    BY <2>1, <2>2
<1>5. up[c] # <<>> => Has(up[c], Head(up[c]).type)
  BY <1>0, HasTaken
<1>6. Live(c) => st[c[1]] = "serve" /\ hd'[c] \in {"sleep", "await"}
  <2> SUFFICES ASSUME Live(c) PROVE st[c[1]] = "serve" /\ hd'[c] \in {"sleep", "await"}
    OBVIOUS
  <2>1. CASE RegisterIdle(c)
    <3>1. Has(up[c], "IDLE") /\ hd'[c] = "sleep"
      BY <1>5, <2>1 DEF RegisterIdle, TypeOK
    <3> QED
      BY <1>0, <3>1 DEF SessionAt, Announced
  <2>2. CASE RegisterLost(c)
    <3>1. Has(up[c], "SHUTDOWN")
      BY <1>5, <2>2 DEF RegisterLost
    <3> QED
      BY <1>0, <3>1 DEF SessionAt, Announced
  <2>3. CASE Pong(c)
    <3>1. hd[c] = "await" /\ ~Has(up[c], "SHUTDOWN")
      BY <1>0, <2>3 DEF SessionAt, Announced, Pong, Handler
    <3>2. hd'[c] = "sleep"
      BY <1>5, <2>3, <3>1 DEF Pong, TypeOK
    <3> QED
      BY <1>0, <3>1, <3>2 DEF SessionAt, Ends
  <2> QED
    BY <2>1, <2>2, <2>3
<1>7. hd'[c] \in {"sleep", "await"} => reg[c] = NDevices + 1
  <2>1. CASE RegisterIdle(c)
    <3>1. Head(up[c]).type = "IDLE" /\ Head(up[c]) = up[c][1] /\ 1 \in 1..Len(up[c])
      BY <1>0, <2>1, Taken DEF RegisterIdle
    <3> QED
      BY <1>0, <3>1 DEF SessionAt, Announced
  <2>2. CASE RegisterLost(c)
    BY <2>2 DEF RegisterLost, TypeOK
  <2>3. CASE Pong(c)
    BY <1>0, <2>3 DEF SessionAt, Ends, Pong, Handler
  <2> QED
    BY <2>1, <2>2, <2>3
<1>8. hd'[c] \in {"sleep", "await", "detach"}
  BY DEF RegisterIdle, RegisterLost, Pong, TypeOK
<1>9. Held(c)
  BY <1>2 DEF Held
<1>10. Greeting(c)'
  BY <1>0, <1>1, <1>2, <1>6 DEF SessionAt, Greeting, provVars
<1>11. Ends(c)'
  BY <1>0, <1>1, <1>2, <1>6, <1>7, <1>8 DEF SessionAt, Ends, provVars
<1>12. Announced(c)'
  BY <1>0, <1>1, <1>3, <1>4, <1>6 DEF SessionAt, Announced, provVars
<1>13. Told(c)'
  BY <1>0, <1>1, <1>2, <1>9 DEF SessionAt, Told, provVars
<1>14. Phase(c)'
  BY <1>0, <1>1, <1>2, <1>6, <1>7 DEF SessionAt, Phase, Connected, provVars
<1> QED
  BY <1>10, <1>11, <1>12, <1>13, <1>14 DEF SessionAt

LEMMA PingSession ==
  ASSUME IInv, NEW c \in Sessions, Ping(c)
  PROVE  SessionAt(c)'
<1> TypeOK
  BY DEF IInv
<1>0. SessionAt(c) /\ down[c] \in Seq(Msg)
  BY DEF IInv, SessionInv, TypeOK
<1>1. UNCHANGED <<balancing, answer, inbox, provVars>> /\ (InInbox(c)' => InInbox(c)) /\ (Live(c)' <=> Live(c))
  BY HandlerApart DEF HandlerStep
<1>2. /\ UNCHANGED <<up, listed, reg>> /\ hd[c] = "sleep" /\ hd'[c] = "await"
      /\ down'[c] = IF Live(c) THEN Append(down[c], M("PING")) ELSE down[c]
  BY DEF Ping, Handler, ToProvider, TypeOK
<1>3. M("PING") \in Msg /\ M("PING").type = "PING"
  BY Messages
<1>4. Live(c) => /\ Len(down[c]) \in Nat /\ Len(down'[c]) = Len(down[c]) + 1
                 /\ \A n \in 1..Len(down[c]) : down'[c][n] = down[c][n]
                 /\ down'[c][Len(down[c]) + 1] = M("PING")
  BY <1>0, <1>2, <1>3, Sent
<1>5. \A type : type # "PING" => (Has(down'[c], type) <=> Has(down[c], type))
  BY <1>0, <1>2, <1>3, HasSent
<1>6. Live(c) => st[c[1]] = "serve"
  BY <1>0, <1>2 DEF SessionAt, Ends
<1>7. Greeting(c)'
  BY <1>0, <1>1, <1>2, <1>6 DEF SessionAt, Greeting, provVars
<1>8. Ends(c)'
  BY <1>0, <1>1, <1>2, <1>6 DEF SessionAt, Ends, provVars
<1>9. Announced(c)'
  BY <1>0, <1>1, <1>2, <1>6 DEF SessionAt, Announced, provVars
<1>10. Told(c)'
  <2> SUFFICES ASSUME Live(c) PROVE Told(c)'
    BY <1>1 DEF Told
  <2>1. \A n \in 1..Len(down[c]) : down[c][n].type # "ID"
    BY <1>0, <1>6 DEF SessionAt, Told
  <2>2. \A n \in 1..Len(down'[c]) : down'[c][n].type # "ID"
    BY <1>3, <1>4, <2>1
  <2>3. Held(c)
    BY <1>2 DEF Held
  <2> QED
    BY <1>0, <1>1, <1>5, <1>6, <2>2, <2>3 DEF SessionAt, Told, provVars
<1>11. Phase(c)'
  BY <1>0, <1>1, <1>2, <1>5, <1>6 DEF SessionAt, Phase, Connected, provVars
<1> QED
  BY <1>7, <1>8, <1>9, <1>10, <1>11 DEF SessionAt

\* The provider of a session that is given up is gone.
LEMMA GivenUp ==
  ASSUME NEW c \in Sessions, SessionAt(c), hd[c] \in {"detach", "destroy"}
  PROVE  ~Live(c)
<1> SUFFICES ASSUME Live(c) PROVE FALSE
  OBVIOUS
<1>1. Held(c)
  BY DEF Held
<1>2. st[c[1]] = "serve"
  BY DEF SessionAt, Ends
<1>3. Connected(c)
  BY <1>1 DEF SessionAt, Told, Connected
<1> QED
  BY <1>2, <1>3 DEF SessionAt, Phase

LEMMA GiveUpSession ==
  ASSUME IInv, NEW c \in Sessions, Detach(c) \/ Destroy(c)
  PROVE  SessionAt(c)'
<1> TypeOK
  BY DEF IInv
<1>0. SessionAt(c)
  BY DEF IInv, SessionInv
<1>1. UNCHANGED <<balancing, answer, inbox, provVars>> /\ (InInbox(c)' => InInbox(c)) /\ (Live(c)' <=> Live(c))
  BY HandlerApart DEF HandlerStep
<1>2. ~Live(c)
  BY <1>0, GivenUp DEF Detach, Destroy, Handler
<1>3. hd[c] \in {"detach", "destroy"} /\ down' = down
  BY DEF Detach, Destroy, Handler
<1>4. CASE Detach(c)
  <2>1. c \notin listed' /\ hd'[c] = "destroy" /\ up' = up /\ reg' = reg
    BY <1>4 DEF Detach, TypeOK
  <2>2. Greeting(c)' /\ Ends(c)' /\ Told(c)' /\ Phase(c)'
    BY <1>0, <1>1, <1>2, <1>3, <2>1 DEF SessionAt, Greeting, Ends, Told, Phase, Connected
  <2>3. Announced(c)'
    BY <1>0, <1>1, <1>2, <1>3, <2>1 DEF SessionAt, Announced
  <2> QED
    BY <2>2, <2>3 DEF SessionAt
<1>5. CASE Destroy(c)
  <2>1. c \notin listed' /\ hd'[c] = "none" /\ up'[c] = <<>> /\ reg'[c] = 0
    BY <1>0, <1>5 DEF Destroy, Handler, SessionAt, Ends, TypeOK
  <2>2. Greeting(c)' /\ Ends(c)' /\ Told(c)' /\ Phase(c)'
    BY <1>0, <1>1, <1>2, <1>3, <2>1 DEF SessionAt, Greeting, Ends, Told, Phase, Connected
  <2>3. Announced(c)'
    BY <1>1, <1>2, <2>1 DEF Announced
  <2> QED
    BY <2>2, <2>3 DEF SessionAt
<1> QED
  BY <1>4, <1>5

LEMMA HandlerSession ==
  ASSUME IInv, NEW c \in Sessions, HandlerStep(c)
  PROVE  SessionInv'
<1>1. \A d \in Sessions \ {c} : SessionAt(d)'
  BY HandlerApart, Apart DEF IInv, SessionInv
<1>2. SessionAt(c)'
  BY ItemSession, ReadSession, PingSession, GiveUpSession DEF HandlerStep
<1> QED
  BY <1>1, <1>2 DEF SessionInv

-----------------------------------------------------------------------------
(* Sessions that a step changes: the providers *)

\* A provider touches its own session only.
LEMMA ProviderApart ==
  ASSUME TypeOK, NEW h \in Hosts, NEW c \in Sessions, c = Session(h),
         UNCHANGED <<balancing, answer, inbox, hd, reg, listed>>,
         cur' = cur \/ cur' = [cur EXCEPT ![h] = 0],
         \A d \in Sessions \ {c} : up'[d] = up[d] /\ down'[d] = down[d],
         \A g \in Hosts \ {h} : /\ st'[g] = st[g] /\ known'[g] = known[g]
                                /\ g \in missed' <=> g \in missed
  PROVE  \A d \in Sessions \ {c} : SameSession(d)
<1> SUFFICES ASSUME NEW d \in Sessions \ {c} PROVE SameSession(d)
  OBVIOUS
<1>1. InInbox(d)' => InInbox(d)
  BY InboxKept
<1>2. /\ c[1] = h /\ c[2] = cur[h] /\ c = <<c[1], c[2]>> /\ d = <<d[1], d[2]>> /\ d[1] \in Hosts
      /\ d[2] \in {1, 2}
  BY Pairs DEF Session
<1>3. CASE d[1] = h
  <2>1. ~Live(d)
    BY <1>2, <1>3 DEF Live
  <2>2. ~Live(d)'
    <3>1. cur'[h] = cur[h] \/ cur'[h] = 0
      BY DEF TypeOK
    <3>2. d[2] # cur[h] /\ d[2] # 0
      BY <1>2, <1>3
    <3> QED
      BY <1>3, <3>1, <3>2 DEF Live
  <2> QED
    BY <1>1, <2>1, <2>2 DEF SameSession
<1>4. CASE d[1] # h
  <2>1. Live(d)' <=> Live(d)
    BY <1>2, <1>4 DEF Live, TypeOK
  <2> QED
    BY <1>1, <1>2, <1>4, <2>1 DEF SameSession
<1> QED
  BY <1>3, <1>4

\* A provider that leaves: the event is all its session has left.
LEMMA LeftSession ==
  ASSUME IInv, NEW h \in Hosts, cur[h] # 0, LeaveSession(h),
         UNCHANGED <<balancing, answer, inbox, hd, reg, listed>>,
         \A g \in Hosts \ {h} : /\ st'[g] = st[g] /\ known'[g] = known[g]
                                /\ g \in missed' <=> g \in missed
  PROVE  SessionInv'
<1> TypeOK
  BY DEF IInv
<1>0. PICK c \in Sessions : c = Session(h) /\ c[1] = h
  BY Current
<1>1. SessionAt(c) /\ up[c] \in Seq(Msg)
  BY DEF IInv, SessionInv, TypeOK
<1>2. \A d \in Sessions \ {c} : SameSession(d)
  BY <1>0, ProviderApart DEF LeaveSession, TypeOK
<1>3. /\ ~Live(c)' /\ down'[c] = <<>>
      /\ up'[c] = IF hd[c] # "none" THEN Append(up[c], M("SHUTDOWN")) ELSE up[c]
  <2>0. c[2] # 0
    BY Pairs
  <2>1. cur'[h] = 0
    BY DEF LeaveSession, TypeOK
  <2>2. /\ down'[c] = <<>>
        /\ up' = IF hd[c] # "none" THEN [up EXCEPT ![c] = Append(@, M("SHUTDOWN"))] ELSE up
    BY <1>0 DEF LeaveSession, TypeOK
  <2> QED
    BY <1>0, <2>0, <2>1, <2>2 DEF Live, TypeOK
<1>4. InInbox(c)' => InInbox(c)
  BY InboxKept
<1>5. M("SHUTDOWN") \in Msg /\ M("SHUTDOWN").type = "SHUTDOWN"
  BY Messages
<1>6. hd[c] # "none" => /\ Len(up[c]) \in Nat /\ Len(up'[c]) = Len(up[c]) + 1
                        /\ \A n \in 1..Len(up[c]) : up'[c][n] = up[c][n]
                        /\ up'[c][Len(up[c]) + 1] = M("SHUTDOWN")
  BY <1>1, <1>3, <1>5, Sent
<1>7. \A n \in 1..Len(up'[c]) : up'[c][n].type = "SHUTDOWN" \/ (n \in 1..Len(up[c]) /\ up'[c][n] = up[c][n])
  BY <1>3, <1>5, <1>6
<1>8. Greeting(c)' /\ Ends(c)' /\ Told(c)' /\ Phase(c)'
  BY <1>1, <1>3, <1>4 DEF SessionAt, Greeting, Ends, Told, Phase, Connected
<1>9. Announced(c)'
  BY <1>1, <1>3, <1>7 DEF SessionAt, Announced
<1>10. SessionAt(c)'
  BY <1>8, <1>9 DEF SessionAt
<1> QED
  BY <1>2, <1>10, Apart DEF IInv, SessionInv

\* A new session has its first message on the way and nothing else.
LEMMA ConnectSession ==
  ASSUME IInv, NEW h \in Hosts, Connect(h)
  PROVE  SessionInv'
<1> TypeOK
  BY DEF IInv
<1>0. PICK k \in {1, 2} : /\ ~Held(<<h, k>>) /\ cur' = [cur EXCEPT ![h] = k]
                          /\ inbox' = Append(inbox, <<h, k>>)
  BY DEF Connect
<1>1. PICK c \in Sessions : c = <<h, k>> /\ c[1] = h /\ c[2] = k
  BY Pairs
<1>2. /\ UNCHANGED <<balancing, answer, up, down, hd, reg, listed>>
      /\ st' = [st EXCEPT ![h] = "hello"] /\ known' = [known EXCEPT ![h] = <<>>]
      /\ missed' = missed \ {h} /\ st[h] \notin InSession
  BY DEF Connect, InitProvider, sessVars, Ended, InSession, Starting
<1>3. cur[h] = 0
  BY <1>2 DEF IInv, KnownInv
<1>4. \A d \in Sessions : d[1] = h => ~Live(d)
  BY <1>3 DEF Live, Sessions
<1>5. \A d \in Sessions : InInbox(d)' => InInbox(d) \/ d = c
  BY <1>0, <1>1, InboxGrown
<1>6. ASSUME NEW d \in Sessions \ {c} PROVE SameSession(d)
  <2>1. d = <<d[1], d[2]>> /\ c = <<c[1], c[2]>> /\ d[1] \in Hosts
    BY Pairs
  <2>2. Live(d)' <=> Live(d)
    BY <1>0, <1>1, <1>4, <2>1 DEF Live, TypeOK
  <2>3. d[1] # h => st'[d[1]] = st[d[1]] /\ known'[d[1]] = known[d[1]] /\ (d[1] \in missed' <=> d[1] \in missed)
    BY <1>2, <2>1 DEF TypeOK
  <2> QED
    BY <1>2, <1>4, <1>5, <2>2, <2>3 DEF SameSession
<1>7. SessionAt(c)'
  <2>1. SessionAt(c)
    BY DEF IInv, SessionInv
  <2>2. hd[c] = "none" /\ answer.to # c
    BY <1>0, <1>1 DEF Held
  <2>3. up[c] = <<>> /\ reg[c] = 0 /\ c \notin listed /\ down[c] = <<>>
    BY <1>1, <1>4, <2>1, <2>2 DEF SessionAt, Ends
  <2>4. st'[c[1]] = "hello" /\ c[1] \notin missed'
    BY <1>1, <1>2 DEF TypeOK
  <2>5. Greeting(c)'
    BY <1>2, <2>2, <2>3, <2>4 DEF Greeting
  <2>6. Ends(c)'
    BY <1>2, <2>2, <2>3 DEF Ends
  <2>7. Announced(c)' /\ Told(c)'
    BY <1>2, <2>3, <2>4 DEF Announced, Told, Has
  <2>8. Phase(c)'
    BY <1>2, <2>3, <2>4 DEF Phase, Has
  <2> QED
    BY <2>5, <2>6, <2>7, <2>8 DEF SessionAt
<1> QED
  BY <1>6, <1>7, Apart DEF IInv, SessionInv

\* The provider is accepted: its handler waits for the first item.
LEMMA AckSession ==
  ASSUME IInv, NEW h \in Hosts, RecvAck(h)
  PROVE  SessionInv'
<1> TypeOK /\ KnownInv
  BY DEF IInv
<1>0. st[h] = "hello" /\ cur[h] # 0 /\ known[h] = <<>>
  BY DEF RecvAck, Prov, KnownInv, InSession
<1>1. PICK c \in Sessions : c = Session(h) /\ c[1] = h /\ Live(c)
  BY <1>0, Current
<1>2. /\ UNCHANGED <<balancing, answer, inbox, hd, reg, listed, cur, known, missed, up>>
      /\ down[c] # <<>> /\ Head(down[c]).type = "ACK"
      /\ down' = [down EXCEPT ![c] = Tail(@)] /\ st' = [st EXCEPT ![h] = "announce"]
  BY <1>1 DEF RecvAck, agentVars, sessVars
<1>3. \A d \in Sessions \ {c} : SameSession(d)
  BY <1>1, <1>2, ProviderApart DEF TypeOK
<1>4. SessionAt(c) /\ down[c] \in Seq(Msg) /\ st'[h] = "announce" /\ down'[c] = Tail(down[c])
  BY <1>2 DEF IInv, SessionInv, TypeOK
<1>5. ~InInbox(c) /\ answer.to # c /\ ~InInbox(c)' /\ answer'.to # c
  BY <1>0, <1>1, <1>2, <1>4, InboxKept DEF SessionAt, Greeting
<1>6. (Live(c)' <=> Live(c)) /\ (Held(c)' <=> Held(c))
  BY <1>2, <1>5 DEF Live, Held
<1>7. /\ Has(down[c], "ACK")
      /\ \A type : Has(down'[c], type) => Has(down[c], type)
      /\ \A type : Has(down[c], type) => Has(down'[c], type) \/ type = "ACK"
  BY <1>2, <1>4, HasTaken
<1>8. \A n \in 1..Len(down[c]) : down[c][n].type # "ID"
  BY <1>0, <1>1, <1>4 DEF SessionAt, Told
<1>9. ~Has(down'[c], "ID")
  BY <1>7, <1>8 DEF Has
<1>10. up[c] = <<>>
  BY <1>0, <1>1, <1>4 DEF SessionAt, Announced
<1>11. SessionAt(c)'
  <2>1. Greeting(c)'
    BY <1>5 DEF Greeting
  <2>2. Ends(c)'
    BY <1>0, <1>1, <1>2, <1>4, <1>6 DEF SessionAt, Ends
  <2>3. Announced(c)'
    BY <1>2, <1>10 DEF Announced, Has
  <2>4. Told(c)'
    <3>1. \A n \in 1..Len(down'[c]) : down'[c][n].type # "ID"
      BY <1>9 DEF Has
    <3> QED
      BY <1>0, <1>1, <1>2, <1>4, <1>6, <1>7, <3>1 DEF SessionAt, Told
  <2>5. Phase(c)'
    <3> SUFFICES ASSUME Connected(c)' PROVE Phase(c)'
      BY DEF Phase
    <3>1. Connected(c)
      BY <1>2, <1>6, <1>7 DEF Connected
    <3>2. hd[c] = "register" /\ reg[c] = 0
      BY <1>0, <1>1, <1>4, <1>7, <3>1 DEF SessionAt, Phase
    <3>3. Len(known[h]) = 0
      BY <1>0
    <3> QED
      BY <1>1, <1>2, <1>4, <3>2, <3>3 DEF Phase
  <2> QED
    BY <2>1, <2>2, <2>3, <2>4, <2>5 DEF SessionAt
<1> QED
  BY <1>3, <1>11, Apart DEF IInv, SessionInv

\* The next item is announced, to a handler that has registered the others.
LEMMA AnnounceSession ==
  ASSUME IInv, NEW h \in Hosts, Announce(h)
  PROVE  SessionInv'
<1> TypeOK /\ KnownInv
  BY DEF IInv
<1> DEFINE k == Len(known[h])
           m == IF k \in Items THEN [type |-> "INFO", n |-> k] ELSE M("IDLE")
<1>0. st[h] = "announce" /\ cur[h] # 0
  BY DEF Announce, Prov, KnownInv, InSession, Starting
<1>1. PICK c \in Sessions : c = Session(h) /\ c[1] = h /\ Live(c)
  BY <1>0, Current
<1>2. /\ UNCHANGED <<balancing, answer, inbox, hd, reg, listed, cur, known, missed, down>>
      /\ up' = IF Held(c) THEN [up EXCEPT ![c] = Append(@, m)] ELSE up
      /\ st' = [st EXCEPT ![h] = IF k \in Items THEN "awaitId" ELSE "serve"]
  BY <1>1 DEF Announce, agentVars, sessVars, ToAgent
<1>3. /\ m \in Msg /\ k \in Nat /\ (k \notin Items => k = NDevices + 1)
      /\ k \in Items => m.type = "INFO" /\ m.n = k
      /\ k \notin Items => m.type = "IDLE"
  <2>1. k \in Nat /\ k <= NDevices + 1
    BY DEF TypeOK
  <2>2. k \notin Items => k = NDevices + 1
    BY <2>1, RegistrationAssumption DEF Items
  <2> QED
    BY <2>1, <2>2, Messages
<1>4. \A d \in Sessions \ {c} : SameSession(d)
  BY <1>1, <1>2, ProviderApart DEF TypeOK
<1>5. SessionAt(c) /\ st'[h] = IF k \in Items THEN "awaitId" ELSE "serve"
  BY <1>2 DEF IInv, SessionInv, TypeOK
<1>6. ~InInbox(c) /\ answer.to # c /\ ~InInbox(c)' /\ answer'.to # c
  BY <1>0, <1>1, <1>2, <1>5, InboxKept DEF SessionAt, Greeting
<1>7. (Live(c)' <=> Live(c)) /\ (Held(c)' <=> Held(c))
  BY <1>2, <1>6 DEF Live, Held
<1>8. up[c] = <<>> /\ \A n \in 1..Len(down[c]) : down[c][n].type # "ID"
  BY <1>0, <1>1, <1>5 DEF SessionAt, Announced, Told
<1>9. ~Has(down[c], "ID")
  BY <1>8 DEF Has
<1>10. Connected(c) => hd[c] = "register" /\ reg[c] = k
  BY <1>0, <1>1, <1>5 DEF SessionAt, Phase
<1>11. Held(c) => Connected(c)
  BY <1>1, <1>5 DEF SessionAt, Told, Connected
<1> HIDE DEF m
<1>12. \/ up'[c] = <<>>
       \/ Len(up'[c]) = 1 /\ up'[c][1] = m /\ hd[c] = "register" /\ reg[c] = k
  <2>1. CASE Held(c)
    <3>1. up'[c] = Append(<<>>, m) /\ Len(Append(<<>>, m)) = 1 /\ Append(<<>>, m)[1] = m
      BY <1>2, <1>8, <2>1 DEF TypeOK
    <3> QED
      BY <1>10, <1>11, <2>1, <3>1
  <2>2. CASE ~Held(c)
    BY <1>2, <1>8, <2>2
  <2> QED
    BY <2>1, <2>2
<1> HIDE DEF k
<1>13. \A n \in 1..Len(up'[c]) : n = 1 /\ up'[c][n] = m /\ hd[c] = "register" /\ reg[c] = k
  <2>1. CASE up'[c] = <<>>
    BY <2>1
  <2>2. CASE up'[c] # <<>>
    <3>1. Len(up'[c]) = 1 /\ up'[c][1] = m /\ hd[c] = "register" /\ reg[c] = k
      BY <1>12, <2>2
    <3>2. ASSUME NEW n \in 1..Len(up'[c]) PROVE n = 1
      BY <3>1
    <3> QED
      BY <3>1, <3>2
  <2> QED
    BY <2>1, <2>2
<1>14. \A type : Has(up'[c], type) => type = m.type /\ reg[c] = k
  BY <1>13 DEF Has
<1>15. SessionAt(c)'
  <2>1. Greeting(c)'
    BY <1>6 DEF Greeting
  <2>2. Ends(c)'
    <3>1. hd[c] = "none" => ~Held(c)
      BY <1>6, <1>10, <1>11
    <3>2. hd[c] = "none" => up'[c] = <<>>
      BY <1>2, <1>8, <3>1
    <3>3. hd[c] \notin {"sleep", "await", "detach", "destroy"}
      BY <1>0, <1>1, <1>5 DEF SessionAt, Ends
    <3> QED
      BY <1>1, <1>2, <1>5, <1>7, <3>2, <3>3 DEF SessionAt, Ends
  <2>3. Announced(c)'
    <3>1. k \in Items => \A n \in 1..Len(up'[c]) : up'[c][n].type = "INFO" /\ up'[c][n].n = reg[c]
      BY <1>3, <1>13
    <3>2. k \notin Items => \A n \in 1..Len(up'[c]) : up'[c][n].type = "IDLE" /\ reg[c] = NDevices + 1
      BY <1>3, <1>13
    <3>3. \A n \in 1..Len(up'[c]) :
            /\ up'[c][n].type \in {"INFO", "IDLE"} => n = 1 /\ hd'[c] = "register"
            /\ up'[c][n].type = "IDLE" => reg'[c] = NDevices + 1
            /\ up'[c][n].type = "INFO" => up'[c][n].n = reg'[c]
      BY <1>2, <1>13, <3>1, <3>2
    <3>4. /\ ~Has(up'[c], "SHUTDOWN")
          /\ Has(up'[c], "IDLE") => st'[h] = "serve"
          /\ Has(up'[c], "INFO") => st'[h] = "awaitId" /\ reg[c] = k /\ ~Has(down[c], "ID")
      BY <1>3, <1>5, <1>9, <1>14
    <3>5. st'[h] \notin {"hello", "announce"} /\ (st'[h] = "awaitId" => k \in Items)
      BY <1>5
    <3> QED
      BY <1>1, <1>2, <3>1, <3>3, <3>4, <3>5 DEF Announced, k
  <2>4. Told(c)'
    BY <1>0, <1>1, <1>2, <1>5, <1>7, <1>8 DEF SessionAt, Told
  <2>5. Phase(c)'
    <3> SUFFICES ASSUME Connected(c)' PROVE Phase(c)'
      BY DEF Phase
    <3>1. Connected(c)
      BY <1>2, <1>7 DEF Connected
    <3> QED
      BY <1>1, <1>2, <1>3, <1>5, <1>9, <1>10, <3>1 DEF Phase
  <2> QED
    BY <2>1, <2>2, <2>3, <2>4, <2>5 DEF SessionAt
<1> QED
  BY <1>4, <1>15, Apart DEF IInv, SessionInv

\* The id is the one of the item that was announced last, and the only one.
LEMMA IdSession ==
  ASSUME IInv, NEW h \in Hosts, RecvId(h)
  PROVE  SessionInv'
<1> TypeOK /\ KnownInv
  BY DEF IInv
<1>0. st[h] = "awaitId" /\ cur[h] # 0
  BY DEF RecvId, Prov, KnownInv, InSession, Starting
<1>1. PICK c \in Sessions : c = Session(h) /\ c[1] = h /\ Live(c)
  BY <1>0, Current
<1>2. /\ UNCHANGED <<balancing, answer, inbox, hd, reg, listed, cur, missed, up>>
      /\ down[c] # <<>> /\ Head(down[c]).type = "ID"
      /\ down' = [down EXCEPT ![c] = Tail(@)] /\ st' = [st EXCEPT ![h] = "announce"]
      /\ known' = [known EXCEPT ![h] = Append(known[h], Head(down[c]).n)]
  BY <1>1 DEF RecvId, agentVars, sessVars
<1>3. \A d \in Sessions \ {c} : SameSession(d)
  BY <1>1, <1>2, ProviderApart DEF TypeOK
<1>4. /\ SessionAt(c) /\ down[c] \in Seq(Msg) /\ st'[h] = "announce" /\ down'[c] = Tail(down[c])
      /\ known'[h] = Append(known[h], Head(down[c]).n)
  BY <1>2 DEF IInv, SessionInv, TypeOK
<1>5. /\ Len(down[c]) \in Nat \ {0} /\ Head(down[c]) = down[c][1] /\ Head(down[c]) \in Msg
      /\ Len(down'[c]) = Len(down[c]) - 1
      /\ \A n \in 1..(Len(down[c]) - 1) : down'[c][n] = down[c][n + 1]
  <2>1. down[c] # <<>> /\ down[c] \in Seq(Msg) /\ down'[c] = Tail(down[c])
    BY <1>2, <1>4
  <2> QED
    BY <2>1, Taken
<1>6. Len(known[h]) \in Nat /\ Len(known'[h]) = Len(known[h]) + 1
  BY <1>4, <1>5, Sent, Messages DEF TypeOK
<1>7. ~InInbox(c) /\ answer.to # c /\ ~InInbox(c)' /\ answer'.to # c
  BY <1>0, <1>1, <1>2, <1>4, InboxKept DEF SessionAt, Greeting
<1>8. (Live(c)' <=> Live(c)) /\ (Held(c)' <=> Held(c))
  BY <1>2, <1>7 DEF Live, Held
<1>9. /\ Has(down[c], "ID")
      /\ \A type : Has(down'[c], type) => Has(down[c], type)
      /\ \A type : Has(down[c], type) => Has(down'[c], type) \/ type = "ID"
  BY <1>2, <1>4, HasTaken
<1>10. \A n \in 1..Len(down'[c]) : down'[c][n].type # "ID"
  <2> SUFFICES ASSUME NEW n \in 1..(Len(down[c]) - 1), down'[c][n].type = "ID"
               PROVE  FALSE
    BY <1>5
  <2>1. n + 1 \in 1..Len(down[c]) /\ 1 \in 1..Len(down[c]) /\ n + 1 # 1 /\ down'[c][n] = down[c][n + 1]
    BY <1>5
  <2>2. down[c][n + 1].type = "ID" /\ down[c][1].type = "ID"
    BY <1>2, <1>5, <2>1
  <2> QED
    BY <1>1, <1>4, <2>1, <2>2 DEF SessionAt, Told
<1>11. up[c] = <<>>
  <2>1. \A n \in 1..Len(up[c]) : up[c][n].type = "INFO"
    BY <1>0, <1>1, <1>4 DEF SessionAt, Announced
  <2>2. ~Has(up[c], "INFO")
    BY <1>1, <1>4, <1>9 DEF SessionAt, Announced
  <2>3. up[c] \in Seq(Msg)
    BY DEF TypeOK
  <2>4. up[c] # <<>> => Len(up[c]) \in Nat \ {0}
    BY <2>3, Taken
  <2>5. up[c] # <<>> => 1 \in 1..Len(up[c])
    BY <2>4
  <2> QED
    BY <2>1, <2>2, <2>5 DEF Has
<1>12. SessionAt(c)'
  <2>1. Greeting(c)'
    BY <1>7 DEF Greeting
  <2>2. Ends(c)'
    BY <1>0, <1>1, <1>2, <1>4, <1>8 DEF SessionAt, Ends
  <2>3. Announced(c)'
    BY <1>2, <1>11 DEF Announced, Has
  <2>4. Told(c)'
    BY <1>0, <1>1, <1>2, <1>4, <1>8, <1>9, <1>10 DEF SessionAt, Told
  <2>5. Phase(c)'
    <3> SUFFICES ASSUME Connected(c)' PROVE Phase(c)'
      BY DEF Phase
    <3>1. Connected(c)
      BY <1>2, <1>8, <1>9 DEF Connected
    <3>2. hd[c] = "register" /\ reg[c] = Len(known[h]) + 1
      BY <1>0, <1>1, <1>4, <1>9, <3>1 DEF SessionAt, Phase
    <3> QED
      BY <1>1, <1>2, <1>4, <1>6, <3>2 DEF Phase
  <2> QED
    BY <2>1, <2>2, <2>3, <2>4, <2>5 DEF SessionAt
<1> QED
  BY <1>3, <1>12, Apart DEF IInv, SessionInv

\* The event, or the rest of it, instead of an id: the agent has no end any more.
LEMMA NoIdSession ==
  ASSUME IInv, NEW h \in Hosts, RecvNoId(h)
  PROVE  SessionInv'
<1> TypeOK /\ KnownInv
  BY DEF IInv
<1>0. st[h] = "awaitId" /\ cur[h] # 0 /\ missed' = missed \union {h}
  BY DEF RecvNoId, Prov, KnownInv, InSession, Starting
<1>1. PICK c \in Sessions : c = Session(h) /\ c[1] = h /\ Live(c)
  BY <1>0, Current
<1>2. /\ UNCHANGED <<balancing, answer, inbox, hd, reg, listed>>
      /\ down[c] # <<>> /\ Head(down[c]).type \in {"SHUTDOWN", "REST"}
  BY <1>1 DEF RecvNoId, agentVars, sessVars
<1>3. CASE \E n \in 1..Len(known[h]) : known[h][n] = NoId
  <2>1. LeaveSession(h) /\ known' = known /\ st' = [st EXCEPT ![h] = "aborted"]
    BY <1>3 DEF RecvNoId
  <2>2. \A g \in Hosts \ {h} : st'[g] = st[g] /\ known'[g] = known[g] /\ (g \in missed' <=> g \in missed)
    BY <1>0, <2>1 DEF TypeOK
  <2> QED
    BY <1>0, <1>2, <2>1, <2>2, LeftSession
<1>4. CASE ~\E n \in 1..Len(known[h]) : known[h][n] = NoId
  <2>1. /\ UNCHANGED <<cur, up>> /\ st' = [st EXCEPT ![h] = "announce"]
        /\ known' = [known EXCEPT ![h] = Append(known[h], NoId)]
        /\ down' = [down EXCEPT ![c] = IF Head(down[c]).type = "SHUTDOWN" THEN <<M("REST")>> ELSE <<>>]
    BY <1>1, <1>4 DEF RecvNoId
  <2>2. \A d \in Sessions \ {c} : SameSession(d)
    BY <1>0, <1>1, <1>2, <2>1, ProviderApart DEF TypeOK
  <2>3. SessionAt(c) /\ down[c] \in Seq(Msg)
    BY DEF IInv, SessionInv, TypeOK
  <2>4. Has(down[c], "SHUTDOWN") \/ Has(down[c], "REST")
    BY <1>2, <2>3, HasTaken
  <2>5. ~Held(c)
    BY <1>1, <2>3, <2>4 DEF SessionAt, Told
  <2>6. hd[c] = "none" /\ ~InInbox(c) /\ answer.to # c /\ up[c] = <<>>
    BY <2>3, <2>5 DEF Held, SessionAt, Ends
  <2>7. ~InInbox(c)' /\ answer'.to # c /\ ~Held(c)' /\ (Live(c)' <=> Live(c))
    BY <1>2, <2>1, <2>6, InboxKept DEF Held, Live
  <2>8. st'[c[1]] = "announce" /\ c[1] \in missed'
    BY <1>0, <1>1, <2>1 DEF TypeOK
  <2>9. \A n \in 1..Len(down'[c]) : down'[c][n].type = "REST"
    <3>1. M("REST").type = "REST"
      BY Messages
    <3>2. down'[c] = <<>> \/ down'[c] = <<M("REST")>>
      BY <2>1 DEF TypeOK
    <3> QED
      BY <3>1, <3>2
  <2>10. Greeting(c)' /\ Phase(c)'
    BY <2>7, <2>8 DEF Greeting, Phase, Connected
  <2>11. Ends(c)'
    BY <1>1, <1>2, <2>1, <2>3, <2>6, <2>7 DEF SessionAt, Ends
  <2>12. Announced(c)'
    BY <2>1, <2>6 DEF Announced, Has
  <2>13. Told(c)'
    BY <2>7, <2>8, <2>9 DEF Told, Has
  <2>14. SessionAt(c)'
    BY <2>10, <2>11, <2>12, <2>13 DEF SessionAt
  <2> QED
    BY <2>2, <2>14, Apart DEF IInv, SessionInv
<1> QED
  BY <1>3, <1>4

\* The message loop answers what it reads, and answers nothing else.
LEMMA ServeSession ==
  ASSUME IInv, NEW h \in Hosts, Serve(h)
  PROVE  SessionInv'
<1> TypeOK /\ KnownInv
  BY DEF IInv
<1>0. st[h] = "serve" /\ cur[h] # 0
  BY DEF Serve, Prov, KnownInv, InSession
<1>1. PICK c \in Sessions : c = Session(h) /\ c[1] = h /\ Live(c)
  BY <1>0, Current
<1>2. /\ UNCHANGED <<balancing, answer, inbox, hd, reg, listed, provVars>>
      /\ down[c] # <<>> /\ Head(down[c]).type # "SHUTDOWN"
      /\ down' = [down EXCEPT ![c] = Tail(@)]
  BY <1>1 DEF Serve, agentVars, sessVars
<1>3. PICK m \in {M("PONG"), M("ANSWER")} : up' = up \/ (Held(c) /\ up' = [up EXCEPT ![c] = Append(@, m)])
  BY <1>1 DEF Serve, ToAgent
<1>4. m \in Msg /\ m.type \in {"PONG", "ANSWER"}
  BY Messages
<1>5. \A d \in Sessions \ {c} : SameSession(d)
  BY <1>1, <1>2, <1>3, ProviderApart DEF TypeOK, provVars
<1>6. SessionAt(c) /\ down[c] \in Seq(Msg) /\ up[c] \in Seq(Msg) /\ down'[c] = Tail(down[c])
  BY <1>2 DEF IInv, SessionInv, TypeOK
<1>7. ~InInbox(c) /\ answer.to # c /\ ~InInbox(c)' /\ answer'.to # c
  BY <1>0, <1>1, <1>2, <1>6, InboxKept DEF SessionAt, Greeting
<1>8. (Live(c)' <=> Live(c)) /\ (Held(c)' <=> Held(c))
  BY <1>2, <1>7 DEF Live, Held, provVars
<1>9. /\ \A type : Has(down'[c], type) => Has(down[c], type)
      /\ Has(down[c], "SHUTDOWN") => Has(down'[c], "SHUTDOWN")
  BY <1>2, <1>6, HasTaken
<1>10. \A n \in 1..Len(down[c]) : down[c][n].type # "ID"
  BY <1>0, <1>1, <1>6 DEF SessionAt, Told
<1>11. \A n \in 1..Len(down'[c]) : down'[c][n].type # "ID"
  BY <1>9, <1>10 DEF Has
<1>12. up'[c] = up[c] \/ (Held(c) /\ up'[c] = Append(up[c], m))
  BY <1>3 DEF TypeOK
<1>13. \A type \in {"INFO", "IDLE", "SHUTDOWN"} : Has(up'[c], type) <=> Has(up[c], type)
  <2>1. CASE up'[c] = up[c]
    BY <2>1
  <2>2. CASE up'[c] = Append(up[c], m)
    <3>1. \A type : Has(Append(up[c], m), type) <=> Has(up[c], type) \/ m.type = type
      BY <1>4, <1>6, HasSent
    <3>2. m.type \notin {"INFO", "IDLE", "SHUTDOWN"}
      BY <1>4
    <3> QED
      BY <2>2, <3>1, <3>2
  <2> QED
    BY <1>12, <2>1, <2>2
<1>14. \A n \in 1..Len(up'[c]) :
          up'[c][n].type \in {"PONG", "ANSWER"} \/ (n \in 1..Len(up[c]) /\ up'[c][n] = up[c][n])
  <2>1. CASE up'[c] = up[c]
    BY <2>1
  <2>2. CASE up'[c] = Append(up[c], m)
    <3>1. /\ Len(up[c]) \in Nat /\ Len(up'[c]) = Len(up[c]) + 1
          /\ \A n \in 1..Len(up[c]) : up'[c][n] = up[c][n]
          /\ up'[c][Len(up[c]) + 1] = m
      BY <1>4, <1>6, <2>2, Sent
    <3> QED
      BY <1>4, <3>1
  <2> QED
    BY <1>12, <2>1, <2>2
<1>15. SessionAt(c)'
  <2>1. Greeting(c)'
    BY <1>7 DEF Greeting
  <2>2. Ends(c)'
    <3>1. hd[c] = "none" => ~Held(c)
      BY <1>7 DEF Held
    <3> QED
      BY <1>1, <1>2, <1>6, <1>8, <1>12, <3>1 DEF SessionAt, Ends, provVars
  <2>3. Announced(c)'
    <3>1. \A n \in 1..Len(up'[c]) :
            /\ up'[c][n].type \in {"INFO", "IDLE"} => n = 1 /\ hd'[c] = "register"
            /\ up'[c][n].type = "IDLE" => reg'[c] = NDevices + 1
            /\ up'[c][n].type = "INFO" => up'[c][n].n = reg'[c]
      BY <1>2, <1>6, <1>14 DEF SessionAt, Announced
    <3>2. ~Has(up'[c], "SHUTDOWN") /\ ~Has(up'[c], "INFO")
      BY <1>0, <1>1, <1>6, <1>13 DEF SessionAt, Announced
    <3> QED
      BY <1>0, <1>1, <1>2, <3>1, <3>2 DEF Announced, provVars
  <2>4. Told(c)'
    BY <1>0, <1>1, <1>2, <1>6, <1>8, <1>9, <1>11 DEF SessionAt, Told, provVars
  <2>5. Phase(c)'
    <3> SUFFICES ASSUME Connected(c)' PROVE Phase(c)'
      BY DEF Phase
    <3>1. Connected(c)
      BY <1>2, <1>8, <1>9 DEF Connected, provVars
    <3> QED
      BY <1>0, <1>1, <1>2, <1>6, <3>1 DEF SessionAt, Phase, provVars
  <2> QED
    BY <2>1, <2>2, <2>3, <2>4, <2>5 DEF SessionAt
<1> QED
  BY <1>5, <1>15, Apart DEF IInv, SessionInv

LEMMA ProviderSession ==
  ASSUME IInv, NEW h \in Hosts, ProviderStep(h) \/ Connect(h) \/ ConnectFails(h)
                                  \/ StartupFails(h) \/ ProviderEnds(h)
  PROVE  SessionInv'
<1>1. CASE RecvNack(h) \/ ServeLost(h) \/ StartupFails(h) \/ ProviderEnds(h)
  <2>1. /\ LeaveSession(h) /\ known' = known /\ missed' = missed
        /\ UNCHANGED <<balancing, answer, inbox, hd, reg, listed>> /\ st[h] \in InSession
        /\ \A g \in Hosts \ {h} : st'[g] = st[g]
    BY <1>1 DEF RecvNack, ServeLost, StartupFails, ProviderEnds, Prov, InSession, Starting,
                agentVars, sessVars, IInv, TypeOK
  <2>2. cur[h] # 0
    BY <2>1 DEF IInv, KnownInv
  <2> QED
    BY <2>1, <2>2, LeftSession
<1>2. CASE ConnectFails(h) \/ RecvRequestForId(h)
  BY <1>2, SessionsKept
<1> QED
  BY <1>1, <1>2, AckSession, AnnounceSession, IdSession, NoIdSession, ServeSession, ConnectSession
     DEF ProviderStep

-----------------------------------------------------------------------------
(* Sessions that a step changes: the consumers' threads *)

\* A request is sent in a session that is registered; with load balancing its
\* provider serves.
LEMMA RequestSession ==
  ASSUME IInv, NEW u \in Consumers, CallSend(u)
  PROVE  SessionInv'
<1> TypeOK /\ PlatformInv
  BY DEF IInv
<1>0. PICK c \in Sessions : c = chosen[u]
  BY DEF CallSend
<1>1. /\ UNCHANGED <<balancing, answer, inbox, hd, reg, listed, provVars, up>> /\ Live(c)
      /\ down' = [down EXCEPT ![c] = Append(@, M("REQUEST"))]
  BY <1>0 DEF CallSend, ToProvider, agentVars
<1>2. reg[c] > 0 /\ (balancing => hd[c] \in {"sleep", "await", "detach", "destroy"})
  BY <1>0 DEF PlatformInv
<1>3. SessionAt(c) /\ down[c] \in Seq(Msg) /\ down'[c] = Append(down[c], M("REQUEST"))
  BY <1>1 DEF IInv, SessionInv, TypeOK
<1>4. M("REQUEST") \in Msg /\ M("REQUEST").type = "REQUEST"
  BY Messages
<1>5. /\ Len(down[c]) \in Nat /\ Len(down'[c]) = Len(down[c]) + 1
      /\ \A n \in 1..Len(down[c]) : down'[c][n] = down[c][n]
      /\ down'[c][Len(down[c]) + 1] = M("REQUEST")
  BY <1>3, <1>4, Sent
<1>6. \A type : type # "REQUEST" => (Has(down'[c], type) <=> Has(down[c], type))
  BY <1>3, <1>4, HasSent
<1>7. \A d \in Sessions : (InInbox(d)' => InInbox(d)) /\ (Live(d)' <=> Live(d))
  BY <1>1, InboxKept DEF Live, provVars
<1>8. \A d \in Sessions \ {c} : SameSession(d)
  BY <1>1, <1>7 DEF SameSession, provVars, TypeOK
<1>9. Held(c)' => Held(c)
  BY <1>1, <1>7 DEF Held
<1>10. balancing => st[c[1]] = "serve"
  BY <1>1, <1>2, <1>3 DEF SessionAt, Ends
<1>11. ~(InInbox(c) \/ answer.to = c)
  <2> SUFFICES ASSUME InInbox(c) \/ answer.to = c PROVE FALSE
    OBVIOUS
  <2>1. Held(c) /\ st[c[1]] = "hello" /\ down[c] = <<>>
    BY <1>1, <1>3 DEF SessionAt, Greeting, Held
  <2>2. Connected(c)
    BY <1>1, <1>3, <2>1, EmptyHas DEF SessionAt, Told, Connected
  <2>3. reg[c] = 0
    BY <1>3, <2>1, <2>2 DEF SessionAt, Phase
  <2> QED
    BY <1>2, <2>3
<1>12. SessionAt(c)'
  <2>1. Greeting(c)'
    BY <1>1, <1>7, <1>11 DEF Greeting
  <2>2. Ends(c)' /\ Phase(c)'
    BY <1>1, <1>3, <1>6, <1>7 DEF SessionAt, Ends, Phase, Connected, provVars
  <2>3. Announced(c)'
    BY <1>1, <1>3, <1>6, <1>7 DEF SessionAt, Announced, provVars
  <2>4. Told(c)'
    <3>1. ASSUME NEW n \in 1..Len(down'[c]), down'[c][n].type = "ID"
          PROVE  n \in 1..Len(down[c]) /\ down'[c][n] = down[c][n]
      BY <1>4, <1>5, <3>1
    <3>2. ASSUME NEW n \in 1..Len(down'[c]), down'[c][n].type = "ID"
          PROVE  /\ st[c[1]] = "awaitId" /\ down'[c][n].n = Len(known[c[1]])
                 /\ \A k \in 1..Len(down'[c]) : down'[c][k].type = "ID" => k = n
      BY <1>1, <1>3, <3>1, <3>2 DEF Told, SessionAt
    <3> QED
      BY <1>1, <1>3, <1>6, <1>9, <1>10, <3>2 DEF Told, SessionAt, provVars
  <2> QED
    BY <2>1, <2>2, <2>3, <2>4 DEF SessionAt
<1> QED
  BY <1>8, <1>12, Apart DEF IInv, SessionInv

\* An answer is read: there is none before the registration is over, or it is the
\* head of a queue in which nothing registers an item.
LEMMA ResponseSession ==
  ASSUME IInv, NEW u \in Consumers, CallRecv(u)
  PROVE  SessionInv'
<1> TypeOK
  BY DEF IInv
<1>0. PICK c \in Sessions : c = chosen[u]
  BY DEF CallRecv, Thread, IInv, LockInv
<1>1. CASE Head(up[c]).type \in {"INFO", "IDLE"}
  <2>1. UNCHANGED <<balancing, answer, inbox, hd, reg, listed, provVars, up, down>>
    BY <1>0, <1>1 DEF CallRecv, Crash, agentVars, sessVars
  <2>2. \A d \in Sessions : SameSession(d)
    BY <2>1, InboxKept DEF SameSession, Live, provVars
  <2> QED
    BY <2>2, Apart DEF IInv, SessionInv
<1>2. CASE Head(up[c]).type \notin {"INFO", "IDLE"}
  <2>1. /\ UNCHANGED <<balancing, answer, inbox, hd, reg, listed, provVars, down>>
        /\ up[c] # <<>> /\ Head(up[c]).type \in {"ANSWER", "PONG"}
        /\ up' = [up EXCEPT ![c] = Tail(@)]
    BY <1>0, <1>2 DEF CallRecv, agentVars
  <2>2. SessionAt(c) /\ up[c] \in Seq(Msg) /\ up'[c] = Tail(up[c])
    BY <2>1 DEF IInv, SessionInv, TypeOK
  <2>3. \A d \in Sessions : (InInbox(d)' => InInbox(d)) /\ (Live(d)' <=> Live(d))
    BY <2>1, InboxKept DEF Live, provVars
  <2>4. \A d \in Sessions \ {c} : SameSession(d)
    BY <2>1, <2>3 DEF SameSession, provVars, TypeOK
  <2>5. /\ Len(up[c]) \in Nat \ {0} /\ Head(up[c]) = up[c][1] /\ Len(up'[c]) = Len(up[c]) - 1
        /\ \A n \in 1..(Len(up[c]) - 1) : up'[c][n] = up[c][n + 1]
    <3>1. up[c] # <<>>
      BY <2>1
    <3> QED
      BY <2>2, <3>1, Taken
  <2>6. \A type : Has(up'[c], type) => Has(up[c], type)
    BY <2>1, <2>2, HasTaken
  <2>7. ASSUME NEW n \in 1..Len(up'[c]) PROVE up'[c][n].type \notin {"INFO", "IDLE"}
    <3>1. n + 1 \in 1..Len(up[c]) /\ n + 1 # 1 /\ up'[c][n] = up[c][n + 1]
      BY <2>5
    <3> QED
      BY <2>2, <3>1 DEF SessionAt, Announced
  <2>8. ~Has(up'[c], "INFO") /\ ~Has(up'[c], "IDLE")
    BY <2>7 DEF Has
  <2>9. Live(c) => st[c[1]] \notin {"hello", "announce", "awaitId"}
    <3>1. 1 \in 1..Len(up[c]) /\ up[c][1].type # "INFO"
      BY <2>1, <2>5
    <3> QED
      BY <2>1, <2>2, <3>1 DEF SessionAt, Announced
  <2>10. SessionAt(c)'
    <3>1. Greeting(c)'
      BY <2>1, <2>2, <2>3 DEF SessionAt, Greeting, provVars
    <3>2. Ends(c)' /\ Phase(c)'
      BY <2>1, <2>2, <2>3 DEF SessionAt, Ends, Phase, Connected, provVars
    <3>3. Announced(c)'
      BY <2>1, <2>2, <2>3, <2>6, <2>7, <2>8, <2>9 DEF SessionAt, Announced, provVars
    <3>4. Held(c)' => Held(c)
      BY <2>1, <2>3 DEF Held
    <3>5. Told(c)'
      BY <2>1, <2>2, <2>3, <3>4 DEF SessionAt, Told, provVars
    <3> QED
      BY <3>1, <3>2, <3>3, <3>5 DEF SessionAt
  <2> QED
    BY <2>4, <2>10, Apart DEF IInv, SessionInv
<1> QED
  BY <1>1, <1>2

LEMMA SessionStep ==
  ASSUME IInv, [Next]_vars
  PROVE  SessionInv'
<1>1. CASE AnswerFails \/ AgentKilled \/ \E u \in Consumers : CallFails(u)
  BY <1>1, EndsSession DEF AnswerFails, AgentKilled, CallFails
<1>2. CASE \E c \in Sessions : HandlerStep(c)
  BY <1>2, HandlerSession
<1>3. CASE \E h \in Hosts : ProviderStep(h) \/ Connect(h) \/ ConnectFails(h) \/ StartupFails(h)
                              \/ ProviderEnds(h)
  BY <1>3, ProviderSession
<1>4. CASE AcceptProvider \/ AnswerProvider
  BY <1>4, AcceptSession, AnswerSession
<1>5. CASE \E u \in Consumers : CallSend(u) \/ CallRecv(u)
  BY <1>5, RequestSession, ResponseSession
<1> QED
  BY <1>1, <1>2, <1>3, <1>4, <1>5, SessionsKept DEF Next, AgentMain, ConsumerStep

-----------------------------------------------------------------------------
(* The theorems *)

\* Nothing is there at first.
LEMMA InitIInv == Init => IInv
<1> SUFFICES ASSUME Init PROVE IInv
  OBVIOUS
<1>1. TypeOK
  BY TypeInit
<1>2. SessionInv
  <2> SUFFICES ASSUME NEW c \in Sessions PROVE SessionAt(c)
    BY DEF SessionInv
  <2>1. /\ ~Live(c) /\ ~InInbox(c) /\ answer.to # c /\ up[c] = <<>> /\ down[c] = <<>>
        /\ hd[c] = "none" /\ reg[c] = 0 /\ c \notin listed
    BY Pairs DEF Init, Live, InInbox
  <2> QED
    BY <2>1 DEF SessionAt, Greeting, Ends, Announced, Told, Phase, Connected
<1>3. InboxInv /\ KnownInv /\ OneOfHost /\ NeverMixed
  BY DEF Init, InboxInv, KnownInv, OneOfHost, NeverMixed, InSession, Starting
<1>4. PlatformInv /\ LockInv
  BY Pairs DEF Init, PlatformInv, LockInv
<1> QED
  BY <1>1, <1>2, <1>3, <1>4 DEF IInv

LEMMA StepIInv == IInv /\ [Next]_vars => IInv'
BY TypeStep, SessionStep, InboxStep, KnownStep, PlatformStep, LockStep, OneOfHostStep, NeverMixedStep
   DEF IInv

\* The inductive invariant: what is on its way in every session, how far each end
\* takes the registration to be, and who has its platform and its lock.
THEOREM Invariant == Spec => []IInv
BY InitIInv, StepIInv, PTL DEF Spec

\* Every variable keeps to its values: a session registers no more items than its
\* provider announces, and an id map has no more ids than items
\* (provider_handler.c:88-218, provider.c:383-472).
THEOREM TypeCorrect == Spec => []TypeOK
<1>1. IInv => TypeOK
  BY DEF IInv
<1> QED
  BY <1>1, Invariant, PTL

\* The agent has one session of a host at most: agent_main finds the old one by the
\* address before it attaches a new one (agent.c:216-252).
THEOREM OneSession == Spec => []OneSessionPerHost
<1>1. ASSUME IInv PROVE OneSessionPerHost
  <2> SUFFICES ASSUME NEW h \in Hosts PROVE Cardinality({c \in listed : c[1] = h}) <= 1
    BY DEF OneSessionPerHost
  <2>1. CASE {c \in listed : c[1] = h} = {}
    BY <2>1, FS_EmptySet
  <2>2. CASE {c \in listed : c[1] = h} # {}
    <3>1. PICK c \in listed : c[1] = h
      BY <2>2
    <3>2. {d \in listed : d[1] = h} = {c}
      BY <1>1, <3>1 DEF IInv, OneOfHost
    <3>3. Cardinality({c}) = 1
      BY FS_Singleton
    <3> QED
      BY <3>2, <3>3
  <2> QED
    BY <2>1, <2>2
<1> QED
  BY <1>1, Invariant, PTL

\* The id map of a provider that serves is the agent's, item by item, unless the
\* association was lost on the way (provider.c:383-472).
THEOREM IdsAgreeHolds == Spec => []IdsAgree
<1>1. ASSUME IInv PROVE IdsAgree
  <2> SUFFICES ASSUME NEW h \in Hosts, st[h] = "serve", h \notin missed
               PROVE  /\ known[h] = [n \in 1..(NDevices + 1) |-> n - 1]
                      /\ \/ reg[Session(h)] = NDevices + 1 /\ Session(h) \in listed
                         \/ \E n \in 1..Len(down[Session(h)]) : down[Session(h)][n].type = "SHUTDOWN"
    BY DEF IdsAgree
  <2>1. /\ cur[h] # 0 /\ Len(known[h]) = NDevices + 1
        /\ \A n \in 1..Len(known[h]) : known[h][n] = n - 1
    BY <1>1 DEF IInv, KnownInv, InSession
  <2>2. known[h] \in Seq(Items \union {NoId})
    BY <1>1 DEF IInv, TypeOK
  <2>3. known[h] = [n \in 1..(NDevices + 1) |-> n - 1]
    <3>1. known[h] \in [1..Len(known[h]) -> Items \union {NoId}]
      BY <2>2, LenProperties
    <3>2. known[h] = [n \in 1..Len(known[h]) |-> n - 1]
      BY <2>1, <3>1
    <3> QED
      BY <2>1, <3>2
  <2>4. PICK c \in Sessions : c = Session(h) /\ c[1] = h /\ Live(c)
    BY <1>1, <2>1, Current DEF IInv
  <2>5. SessionAt(c)
    BY <1>1 DEF IInv, SessionInv
  <2>6. CASE Connected(c)
    <3>1. hd[c] \in {"register", "sleep", "await"} /\ reg[c] = NDevices + 1
      BY <2>4, <2>5, <2>6 DEF SessionAt, Phase
    <3>2. c \in listed
      BY <2>5, <3>1 DEF SessionAt, Ends
    <3> QED
      BY <2>3, <2>4, <3>1, <3>2
  <2>7. CASE ~Connected(c)
    <3>1. PICK n \in 1..Len(down[c]) : down[c][n].type = "SHUTDOWN"
      BY <2>4, <2>7 DEF Connected, Has
    <3> QED
      BY <2>3, <2>4, <3>1
  <2> QED
    BY <2>6, <2>7
<1> QED
  BY <1>1, Invariant, PTL

\* With load balancing no request meets a registration: a platform is for consumers
\* after the IDLE message, and its provider waits for requests then
\* (provider_handler.c:205-218).
THEOREM CalledWhenServing == Spec => []CalledOnlyWhenServing
<1>1. ASSUME IInv PROVE CalledOnlyWhenServing
  <2>1. ASSUME balancing, NEW h \in Hosts, st[h] \in {"hello"} \union Starting,
               NEW n \in 1..Len(down[Session(h)]), down[Session(h)][n].type = "REQUEST"
        PROVE  FALSE
    <3>1. cur[h] # 0 /\ st[h] # "serve"
      BY <1>1, <2>1 DEF IInv, KnownInv, InSession, Starting
    <3>2. PICK c \in Sessions : c = Session(h) /\ c[1] = h /\ Live(c)
      BY <1>1, <3>1, Current DEF IInv
    <3>3. Has(down[c], "REQUEST")
      BY <2>1, <3>2 DEF Has
    <3> QED
      BY <1>1, <2>1, <3>1, <3>2, <3>3 DEF IInv, SessionInv, SessionAt, Told
  <2> QED
    BY <1>1, <2>1 DEF CalledOnlyWhenServing, IInv, NeverMixed
<1> QED
  BY <1>1, Invariant, PTL

\* A platform that the load-balancer has is whole and has one user
\* (loadbalancer.c:100-108).
THEOREM PlatformsSharedHolds == Spec => []PlatformsShared
<1>1. ASSUME IInv PROVE PlatformsShared
  <2>1. ASSUME NEW c \in lb PROVE c \in listed /\ reg[c] = NDevices + 1
    <3>1. c \in Sessions /\ hd[c] \in {"sleep", "await", "detach"} /\ reg[c] = NDevices + 1
      BY <1>1 DEF IInv, TypeOK, PlatformInv
    <3> QED
      BY <1>1, <3>1 DEF IInv, SessionInv, SessionAt, Ends
  <2> QED
    BY <1>1, <2>1 DEF PlatformsShared, IInv, PlatformInv
<1> QED
  BY <1>1, Invariant, PTL
=============================================================================
