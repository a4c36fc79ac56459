---------------------------- MODULE Registration ----------------------------
(***************************************************************************)
(* How clients come to the agent and leave it: the main loop that accepts  *)
(* providers and consumers (agent.c, main.c), the handler of a provider    *)
(* from its first platform to its destruction (provider_handler.c,         *)
(* provider.c), the provider's start-up, message loop and reconnection     *)
(* (provider/src/provider.c), and the platforms that consumers get         *)
(* (loadbalancer.c, opencl_platform.c).                                    *)
(*                                                                         *)
(* A session is one association of a host with the agent.  A host whose    *)
(* provider comes back may have a session the agent has not given up yet,  *)
(* so that it has two places for sessions.                                 *)
(*                                                                         *)
(* Items are numbered: 0 is the platform of a provider, the others are its *)
(* devices.  The id the agent gives to item n is named n as well; NoId is  *)
(* what calloc leaves where no id arrives.                                 *)
(***************************************************************************)
EXTENDS Naturals, Sequences, FiniteSets

CONSTANTS Hosts,          \* machines with a provider
          Consumers,
          None, Freed,    \* no pointer, and a pointer to freed memory
          NDevices,       \* devices of a provider
          Modes,          \* may agent -b balance, or not?
          ClientsDie,     \* may a provider or consumer disappear?
          MaxStarts       \* bound: how often the agent is started

ASSUME RegistrationAssumption ==
  /\ Hosts \intersect Consumers = {} /\ {None, Freed} \intersect (Hosts \union Consumers) = {}
  /\ None # Freed /\ "ping" \notin Consumers \union {None}
  \* a session is a pair: neither a pointer to nothing nor a consumer is one
  /\ (Hosts \X {1, 2}) \intersect ({None, Freed} \union Consumers) = {}
  /\ NDevices \in Nat /\ MaxStarts \in Nat \ {0}
  /\ Modes \subseteq BOOLEAN /\ ClientsDie \in BOOLEAN

VARIABLES balancing,      \* opts.load_balancing
          main, answer,   \* the agent's main loop, and what it is about to send
          inbox,          \* first messages on the listening socket
          st, cur, known, \* provider: state, session, the ids it was told
          up, down,       \* messages of a session to the agent, to the provider
          hd,             \* the agent's handler of a session
          listed,         \* agent->providers
          reg,            \* platforms and devices registered in a session
          lb, user,       \* lb->platforms, and platform->consumer
          lock,           \* provider->lock of a session: who has it
          cs, th,         \* a consumer, and its handler thread in the agent
          chosen,         \* consumer->platform, or the platform it picked
          missed,         \* history: hosts that read the shutdown event for an id
          starts, crash

provVars == <<st, cur, known, missed>>
agentVars == <<balancing, main, answer, inbox, starts>>
sessVars == <<hd, listed, reg, lb, lock>>
consVars == <<cs, th, chosen, user>>
vars == <<agentVars, provVars, up, down, sessVars, consVars, crash>>

Sessions == Hosts \X {1, 2}
Items == 0..NDevices
NoId == NDevices + 1

Starting == {"announce", "awaitId"}
InSession == {"hello", "serve"} \union Starting
Ended == {"off", "refused", "aborted"}

M(type) == [type |-> type, n |-> 0]
Id(item) == [type |-> "ID", n |-> item]
Msg == [type : {"ACK", "NACK", "ID", "PING", "REQUEST", "SHUTDOWN", "REST",
                "INFO", "IDLE", "PONG", "ANSWER"}, n : Items]

TypeOK ==
  /\ balancing \in BOOLEAN
  /\ main \in {"recv", "answer", "ended"}
  /\ answer \in [to : Sessions \union Consumers \union {None}, type : {"ACK", "NACK"}]
  /\ inbox \in Seq(Sessions \union Consumers)
  /\ st \in [Hosts -> InSession \union Ended \union {"sleep"}]
  /\ cur \in [Hosts -> 0..2]
  /\ known \in [Hosts -> Seq(Items \union {NoId})]
  /\ \A h \in Hosts : Len(known[h]) <= NDevices + 1
  /\ up \in [Sessions -> Seq(Msg)] /\ down \in [Sessions -> Seq(Msg)]
  /\ hd \in [Sessions -> {"none", "register", "sleep", "await", "detach", "destroy"}]
  /\ listed \subseteq Sessions /\ lb \subseteq Sessions
  /\ reg \in [Sessions -> 0..(NDevices + 1)]
  /\ user \in [Sessions -> Consumers \union {None}]
  /\ lock \in [Sessions -> Consumers \union {None, "ping"}]
  /\ cs \in [Consumers -> {"off", "hello", "on"}]
  /\ th \in [Consumers -> {"none", "idle", "call"}]
  /\ chosen \in [Consumers -> Sessions \union {None, Freed}]
  /\ missed \subseteq Hosts
  /\ starts \in 1..MaxStarts
  /\ crash \in {"none", "garbled", "mixed", "freed"}

Init ==
  /\ balancing \in Modes
  /\ main = "recv" /\ answer = [to |-> None, type |-> "ACK"] /\ inbox = <<>>
  /\ st = [h \in Hosts |-> "off"] /\ cur = [h \in Hosts |-> 0]
  /\ known = [h \in Hosts |-> <<>>]
  /\ up = [c \in Sessions |-> <<>>] /\ down = [c \in Sessions |-> <<>>]
  /\ hd = [c \in Sessions |-> "none"] /\ listed = {}
  /\ reg = [c \in Sessions |-> 0] /\ lb = {} /\ user = [c \in Sessions |-> None]
  /\ lock = [c \in Sessions |-> None]
  /\ cs = [u \in Consumers |-> "off"] /\ th = [u \in Consumers |-> "none"]
  /\ chosen = [u \in Consumers |-> None]
  /\ missed = {} /\ starts = 1 /\ crash = "none"

-----------------------------------------------------------------------------
(* Helpers *)

InInbox(x) == \E n \in 1..Len(inbox) : inbox[n] = x

\* the session a provider is in
Session(h) == <<h, cur[h]>>

\* is the provider's end of the association there?
Live(c) == cur[c[1]] = c[2]

\* is the agent's end there: the handler's socket, or the listening one before
Held(c) == hd[c] # "none" \/ InInbox(c) \/ answer.to = c

\* has the association an end at the agent: a refused one stays with the
\* listening socket
Attached(c) == Held(c) \/ down[c] = <<M("NACK")>>

Crash(why) ==
  /\ crash' = why
  /\ UNCHANGED <<agentVars, provVars, up, down, sessVars, consVars>>

\* a send in a session is lost when the other end is gone
ToProvider(c, m) == down' = IF Live(c) THEN [down EXCEPT ![c] = Append(@, m)] ELSE down
ToAgent(c, m) == up' = IF Held(c) THEN [up EXCEPT ![c] = Append(@, m)] ELSE up

\* close(provider->sd): the handler of the session, if there is one, gets the event
LeaveSession(h) ==
  /\ cur' = [cur EXCEPT ![h] = 0]
  /\ down' = [down EXCEPT ![Session(h)] = <<>>]
  /\ up' = IF cur[h] # 0 /\ hd[Session(h)] # "none"
           THEN [up EXCEPT ![Session(h)] = Append(@, M("SHUTDOWN"))] ELSE up

\* The process is over: every association that is there ends, and consumers, whose
\* library asserts every answer, end with it.
AgentEnds ==
  /\ main' = "ended" /\ answer' = [to |-> None, type |-> "ACK"] /\ inbox' = <<>>
  /\ up' = [c \in Sessions |-> <<>>]
  /\ \E late \in BOOLEAN :
       down' = [c \in Sessions |->
                  IF Live(c) /\ Attached(c)
                  THEN Append(IF late THEN down[c] ELSE <<>>, M("SHUTDOWN"))
                  ELSE down[c]]
  /\ hd' = [c \in Sessions |-> "none"] /\ listed' = {} /\ reg' = [c \in Sessions |-> 0]
  /\ lb' = {} /\ user' = [c \in Sessions |-> None] /\ lock' = [c \in Sessions |-> None]
  /\ cs' = [u \in Consumers |-> "off"] /\ th' = [u \in Consumers |-> "none"]
  /\ chosen' = [u \in Consumers |-> None]
  /\ UNCHANGED <<balancing, starts, provVars, crash>>

-----------------------------------------------------------------------------
(* The agent's main loop: agent_main *)

\* mutant: every provider is taken for the first one of its host
FindNone(h) == FALSE

\* agent_find_provider_with_addr: the host has a provider in the list
FindProvider(h) == \E c \in listed : c[1] = h

\* provider_create, provider_attach, and the handler's thread
AttachProvider(c) ==
  /\ hd' = [hd EXCEPT ![c] = "register"]
  /\ listed' = listed \union {c}

\* consumer_create, consumer_attach, and the handler's thread
AttachConsumer(u) == th' = [th EXCEPT ![u] = "idle"]

\* A PROVIDER message: the association gets a socket of its own, the provider is
\* attached and its thread started, all before the answer is sent.
AcceptProvider ==
  /\ crash = "none" /\ main = "recv" /\ inbox # <<>>
  /\ Head(inbox) \in Sessions
  /\ LET c == Head(inbox) IN
     /\ Live(c)
     /\ answer' = [to |-> c, type |-> IF FindProvider(c[1]) THEN "NACK" ELSE "ACK"]
     /\ IF FindProvider(c[1])
        THEN UNCHANGED <<hd, listed>>
        ELSE AttachProvider(c)
  /\ inbox' = Tail(inbox)
  /\ main' = "answer"
  /\ UNCHANGED <<balancing, starts, provVars, up, down, reg, lb, lock, consVars, crash>>

AcceptConsumer ==
  /\ crash = "none" /\ main = "recv" /\ inbox # <<>>
  /\ Head(inbox) \in Consumers
  /\ cs[Head(inbox)] = "hello"
  /\ answer' = [to |-> Head(inbox), type |-> "ACK"]
  /\ AttachConsumer(Head(inbox))
  /\ inbox' = Tail(inbox)
  /\ main' = "answer"
  /\ UNCHANGED <<balancing, starts, provVars, up, down, sessVars, cs, chosen, user, crash>>

\* The client is gone: sctp_peeloff or the send fails, and so ends agent_main.
AnswerFails ==
  /\ crash = "none"
  /\ \/ main = "answer" /\ answer.to \in Sessions /\ ~Live(answer.to)
     \/ main = "answer" /\ answer.to \in Consumers /\ cs[answer.to] = "off"
     \/ main = "recv" /\ inbox # <<>> /\ Head(inbox) \in Sessions /\ ~Live(Head(inbox))
     \/ main = "recv" /\ inbox # <<>> /\ Head(inbox) \in Consumers /\ cs[Head(inbox)] = "off"
  /\ AgentEnds

AnswerProvider ==
  /\ crash = "none" /\ main = "answer"
  /\ answer.to \in Sessions
  /\ Live(answer.to)
  /\ down' = [down EXCEPT ![answer.to] = Append(@, M(answer.type))]
  /\ answer' = [to |-> None, type |-> "ACK"]
  /\ main' = "recv"
  /\ UNCHANGED <<balancing, inbox, starts, provVars, up, sessVars, consVars, crash>>

AnswerConsumer ==
  /\ crash = "none" /\ main = "answer"
  /\ answer.to \in Consumers
  /\ cs[answer.to] = "hello"
  /\ cs' = [cs EXCEPT ![answer.to] = "on"]
  /\ answer' = [to |-> None, type |-> "ACK"]
  /\ main' = "recv"
  /\ UNCHANGED <<balancing, inbox, starts, provVars, up, down, sessVars, th, chosen, user, crash>>

\* somebody stops the agent, or starts it again
AgentKilled ==
  /\ crash = "none" /\ main # "ended" /\ starts < MaxStarts
  /\ AgentEnds

AgentStarts ==
  /\ crash = "none" /\ main = "ended" /\ starts < MaxStarts
  /\ main' = "recv"
  /\ starts' = starts + 1
  /\ UNCHANGED <<balancing, answer, inbox, provVars, up, down, sessVars, consVars, crash>>

-----------------------------------------------------------------------------
(* The agent's handler of a session: agent_provider_handler *)

Handler(c, label) == crash = "none" /\ hd[c] = label

\* mutant: a platform is available as soon as the provider is
RegisterItemEarly(c) ==
  /\ Handler(c, "register")
  /\ up[c] # <<>> /\ Head(up[c]).type = "INFO"
  /\ reg' = [reg EXCEPT ![c] = @ + 1]
  /\ lb' = IF balancing THEN lb \union {c} ELSE lb
  /\ up' = [up EXCEPT ![c] = Tail(@)]
  /\ ToProvider(c, Id(Head(up[c]).n))
  /\ UNCHANGED <<agentVars, provVars, hd, listed, lock, consVars, crash>>

\* A platform or device is created, inserted and answered with its id.
RegisterItem(c) ==
  /\ Handler(c, "register")
  /\ up[c] # <<>> /\ Head(up[c]).type = "INFO"
  /\ reg' = [reg EXCEPT ![c] = @ + 1]
  /\ up' = [up EXCEPT ![c] = Tail(@)]
  /\ ToProvider(c, Id(Head(up[c]).n))
  /\ UNCHANGED <<agentVars, provVars, hd, listed, lb, lock, consVars, crash>>

\* lb_add_platform
AddPlatform(c) == lb' = IF balancing THEN lb \union {c} ELSE lb

\* IDLE: the platform becomes available for the load-balancer
RegisterIdle(c) ==
  /\ Handler(c, "register")
  /\ up[c] # <<>> /\ Head(up[c]).type = "IDLE"
  /\ hd' = [hd EXCEPT ![c] = "sleep"]
  /\ AddPlatform(c)
  /\ up' = [up EXCEPT ![c] = Tail(@)]
  /\ UNCHANGED <<agentVars, provVars, down, listed, reg, lock, consVars, crash>>

\* the shutdown event, or a failing receive when somebody else has read it
RegisterLost(c) ==
  /\ Handler(c, "register")
  /\ IF up[c] = <<>> THEN ~Live(c) /\ UNCHANGED up
     ELSE Head(up[c]).type = "SHUTDOWN" /\ up' = [up EXCEPT ![c] = Tail(@)]
  /\ hd' = [hd EXCEPT ![c] = "detach"]
  /\ UNCHANGED <<agentVars, provVars, down, listed, reg, lb, lock, consVars, crash>>

Ping(c) ==
  /\ Handler(c, "sleep")
  /\ lock[c] = None
  /\ lock' = [lock EXCEPT ![c] = "ping"]
  /\ hd' = [hd EXCEPT ![c] = "await"]
  /\ ToProvider(c, M("PING"))
  /\ UNCHANGED <<agentVars, provVars, up, listed, reg, lb, consVars, crash>>

\* mutant: the notification is not looked at
PongMisread(c) ==
  /\ Handler(c, "await")
  /\ IF up[c] = <<>> THEN ~Live(c) /\ UNCHANGED up ELSE up' = [up EXCEPT ![c] = Tail(@)]
  /\ lock' = [lock EXCEPT ![c] = None]
  /\ hd' = [hd EXCEPT ![c] = "sleep"]
  /\ UNCHANGED <<agentVars, provVars, down, listed, reg, lb, consVars, crash>>

\* Only the shutdown event ends the loop; a failing receive does not.
Pong(c) ==
  /\ Handler(c, "await")
  /\ IF up[c] = <<>> THEN ~Live(c) /\ UNCHANGED up ELSE up' = [up EXCEPT ![c] = Tail(@)]
  /\ lock' = [lock EXCEPT ![c] = None]
  /\ hd' = [hd EXCEPT ![c] =
              IF up[c] # <<>> /\ Head(up[c]).type = "SHUTDOWN" THEN "detach" ELSE "sleep"]
  /\ UNCHANGED <<agentVars, provVars, down, listed, reg, lb, consVars, crash>>

\* shutdown(sd), provider_detach
Detach(c) ==
  /\ Handler(c, "detach")
  /\ lb' = lb \ {c}
  /\ listed' = listed \ {c}
  /\ hd' = [hd EXCEPT ![c] = "destroy"]
  /\ UNCHANGED <<agentVars, provVars, up, down, reg, lock, consVars, crash>>

\* mutant: the platforms are not given up
DestroyKeepsPlatforms(c) ==
  /\ Handler(c, "destroy")
  /\ lock[c] = None
  /\ hd' = [hd EXCEPT ![c] = "none"]
  /\ up' = [up EXCEPT ![c] = <<>>]
  /\ user' = [user EXCEPT ![c] = None]
  /\ chosen' = [u \in Consumers |-> IF chosen[u] = c THEN Freed ELSE chosen[u]]
  /\ UNCHANGED <<agentVars, provVars, down, reg, listed, lb, lock, cs, th, crash>>

\* provider_destroy: lock_destroy waits for the lock, the rest frees what
\* consumers may still point to
Destroy(c) ==
  /\ Handler(c, "destroy")
  /\ lock[c] = None
  /\ hd' = [hd EXCEPT ![c] = "none"]
  /\ reg' = [reg EXCEPT ![c] = 0]
  /\ up' = [up EXCEPT ![c] = <<>>]
  /\ user' = [user EXCEPT ![c] = None]
  /\ chosen' = [u \in Consumers |-> IF chosen[u] = c THEN Freed ELSE chosen[u]]
  /\ UNCHANGED <<agentVars, provVars, down, listed, lb, lock, cs, th, crash>>

-----------------------------------------------------------------------------
(* The provider: main, provider_main, provider_startup *)

Prov(h, state) == crash = "none" /\ st[h] = state

\* provider_init after provider_deinit: an empty id map
InitProvider(h) ==
  /\ known' = [known EXCEPT ![h] = <<>>]
  /\ missed' = missed \ {h}

\* provider_init, clara_socket, the PROVIDER message.  The agent's address is
\* reachable when the agent runs.
Connect(h) ==
  /\ crash = "none" /\ st[h] \in Ended \union {"sleep"}
  /\ main # "ended"
  /\ \E k \in {1, 2} :
       /\ ~Held(<<h, k>>)
       /\ cur' = [cur EXCEPT ![h] = k]
       /\ inbox' = Append(inbox, <<h, k>>)
  /\ InitProvider(h)
  /\ st' = [st EXCEPT ![h] = "hello"]
  /\ UNCHANGED <<balancing, main, answer, starts, up, down, sessVars, consVars, crash>>

\* no agent: the receive fails, and EAGAIN makes main sleep; or the send fails
\* with an error main does not know, and main ends
ConnectFails(h) ==
  /\ crash = "none" /\ st[h] \in Ended \union {"sleep"}
  /\ main = "ended"
  /\ \E s \in {"sleep", "off"} : st' = [st EXCEPT ![h] = s]
  /\ UNCHANGED <<agentVars, cur, known, missed, up, down, sessVars, consVars, crash>>

RecvAck(h) ==
  /\ Prov(h, "hello")
  /\ down[Session(h)] # <<>> /\ Head(down[Session(h)]).type = "ACK"
  /\ down' = [down EXCEPT ![Session(h)] = Tail(@)]
  /\ st' = [st EXCEPT ![h] = "announce"]
  /\ UNCHANGED <<agentVars, cur, known, missed, up, sessVars, consVars, crash>>

\* NACK: EPERM ends main; the event instead of an answer: EAGAIN
RecvNack(h) ==
  /\ Prov(h, "hello")
  /\ down[Session(h)] # <<>> /\ Head(down[Session(h)]).type \in {"NACK", "SHUTDOWN"}
  /\ st' = [st EXCEPT ![h] = IF Head(down[Session(h)]).type = "NACK" THEN "refused" ELSE "sleep"]
  /\ LeaveSession(h)
  /\ UNCHANGED <<agentVars, known, missed, sessVars, consVars, crash>>

\* clGetPlatformIDs or clGetDeviceIDs fails: provider_main ends with its errno
StartupFails(h) ==
  /\ Prov(h, "announce") /\ ClientsDie /\ Len(known[h]) < 2
  /\ st' = [st EXCEPT ![h] = "off"]
  /\ LeaveSession(h)
  /\ UNCHANGED <<agentVars, known, missed, sessVars, consVars, crash>>

\* mutant: the loop over the devices stops one short
AnnounceShort(h) ==
  /\ Prov(h, "announce")
  /\ LET n == Len(known[h]) IN
     /\ ToAgent(Session(h), IF n < NDevices THEN [type |-> "INFO", n |-> n] ELSE M("IDLE"))
     /\ st' = [st EXCEPT ![h] = IF n < NDevices THEN "awaitId" ELSE "serve"]
  /\ UNCHANGED <<agentVars, cur, known, missed, down, sessVars, consVars, crash>>

\* the next platform or device, or IDLE after the last; failed sends are ignored
Announce(h) ==
  /\ Prov(h, "announce")
  /\ LET n == Len(known[h]) IN
     /\ ToAgent(Session(h), IF n \in Items THEN [type |-> "INFO", n |-> n] ELSE M("IDLE"))
     /\ st' = [st EXCEPT ![h] = IF n \in Items THEN "awaitId" ELSE "serve"]
  /\ UNCHANGED <<agentVars, cur, known, missed, down, sessVars, consVars, crash>>

RecvId(h) ==
  /\ Prov(h, "awaitId")
  /\ down[Session(h)] # <<>> /\ Head(down[Session(h)]).type = "ID"
  /\ known' = [known EXCEPT ![h] = Append(@, Head(down[Session(h)]).n)]
  /\ down' = [down EXCEPT ![Session(h)] = Tail(@)]
  /\ st' = [st EXCEPT ![h] = "announce"]
  /\ UNCHANGED <<agentVars, cur, missed, up, sessVars, consVars, crash>>

\* The event is too long for an id: the receive fails, unnoticed, and leaves the
\* rest of it, which the next receive gets.  The id stays 0; a second 0 cannot
\* be inserted into the id map, which is asserted.
RecvNoId(h) ==
  /\ Prov(h, "awaitId")
  /\ down[Session(h)] # <<>> /\ Head(down[Session(h)]).type \in {"SHUTDOWN", "REST"}
  /\ missed' = missed \union {h}
  /\ IF \E n \in 1..Len(known[h]) : known[h][n] = NoId
     THEN /\ st' = [st EXCEPT ![h] = "aborted"]
          /\ LeaveSession(h)
          /\ UNCHANGED known
     ELSE /\ st' = [st EXCEPT ![h] = "announce"]
          /\ known' = [known EXCEPT ![h] = Append(@, NoId)]
          /\ down' = [down EXCEPT ![Session(h)] =
                        IF Head(@).type = "SHUTDOWN" THEN <<M("REST")>> ELSE <<>>]
          /\ UNCHANGED <<cur, up>>
  /\ UNCHANGED <<agentVars, sessVars, consVars, crash>>

\* a consumer's request, for an id
RecvRequestForId(h) ==
  /\ Prov(h, "awaitId")
  /\ down[Session(h)] # <<>> /\ Head(down[Session(h)]).type = "REQUEST"
  /\ Crash("garbled")

\* the message loop: requests and pings are answered, the rest of an event is not
\* recognised
Serve(h) ==
  /\ Prov(h, "serve")
  /\ down[Session(h)] # <<>>
  /\ LET type == Head(down[Session(h)]).type IN
     /\ type \in {"PING", "REQUEST", "REST"}
     /\ IF type = "REST" THEN UNCHANGED up
        ELSE ToAgent(Session(h), M(IF type = "PING" THEN "PONG" ELSE "ANSWER"))
  /\ down' = [down EXCEPT ![Session(h)] = Tail(@)]
  /\ UNCHANGED <<agentVars, provVars, sessVars, consVars, crash>>

\* mutant: the loop goes on after the shutdown event
ServeLostIgnored(h) ==
  /\ Prov(h, "serve")
  /\ down[Session(h)] # <<>> /\ Head(down[Session(h)]).type = "SHUTDOWN"
  /\ down' = [down EXCEPT ![Session(h)] = Tail(@)]
  /\ UNCHANGED <<agentVars, provVars, up, sessVars, consVars, crash>>

\* the shutdown event: EAGAIN, provider_shutdown, provider_deinit, and main sleeps
ServeLost(h) ==
  /\ Prov(h, "serve")
  /\ down[Session(h)] # <<>> /\ Head(down[Session(h)]).type = "SHUTDOWN"
  /\ st' = [st EXCEPT ![h] = "sleep"]
  /\ LeaveSession(h)
  /\ UNCHANGED <<agentVars, known, missed, sessVars, consVars, crash>>

\* provider_signal_handler, or the process dies
ProviderEnds(h) ==
  /\ crash = "none" /\ ClientsDie /\ st[h] \in InSession
  /\ st' = [st EXCEPT ![h] = "off"]
  /\ LeaveSession(h)
  /\ UNCHANGED <<agentVars, known, missed, sessVars, consVars, crash>>

-----------------------------------------------------------------------------
(* A consumer and its handler in the agent *)

Thread(u, label) == crash = "none" /\ th[u] = label

\* consumer_init
ConsumerConnects(u) ==
  /\ Thread(u, "none") /\ main # "ended"
  /\ cs[u] = "off" /\ ~InInbox(u) /\ answer.to # u
  /\ cs' = [cs EXCEPT ![u] = "hello"]
  /\ inbox' = Append(inbox, u)
  /\ UNCHANGED <<balancing, main, answer, starts, provVars, up, down, sessVars, th, chosen, user, crash>>

\* clGetPlatformIDs with load balancing allocates a platform the first time
NeedsPlatform(u) == Thread(u, "idle") /\ cs[u] = "on" /\ balancing /\ chosen[u] = None

\* mutant: the platform is not marked as taken
AllocateUnmarked(u) ==
  /\ NeedsPlatform(u)
  /\ \E c \in lb : user[c] = None /\ chosen' = [chosen EXCEPT ![u] = c]
  /\ UNCHANGED <<agentVars, provVars, up, down, sessVars, cs, th, user, crash>>

\* lb_allocate_platform
AllocatePlatform(u) ==
  /\ NeedsPlatform(u)
  /\ \E c \in lb :
       /\ user[c] = None
       /\ user' = [user EXCEPT ![c] = u]
       /\ chosen' = [chosen EXCEPT ![u] = c]
  /\ UNCHANGED <<agentVars, provVars, up, down, sessVars, cs, th, crash>>

\* clGetPlatformIDs without: any platform of a provider in the list
ListPlatforms(u) ==
  /\ Thread(u, "idle") /\ cs[u] = "on" /\ ~balancing
  /\ chosen[u] = None
  /\ \E c \in listed : reg[c] > 0 /\ chosen' = [chosen EXCEPT ![u] = c]
  /\ UNCHANGED <<agentVars, provVars, up, down, sessVars, cs, th, user, crash>>

\* a call on the platform: provider_lock and the request
CallSend(u) ==
  /\ Thread(u, "idle") /\ cs[u] = "on" /\ chosen[u] \in Sessions
  /\ lock[chosen[u]] = None
  /\ Live(chosen[u])
  /\ lock' = [lock EXCEPT ![chosen[u]] = u]
  /\ th' = [th EXCEPT ![u] = "call"]
  /\ ToProvider(chosen[u], M("REQUEST"))
  /\ UNCHANGED <<agentVars, provVars, up, hd, listed, reg, lb, cs, chosen, user, crash>>

\* the object of a platform outlives its provider
CallFreed(u) ==
  /\ Thread(u, "idle") /\ cs[u] = "on" /\ chosen[u] = Freed
  /\ Crash("freed")

CallRecv(u) ==
  /\ Thread(u, "call")
  /\ up[chosen[u]] # <<>>
  /\ IF Head(up[chosen[u]]).type \in {"INFO", "IDLE"} THEN Crash("mixed")
     ELSE /\ Head(up[chosen[u]]).type \in {"ANSWER", "PONG"}
          /\ up' = [up EXCEPT ![chosen[u]] = Tail(@)]
          /\ lock' = [lock EXCEPT ![chosen[u]] = None]
          /\ th' = [th EXCEPT ![u] = "idle"]
          /\ UNCHANGED <<agentVars, provVars, down, hd, listed, reg, lb, cs, chosen, user, crash>>

\* The provider is gone before the request or the answer: the call fails, which
\* agent_execute asserts not to happen.
CallFails(u) ==
  /\ crash = "none" /\ chosen[u] \in Sessions
  /\ \/ th[u] = "idle" /\ cs[u] = "on" /\ lock[chosen[u]] = None /\ ~Live(chosen[u])
     \/ th[u] = "call" /\ up[chosen[u]] = <<>> /\ ~Live(chosen[u])
     \/ th[u] = "call" /\ up[chosen[u]] # <<>> /\ Head(up[chosen[u]]).type = "SHUTDOWN"
  /\ AgentEnds

\* lb_release_platform.  A pointer that dangles is read; provider_destroy zeroes
\* what it frees, and a platform put in its place belongs to nobody or to somebody
\* else, so that nothing is written.
ReleasePlatform(u) ==
  user' = IF chosen[u] \in Sessions /\ user[chosen[u]] = u
          THEN [user EXCEPT ![chosen[u]] = None] ELSE user

\* consumer_detach, consumer_destroy
DetachConsumer(u) ==
  /\ Thread(u, "idle") /\ cs[u] = "off"
  /\ ReleasePlatform(u)
  /\ chosen' = [chosen EXCEPT ![u] = None]
  /\ th' = [th EXCEPT ![u] = "none"]
  /\ UNCHANGED <<agentVars, provVars, up, down, sessVars, cs, crash>>

ConsumerEnds(u) ==
  /\ crash = "none" /\ ClientsDie /\ cs[u] # "off"
  /\ cs' = [cs EXCEPT ![u] = "off"]
  /\ UNCHANGED <<agentVars, provVars, up, down, sessVars, th, chosen, user, crash>>

-----------------------------------------------------------------------------

AgentMain == AcceptProvider \/ AcceptConsumer \/ AnswerFails \/ AnswerProvider \/ AnswerConsumer

HandlerStep(c) ==
  \/ RegisterItem(c) \/ RegisterIdle(c) \/ RegisterLost(c)
  \/ Ping(c) \/ Pong(c) \/ Detach(c) \/ Destroy(c)

ProviderStep(h) ==
  \/ RecvAck(h) \/ RecvNack(h) \/ Announce(h) \/ RecvId(h) \/ RecvNoId(h)
  \/ RecvRequestForId(h) \/ Serve(h) \/ ServeLost(h)

\* main comes back to provider_main after its sleep
Retry(h) == st[h] = "sleep" /\ (Connect(h) \/ ConnectFails(h))

ConsumerStep(u) == CallRecv(u) \/ CallFails(u) \/ DetachConsumer(u)

Next ==
  \/ AgentMain \/ AgentKilled \/ AgentStarts
  \/ \E c \in Sessions : HandlerStep(c)
  \/ \E h \in Hosts : ProviderStep(h) \/ Connect(h) \/ ConnectFails(h) \/ StartupFails(h)
                        \/ ProviderEnds(h)
  \/ \E u \in Consumers :
       \/ ConsumerStep(u) \/ ConsumerConnects(u) \/ AllocatePlatform(u) \/ ListPlatforms(u)
       \/ CallSend(u) \/ CallFreed(u) \/ ConsumerEnds(u)

Spec == Init /\ [][Next]_vars

\* The threads of the agent, the providers and their retries run.  A handler gets
\* its provider's lock in the end: it waits for it every three seconds.
FairSpec ==
  /\ Spec
  /\ WF_vars(AgentMain)
  /\ \A c \in Sessions : WF_vars(HandlerStep(c)) /\ SF_vars(Ping(c)) /\ SF_vars(Destroy(c))
  /\ \A h \in Hosts : WF_vars(ProviderStep(h)) /\ WF_vars(Retry(h))
  /\ \A u \in Consumers : WF_vars(ConsumerStep(u))

-----------------------------------------------------------------------------
(* Properties *)

\* However a host's provider dies and comes back, the agent has one session of
\* it, though the record of the last one may still be there when the next message
\* arrives (agent.c:216-218).
OneSessionPerHost == \A h \in Hosts : Cardinality({c \in listed : c[1] = h}) <= 1

\* What a provider in its message loop has in its id map for its platform and
\* devices is what the agent gave and registered, in the same order, unless the
\* association was lost while it started (provider.c:383-472).
IdsAgree ==
  \A h \in Hosts :
    st[h] = "serve" /\ h \notin missed =>
      /\ known[h] = [n \in 1..(NDevices + 1) |-> n - 1]
      /\ \/ reg[Session(h)] = NDevices + 1 /\ Session(h) \in listed
         \/ \E n \in 1..Len(down[Session(h)]) : down[Session(h)][n].type = "SHUTDOWN"

\* With load balancing a consumer's request never reaches a provider, or the
\* agent's handler, in the middle of the registration: the platform is not
\* available before (provider_handler.c:205-218).
CalledOnlyWhenServing ==
  balancing =>
    /\ crash \notin {"garbled", "mixed"}
    /\ \A h \in Hosts : st[h] \in {"hello"} \union Starting =>
         \A n \in 1..Len(down[Session(h)]) : down[Session(h)][n].type # "REQUEST"

\* A platform that the load-balancer has is whole, its provider is in the list,
\* and it has one user, the one that points to it (loadbalancer.c:100-108).
PlatformsShared ==
  /\ \A c \in lb : c \in listed /\ reg[c] = NDevices + 1
  /\ balancing => \A u \in Consumers, c \in Sessions : chosen[u] = c <=> user[c] = u

\* A provider that loses the agent tries again, unless it read the event for an
\* id during its start-up (provider.c:668-672, 231-239).
LostProviderRetries ==
  \A h \in Hosts :
    st[h] \in InSession /\ main = "ended" ~>
      (st[h] \in {"sleep"} \union Ended \/ h \in missed \/ crash # "none")

\* The agent gives up the session of a provider that is gone: a consumer's thread
\* that reads the event first takes the agent with it (provider_handler.c:251-253,
\* 281-282, consumer_handler.c:133).
LossGivenUp ==
  \A c \in Sessions :
    hd[c] # "none" /\ ~Live(c) ~> (hd[c] = "none" \/ main = "ended" \/ crash # "none")
=============================================================================
