--------------------------- MODULE ProviderChannel ---------------------------
(***************************************************************************)
(* The connection of the agent to one provider: one SCTP association that  *)
(* the handler threads of all consumers and the provider's own handler (the*)
(* ping loop) share under provider->lock, and the provider at the other    *)
(* end, which serves one message at a time (remote.c, forward.c,           *)
(* provider_handler.c, provider_main).                                     *)
(*                                                                         *)
(* A response carries nothing that says whose it is, and clara_recvmsg     *)
(* accepts any type: that a thread reads its own answer rests on the lock  *)
(* and on the order of the association alone.  The messages of the model   *)
(* carry the thread they are about as history.                             *)
(*                                                                         *)
(* A stream (START, blocks of data, END) is modelled by a START and an END *)
(* in either direction.  The lock is the mutex Lock implements.            *)
(***************************************************************************)
EXTENDS Naturals, Sequences

CONSTANTS Callers,        \* consumer handler threads
          Ping,           \* the provider's handler thread in the agent
          None,
          Kinds,          \* the calls consumers make
          SendBuf,        \* messages the send buffer takes before a send blocks
          MaxNesting,     \* bound: how deep a thread nests the lock
          ProviderDies,   \* may the provider disappear?
          ConsumersDie    \* may a consumer disappear?

AllKinds == {"allocate", "execute", "create", "event", "fetch", "free", "memput"}

ASSUME ProviderChannelAssumption ==
  /\ Ping \notin Callers /\ None \notin Callers \union {Ping}
  /\ Kinds \subseteq AllKinds
  /\ SendBuf \in Nat \ {0} /\ MaxNesting \in Nat \ {0}
  /\ ProviderDies \in BOOLEAN /\ ConsumersDie \in BOOLEAN

VARIABLES holder, nesting,  \* provider->lock
          up, down,         \* messages to the provider, and to the agent
          pc, kind,         \* where a thread is, and in which call
          has,              \* has the consumer an object on the provider?
          alive,            \* is the consumer there?
          prov,             \* the provider: serving, in a stream, or gone
          mapped,           \* provider->id_map: whose objects it can resolve
          freed,            \* has provider_destroy freed the connection?
          stolen,           \* history: a consumer's thread read the shutdown event
          leaked,           \* history: a failed send returned with the lock held
          crash             \* what ended the modelled behaviour

lockVars == <<holder, nesting>>
vars == <<holder, nesting, up, down, pc, kind, has, alive, prov, mapped, freed, stolen,
          leaked, crash>>

Threads == Callers \union {Ping}

Mutex == INSTANCE RecMutex

Requests == {"ALLOCATE", "EXECUTE", "MAPATPTR", "FETCH", "FREE", "MEMPUT", "PING"}
Replies == {"ALLOCATED", "EXECUTED", "MAPPEDAT", "FETCHED", "PONG"}
Streamed == {"START", "END"}

\* uses: does the request name the consumer's object?
UpMsg == [type : Requests \union Streamed \union {"MAPPING"}, by : Threads, uses : BOOLEAN]
DownMsg == [type : Replies \union Streamed \union {"SHUTDOWN", "REST"}, by : Threads \union {None}]

CallerPcs == {"idle", "lock", "send", "recv", "forward", "stream", "streamEnd", "unlock", "map"}
PingPcs == {"sleep", "lock", "send", "recv", "unlock", "unlockLast", "destroy", "exited"}

TypeOK ==
  /\ holder \in Threads \union {None} /\ nesting \in 0..MaxNesting
  /\ up \in Seq(UpMsg) /\ down \in Seq(DownMsg)
  /\ pc \in [Threads -> CallerPcs \union PingPcs]
  /\ kind \in [Threads -> AllKinds \union {"mapatptr", "ping"}]
  /\ has \in [Callers -> BOOLEAN] /\ alive \in [Callers -> BOOLEAN]
  /\ prov \in {"serve", "stream", "gone"}
  /\ mapped \subseteq Callers
  /\ freed \in BOOLEAN /\ stolen \in BOOLEAN /\ leaked \in BOOLEAN
  /\ crash \in {"none", "execute", "freed", "crosstalk", "torn", "idmap"}

Init ==
  /\ holder = None /\ nesting = 0
  /\ up = <<>> /\ down = <<>>
  /\ pc = [t \in Threads |-> IF t = Ping THEN "sleep" ELSE "idle"]
  /\ kind = [t \in Threads |-> IF t = Ping THEN "ping" ELSE "execute"]
  /\ has = [c \in Callers |-> FALSE]
  /\ alive = [c \in Callers |-> TRUE]
  /\ prov = "serve"
  /\ mapped = {}
  /\ freed = FALSE /\ stolen = FALSE /\ leaked = FALSE
  /\ crash = "none"

-----------------------------------------------------------------------------
(* Helpers *)

At(t, label) == crash = "none" /\ pc[t] = label
Goto(t, label) == pc' = [pc EXCEPT ![t] = label]

Request(t) == CASE kind[t] = "allocate" -> "ALLOCATE"
                [] kind[t] \in {"execute", "create", "event"} -> "EXECUTE"
                [] kind[t] = "mapatptr" -> "MAPATPTR"
                [] kind[t] = "fetch" -> "FETCH"
                [] kind[t] = "free" -> "FREE"
                [] kind[t] = "memput" -> "MEMPUT"
                [] kind[t] = "ping" -> "PING"

Reply(req) == CASE req = "ALLOCATE" -> "ALLOCATED"
                [] req = "EXECUTE" -> "EXECUTED"
                [] req = "MAPATPTR" -> "MAPPEDAT"
                [] req = "FETCH" -> "FETCHED"
                [] req = "PING" -> "PONG"

\* a send to the provider blocks while the buffer is full
Put(t, type, uses) == /\ Len(up) < SendBuf
                      /\ up' = Append(up, [type |-> type, by |-> t, uses |-> uses])

\* mutant: an allocation does not wait for its answer
AfterSendUnawaited(t) == CASE kind[t] \in {"free", "allocate"} -> "unlock"
                           [] kind[t] = "memput" -> "stream"
                           [] OTHER -> "recv"

\* mutant: a FETCH of size 0 waits for an answer too
AfterSendAlwaysAwaits(t) == IF kind[t] = "memput" THEN "stream" ELSE "recv"

\* what a thread does after its request is out: most wait for an answer
AfterSend(t) == CASE kind[t] = "free" -> "unlock"
                  [] kind[t] = "memput" -> "stream"
                  [] OTHER -> "recv"

\* provider_lock, provider_unlock: a thread that left with the lock gets it again
EnterLock(t) == Mutex!Acquire(t) \/ (nesting < MaxNesting /\ Mutex!Reenter(t))
ExitLock(t) == Mutex!Leave(t) \/ Mutex!Release(t)

Crash(why) ==
  /\ crash' = why
  /\ UNCHANGED <<lockVars, up, down, pc, kind, has, alive, prov, mapped, freed, stolen, leaked>>

-----------------------------------------------------------------------------
(* A consumer's handler thread *)

Call(t, k) ==
  /\ At(t, "idle")
  /\ alive[t]
  /\ k \in {"create", "event"} => ~has[t]
  /\ kind' = [kind EXCEPT ![t] = k]
  /\ Goto(t, "lock")
  /\ UNCHANGED <<lockVars, up, down, has, alive, prov, mapped, freed, stolen, leaked, crash>>

\* provider_lock
LockProvider(t) ==
  /\ At(t, "lock")
  /\ ~freed
  /\ EnterLock(t)
  /\ Goto(t, "send")
  /\ UNCHANGED <<up, down, kind, has, alive, prov, mapped, freed, stolen, leaked, crash>>

\* the thread waits for the lock of a provider that is freed, or comes to it
\* through an object that outlived the provider
UseFreed(t) ==
  /\ At(t, "lock")
  /\ freed
  /\ Crash("freed")

Send(t) ==
  /\ At(t, "send")
  /\ prov # "gone"
  /\ Put(t, Request(t), t # Ping /\ has[t])
  /\ Goto(t, AfterSend(t))
  /\ UNCHANGED <<lockVars, down, kind, has, alive, prov, mapped, freed, stolen, leaked, crash>>

\* agent_remote_allocate returns false without provider_unlock
AllocateSendFails(t) ==
  /\ At(t, "send")
  /\ prov = "gone"
  /\ kind[t] = "allocate"
  /\ leaked' = TRUE
  /\ Goto(t, "idle")
  /\ UNCHANGED <<lockVars, up, down, kind, has, alive, prov, mapped, freed, stolen, crash>>

\* so does agent_remote_execute, whose result agent_execute asserts; the event
\* mapping asserts the result of its send
ExecuteSendFails(t) ==
  /\ At(t, "send")
  /\ prov = "gone"
  /\ kind[t] \in {"execute", "create", "event", "mapatptr"}
  /\ Crash("execute")

\* forward.c and the ping loop go on after a failed send, memput without its data
OtherSendFails(t) ==
  /\ At(t, "send")
  /\ prov = "gone"
  /\ kind[t] \in {"fetch", "free", "memput", "ping"}
  /\ Goto(t, IF kind[t] \in {"fetch", "ping"} THEN "recv" ELSE "unlock")
  /\ UNCHANGED <<lockVars, up, down, kind, has, alive, prov, mapped, freed, stolen, leaked, crash>>

\* clara_recvmsg: whatever comes first is taken for the answer
Recv(t) ==
  /\ t \in Callers
  /\ At(t, "recv")
  /\ down # <<>>
  /\ Head(down).type \notin {"SHUTDOWN", "REST"}
  /\ IF Head(down) # [type |-> Reply(Request(t)), by |-> t]
     THEN Crash("crosstalk")
     ELSE /\ down' = Tail(down)
          /\ has' = [has EXCEPT ![t] = @ \/ kind[t] = "mapatptr"]
          /\ Goto(t, IF kind[t] = "fetch" THEN "forward" ELSE "unlock")
          /\ UNCHANGED <<lockVars, up, kind, alive, prov, mapped, freed, stolen, leaked, crash>>

\* Nothing more will come, or the shutdown event comes: it does not fit the
\* buffer of a response, so the receive fails and leaves the rest of the event
\* in the socket, where it is no longer recognised.
RecvFails(t) ==
  /\ t \in Callers
  /\ At(t, "recv")
  /\ \/ down = <<>> /\ prov = "gone"
     \/ down # <<>> /\ Head(down).type \in {"SHUTDOWN", "REST"}
  /\ IF kind[t] \notin {"allocate", "fetch"}
     THEN Crash("execute")
     ELSE /\ stolen' = (stolen \/ down # <<>>)
          /\ down' = IF kind[t] = "allocate" /\ down # <<>> /\ Head(down).type = "SHUTDOWN"
                     THEN <<[type |-> "REST", by |-> None]>> ELSE <<>>
          /\ Goto(t, "unlock")
          /\ UNCHANGED <<lockVars, up, kind, has, alive, prov, mapped, freed, leaked, crash>>

\* stream_forward to the consumer.  When the consumer is gone it returns in the
\* middle and leaves the rest of the stream in the provider's socket.
Forward(t) ==
  /\ At(t, "forward")
  /\ down # <<>>
  /\ Head(down).type \in Streamed
  /\ down' = Tail(down)
  /\ Goto(t, IF Head(down).type = "END" \/ ~alive[t] THEN "unlock" ELSE "forward")
  /\ UNCHANGED <<lockVars, up, kind, has, alive, prov, mapped, freed, stolen, leaked, crash>>

\* stream_forward fails to receive; the shutdown event goes with it
ForwardFails(t) ==
  /\ At(t, "forward")
  /\ \/ down = <<>> /\ prov = "gone"
     \/ down # <<>> /\ Head(down).type = "SHUTDOWN"
  /\ stolen' = (stolen \/ down # <<>>)
  /\ down' = <<>>
  /\ Goto(t, "unlock")
  /\ UNCHANGED <<lockVars, up, kind, has, alive, prov, mapped, freed, leaked, crash>>

\* stream_forward from the consumer to the provider: stops short when either
\* side is gone
StreamOut(t) ==
  /\ pc[t] \in {"stream", "streamEnd"}
  /\ crash = "none"
  /\ IF alive[t] /\ prov # "gone"
     THEN /\ Put(t, IF pc[t] = "stream" THEN "START" ELSE "END", FALSE)
          /\ Goto(t, IF pc[t] = "stream" THEN "streamEnd" ELSE "unlock")
     ELSE Goto(t, "unlock") /\ UNCHANGED up
  /\ UNCHANGED <<lockVars, down, kind, has, alive, prov, mapped, freed, stolen, leaked, crash>>

\* provider_unlock; a create goes on to agent_remote_map, an enqueue with an
\* event to AGENT_GENERIC_MAP_EVENT
UnlockProvider(t) ==
  /\ t \in Callers
  /\ At(t, "unlock")
  /\ ExitLock(t)
  /\ Goto(t, CASE kind[t] = "create" -> "map" [] kind[t] = "event" -> "lock" [] OTHER -> "idle")
  /\ kind' = [kind EXCEPT ![t] = IF @ = "event" THEN "mapatptr" ELSE @]
  /\ UNCHANGED <<up, down, has, alive, prov, mapped, freed, stolen, leaked, crash>>

\* mutant: the provider is not told of the id
RemoteMapNot(t) ==
  /\ At(t, "map")
  /\ has' = [has EXCEPT ![t] = TRUE]
  /\ Goto(t, "idle")
  /\ UNCHANGED <<lockVars, up, down, kind, alive, prov, mapped, freed, stolen, leaked, crash>>

\* agent_remote_map: outside the lock, no answer, its failure ignored; the
\* consumer gets the new id after it
RemoteMap(t) ==
  /\ At(t, "map")
  /\ IF prov = "gone" THEN UNCHANGED up ELSE Put(t, "MAPPING", FALSE)
  /\ has' = [has EXCEPT ![t] = TRUE]
  /\ Goto(t, "idle")
  /\ UNCHANGED <<lockVars, down, kind, alive, prov, mapped, freed, stolen, leaked, crash>>

-----------------------------------------------------------------------------
(* The ping loop: agent_provider_handler after IDLE *)

PingWakes ==
  /\ At(Ping, "sleep")
  /\ Goto(Ping, "lock")
  /\ UNCHANGED <<lockVars, up, down, kind, has, alive, prov, mapped, freed, stolen, leaked, crash>>

\* mutant: the notification is not looked at
PingRecvBlind ==
  /\ At(Ping, "recv")
  /\ down # <<>> \/ prov = "gone"
  /\ IF down = <<>> THEN UNCHANGED down ELSE down' = Tail(down)
  /\ Goto(Ping, "unlock")
  /\ UNCHANGED <<lockVars, up, kind, has, alive, prov, mapped, freed, stolen, leaked, crash>>

\* The result of the receive is ignored unless it is the shutdown event.
PingRecv ==
  /\ At(Ping, "recv")
  /\ down # <<>> \/ prov = "gone"
  /\ IF down = <<>> THEN UNCHANGED down ELSE down' = Tail(down)
  /\ Goto(Ping, IF down # <<>> /\ Head(down).type = "SHUTDOWN" THEN "unlockLast" ELSE "unlock")
  /\ UNCHANGED <<lockVars, up, kind, has, alive, prov, mapped, freed, stolen, leaked, crash>>

PingUnlock ==
  /\ crash = "none"
  /\ pc[Ping] \in {"unlock", "unlockLast"}
  /\ ExitLock(Ping)
  /\ Goto(Ping, IF pc[Ping] = "unlock" THEN "sleep" ELSE "destroy")
  /\ UNCHANGED <<up, down, kind, has, alive, prov, mapped, freed, stolen, leaked, crash>>

\* provider_detach, provider_destroy: lock_destroy waits for the lock once more
PingDestroys ==
  /\ At(Ping, "destroy")
  /\ EnterLock(Ping)
  /\ freed' = TRUE
  /\ Goto(Ping, "exited")
  /\ UNCHANGED <<up, down, kind, has, alive, prov, mapped, stolen, leaked, crash>>

-----------------------------------------------------------------------------
(* The provider: provider_main *)

\* mutant: a FETCH of size 0 is answered like any other
AnswerToFree(m) ==
  CASE m.type \in {"FETCH", "FREE"} ->
         <<[type |-> "FETCHED", by |-> m.by], [type |-> "START", by |-> m.by],
           [type |-> "END", by |-> m.by]>>
    [] m.type \in {"MAPPING", "MEMPUT"} \union Streamed -> <<>>
    [] OTHER -> <<[type |-> Reply(m.type), by |-> m.by]>>

\* PING, ALLOCATE, EXECUTE, MAPATPTR and FETCH of a positive size are answered,
\* a FETCH with the data behind the answer; MAPPING and FREE are not.
Answer(m) ==
  CASE m.type = "FETCH" ->
         <<[type |-> "FETCHED", by |-> m.by], [type |-> "START", by |-> m.by],
           [type |-> "END", by |-> m.by]>>
    [] m.type \in {"MAPPING", "FREE", "MEMPUT"} \union Streamed -> <<>>
    [] OTHER -> <<[type |-> Reply(m.type), by |-> m.by]>>

\* mutant: every message adds to the id map
MapsAlways(m) == TRUE

\* the messages that add to provider->id_map
Maps(m) == m.type \in {"MAPPING", "MAPATPTR"}

Serve ==
  /\ crash = "none"
  /\ prov = "serve"
  /\ up # <<>>
  /\ LET m == Head(up) IN
     IF m.uses /\ m.by \notin mapped
     THEN Crash("idmap")
     ELSE /\ up' = Tail(up)
          /\ down' = down \o Answer(m)
          /\ mapped' = IF Maps(m) THEN mapped \union {m.by} ELSE mapped
          /\ prov' = IF m.type = "MEMPUT" THEN "stream" ELSE "serve"
          /\ UNCHANGED <<lockVars, pc, kind, has, alive, freed, stolen, leaked, crash>>

\* stream_recv: anything but the next piece of the stream breaks it, and what
\* the provider makes of the rest is undefined
ServeStream ==
  /\ crash = "none"
  /\ prov = "stream"
  /\ up # <<>>
  /\ IF Head(up).type \notin Streamed
     THEN Crash("torn")
     ELSE /\ up' = Tail(up)
          /\ prov' = IF Head(up).type = "END" THEN "serve" ELSE "stream"
          /\ UNCHANGED <<lockVars, down, pc, kind, has, alive, mapped, freed, stolen, leaked, crash>>

-----------------------------------------------------------------------------
(* Disappearances *)

\* what the provider has sent arrives up to some point, then the shutdown event
ProviderGone ==
  /\ crash = "none"
  /\ ProviderDies
  /\ prov # "gone"
  /\ prov' = "gone"
  /\ up' = <<>>
  /\ \E n \in 0..Len(down) :
       down' = Append(SubSeq(down, 1, n), [type |-> "SHUTDOWN", by |-> None])
  /\ UNCHANGED <<lockVars, pc, kind, has, alive, mapped, freed, stolen, leaked, crash>>

ConsumerGone(t) ==
  /\ crash = "none"
  /\ ConsumersDie
  /\ alive[t]
  /\ alive' = [alive EXCEPT ![t] = FALSE]
  /\ UNCHANGED <<lockVars, up, down, pc, kind, has, prov, mapped, freed, stolen, leaked, crash>>

-----------------------------------------------------------------------------

\* a thread inside a call
CallStep(t) ==
  \/ LockProvider(t) \/ UseFreed(t) \/ Send(t) \/ AllocateSendFails(t) \/ ExecuteSendFails(t)
  \/ OtherSendFails(t) \/ Recv(t) \/ RecvFails(t) \/ Forward(t) \/ ForwardFails(t)
  \/ StreamOut(t) \/ UnlockProvider(t) \/ RemoteMap(t)

PingStep ==
  \/ PingWakes \/ LockProvider(Ping) \/ Send(Ping) \/ OtherSendFails(Ping)
  \/ PingRecv \/ PingUnlock \/ PingDestroys

Next ==
  \/ \E t \in Callers : CallStep(t) \/ ConsumerGone(t) \/ \E k \in Kinds : Call(t, k)
  \/ PingStep
  \/ Serve \/ ServeStream
  \/ ProviderGone

Spec == Init /\ [][Next]_vars

\* Threads and the provider run; a consumer in the middle of a memput sends the
\* rest of its stream, which it does in one call.  The ping thread, which comes
\* back every three seconds, gets the lock in the end.
FairSpec ==
  /\ Spec
  /\ \A t \in Callers : WF_vars(CallStep(t))
  /\ WF_vars(PingStep) /\ SF_vars(LockProvider(Ping)) /\ SF_vars(PingDestroys)
  /\ WF_vars(Serve) /\ WF_vars(ServeStream)

-----------------------------------------------------------------------------
(* Properties *)

\* The association is one thread's at a time: with everyone alive, whatever is
\* on its way belongs to the thread that holds the provider's lock, but for
\* mappings, calls that expect no answer, and data already sent.
OneDialogue ==
  (prov # "gone" /\ \A t \in Callers : alive[t]) =>
    /\ \A n \in 1..Len(down) : down[n].by = holder
    /\ \A n \in 1..Len(up) :
         up[n].type \in Requests \ {"FREE", "MEMPUT"} => up[n].by = holder

\* A thread reads somebody else's answer only after some consumer has
\* disappeared in the middle of a stream: the loss of the provider and failed
\* sends never lead to it.  The stream of a memput is broken only by a mapping,
\* which is sent outside the lock (remote.c:114), or when its own consumer has
\* disappeared (stream.c:245-261).
MixUpsExplained ==
  /\ crash = "crosstalk" => \E t \in Callers : ~alive[t] /\ kind[t] = "fetch"
  /\ crash = "torn" => \/ Head(up).type = "MAPPING"
                       \/ \E t \in Callers : ~alive[t] /\ kind[t] = "memput"

\* When the provider serves a call that names a consumer's object it has the
\* mapping already (the assertion of provider_id_map, provider.c:144-151):
\* MAPPING, sent without lock or answer, is never overtaken.
MappedBeforeUse == crash # "idmap"

\* No call keeps the lock for ever, whether the provider answers or disappears
\* in the middle of it: only a failed send of an allocation, the destruction of
\* the provider and the end of the agent leave it taken.
HolderReturns == holder # None ~> (holder = None \/ leaked \/ freed \/ crash # "none")

\* The loss of the provider is noticed and the provider destroyed, unless a
\* consumer's thread read the shutdown event, or left with the lock, or the
\* agent did not survive.
LossNoticed == prov = "gone" ~> (freed \/ stolen \/ leaked \/ crash # "none")
=============================================================================
