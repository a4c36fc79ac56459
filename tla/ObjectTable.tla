----------------------------- MODULE ObjectTable -----------------------------
(***************************************************************************)
(* The agent's global names: the pool of ids in use (id.c), the table of   *)
(* OpenCL objects (object.c, opencl_object.c), the allocations of each     *)
(* consumer (consumer_handler.c) and the platforms and devices of each     *)
(* provider (platform.c, device.c), which all draw their ids from one pool.*)
(*                                                                         *)
(* One handler thread per consumer and one per provider.  A step is a      *)
(* section that holds a shared set's lock once: id_pool and objects have a *)
(* lock each, and two operations on them are two steps.  Whatever only the *)
(* handler's own thread can reach (its consumer's sets, the objects of its *)
(* consumer) is part of the step next to it.                               *)
(*                                                                         *)
(* A failed assertion or a null dereference ends the agent process: it is  *)
(* recorded in `crash` and nothing happens afterwards.  Consumers are      *)
(* legal OpenCL programs: they release and retain what they hold.          *)
(***************************************************************************)
EXTENDS Naturals

CONSTANTS Consumers, Providers,
          Ids,             \* the values rand() may return in id_create
          None,
          MaxRefs,         \* bound: references a consumer holds to one object
          ProvidersLeave,  \* may a provider's connection end?
          ConsumersLeave   \* may a consumer's connection end?

ASSUME ObjectTableAssumption ==
  /\ Consumers \intersect Providers = {}
  /\ None \notin Consumers \union Providers \union Ids
  /\ MaxRefs \in Nat \ {0}
  /\ ProvidersLeave \in BOOLEAN /\ ConsumersLeave \in BOOLEAN

VARIABLES
  pool,     \* agent->id_pool
  objects,  \* agent->objects: a record for each id that is a key of the set
  owned,    \* consumer->objects, as the ids in it
  allocs,   \* consumer->allocations, as the handles in it
  remote,   \* handles of the consumer's allocations on a provider
  res,      \* ids of the platforms and devices of a provider
  conn,     \* state of each connection
  pc, arg,  \* where each handler thread is, and the id it works on
  tgt,      \* the provider a consumer's call was executed on
  held,     \* references each consumer program holds to each object
  leaked,   \* history: ids that no operation can give back any more
  crash     \* what ended the agent, "none" while it runs

vars == <<pool, objects, owned, allocs, remote, res, conn, pc, arg, tgt, held, leaked, crash>>

Threads == Consumers \union Providers

Object == [provider : Providers, consumer : Consumers \union {None}, refcnt : Nat]

Crashes == {"none", "create", "retain", "release", "device", "exit", "reply", "lost"}

TypeOK ==
  /\ pool \subseteq Ids
  /\ DOMAIN objects \subseteq Ids
  /\ \A i \in DOMAIN objects : objects[i] \in Object
  /\ owned \in [Consumers -> SUBSET Ids]
  /\ allocs \in [Consumers -> SUBSET Ids]
  /\ remote \in [Consumers -> SUBSET Ids]
  /\ res \in [Providers -> SUBSET Ids]
  /\ conn \in [Threads -> {"on", "detached", "off"}]
  /\ pc \in [Threads -> {"idle", "insert", "retain", "idRelease", "remove"}]
  /\ arg \in [Threads -> Ids \union {None}]
  /\ tgt \in [Consumers -> Providers \union {None}]
  /\ held \in [Consumers -> [Ids -> Nat]]
  /\ leaked \subseteq Ids
  /\ crash \in Crashes

Init ==
  /\ pool = {}
  /\ objects = [i \in {} |-> None]
  /\ owned = [c \in Consumers |-> {}]
  /\ allocs = [c \in Consumers |-> {}]
  /\ remote = [c \in Consumers |-> {}]
  /\ res = [p \in Providers |-> {}]
  /\ conn = [t \in Threads |-> "on"]
  /\ pc = [t \in Threads |-> "idle"]
  /\ arg = [t \in Threads |-> None]
  /\ tgt = [c \in Consumers |-> None]
  /\ held = [c \in Consumers |-> [i \in Ids |-> 0]]
  /\ leaked = {}
  /\ crash = "none"

-----------------------------------------------------------------------------
(* Helpers *)

\* the next statement of thread t, which is connected, is `label`
At(t, label) == crash = "none" /\ conn[t] = "on" /\ pc[t] = label

Continue(t, label, i) == /\ pc' = [pc EXCEPT ![t] = label]
                         /\ arg' = [arg EXCEPT ![t] = i]

\* an assertion fails, or a null or dangling pointer is used
Crash(why) ==
  /\ crash' = why
  /\ UNCHANGED <<pool, objects, owned, allocs, remote, res, conn, pc, arg, tgt, held, leaked>>

\* mutant: the result of set_insert on the pool is ignored
IdCreateUnchecked(i) == pool' = pool \union {i}

\* id_create: draw until the id is new to the pool.  With every id in use the
\* loop does not end.
IdCreate(i) == i \notin pool /\ pool' = pool \union {i}

\* id_release
IdRelease(i) == pool' = pool \ {i}

\* set_insert(agent->objects, id, object) with a fresh object
AddObject(i, p) ==
  objects' = [j \in DOMAIN objects \union {i} |->
               IF j = i THEN [provider |-> p, consumer |-> None, refcnt |-> 0]
                        ELSE objects[j]]

\* object_retain, for a consumer it does not refuse
CountReference(c, i) == objects' = [objects EXCEPT ![i].consumer = c, ![i].refcnt = @ + 1]

\* the object named in a call belongs to a provider that is there
Reachable(i) == conn[objects[i].provider] = "on"

\* A consumer knows the objects it holds and the platforms and devices, which
\* nobody retains.
Knows(c, i) ==
  /\ i \in DOMAIN objects
  /\ held[c][i] > 0 \/ (objects[i].refcnt = 0 /\ \A t \in Threads : arg[t] # i)

\* the consumer's call names, as its hint, an object of a provider that is there
HintAt(c, p) ==
  /\ conn[p] = "on"
  /\ \E j \in Ids : Knows(c, j) /\ objects[j].provider = p

-----------------------------------------------------------------------------
(* clCreateObject, after the provider has created the real object *)

CreateId(c, p, i) ==
  /\ At(c, "idle")
  /\ HintAt(c, p)
  /\ IdCreate(i)
  /\ tgt' = [tgt EXCEPT ![c] = p]
  /\ Continue(c, "insert", i)
  /\ UNCHANGED <<objects, owned, allocs, remote, res, conn, held, leaked, crash>>

\* object_create: assert(set_insert(agent->objects, id, object))
CreateInsert(c) ==
  /\ At(c, "insert")
  /\ IF arg[c] \in DOMAIN objects
     THEN Crash("create")
     ELSE /\ AddObject(arg[c], tgt[c])
          /\ Continue(c, "retain", arg[c])
          /\ UNCHANGED <<pool, owned, allocs, remote, res, conn, tgt, held, leaked, crash>>

\* mutant: the reference of the creator is not counted
CreateRetainUncounted(c) ==
  /\ At(c, "retain")
  /\ LET i == arg[c] IN
     /\ objects' = [objects EXCEPT ![i].consumer = c]
     /\ owned' = [owned EXCEPT ![c] = @ \union {i}]
     /\ held' = [held EXCEPT ![c][i] = 1]
  /\ Continue(c, "idle", None)
  /\ tgt' = [tgt EXCEPT ![c] = None]
  /\ UNCHANGED <<pool, allocs, remote, res, conn, leaked, crash>>

\* mutant: the object does not learn whose it is
CreateRetainUnowned(c) ==
  /\ At(c, "retain")
  /\ LET i == arg[c] IN
     /\ objects' = [objects EXCEPT ![i].refcnt = @ + 1]
     /\ owned' = [owned EXCEPT ![c] = @ \union {i}]
     /\ held' = [held EXCEPT ![c][i] = 1]
  /\ Continue(c, "idle", None)
  /\ tgt' = [tgt EXCEPT ![c] = None]
  /\ UNCHANGED <<pool, allocs, remote, res, conn, leaked, crash>>

\* object_retain on the new object, then the id goes to the consumer
CreateRetain(c) ==
  /\ At(c, "retain")
  /\ LET i == arg[c] IN
     /\ CountReference(c, i)
     /\ owned' = [owned EXCEPT ![c] = @ \union {i}]
     /\ held' = [held EXCEPT ![c][i] = 1]
  /\ Continue(c, "idle", None)
  /\ tgt' = [tgt EXCEPT ![c] = None]
  /\ UNCHANGED <<pool, allocs, remote, res, conn, leaked, crash>>

-----------------------------------------------------------------------------
(* clRetainObject, clReleaseObject *)

\* mutant: refcnt counts only the first reference
RetainUncounted(c, i) ==
  /\ At(c, "idle")
  /\ held[c][i] \in 1..(MaxRefs - 1)
  /\ Reachable(i)
  /\ held' = [held EXCEPT ![c][i] = @ + 1]
  /\ UNCHANGED <<pool, objects, owned, allocs, remote, res, conn, pc, arg, tgt, leaked, crash>>

\* object_retain refuses a consumer the object does not belong to, and the
\* caller asserts that it did not
Retain(c, i) ==
  /\ At(c, "idle")
  /\ held[c][i] \in 1..(MaxRefs - 1)
  /\ Reachable(i)
  /\ IF objects[i].refcnt > 0 /\ objects[i].consumer # c
     THEN Crash("retain")
     ELSE /\ CountReference(c, i)
          /\ owned' = [owned EXCEPT ![c] = @ \union {i}]
          /\ held' = [held EXCEPT ![c][i] = @ + 1]
          /\ UNCHANGED <<pool, allocs, remote, res, conn, pc, arg, tgt, leaked, crash>>

\* mutant: every release gives the id back, not only the last
ReleaseEach(c, i) ==
  /\ At(c, "idle")
  /\ held[c][i] > 0
  /\ Reachable(i)
  /\ held' = [held EXCEPT ![c][i] = @ - 1]
  /\ objects' = [objects EXCEPT ![i].refcnt = @ - 1]
  /\ IdRelease(i)
  /\ UNCHANGED <<owned, allocs, remote, res, conn, pc, arg, tgt, leaked, crash>>

\* object_release: the last reference takes the object off the consumer
Release(c, i) ==
  /\ At(c, "idle")
  /\ held[c][i] > 0
  /\ Reachable(i)
  /\ held' = [held EXCEPT ![c][i] = @ - 1]
  /\ IF objects[i].refcnt = 1
     THEN /\ objects' = [objects EXCEPT ![i].consumer = None, ![i].refcnt = 0]
          /\ owned' = [owned EXCEPT ![c] = @ \ {i}]
          /\ Continue(c, "idRelease", i)
     ELSE /\ objects' = [objects EXCEPT ![i].refcnt = @ - 1]
          /\ UNCHANGED <<owned, pc, arg>>
  /\ UNCHANGED <<pool, allocs, remote, res, conn, tgt, leaked, crash>>

\* mutant: the id is not given back
ReleaseIdNot(c) ==
  /\ At(c, "idRelease")
  /\ Continue(c, "remove", arg[c])
  /\ UNCHANGED <<pool, objects, owned, allocs, remote, res, conn, tgt, held, leaked, crash>>

\* assert(id_release(agent->id_pool, id)), before the object leaves the table
ReleaseId(c) ==
  /\ At(c, "idRelease")
  /\ IF arg[c] \notin pool
     THEN Crash("release")
     ELSE /\ IdRelease(arg[c])
          /\ Continue(c, "remove", arg[c])
          /\ UNCHANGED <<objects, owned, allocs, remote, res, conn, tgt, held, leaked, crash>>

\* object_destroy: assert(set_remove(agent->objects, object->id))
ReleaseRemove(c) ==
  /\ At(c, "remove")
  /\ IF arg[c] \notin DOMAIN objects \/ objects[arg[c]].refcnt # 0
     THEN Crash("release")
     ELSE /\ objects' = [j \in DOMAIN objects \ {arg[c]} |-> objects[j]]
          /\ Continue(c, "idle", None)
          /\ UNCHANGED <<pool, owned, allocs, remote, res, conn, tgt, held, leaked, crash>>

\* A call that names an object whose provider has been destroyed, one of the
\* consumer's or a platform or device, uses the freed provider: agent_execute
\* takes object->provider as the call's target.
UseLost(c, i) ==
  /\ At(c, "idle")
  /\ Knows(c, i)
  /\ ~Reachable(i)
  /\ Crash("lost")

-----------------------------------------------------------------------------
(* The ALLOCATE and FETCH requests of a consumer *)

\* hint == INVALID_HANDLE: memory on the agent.  If the response cannot be
\* sent, the allocation and its id are given back at once.
AllocLocal(c, i) ==
  /\ At(c, "idle")
  /\ IdCreate(i)
  /\ allocs' = [allocs EXCEPT ![c] = @ \union {i}]
  /\ UNCHANGED <<objects, owned, remote, res, conn, pc, arg, tgt, held, leaked, crash>>

\* memory on the provider that owns the hint, under a handle made here
AllocRemote(c, p, i) ==
  /\ At(c, "idle")
  /\ HintAt(c, p)
  /\ IdCreate(i)
  /\ remote' = [remote EXCEPT ![c] = @ \union {i}]
  /\ UNCHANGED <<objects, owned, allocs, res, conn, pc, arg, tgt, held, leaked, crash>>

\* agent_remote_allocate fails, the provider being lost: the consumer gets no
\* handle, the pool keeps the id
AllocRemoteFails(c, p, i) ==
  /\ At(c, "idle")
  /\ ProvidersLeave
  /\ HintAt(c, p)
  /\ IdCreate(i)
  /\ leaked' = leaked \union {i}
  /\ UNCHANGED <<objects, owned, allocs, remote, res, conn, pc, arg, tgt, held, crash>>

\* the response to a remote allocation cannot be sent: the clean-up removes
\* `allocation`, which is NULL in this branch
AllocRemoteReplyFails(c, p, i) ==
  /\ At(c, "idle")
  /\ ConsumersLeave
  /\ HintAt(c, p)
  /\ i \notin pool
  /\ Crash("reply")

\* FETCH, and free: the handle goes back to the pool, assert(id_release(...))
FetchLocal(c, i) ==
  /\ At(c, "idle")
  /\ i \in allocs[c]
  /\ IF i \notin pool
     THEN Crash("release")
     ELSE /\ allocs' = [allocs EXCEPT ![c] = @ \ {i}]
          /\ IdRelease(i)
          /\ UNCHANGED <<objects, owned, remote, res, conn, pc, arg, tgt, held, leaked, crash>>

\* agent_forward_fetch: the provider frees the memory, nobody frees the handle
FetchRemote(c, i) ==
  /\ At(c, "idle")
  /\ i \in remote[c]
  /\ remote' = [remote EXCEPT ![c] = @ \ {i}]
  /\ leaked' = leaked \union {i}
  /\ UNCHANGED <<pool, objects, owned, allocs, res, conn, pc, arg, tgt, held, crash>>

-----------------------------------------------------------------------------
(* The end of a consumer: consumer_detach, consumer_destroy *)

\* consumer_destroy gives left-over handles back to consumer->agent->id_pool,
\* but consumer_detach has set consumer->agent to NULL.  Objects are counted
\* and stay in the table.
ConsumerLeaves(c) ==
  /\ ConsumersLeave
  /\ At(c, "idle")
  /\ IF allocs[c] # {}
     THEN Crash("exit")
     ELSE /\ conn' = [conn EXCEPT ![c] = "off"]
          /\ leaked' = leaked \union owned[c] \union remote[c]
          /\ owned' = [owned EXCEPT ![c] = {}]
          /\ remote' = [remote EXCEPT ![c] = {}]
          /\ held' = [held EXCEPT ![c] = [i \in Ids |-> 0]]
          /\ UNCHANGED <<pool, objects, allocs, res, pc, arg, tgt, crash>>

-----------------------------------------------------------------------------
(* Providers *)

\* PLATFORM_INFO and DEVICE_INFO: platform_create and device_create draw an id
RegisterId(p, i) ==
  /\ At(p, "idle")
  /\ IdCreate(i)
  /\ Continue(p, "insert", i)
  /\ UNCHANGED <<objects, owned, allocs, remote, res, conn, tgt, held, leaked, crash>>

\* object_create(NULL, provider, id, global_id): an object nobody retains
RegisterInsert(p) ==
  /\ At(p, "insert")
  /\ IF arg[p] \in DOMAIN objects
     THEN Crash("create")
     ELSE /\ AddObject(arg[p], p)
          /\ res' = [res EXCEPT ![p] = @ \union {arg[p]}]
          /\ Continue(p, "idle", None)
          /\ UNCHANGED <<pool, owned, allocs, remote, conn, tgt, held, leaked, crash>>

\* SHUTDOWN event: provider_detach
ProviderLeaves(p) ==
  /\ ProvidersLeave
  /\ At(p, "idle")
  /\ conn' = [conn EXCEPT ![p] = "detached"]
  /\ UNCHANGED <<pool, objects, owned, allocs, remote, res, pc, arg, tgt, held, leaked, crash>>

\* provider_destroy: platform_destroy and device_destroy give their ids back;
\* the objects with these ids stay in the table
DestroyResource(p, i) ==
  /\ crash = "none"
  /\ conn[p] = "detached"
  /\ i \in res[p]
  /\ IF i \notin pool
     THEN Crash("device")
     ELSE /\ IdRelease(i)
          /\ res' = [res EXCEPT ![p] = @ \ {i}]
          /\ UNCHANGED <<objects, owned, allocs, remote, conn, pc, arg, tgt, held, leaked, crash>>

\* free(provider)
ProviderFreed(p) ==
  /\ crash = "none"
  /\ conn[p] = "detached"
  /\ res[p] = {}
  /\ conn' = [conn EXCEPT ![p] = "off"]
  /\ UNCHANGED <<pool, objects, owned, allocs, remote, res, pc, arg, tgt, held, leaked, crash>>

-----------------------------------------------------------------------------

ConsumerNext(c) ==
  \/ \E p \in Providers, i \in Ids :
       \/ CreateId(c, p, i) \/ AllocRemote(c, p, i)
       \/ AllocRemoteFails(c, p, i) \/ AllocRemoteReplyFails(c, p, i)
  \/ \E i \in Ids : \/ Retain(c, i) \/ Release(c, i) \/ UseLost(c, i)
                    \/ AllocLocal(c, i) \/ FetchLocal(c, i) \/ FetchRemote(c, i)
  \/ CreateInsert(c) \/ CreateRetain(c) \/ ReleaseId(c) \/ ReleaseRemove(c)
  \/ ConsumerLeaves(c)

ProviderNext(p) ==
  \/ \E i \in Ids : RegisterId(p, i) \/ DestroyResource(p, i)
  \/ RegisterInsert(p) \/ ProviderLeaves(p) \/ ProviderFreed(p)

Next == \/ \E c \in Consumers : ConsumerNext(c)
        \/ \E p \in Providers : ProviderNext(p)

Spec == Init /\ [][Next]_vars

-----------------------------------------------------------------------------
(* Properties *)

Listed(i) == i \in DOMAIN objects

\* The table, the reference counts and the sets of the consumers agree with
\* what the consumer programs hold: a held object is found by set_find (the
\* hint lookups of consumer_handler.c:120 and 232 succeed), its count is the
\* number of references out, and it is in its consumer's set and in no other.
RefcntExact ==
  \A c \in Consumers, i \in Ids :
    /\ held[c][i] > 0 => Listed(i) /\ objects[i].refcnt = held[c][i] /\ objects[i].consumer = c
    /\ i \in owned[c] <=> held[c][i] > 0

\* assert(object_retain(...)) of clRetainObject holds: a consumer that holds an
\* object is never refused as an intruder, whoever came and went before.
RetainNeverRefused == crash # "retain"

\* The assertions on the way out hold: an object's id is still in the pool when
\* it is released (opencl_object.c:93), the object is still in the table with
\* count 0 (opencl_object.c:94, object.c:86), and a lost provider's ids are
\* still in the pool (device.c:72).
ReleaseNeverAsserts == crash \notin {"release", "device"}

\* The pool is exactly the ids in use plus those that leak: the handles of
\* fetched and of failed remote allocations and the names of a consumer that
\* has left are never given back; nothing else is lost, and nothing in use is given back.
Working == {t \in Threads : pc[t] \in {"insert", "retain", "idRelease"}}
InUse == (UNION {res[p] : p \in Providers})
           \union (UNION {owned[c] \union allocs[c] \union remote[c] : c \in Consumers})
           \union {arg[t] : t \in Working}
PoolExact == pool = InUse \union leaked

\* Who holds which name: references to objects, allocation handles, and the
\* platforms and devices of providers.
One(i, S) == IF i \in S THEN 1 ELSE 0
Holds == [t \in Threads |-> [i \in Ids |->
  IF t \in Providers THEN One(i, res[t])
  ELSE held[t][i] + One(i, allocs[t]) + One(i, remote[t])]]

Names == INSTANCE HandleSpace WITH Parties <- Threads, holds <- Holds

\* No name is given out while anybody holds it, through every reuse of ids,
\* lost provider and departed consumer.
IsHandleSpace == Names!HandlesSpec

-----------------------------------------------------------------------------
(* What the source says, and the code does not do *)

\* assert(set_insert(agent->objects, id, object)) (object.c:28): the table has
\* no object with an id id_create has just drawn.
CreateNeverAsserts == crash # "create"

\* The server outlives a consumer that disappears (main.c:58), be it with an
\* allocation outstanding or before the answer to its request.
SurvivesConsumerExit == crash \notin {"exit", "reply"}
=============================================================================
