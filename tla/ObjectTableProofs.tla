-------------------------- MODULE ObjectTableProofs --------------------------
(***************************************************************************)
(* Proofs about ObjectTable, for every set of consumers, of providers and  *)
(* of ids.                                                                 *)
(***************************************************************************)
EXTENDS ObjectTable, TLAPS

(***************************************************************************)
(* The inductive invariant has three parts.  An id in the pool is there on *)
(* behalf of exactly one claim: it names a platform or device, an object   *)
(* of a consumer, an allocation here or on a provider, it is in the hands  *)
(* of an operation under way, or it has leaked.  An operation between two  *)
(* locks has the entry of the table it works on to itself.  And the table  *)
(* agrees with the consumers (RefcntExact).                                *)
(***************************************************************************)

Uses == {"res", "own", "alloc", "rem", "arg", "leak"}
Users == Threads \union {None}

Claim(k, t, i) ==
  \/ k = "res" /\ t \in Providers /\ i \in res[t]
  \/ k = "own" /\ t \in Consumers /\ i \in owned[t]
  \/ k = "alloc" /\ t \in Consumers /\ i \in allocs[t]
  \/ k = "rem" /\ t \in Consumers /\ i \in remote[t]
  \/ k = "arg" /\ t \in Threads /\ arg[t] = i /\ pc[t] \in {"insert", "retain", "idRelease"}
  \/ k = "leak" /\ t = None /\ i \in leaked

OneClaim ==
  \A i \in Ids, k, l \in Uses, t, u \in Users :
    Claim(k, t, i) /\ Claim(l, u, i) => k = l /\ t = u

PoolClaimed ==
  \A i \in Ids : i \in pool <=> \E k \in Uses, t \in Users : Claim(k, t, i)

\* where a handler thread can be, and what it then works on
PcInv ==
  /\ \A p \in Providers : pc[p] \in {"idle", "insert"}
  /\ \A t \in Threads : pc[t] # "idle" => arg[t] \in Ids
  /\ \A c \in Consumers : pc[c] = "insert" => tgt[c] \in Providers

\* a thread that has inserted an object and not retained it yet, or released
\* it and not removed it yet
WorksOn(t, i) == arg[t] = i /\ pc[t] \in {"retain", "idRelease", "remove"}

EntryInv ==
  \A t \in Threads, i \in Ids : WorksOn(t, i) =>
    /\ Listed(i)
    /\ objects[i].refcnt = 0
    /\ \A u \in Threads : WorksOn(u, i) => u = t

CrashInv == crash \notin {"retain", "release", "device"}

IInv == TypeOK /\ OneClaim /\ PoolClaimed /\ PcInv /\ EntryInv /\ RefcntExact /\ CrashInv

-----------------------------------------------------------------------------
(* How a step may change the claims *)

\* id_create: a new id, claimed once
LEMMA ClaimNew ==
  ASSUME OneClaim, PoolClaimed,
         NEW i \in Ids, NEW k0 \in Uses, NEW t0 \in Users,
         i \notin pool, pool' = pool \union {i},
         \A k \in Uses, t \in Users, j \in Ids :
           Claim(k, t, j)' <=> Claim(k, t, j) \/ (k = k0 /\ t = t0 /\ j = i)
  PROVE  OneClaim' /\ PoolClaimed'
<1>1. \A k \in Uses, t \in Users : ~Claim(k, t, i)
  BY DEF PoolClaimed
<1>2. OneClaim'
  BY <1>1 DEF OneClaim
<1>3. PoolClaimed'
  BY DEF PoolClaimed
<1> QED BY <1>2, <1>3

\* an operation passes its id on
LEMMA ClaimMoved ==
  ASSUME OneClaim, PoolClaimed,
         NEW i \in Ids, NEW k1 \in Uses, NEW t1 \in Users, NEW k2 \in Uses, NEW t2 \in Users,
         Claim(k1, t1, i), pool' = pool,
         \A k \in Uses, t \in Users, j \in Ids :
           Claim(k, t, j)' <=> \/ Claim(k, t, j) /\ ~(k = k1 /\ t = t1 /\ j = i)
                               \/ k = k2 /\ t = t2 /\ j = i
  PROVE  OneClaim' /\ PoolClaimed'
<1>1. \A k \in Uses, t \in Users : Claim(k, t, i) => k = k1 /\ t = t1
  BY DEF OneClaim
<1>2. OneClaim'
  BY <1>1 DEF OneClaim
<1>3. PoolClaimed'
  BY <1>1 DEF PoolClaimed
<1> QED BY <1>2, <1>3

\* id_release: the claim and the id go together
LEMMA ClaimDropped ==
  ASSUME OneClaim, PoolClaimed,
         NEW i \in Ids, NEW k1 \in Uses, NEW t1 \in Users,
         Claim(k1, t1, i), pool' = pool \ {i},
         \A k \in Uses, t \in Users, j \in Ids :
           Claim(k, t, j)' <=> Claim(k, t, j) /\ ~(k = k1 /\ t = t1 /\ j = i)
  PROVE  OneClaim' /\ PoolClaimed'
<1>1. \A k \in Uses, t \in Users : Claim(k, t, i) => k = k1 /\ t = t1
  BY DEF OneClaim
<1>2. OneClaim'
  BY DEF OneClaim
<1>3. PoolClaimed'
  BY <1>1 DEF PoolClaimed
<1> QED BY <1>2, <1>3

\* steps that leave every id where it is
LEMMA ClaimKept ==
  ASSUME OneClaim, PoolClaimed, pool' = pool,
         \A k \in Uses, t \in Users, j \in Ids : Claim(k, t, j)' <=> Claim(k, t, j)
  PROVE  OneClaim' /\ PoolClaimed'
<1> QED BY DEF OneClaim, PoolClaimed

-----------------------------------------------------------------------------
(* The invariant is inductive *)

\* agent_create: no id, no object, no connection has done anything yet
LEMMA InitIInv == ASSUME Init PROVE IInv
<1> USE ObjectTableAssumption DEF Init
<1>1. TypeOK
  BY DEF TypeOK, Crashes
<1>2. \A k \in Uses, t \in Users, i \in Ids : ~Claim(k, t, i)
  BY DEF Claim, Users, Threads
<1>3. OneClaim /\ PoolClaimed
  BY <1>2 DEF OneClaim, PoolClaimed
<1>4. PcInv /\ EntryInv /\ CrashInv
  BY DEF PcInv, EntryInv, WorksOn, CrashInv, Threads
<1>5. RefcntExact
  BY DEF RefcntExact
<1> QED BY <1>1, <1>3, <1>4, <1>5 DEF IInv

\* the assertions of object.c:28 and of the wire end the agent: nothing else
\* changes
LEMMA CrashKeeps ==
  ASSUME IInv, NEW why \in {"create", "exit", "reply", "lost"}, Crash(why)
  PROVE  IInv'
<1> USE DEF IInv, Crash
<1>1. TypeOK'
  BY DEF TypeOK, Crashes
<1>2. OneClaim' /\ PoolClaimed'
  BY ClaimKept DEF Claim
<1>3. PcInv' /\ EntryInv' /\ RefcntExact' /\ CrashInv'
  BY DEF PcInv, EntryInv, WorksOn, RefcntExact, Listed, CrashInv
<1> QED BY <1>1, <1>2, <1>3

\* the drawn id is in the hands of the consumer's call
LEMMA StepCreateId ==
  ASSUME IInv, NEW c \in Consumers, NEW p \in Providers, NEW i \in Ids, CreateId(c, p, i)
  PROVE  IInv'
<1> USE ObjectTableAssumption DEF IInv, CreateId, At, Continue, IdCreate
<1>1. TypeOK'
  BY DEF TypeOK, Threads
<1>2. OneClaim' /\ PoolClaimed'
  <2>1. \A k \in Uses, t \in Users, j \in Ids :
          Claim(k, t, j)' <=> Claim(k, t, j) \/ (k = "arg" /\ t = c /\ j = i)
    BY DEF Claim, TypeOK, Threads
  <2> QED BY <2>1, ClaimNew DEF Uses, Users, Threads
<1>3. PcInv'
  BY DEF PcInv, TypeOK, Threads
<1>4. EntryInv'
  BY Z3T(60) DEF EntryInv, WorksOn, Listed, TypeOK, Threads
<1>5. RefcntExact' /\ CrashInv'
  BY DEF RefcntExact, Listed, CrashInv
<1> QED BY <1>1, <1>2, <1>3, <1>4, <1>5

\* the handle of an allocation on the agent
LEMMA StepAllocLocal ==
  ASSUME IInv, NEW c \in Consumers, NEW i \in Ids, AllocLocal(c, i)
  PROVE  IInv'
<1> USE ObjectTableAssumption DEF IInv, AllocLocal, At, IdCreate
<1>1. TypeOK'
  BY DEF TypeOK
<1>2. OneClaim' /\ PoolClaimed'
  <2>1. \A k \in Uses, t \in Users, j \in Ids :
          Claim(k, t, j)' <=> Claim(k, t, j) \/ (k = "alloc" /\ t = c /\ j = i)
    BY DEF Claim, TypeOK
  <2> QED BY <2>1, ClaimNew DEF Uses, Users, Threads
<1>3. PcInv' /\ EntryInv' /\ RefcntExact' /\ CrashInv'
  BY DEF PcInv, EntryInv, WorksOn, RefcntExact, Listed, CrashInv
<1> QED BY <1>1, <1>2, <1>3

\* the handle of an allocation on a provider
LEMMA StepAllocRemote ==
  ASSUME IInv, NEW c \in Consumers, NEW p \in Providers, NEW i \in Ids, AllocRemote(c, p, i)
  PROVE  IInv'
<1> USE ObjectTableAssumption DEF IInv, AllocRemote, At, IdCreate
<1>1. TypeOK'
  BY DEF TypeOK
<1>2. OneClaim' /\ PoolClaimed'
  <2>1. \A k \in Uses, t \in Users, j \in Ids :
          Claim(k, t, j)' <=> Claim(k, t, j) \/ (k = "rem" /\ t = c /\ j = i)
    BY DEF Claim, TypeOK
  <2> QED BY <2>1, ClaimNew DEF Uses, Users, Threads
<1>3. PcInv' /\ EntryInv' /\ RefcntExact' /\ CrashInv'
  BY DEF PcInv, EntryInv, WorksOn, RefcntExact, Listed, CrashInv
<1> QED BY <1>1, <1>2, <1>3

\* the handle of a failed allocation leaks
LEMMA StepAllocRemoteFails ==
  ASSUME IInv, NEW c \in Consumers, NEW p \in Providers, NEW i \in Ids, AllocRemoteFails(c, p, i)
  PROVE  IInv'
<1> USE ObjectTableAssumption DEF IInv, AllocRemoteFails, At, IdCreate
<1>1. TypeOK'
  BY DEF TypeOK
<1>2. OneClaim' /\ PoolClaimed'
  <2>1. \A k \in Uses, t \in Users, j \in Ids :
          Claim(k, t, j)' <=> Claim(k, t, j) \/ (k = "leak" /\ t = None /\ j = i)
    BY DEF Claim, Users, Threads
  <2> QED BY <2>1, ClaimNew DEF Uses, Users
<1>3. PcInv' /\ EntryInv' /\ RefcntExact' /\ CrashInv'
  BY DEF PcInv, EntryInv, WorksOn, RefcntExact, Listed, CrashInv
<1> QED BY <1>1, <1>2, <1>3

\* the drawn id is in the hands of the provider's handler
LEMMA StepRegisterId ==
  ASSUME IInv, NEW p \in Providers, NEW i \in Ids, RegisterId(p, i)
  PROVE  IInv'
<1> USE ObjectTableAssumption DEF IInv, RegisterId, At, Continue, IdCreate
<1>1. TypeOK'
  BY DEF TypeOK, Threads
<1>2. OneClaim' /\ PoolClaimed'
  <2>1. \A k \in Uses, t \in Users, j \in Ids :
          Claim(k, t, j)' <=> Claim(k, t, j) \/ (k = "arg" /\ t = p /\ j = i)
    BY DEF Claim, TypeOK, Threads
  <2> QED BY <2>1, ClaimNew DEF Uses, Users, Threads
<1>3. PcInv'
  BY DEF PcInv, TypeOK, Threads
<1>4. EntryInv'
  BY DEF EntryInv, WorksOn, Listed, TypeOK, Threads
<1>5. RefcntExact' /\ CrashInv'
  BY DEF RefcntExact, Listed, CrashInv
<1> QED BY <1>1, <1>2, <1>3, <1>4, <1>5

\* the handle of a local allocation is in the pool (the assertion of FETCH
\* holds) and goes with the allocation
LEMMA StepFetchLocal ==
  ASSUME IInv, NEW c \in Consumers, NEW i \in Ids, FetchLocal(c, i)
  PROVE  IInv'
<1> USE ObjectTableAssumption DEF IInv, FetchLocal, At, IdRelease
<1>1. Claim("alloc", c, i)
  BY DEF Claim
<1>2. i \in pool
  BY <1>1 DEF PoolClaimed, Uses, Users, Threads
<1>3. TypeOK'
  BY <1>2 DEF TypeOK
<1>4. OneClaim' /\ PoolClaimed'
  <2>1. \A k \in Uses, t \in Users, j \in Ids :
          Claim(k, t, j)' <=> Claim(k, t, j) /\ ~(k = "alloc" /\ t = c /\ j = i)
    BY <1>2 DEF Claim, TypeOK
  <2> QED BY <1>1, <1>2, <2>1, ClaimDropped DEF Uses, Users, Threads
<1>5. PcInv' /\ EntryInv' /\ RefcntExact' /\ CrashInv'
  BY <1>2 DEF PcInv, EntryInv, WorksOn, RefcntExact, Listed, CrashInv
<1> QED BY <1>3, <1>4, <1>5

\* the handle of a remote allocation leaks
LEMMA StepFetchRemote ==
  ASSUME IInv, NEW c \in Consumers, NEW i \in Ids, FetchRemote(c, i)
  PROVE  IInv'
<1> USE ObjectTableAssumption DEF IInv, FetchRemote, At
<1>1. Claim("rem", c, i)
  BY DEF Claim
<1>2. TypeOK'
  BY DEF TypeOK
<1>3. OneClaim' /\ PoolClaimed'
  <2>1. \A k \in Uses, t \in Users, j \in Ids :
          Claim(k, t, j)' <=> \/ Claim(k, t, j) /\ ~(k = "rem" /\ t = c /\ j = i)
                              \/ k = "leak" /\ t = None /\ j = i
    BY DEF Claim, TypeOK, Threads
  <2> QED BY <1>1, <2>1, ClaimMoved DEF Uses, Users, Threads
<1>4. PcInv' /\ EntryInv' /\ RefcntExact' /\ CrashInv'
  BY DEF PcInv, EntryInv, WorksOn, RefcntExact, Listed, CrashInv
<1> QED BY <1>2, <1>3, <1>4

\* the id of a platform or device is in the pool (the assertion of device.c:72
\* holds) and goes with it
LEMMA StepDestroyResource ==
  ASSUME IInv, NEW p \in Providers, NEW i \in Ids, DestroyResource(p, i)
  PROVE  IInv'
<1> USE ObjectTableAssumption DEF IInv, DestroyResource, IdRelease
<1>1. Claim("res", p, i)
  BY DEF Claim
<1>2. i \in pool
  BY <1>1 DEF PoolClaimed, Uses, Users, Threads
<1>3. TypeOK'
  BY <1>2 DEF TypeOK
<1>4. OneClaim' /\ PoolClaimed'
  <2>1. \A k \in Uses, t \in Users, j \in Ids :
          Claim(k, t, j)' <=> Claim(k, t, j) /\ ~(k = "res" /\ t = p /\ j = i)
    BY <1>2 DEF Claim, TypeOK
  <2> QED BY <1>1, <1>2, <2>1, ClaimDropped DEF Uses, Users, Threads
<1>5. PcInv' /\ EntryInv' /\ RefcntExact' /\ CrashInv'
  BY <1>2 DEF PcInv, EntryInv, WorksOn, RefcntExact, Listed, CrashInv
<1> QED BY <1>3, <1>4, <1>5

\* provider_detach and free(provider) touch no name
LEMMA StepConnection ==
  ASSUME IInv, NEW p \in Providers, ProviderLeaves(p) \/ ProviderFreed(p)
  PROVE  IInv'
<1> USE DEF IInv, ProviderLeaves, ProviderFreed
<1>1. TypeOK'
  BY DEF TypeOK, Threads
<1>2. OneClaim' /\ PoolClaimed'
  BY ClaimKept DEF Claim
<1>3. PcInv' /\ EntryInv' /\ RefcntExact' /\ CrashInv'
  BY DEF PcInv, EntryInv, WorksOn, RefcntExact, Listed, CrashInv
<1> QED BY <1>1, <1>2, <1>3

\* the names a consumer leaves behind leak
LEMMA StepConsumerLeaves ==
  ASSUME IInv, NEW c \in Consumers, ConsumerLeaves(c)
  PROVE  IInv'
<1>1. CASE Crash("exit")
  BY <1>1, CrashKeeps
<1>2. CASE ~Crash("exit")
  <2>1. /\ At(c, "idle")
        /\ allocs[c] = {}
        /\ conn' = [conn EXCEPT ![c] = "off"]
        /\ leaked' = leaked \union owned[c] \union remote[c]
        /\ owned' = [owned EXCEPT ![c] = {}]
        /\ remote' = [remote EXCEPT ![c] = {}]
        /\ held' = [held EXCEPT ![c] = [i \in Ids |-> 0]]
        /\ UNCHANGED <<pool, objects, allocs, res, pc, arg, tgt, crash>>
    BY <1>2 DEF ConsumerLeaves
  <2>2. TypeOK'
    <3>1. held' \in [Consumers -> [Ids -> Nat]] /\ leaked' \subseteq Ids
      BY <2>1 DEF IInv, TypeOK
    <3> QED BY <2>1, <3>1 DEF IInv, TypeOK, Threads
  <2>3. /\ \A k \in Uses, t \in Users, j \in Ids :
             Claim(k, t, j)' <=>
               \/ Claim(k, t, j) /\ ~(k \in {"own", "rem"} /\ t = c)
               \/ k = "leak" /\ t = None /\ (Claim("own", c, j) \/ Claim("rem", c, j))
    BY <2>1, ObjectTableAssumption DEF IInv, TypeOK, Claim, Threads
  <2>4. OneClaim'
    BY <2>3, ObjectTableAssumption DEF IInv, OneClaim, Uses, Users, Threads
  <2>5. PoolClaimed'
    BY <2>1, <2>3 DEF IInv, PoolClaimed, Uses, Users, Threads
  <2>6. RefcntExact'
    BY <2>1 DEF IInv, TypeOK, RefcntExact, Listed
  <2>7. PcInv' /\ EntryInv' /\ CrashInv'
    BY <2>1 DEF IInv, PcInv, EntryInv, WorksOn, Listed, CrashInv
  <2> QED BY <2>2, <2>4, <2>5, <2>6, <2>7 DEF IInv
<1> QED BY <1>1, <1>2

-----------------------------------------------------------------------------
(* Steps that change the table *)

\* set_insert of a fresh object leaves the other entries alone
LEMMA AddedObject ==
  ASSUME TypeOK, NEW i \in Ids, i \notin DOMAIN objects, NEW p \in Providers, AddObject(i, p)
  PROVE  /\ DOMAIN objects' = DOMAIN objects \union {i}
         /\ objects'[i].refcnt = 0
         /\ \A j \in DOMAIN objects : objects'[j] = objects[j]
         /\ \A j \in DOMAIN objects' : objects'[j] \in Object
BY DEF AddObject, TypeOK, Object

\* object_retain changes the owner and the count of one entry
LEMMA RetainedObject ==
  ASSUME TypeOK, NEW i \in DOMAIN objects, NEW c \in Consumers,
         CountReference(c, i)
  PROVE  /\ DOMAIN objects' = DOMAIN objects
         /\ objects'[i].refcnt = objects[i].refcnt + 1 /\ objects'[i].consumer = c
         /\ \A j \in DOMAIN objects : j # i => objects'[j] = objects[j]
         /\ \A j \in DOMAIN objects' : objects'[j] \in Object
<1>1. objects[i] \in Object
  BY DEF TypeOK
<1>2. /\ DOMAIN objects' = DOMAIN objects
      /\ \A j \in DOMAIN objects : j # i => objects'[j] = objects[j]
      /\ objects'[i] = [provider |-> objects[i].provider, consumer |-> c,
                        refcnt |-> objects[i].refcnt + 1]
  BY <1>1 DEF Object, CountReference
<1>3. objects'[i] \in Object
  BY <1>1, <1>2 DEF Object
<1>4. \A j \in DOMAIN objects : objects[j] \in Object
  BY DEF TypeOK
<1> QED BY <1>2, <1>3, <1>4

\* object_create of a consumer's call: nobody works on an id the table lacks
LEMMA StepCreateInsert ==
  ASSUME IInv, NEW c \in Consumers, CreateInsert(c)
  PROVE  IInv'
<1>1. CASE Crash("create")
  BY <1>1, CrashKeeps
<1>2. CASE ~Crash("create")
  <2>1. /\ At(c, "insert")
        /\ arg[c] \notin DOMAIN objects
        /\ AddObject(arg[c], tgt[c])
        /\ Continue(c, "retain", arg[c])
        /\ UNCHANGED <<pool, owned, allocs, remote, res, conn, tgt, held, leaked, crash>>
    BY <1>2 DEF CreateInsert
  <2>2. arg[c] \in Ids /\ tgt[c] \in Providers
    BY <2>1 DEF IInv, PcInv, At, Threads
  <2>3. /\ DOMAIN objects' = DOMAIN objects \union {arg[c]}
        /\ objects'[arg[c]].refcnt = 0
        /\ \A j \in DOMAIN objects : objects'[j] = objects[j]
        /\ \A j \in DOMAIN objects' : objects'[j] \in Object
    BY <2>1, <2>2, AddedObject DEF IInv
  <2>4. TypeOK'
    BY <2>1, <2>2, <2>3 DEF IInv, TypeOK, Continue, Threads
  <2>5. OneClaim' /\ PoolClaimed'
    <3>1. \A k \in Uses, t \in Users, j \in Ids : Claim(k, t, j)' <=> Claim(k, t, j)
      BY <2>1 DEF IInv, TypeOK, Claim, At, Continue, Threads
    <3> QED BY <2>1, <3>1, ClaimKept DEF IInv
  <2>6. EntryInv'
    <3>1. \A t \in Threads, j \in Ids : WorksOn(t, j)' <=> WorksOn(t, j) \/ (t = c /\ j = arg[c])
      BY <2>1, <2>2 DEF IInv, TypeOK, WorksOn, At, Continue, Threads
    <3>2. \A t \in Threads : ~WorksOn(t, arg[c])
      BY <2>1, <2>2 DEF IInv, EntryInv, Listed
    <3> QED BY <2>2, <2>3, <3>1, <3>2 DEF IInv, EntryInv, Listed
  <2>7. RefcntExact'
    BY <2>1, <2>3 DEF IInv, RefcntExact, Listed
  <2>8. PcInv' /\ CrashInv'
    BY <2>1, <2>2, ObjectTableAssumption DEF IInv, TypeOK, PcInv, CrashInv, Continue, Threads
  <2> QED BY <2>4, <2>5, <2>6, <2>7, <2>8 DEF IInv
<1> QED BY <1>1, <1>2

\* object_create for a platform or a device: the id passes to the resource
LEMMA StepRegisterInsert ==
  ASSUME IInv, NEW p \in Providers, RegisterInsert(p)
  PROVE  IInv'
<1>1. CASE Crash("create")
  BY <1>1, CrashKeeps
<1>2. CASE ~Crash("create")
  <2>1. /\ At(p, "insert")
        /\ arg[p] \notin DOMAIN objects
        /\ AddObject(arg[p], p)
        /\ res' = [res EXCEPT ![p] = @ \union {arg[p]}]
        /\ Continue(p, "idle", None)
        /\ UNCHANGED <<pool, owned, allocs, remote, conn, tgt, held, leaked, crash>>
    BY <1>2 DEF RegisterInsert
  <2>2. arg[p] \in Ids
    BY <2>1 DEF IInv, PcInv, At, Threads
  <2>3. /\ DOMAIN objects' = DOMAIN objects \union {arg[p]}
        /\ \A j \in DOMAIN objects : objects'[j] = objects[j]
        /\ \A j \in DOMAIN objects' : objects'[j] \in Object
    BY <2>1, <2>2, AddedObject DEF IInv
  <2>4. TypeOK'
    BY <2>1, <2>2, <2>3 DEF IInv, TypeOK, Continue, Threads
  <2>5. OneClaim' /\ PoolClaimed'
    <3>1. Claim("arg", p, arg[p])
      BY <2>1 DEF Claim, At, Threads
    <3>2. \A k \in Uses, t \in Users, j \in Ids :
            Claim(k, t, j)' <=> \/ Claim(k, t, j) /\ ~(k = "arg" /\ t = p /\ j = arg[p])
                                \/ k = "res" /\ t = p /\ j = arg[p]
      BY <2>1 DEF IInv, TypeOK, Claim, At, Continue, Threads
    <3> QED BY <2>1, <2>2, <3>1, <3>2, ClaimMoved DEF IInv, Uses, Users, Threads
  <2>6. EntryInv'
    <3>1. \A t \in Threads, j \in Ids : WorksOn(t, j)' <=> WorksOn(t, j)
      BY <2>1 DEF IInv, TypeOK, WorksOn, At, Continue, Threads
    <3> QED BY <2>3, <3>1 DEF IInv, EntryInv, Listed
  <2>7. RefcntExact'
    BY <2>1, <2>3 DEF IInv, RefcntExact, Listed
  <2>8. PcInv' /\ CrashInv'
    BY <2>1, ObjectTableAssumption DEF IInv, TypeOK, PcInv, CrashInv, Continue, Threads
  <2> QED BY <2>4, <2>5, <2>6, <2>7, <2>8 DEF IInv
<1> QED BY <1>1, <1>2

\* the creator's reference: the object nobody held becomes the consumer's
LEMMA StepCreateRetain ==
  ASSUME IInv, NEW c \in Consumers, CreateRetain(c)
  PROVE  IInv'
<1> DEFINE i == arg[c]
<1>1. /\ At(c, "retain")
      /\ CountReference(c, i)
      /\ owned' = [owned EXCEPT ![c] = @ \union {i}]
      /\ held' = [held EXCEPT ![c][i] = 1]
      /\ Continue(c, "idle", None)
      /\ tgt' = [tgt EXCEPT ![c] = None]
      /\ UNCHANGED <<pool, allocs, remote, res, conn, leaked, crash>>
  BY DEF CreateRetain
<1>2. i \in Ids
  BY <1>1 DEF IInv, PcInv, At, Threads
<1>3. WorksOn(c, i)
  BY <1>1 DEF WorksOn, At
<1>4. /\ i \in DOMAIN objects /\ objects[i].refcnt = 0
      /\ \A u \in Threads : WorksOn(u, i) => u = c
  BY <1>2, <1>3 DEF IInv, EntryInv, Listed, Threads
<1> HIDE DEF i
<1>5. \A d \in Consumers : held[d][i] = 0
  BY <1>2, <1>4 DEF IInv, TypeOK, RefcntExact
<1>6. /\ DOMAIN objects' = DOMAIN objects
      /\ objects'[i].refcnt = 1 /\ objects'[i].consumer = c
      /\ \A j \in DOMAIN objects : j # i => objects'[j] = objects[j]
      /\ \A j \in DOMAIN objects' : objects'[j] \in Object
  BY <1>1, <1>4, RetainedObject DEF IInv
<1>7. /\ held' \in [Consumers -> [Ids -> Nat]]
      /\ held'[c][i] = 1
      /\ \A d \in Consumers, j \in Ids : d # c \/ j # i => held'[d][j] = held[d][j]
  BY <1>1, <1>2 DEF IInv, TypeOK
<1>8. TypeOK'
  BY <1>1, <1>2, <1>6, <1>7 DEF IInv, TypeOK, Continue, Threads
<1>9. OneClaim' /\ PoolClaimed'
  <2>1. Claim("arg", c, i)
    BY <1>1 DEF Claim, At, Threads, i
  <2>2. \A k \in Uses, t \in Users, j \in Ids :
          Claim(k, t, j)' <=> \/ Claim(k, t, j) /\ ~(k = "arg" /\ t = c /\ j = i)
                              \/ k = "own" /\ t = c /\ j = i
    BY <1>1 DEF IInv, TypeOK, Claim, At, Continue, Threads, i
  <2> QED BY <1>1, <1>2, <2>1, <2>2, ClaimMoved DEF IInv, Uses, Users, Threads
<1>10. EntryInv'
  <2>1. \A t \in Threads, j \in Ids : WorksOn(t, j)' <=> WorksOn(t, j) /\ t # c
    BY <1>1 DEF IInv, TypeOK, WorksOn, At, Continue, Threads
  <2>2. \A t \in Threads, j \in Ids : WorksOn(t, j)' => j # i
    BY <1>4, <2>1
  <2> QED BY <1>6, <2>1, <2>2 DEF IInv, EntryInv, Listed
<1>11. RefcntExact'
  <2>1. \A d \in Consumers, j \in Ids : j \in owned'[d] <=> j \in owned[d] \/ (d = c /\ j = i)
    BY <1>1 DEF IInv, TypeOK, i
  <2> QED BY <1>4, <1>5, <1>6, <1>7, <2>1 DEF IInv, TypeOK, RefcntExact, Listed
<1>12. PcInv' /\ CrashInv'
  BY <1>1, ObjectTableAssumption DEF IInv, TypeOK, PcInv, CrashInv, Continue, Threads
<1> QED BY <1>8, <1>9, <1>10, <1>11, <1>12 DEF IInv

\* clRetainObject: the object is the consumer's, so it is not refused
LEMMA StepRetain ==
  ASSUME IInv, NEW c \in Consumers, NEW i \in Ids, Retain(c, i)
  PROVE  IInv'
<1>1. /\ held[c][i] > 0 /\ held[c][i] \in Nat
      /\ i \in DOMAIN objects
      /\ objects[i].refcnt = held[c][i] /\ objects[i].consumer = c
  BY DEF IInv, TypeOK, RefcntExact, Listed, Retain
<1>2. /\ CountReference(c, i)
      /\ owned' = [owned EXCEPT ![c] = @ \union {i}]
      /\ held' = [held EXCEPT ![c][i] = @ + 1]
      /\ UNCHANGED <<pool, allocs, remote, res, conn, pc, arg, tgt, leaked, crash>>
  BY <1>1 DEF Retain
<1>3. /\ DOMAIN objects' = DOMAIN objects
      /\ objects'[i].refcnt = held[c][i] + 1 /\ objects'[i].consumer = c
      /\ \A j \in DOMAIN objects : j # i => objects'[j] = objects[j]
      /\ \A j \in DOMAIN objects' : objects'[j] \in Object
  BY <1>1, <1>2, RetainedObject DEF IInv
<1>4. /\ held' \in [Consumers -> [Ids -> Nat]]
      /\ held'[c][i] = held[c][i] + 1
      /\ \A d \in Consumers, j \in Ids : d # c \/ j # i => held'[d][j] = held[d][j]
  <2>1. held'[c] = [held[c] EXCEPT ![i] = @ + 1]
    BY <1>2 DEF IInv, TypeOK
  <2>2. held'[c] \in [Ids -> Nat] /\ \A d \in Consumers \ {c} : held'[d] = held[d]
    BY <1>1, <1>2, <2>1 DEF IInv, TypeOK
  <2> QED BY <1>2, <2>1, <2>2 DEF IInv, TypeOK
<1>5. owned' = owned
  BY <1>1, <1>2 DEF IInv, TypeOK, RefcntExact
<1>6. TypeOK'
  BY <1>2, <1>3, <1>4, <1>5 DEF IInv, TypeOK
<1>7. OneClaim' /\ PoolClaimed'
  BY <1>2, <1>5, ClaimKept DEF IInv, Claim
<1>8. EntryInv'
  <2>1. \A t \in Threads, j \in Ids : WorksOn(t, j)' <=> WorksOn(t, j)
    BY <1>2 DEF WorksOn
  <2>2. \A t \in Threads : ~WorksOn(t, i)
    BY <1>1 DEF IInv, EntryInv
  <2> QED BY <1>3, <2>1, <2>2 DEF IInv, EntryInv, Listed
<1>9. RefcntExact'
  <2>1. \A d \in Consumers : held[d][i] > 0 => d = c
    BY <1>1 DEF IInv, RefcntExact
  <2> QED BY <1>1, <1>3, <1>4, <1>5, <2>1 DEF IInv, TypeOK, RefcntExact, Listed
<1>10. PcInv' /\ CrashInv'
  BY <1>2 DEF IInv, PcInv, CrashInv
<1> QED BY <1>6, <1>7, <1>8, <1>9, <1>10 DEF IInv

\* clReleaseObject, not the last reference
LEMMA StepReleaseOne ==
  ASSUME IInv, NEW c \in Consumers, NEW i \in Ids, Release(c, i), held[c][i] # 1
  PROVE  IInv'
<1>1. /\ held[c][i] > 0 /\ held[c][i] \in Nat
      /\ i \in DOMAIN objects /\ objects[i] \in Object
      /\ objects[i].refcnt = held[c][i] /\ objects[i].consumer = c
  BY DEF IInv, TypeOK, RefcntExact, Listed, Release
<1>2. /\ held' = [held EXCEPT ![c][i] = @ - 1]
      /\ objects' = [objects EXCEPT ![i].refcnt = @ - 1]
      /\ UNCHANGED <<pool, owned, allocs, remote, res, conn, pc, arg, tgt, leaked, crash>>
  BY <1>1 DEF Release
<1>3. /\ DOMAIN objects' = DOMAIN objects
      /\ objects'[i] = [provider |-> objects[i].provider, consumer |-> c,
                        refcnt |-> held[c][i] - 1]
      /\ \A j \in DOMAIN objects : j # i => objects'[j] = objects[j]
  BY <1>1, <1>2 DEF Object
<1>4. objects'[i] \in Object
  BY <1>1, <1>3 DEF Object
<1>5. /\ held' \in [Consumers -> [Ids -> Nat]]
      /\ held'[c][i] = held[c][i] - 1
      /\ \A d \in Consumers, j \in Ids : d # c \/ j # i => held'[d][j] = held[d][j]
  <2>1. held'[c] = [held[c] EXCEPT ![i] = @ - 1]
    BY <1>2 DEF IInv, TypeOK
  <2>2. held'[c] \in [Ids -> Nat] /\ \A d \in Consumers \ {c} : held'[d] = held[d]
    BY <1>1, <1>2, <2>1 DEF IInv, TypeOK
  <2> QED BY <1>2, <2>1, <2>2 DEF IInv, TypeOK
<1>6. TypeOK'
  BY <1>2, <1>3, <1>4, <1>5 DEF IInv, TypeOK
<1>7. OneClaim' /\ PoolClaimed'
  BY <1>2, ClaimKept DEF IInv, Claim
<1>8. EntryInv'
  <2>1. \A t \in Threads, j \in Ids : WorksOn(t, j)' <=> WorksOn(t, j)
    BY <1>2 DEF WorksOn
  <2>2. \A t \in Threads : ~WorksOn(t, i)
    BY <1>1 DEF IInv, EntryInv
  <2> QED BY <1>3, <2>1, <2>2 DEF IInv, EntryInv, Listed
<1>9. RefcntExact'
  <2>1. \A d \in Consumers : held[d][i] > 0 => d = c
    BY <1>1 DEF IInv, RefcntExact
  <2>2. objects'[i].refcnt = held'[c][i] /\ objects'[i].consumer = c
    BY <1>3, <1>5
  <2> QED BY <1>1, <1>2, <1>3, <1>5, <2>1, <2>2 DEF IInv, TypeOK, RefcntExact, Listed
<1>10. PcInv' /\ CrashInv'
  BY <1>2 DEF IInv, PcInv, CrashInv
<1> QED BY <1>6, <1>7, <1>8, <1>9, <1>10 DEF IInv

\* clReleaseObject, the last reference: the id passes to the call that will give it back
LEMMA StepReleaseLast ==
  ASSUME IInv, NEW c \in Consumers, NEW i \in Ids, Release(c, i), held[c][i] = 1
  PROVE  IInv'
<1>1. /\ i \in DOMAIN objects /\ objects[i] \in Object /\ At(c, "idle")
      /\ objects[i].refcnt = 1 /\ objects[i].consumer = c /\ i \in owned[c]
  BY DEF IInv, TypeOK, RefcntExact, Listed, Release
<1>2. /\ held' = [held EXCEPT ![c][i] = @ - 1]
      /\ objects' = [objects EXCEPT ![i].consumer = None, ![i].refcnt = 0]
      /\ owned' = [owned EXCEPT ![c] = @ \ {i}]
      /\ Continue(c, "idRelease", i)
      /\ UNCHANGED <<pool, allocs, remote, res, conn, tgt, leaked, crash>>
  BY <1>1 DEF Release
<1>3. /\ DOMAIN objects' = DOMAIN objects
      /\ objects'[i] = [provider |-> objects[i].provider, consumer |-> None, refcnt |-> 0]
      /\ \A j \in DOMAIN objects : j # i => objects'[j] = objects[j]
  BY <1>1, <1>2 DEF Object
<1>4. objects'[i] \in Object
  BY <1>1, <1>3 DEF Object
<1>5. /\ held' \in [Consumers -> [Ids -> Nat]]
      /\ held'[c][i] = 0
      /\ \A d \in Consumers, j \in Ids : d # c \/ j # i => held'[d][j] = held[d][j]
  <2>1. held'[c] = [held[c] EXCEPT ![i] = @ - 1]
    BY <1>2 DEF IInv, TypeOK
  <2>2. held'[c] \in [Ids -> Nat] /\ \A d \in Consumers \ {c} : held'[d] = held[d]
    BY <1>2, <2>1 DEF IInv, TypeOK
  <2> QED BY <1>2, <2>1, <2>2 DEF IInv, TypeOK
<1>6. TypeOK'
  BY <1>1, <1>2, <1>3, <1>4, <1>5 DEF IInv, TypeOK, Continue, Threads
<1>7. OneClaim' /\ PoolClaimed'
  <2>1. Claim("own", c, i)
    BY <1>1 DEF Claim
  <2>2. \A k \in Uses, t \in Users, j \in Ids :
          Claim(k, t, j)' <=> \/ Claim(k, t, j) /\ ~(k = "own" /\ t = c /\ j = i)
                              \/ k = "arg" /\ t = c /\ j = i
    BY <1>1, <1>2 DEF IInv, TypeOK, Claim, At, Continue, Threads
  <2> QED BY <1>2, <2>1, <2>2, ClaimMoved DEF IInv, Uses, Users, Threads
<1>8. EntryInv'
  <2>1. \A t \in Threads, j \in Ids : WorksOn(t, j)' <=> WorksOn(t, j) \/ (t = c /\ j = i)
    BY <1>1, <1>2 DEF IInv, TypeOK, WorksOn, At, Continue, Threads
  <2>2. \A t \in Threads : ~WorksOn(t, i)
    BY <1>1 DEF IInv, EntryInv
  <2> QED BY <1>1, <1>3, <2>1, <2>2 DEF IInv, EntryInv, Listed
<1>9. RefcntExact'
  <2>1. \A d \in Consumers : d # c => held[d][i] = 0
    BY <1>1 DEF IInv, TypeOK, RefcntExact
  <2>2. \A d \in Consumers, j \in Ids : j \in owned'[d] <=> j \in owned[d] /\ ~(d = c /\ j = i)
    BY <1>2 DEF IInv, TypeOK
  <2>3. \A d \in Consumers : held'[d][i] = 0 /\ i \notin owned'[d]
    BY <1>5, <2>1, <2>2 DEF IInv, RefcntExact
  <2> QED BY <1>3, <1>5, <2>2, <2>3 DEF IInv, RefcntExact, Listed
<1>10. PcInv' /\ CrashInv'
  BY <1>1, <1>2, ObjectTableAssumption DEF IInv, TypeOK, PcInv, CrashInv, Continue, Threads
<1> QED BY <1>6, <1>7, <1>8, <1>9, <1>10 DEF IInv

\* id_release of the object's id: it is in the pool (the assertion of
\* opencl_object.c:93 holds)
LEMMA StepReleaseId ==
  ASSUME IInv, NEW c \in Consumers, ReleaseId(c)
  PROVE  IInv'
<1>1. At(c, "idRelease") /\ arg[c] \in Ids
  BY DEF IInv, PcInv, ReleaseId, At, Threads
<1>2. Claim("arg", c, arg[c])
  BY <1>1 DEF Claim, At, Threads
<1>3. arg[c] \in pool
  BY <1>1, <1>2 DEF IInv, PoolClaimed, Uses, Users, Threads
<1>4. /\ pool' = pool \ {arg[c]}
      /\ Continue(c, "remove", arg[c])
      /\ UNCHANGED <<objects, owned, allocs, remote, res, conn, tgt, held, leaked, crash>>
  BY <1>3 DEF ReleaseId, IdRelease
<1>5. TypeOK'
  BY <1>1, <1>4 DEF IInv, TypeOK, Continue, Threads
<1>6. OneClaim' /\ PoolClaimed'
  <2>1. \A k \in Uses, t \in Users, j \in Ids :
          Claim(k, t, j)' <=> Claim(k, t, j) /\ ~(k = "arg" /\ t = c /\ j = arg[c])
    BY <1>1, <1>4 DEF IInv, TypeOK, Claim, At, Continue, Threads
  <2> QED BY <1>1, <1>2, <1>4, <2>1, ClaimDropped DEF IInv, Uses, Users, Threads
<1>7. EntryInv'
  <2>1. \A t \in Threads, j \in Ids : WorksOn(t, j)' <=> WorksOn(t, j)
    BY <1>1, <1>4 DEF IInv, TypeOK, WorksOn, At, Continue, Threads
  <2> QED BY <1>4, <2>1 DEF IInv, EntryInv, Listed
<1>8. PcInv' /\ RefcntExact' /\ CrashInv'
  BY <1>1, <1>4, ObjectTableAssumption
     DEF IInv, TypeOK, PcInv, RefcntExact, Listed, CrashInv, Continue, Threads
<1> QED BY <1>5, <1>6, <1>7, <1>8 DEF IInv

\* object_destroy: the object is still in the table, with count 0 (the
\* assertions of object.c:86 and opencl_object.c:94 hold)
LEMMA StepReleaseRemove ==
  ASSUME IInv, NEW c \in Consumers, ReleaseRemove(c)
  PROVE  IInv'
<1> DEFINE i == arg[c]
<1>1. At(c, "remove") /\ i \in Ids
  BY DEF IInv, PcInv, ReleaseRemove, At, Threads
<1>2. WorksOn(c, i)
  BY <1>1 DEF WorksOn, At
<1>3. /\ i \in DOMAIN objects /\ objects[i].refcnt = 0
      /\ \A u \in Threads : WorksOn(u, i) => u = c
  BY <1>1, <1>2 DEF IInv, EntryInv, Listed, Threads
<1>4. /\ objects' = [j \in DOMAIN objects \ {i} |-> objects[j]]
      /\ Continue(c, "idle", None)
      /\ UNCHANGED <<pool, owned, allocs, remote, res, conn, tgt, held, leaked, crash>>
  BY <1>3 DEF ReleaseRemove
<1>5. TypeOK'
  <2>1. DOMAIN objects' \subseteq Ids /\ \A j \in DOMAIN objects' : objects'[j] \in Object
    BY <1>4 DEF IInv, TypeOK
  <2> QED BY <1>4, <2>1 DEF IInv, TypeOK, Continue, Threads
<1>6. OneClaim' /\ PoolClaimed'
  <2>1. \A k \in Uses, t \in Users, j \in Ids : Claim(k, t, j)' <=> Claim(k, t, j)
    BY <1>1, <1>4 DEF IInv, TypeOK, Claim, At, Continue, Threads
  <2> QED BY <1>4, <2>1, ClaimKept DEF IInv
<1>7. EntryInv'
  <2>1. \A t \in Threads, j \in Ids : WorksOn(t, j)' <=> WorksOn(t, j) /\ t # c
    BY <1>1, <1>4 DEF IInv, TypeOK, WorksOn, At, Continue, Threads
  <2>2. \A t \in Threads, j \in Ids : WorksOn(t, j)' => j # i
    BY <1>3, <2>1
  <2> QED BY <1>4, <2>1, <2>2 DEF IInv, EntryInv, Listed
<1>8. RefcntExact'
  <2>1. \A d \in Consumers : held[d][i] = 0
    BY <1>1, <1>3 DEF IInv, TypeOK, RefcntExact
  <2> QED BY <1>4, <2>1 DEF IInv, RefcntExact, Listed
<1>9. PcInv' /\ CrashInv'
  BY <1>4, ObjectTableAssumption DEF IInv, TypeOK, PcInv, CrashInv, Continue, Threads
<1> QED BY <1>5, <1>6, <1>7, <1>8, <1>9 DEF IInv

\* every step of every handler keeps the invariant
LEMMA StepIInv == ASSUME IInv, [Next]_vars PROVE IInv'
<1>1. CASE UNCHANGED vars
  <2>1. OneClaim' /\ PoolClaimed'
    BY <1>1, ClaimKept DEF IInv, vars, Claim
  <2> QED BY <1>1, <2>1
          DEF vars, IInv, TypeOK, PcInv, EntryInv, WorksOn, RefcntExact, Listed, CrashInv
<1>2. ASSUME NEW c \in Consumers, ConsumerNext(c) PROVE IInv'
  <2>1. ASSUME NEW p \in Providers, NEW i \in Ids, AllocRemoteReplyFails(c, p, i) PROVE IInv'
    BY <2>1, CrashKeeps DEF AllocRemoteReplyFails
  <2>2. ASSUME NEW i \in Ids, UseLost(c, i) PROVE IInv'
    BY <2>2, CrashKeeps DEF UseLost
  <2>3. ASSUME NEW i \in Ids, Release(c, i) PROVE IInv'
    BY <2>3, StepReleaseOne, StepReleaseLast
  <2> QED BY <1>2, <2>1, <2>2, <2>3, StepCreateId, StepAllocRemote, StepAllocRemoteFails,
             StepRetain, StepAllocLocal, StepFetchLocal, StepFetchRemote, StepCreateInsert,
             StepCreateRetain, StepReleaseId, StepReleaseRemove, StepConsumerLeaves
          DEF ConsumerNext
<1>3. ASSUME NEW p \in Providers, ProviderNext(p) PROVE IInv'
  BY <1>3, StepRegisterId, StepDestroyResource, StepRegisterInsert, StepConnection
  DEF ProviderNext
<1> QED BY <1>1, <1>2, <1>3 DEF Next

\* The invariant holds in every state of the agent.
THEOREM Invariant == Spec => []IInv
<1>1. Init => IInv
  BY InitIInv
<1>2. IInv /\ [Next]_vars => IInv'
  BY StepIInv
<1> QED BY <1>1, <1>2, PTL DEF Spec

-----------------------------------------------------------------------------

\* Every field keeps its type.
THEOREM TypeCorrect == Spec => []TypeOK
<1>1. IInv => TypeOK
  BY DEF IInv
<1> QED BY <1>1, Invariant, PTL

\* For any number of consumers, providers and ids: an object's count is the
\* number of references its one consumer holds, and it is in that consumer's set.
THEOREM CountsExact == Spec => []RefcntExact
<1>1. IInv => RefcntExact
  BY DEF IInv
<1> QED BY <1>1, Invariant, PTL

\* object_retain never refuses the consumer that holds the object.
THEOREM RetainAccepted == Spec => []RetainNeverRefused
<1>1. IInv => RetainNeverRefused
  BY DEF IInv, CrashInv, RetainNeverRefused
<1> QED BY <1>1, Invariant, PTL

\* The assertions on the way out of the table and of the pool hold.
THEOREM ReleaseAssertionsHold == Spec => []ReleaseNeverAsserts
<1>1. IInv => ReleaseNeverAsserts
  BY DEF IInv, CrashInv, ReleaseNeverAsserts
<1> QED BY <1>1, Invariant, PTL

\* The pool holds the ids in use and the leaked ones, and no others.
THEOREM PoolIsExact == Spec => []PoolExact
<1>1. ASSUME IInv PROVE PoolExact
  <2>1. ASSUME NEW i
        PROVE  i \in InUse <=> \/ \E p \in Providers : i \in res[p]
                               \/ \E c \in Consumers : i \in owned[c] \union allocs[c] \union remote[c]
                               \/ \E t \in Working : i = arg[t]
    BY DEF InUse
  <2>2. ASSUME NEW i \in InUse \union leaked PROVE i \in pool
    <3>1. i \in Ids
      BY <1>1, <2>1 DEF IInv, TypeOK, PcInv, Working
    <3>2. CASE i \in leaked
      <4>1. Claim("leak", None, i)
        BY <3>2 DEF Claim
      <4> QED BY <1>1, <3>1, <4>1 DEF IInv, PoolClaimed, Uses, Users
    <3>3. CASE \E p \in Providers : i \in res[p]
      <4>1. \E p \in Providers : Claim("res", p, i)
        BY <3>3 DEF Claim
      <4> QED BY <1>1, <3>1, <4>1 DEF IInv, PoolClaimed, Uses, Users, Threads
    <3>4. CASE \E c \in Consumers : i \in owned[c] \union allocs[c] \union remote[c]
      <4>1. \E c \in Consumers : Claim("own", c, i) \/ Claim("alloc", c, i) \/ Claim("rem", c, i)
        BY <3>4 DEF Claim
      <4> QED BY <1>1, <3>1, <4>1 DEF IInv, PoolClaimed, Uses, Users, Threads
    <3>5. CASE \E t \in Working : i = arg[t]
      <4>1. \E t \in Threads : Claim("arg", t, i)
        BY <3>5 DEF Claim, Working
      <4> QED BY <1>1, <3>1, <4>1 DEF IInv, PoolClaimed, Uses, Users
    <3> QED BY <2>1, <3>2, <3>3, <3>4, <3>5
  <2>3. ASSUME NEW i \in pool PROVE i \in InUse \union leaked
    <3>1. PICK k \in Uses, t \in Users : Claim(k, t, i)
      BY <1>1 DEF IInv, TypeOK, PoolClaimed
    <3> QED BY <2>1, <3>1 DEF Claim, Working
  <2> QED BY <2>2, <2>3 DEF PoolExact
<1>2. IInv => PoolExact
  BY <1>1
<1> QED BY <1>2, Invariant, PTL

-----------------------------------------------------------------------------
(* The refinement: ObjectTable implements HandleSpace.                     *)

\* what party t holds of name i
HoldsOf(t, i) == IF t \in Providers THEN One(i, res[t])
                 ELSE held[t][i] + One(i, allocs[t]) + One(i, remote[t])

\* a name no object, allocation or resource claims is held by nobody
LEMMA Unclaimed ==
  ASSUME IInv, NEW i \in Ids,
         \A k \in {"res", "own", "alloc", "rem"}, t \in Users : ~Claim(k, t, i)
  PROVE  Names!Unheld(i)
<1>1. ASSUME NEW t \in Threads PROVE Holds[t][i] = 0
  <2>1. CASE t \in Providers
    BY <2>1 DEF Holds, One, Claim, Users
  <2>2. CASE t \in Consumers /\ t \notin Providers
    <3>1. i \notin owned[t] /\ i \notin allocs[t] /\ i \notin remote[t]
      BY <2>2 DEF Claim, Users
    <3>2. held[t][i] = 0
      BY <2>2, <3>1 DEF IInv, TypeOK, RefcntExact
    <3> QED BY <2>2, <3>1, <3>2 DEF Holds, One
  <2> QED BY <2>1, <2>2 DEF Threads
<1> QED BY <1>1 DEF Names!Unheld

\* the holdings change in one place
LEMMA HoldsChanged ==
  ASSUME NEW t \in Threads, NEW i \in Ids,
         \A u \in Threads, j \in Ids : u # t \/ j # i => HoldsOf(u, j)' = HoldsOf(u, j)
  PROVE  Holds' = [Holds EXCEPT ![t][i] = HoldsOf(t, i)']
BY DEF Holds, HoldsOf

\* the holdings do not change
LEMMA HoldsKept ==
  ASSUME \A u \in Threads, j \in Ids : HoldsOf(u, j)' = HoldsOf(u, j)
  PROVE  Holds' = Holds
BY DEF Holds, HoldsOf

\* the references of one party are gone
LEMMA HoldsQuit ==
  ASSUME NEW t \in Threads,
         \A u \in Threads, j \in Ids : HoldsOf(u, j)' = IF u = t THEN 0 ELSE HoldsOf(u, j)
  PROVE  Names!Quit(t)
BY DEF Holds, HoldsOf, Names!Quit

\* a handle is granted when it is new to the pool
LEMMA AllocGrants ==
  ASSUME IInv, NEW c \in Consumers, NEW i \in Ids,
         AllocLocal(c, i) \/ \E p \in Providers : AllocRemote(c, p, i)
  PROVE  Names!Grant(c, i)
<1>1. i \notin pool /\ UNCHANGED <<owned, res, held>>
  BY DEF AllocLocal, AllocRemote, IdCreate
<1>2. \A k \in Uses, t \in Users : ~Claim(k, t, i)
  BY <1>1 DEF IInv, PoolClaimed
<1>3. Names!Unheld(i)
  BY <1>2, Unclaimed DEF Uses
<1>4. \/ allocs' = [allocs EXCEPT ![c] = @ \union {i}] /\ remote' = remote
      \/ remote' = [remote EXCEPT ![c] = @ \union {i}] /\ allocs' = allocs
  BY DEF AllocLocal, AllocRemote
<1>5. held[c][i] = 0 /\ i \notin allocs[c] /\ i \notin remote[c]
  <2>1. ~Claim("own", c, i) /\ ~Claim("alloc", c, i) /\ ~Claim("rem", c, i)
    BY <1>2 DEF Uses, Users, Threads
  <2> QED BY <2>1 DEF Claim, IInv, TypeOK, RefcntExact
<1>6. \A u \in Threads, j \in Ids : u # c \/ j # i => HoldsOf(u, j)' = HoldsOf(u, j)
  BY <1>1, <1>4 DEF IInv, TypeOK, HoldsOf, One, Threads
<1>7. HoldsOf(c, i)' = 1
  BY <1>1, <1>4, <1>5, ObjectTableAssumption DEF IInv, TypeOK, HoldsOf, One
<1> QED BY <1>3, <1>6, <1>7, HoldsChanged DEF Names!Grant, Threads

\* a new object's id is granted when its creator gets the reference
LEMMA CreateGrants ==
  ASSUME IInv, NEW c \in Consumers, CreateRetain(c)
  PROVE  arg[c] \in Ids /\ Names!Grant(c, arg[c])
<1>1. At(c, "retain") /\ arg[c] \in Ids
  BY DEF IInv, PcInv, CreateRetain, At, Threads
<1>2. PICK i \in Ids : i = arg[c]
  BY <1>1
<1>3. held' = [held EXCEPT ![c][i] = 1] /\ UNCHANGED <<allocs, remote, res>>
  BY <1>2 DEF CreateRetain
<1>4. Claim("arg", c, i)
  BY <1>1, <1>2 DEF Claim, At, Threads
<1>5. \A k \in {"res", "own", "alloc", "rem"}, t \in Users : ~Claim(k, t, i)
  BY <1>2, <1>4 DEF IInv, OneClaim, Uses, Users, Threads
<1>6. Names!Unheld(i)
  BY <1>2, <1>5, Unclaimed
<1>7. i \notin allocs[c] /\ i \notin remote[c]
  BY <1>5 DEF Claim, Users, Threads
<1>8. \A u \in Threads, j \in Ids : u # c \/ j # i => HoldsOf(u, j)' = HoldsOf(u, j)
  BY <1>3, <1>2 DEF IInv, TypeOK, HoldsOf, Threads
<1>9. HoldsOf(c, i)' = 1
  BY <1>3, <1>2, <1>7, ObjectTableAssumption DEF IInv, TypeOK, HoldsOf, One
<1>10. Names!Grant(c, i)
  BY <1>2, <1>6, <1>8, <1>9, HoldsChanged DEF Names!Grant, Threads
<1> QED BY <1>2, <1>10

\* a provider is granted the id of its platform or device
LEMMA RegisterGrants ==
  ASSUME IInv, NEW p \in Providers, RegisterInsert(p), ~Crash("create")
  PROVE  arg[p] \in Ids /\ Names!Grant(p, arg[p])
<1>1. At(p, "insert") /\ arg[p] \in Ids
  BY DEF IInv, PcInv, RegisterInsert, At, Threads
<1>2. PICK i \in Ids : i = arg[p]
  BY <1>1
<1>3. res' = [res EXCEPT ![p] = @ \union {i}] /\ UNCHANGED <<allocs, remote, held>>
  BY <1>2 DEF RegisterInsert
<1>4. Claim("arg", p, i)
  BY <1>1, <1>2 DEF Claim, At, Threads
<1>5. \A k \in {"res", "own", "alloc", "rem"}, t \in Users : ~Claim(k, t, i)
  BY <1>2, <1>4 DEF IInv, OneClaim, Uses, Users, Threads
<1>6. Names!Unheld(i)
  BY <1>2, <1>5, Unclaimed
<1>7. \A u \in Threads, j \in Ids : u # p \/ j # i => HoldsOf(u, j)' = HoldsOf(u, j)
  BY <1>3, <1>2 DEF IInv, TypeOK, HoldsOf, One, Threads
<1>8. HoldsOf(p, i)' = 1
  BY <1>3, <1>2 DEF IInv, TypeOK, HoldsOf, One
<1>9. Names!Grant(p, i)
  BY <1>2, <1>6, <1>7, <1>8, HoldsChanged DEF Names!Grant, Threads
<1> QED BY <1>2, <1>9

\* clRetainObject and clReleaseObject: one reference more, one reference less
LEMMA CountSteps ==
  ASSUME IInv, NEW c \in Consumers, NEW i \in Ids
  PROVE  /\ Retain(c, i) => Names!Dup(c, i)
         /\ Release(c, i) => Names!Drop(c, i)
<1> USE ObjectTableAssumption
<1>1. c \notin Providers /\ held[c][i] \in Nat
  BY DEF IInv, TypeOK
<1>2. Holds[c][i] = HoldsOf(c, i)
  BY DEF Holds, HoldsOf, Threads
<1>3. HoldsOf(c, i) \in Nat /\ (held[c][i] > 0 => HoldsOf(c, i) > 0)
  BY <1>1 DEF HoldsOf, One
<1>4. ASSUME Retain(c, i) PROVE Names!Dup(c, i)
  <2>1. held[c][i] > 0 /\ held' = [held EXCEPT ![c][i] = @ + 1] /\ UNCHANGED <<allocs, remote, res>>
    BY <1>4 DEF Retain, Crash, IInv, RefcntExact, TypeOK
  <2>2. \A u \in Threads, j \in Ids : u # c \/ j # i => HoldsOf(u, j)' = HoldsOf(u, j)
    BY <2>1 DEF IInv, TypeOK, HoldsOf, Threads
  <2>3. held'[c][i] = held[c][i] + 1
    BY <2>1 DEF IInv, TypeOK
  <2>4. HoldsOf(c, i)' = HoldsOf(c, i) + 1
    BY <1>1, <2>1, <2>3 DEF HoldsOf, One
  <2>5. Holds' = [Holds EXCEPT ![c][i] = HoldsOf(c, i)']
    BY <2>2, HoldsChanged DEF Threads
  <2> QED BY <1>2, <1>3, <2>1, <2>4, <2>5 DEF Names!Dup
<1>5. ASSUME Release(c, i) PROVE Names!Drop(c, i)
  <2>1. held[c][i] > 0 /\ held' = [held EXCEPT ![c][i] = @ - 1] /\ UNCHANGED <<allocs, remote, res>>
    BY <1>5 DEF Release
  <2>2. \A u \in Threads, j \in Ids : u # c \/ j # i => HoldsOf(u, j)' = HoldsOf(u, j)
    BY <2>1 DEF IInv, TypeOK, HoldsOf, Threads
  <2>3. held'[c][i] = held[c][i] - 1
    BY <2>1 DEF IInv, TypeOK
  <2>4. HoldsOf(c, i)' = HoldsOf(c, i) - 1
    BY <1>1, <2>1, <2>3 DEF HoldsOf, One
  <2>5. Holds' = [Holds EXCEPT ![c][i] = HoldsOf(c, i)']
    BY <2>2, HoldsChanged DEF Threads
  <2> QED BY <1>2, <1>3, <2>1, <2>4, <2>5 DEF Names!Drop
<1> QED BY <1>4, <1>5

\* FETCH lets go of a handle
LEMMA FetchDrops ==
  ASSUME IInv, NEW c \in Consumers, NEW i \in Ids, FetchLocal(c, i) \/ FetchRemote(c, i)
  PROVE  Names!Drop(c, i)
<1> USE ObjectTableAssumption
<1>1. \/ /\ i \in allocs[c] /\ allocs' = [allocs EXCEPT ![c] = @ \ {i}] /\ remote' = remote
      \/ /\ i \in remote[c] /\ remote' = [remote EXCEPT ![c] = @ \ {i}] /\ allocs' = allocs
  <2>1. CASE FetchLocal(c, i)
    <3>1. Claim("alloc", c, i)
      BY <2>1 DEF FetchLocal, Claim
    <3>2. i \in pool
      BY <3>1 DEF IInv, PoolClaimed, Uses, Users, Threads
    <3> QED BY <2>1, <3>2 DEF FetchLocal
  <2>2. CASE FetchRemote(c, i)
    BY <2>2 DEF FetchRemote
  <2> QED BY <2>1, <2>2
<1>2. UNCHANGED <<res, held>>
  BY DEF FetchLocal, FetchRemote, Crash
<1>3. c \notin Providers /\ held[c][i] \in Nat
  BY DEF IInv, TypeOK
<1>4. Holds[c][i] = HoldsOf(c, i)
  BY DEF Holds, HoldsOf, Threads
<1>5. HoldsOf(c, i) > 0 /\ HoldsOf(c, i)' = HoldsOf(c, i) - 1
  <2>1. CASE i \in allocs[c] /\ i \notin allocs'[c] /\ remote' = remote
    BY <1>2, <1>3, <2>1 DEF HoldsOf, One
  <2>2. CASE i \in remote[c] /\ i \notin remote'[c] /\ allocs' = allocs
    BY <1>2, <1>3, <2>2 DEF HoldsOf, One
  <2> QED BY <1>1, <2>1, <2>2 DEF IInv, TypeOK
<1>6. \A u \in Threads, j \in Ids : u # c \/ j # i => HoldsOf(u, j)' = HoldsOf(u, j)
  BY <1>1, <1>2 DEF IInv, TypeOK, HoldsOf, One, Threads
<1>7. Holds' = [Holds EXCEPT ![c][i] = HoldsOf(c, i)']
  BY <1>6, HoldsChanged DEF Threads
<1> QED BY <1>4, <1>5, <1>7 DEF Names!Drop

\* provider_destroy lets go of a platform's or device's id
LEMMA DestroyDrops ==
  ASSUME IInv, NEW p \in Providers, NEW i \in Ids, DestroyResource(p, i)
  PROVE  Names!Drop(p, i)
<1>1. Claim("res", p, i)
  BY DEF DestroyResource, Claim
<1>2. i \in pool
  BY <1>1 DEF IInv, PoolClaimed, Uses, Users, Threads
<1>3. i \in res[p] /\ res' = [res EXCEPT ![p] = @ \ {i}] /\ UNCHANGED <<allocs, remote, held>>
  BY <1>2 DEF DestroyResource
<1>4. Holds[p][i] = HoldsOf(p, i) /\ HoldsOf(p, i) = 1
  BY <1>3 DEF Holds, HoldsOf, One, Threads
<1>5. HoldsOf(p, i)' = 0
  BY <1>3 DEF IInv, TypeOK, HoldsOf, One
<1>6. \A u \in Threads, j \in Ids : u # p \/ j # i => HoldsOf(u, j)' = HoldsOf(u, j)
  BY <1>3 DEF IInv, TypeOK, HoldsOf, One, Threads
<1>7. Holds' = [Holds EXCEPT ![p][i] = HoldsOf(p, i)']
  BY <1>6, HoldsChanged DEF Threads
<1> QED BY <1>4, <1>5, <1>7 DEF Names!Drop

\* a consumer that leaves without an allocation lets go of everything
LEMMA LeaveQuits ==
  ASSUME IInv, NEW c \in Consumers, ConsumerLeaves(c), ~Crash("exit")
  PROVE  Names!Quit(c)
<1>1. /\ allocs[c] = {} /\ allocs' = allocs /\ res' = res
      /\ remote' = [remote EXCEPT ![c] = {}]
      /\ held' = [held EXCEPT ![c] = [i \in Ids |-> 0]]
  BY DEF ConsumerLeaves
<1>2. ASSUME NEW j \in Ids PROVE HoldsOf(c, j)' = 0
  <2>1. held'[c][j] = 0
    BY <1>1 DEF IInv, TypeOK
  <2>2. allocs'[c] = {} /\ remote'[c] = {}
    BY <1>1 DEF IInv, TypeOK
  <2> QED BY <2>1, <2>2, ObjectTableAssumption DEF HoldsOf, One
<1>3. ASSUME NEW u \in Threads \ {c}, NEW j \in Ids PROVE HoldsOf(u, j)' = HoldsOf(u, j)
  BY <1>1 DEF IInv, TypeOK, HoldsOf, Threads
<1> QED BY <1>2, <1>3, HoldsQuit DEF Threads

\* the other steps, and those that end the agent, give no name to anybody
LEMMA OtherStepsKeep ==
  ASSUME IInv, UNCHANGED <<allocs, remote, res, held>>
  PROVE  Holds' = Holds
BY HoldsKept DEF HoldsOf

\* Every step of a handler is a step of the space of names, or one it does
\* not see.
LEMMA StepRefines == ASSUME IInv, [Next]_vars PROVE [Names!HandlesNext]_Holds
<1>1. CASE UNCHANGED vars
  BY <1>1, OtherStepsKeep DEF vars
<1>2. ASSUME NEW c \in Consumers, ConsumerNext(c) PROVE [Names!HandlesNext]_Holds
  <2>1. ASSUME NEW i \in Ids, Names!Grant(c, i) \/ Names!Dup(c, i) \/ Names!Drop(c, i)
        PROVE  Names!HandlesNext
    BY <2>1 DEF Names!HandlesNext, Threads
  <2>2. ASSUME NEW p \in Providers, NEW i \in Ids, AllocRemote(c, p, i)
        PROVE  Names!HandlesNext
    BY <2>1, <2>2, AllocGrants
  <2>3. ASSUME NEW i \in Ids, \/ Retain(c, i) \/ Release(c, i) \/ AllocLocal(c, i)
                              \/ FetchLocal(c, i) \/ FetchRemote(c, i)
        PROVE  Names!HandlesNext
    BY <2>1, <2>3, CountSteps, AllocGrants, FetchDrops
  <2>4. CASE CreateRetain(c)
    BY <2>1, <2>4, CreateGrants
  <2>5. CASE ConsumerLeaves(c)
    <3>1. CASE Crash("exit")
      BY <3>1, OtherStepsKeep DEF Crash
    <3>2. CASE ~Crash("exit")
      BY <2>5, <3>2, LeaveQuits DEF Names!HandlesNext, Threads
    <3> QED BY <3>1, <3>2
  <2>6. CASE CreateInsert(c) \/ ReleaseId(c) \/ ReleaseRemove(c)
    BY <2>6, OtherStepsKeep DEF CreateInsert, ReleaseId, ReleaseRemove, Crash
  <2>7. ASSUME NEW p \in Providers, NEW i \in Ids,
               CreateId(c, p, i) \/ AllocRemoteFails(c, p, i) \/ AllocRemoteReplyFails(c, p, i)
        PROVE  Holds' = Holds
    BY <2>7, OtherStepsKeep DEF CreateId, AllocRemoteFails, AllocRemoteReplyFails, Crash
  <2>8. ASSUME NEW i \in Ids, UseLost(c, i) PROVE Holds' = Holds
    BY <2>8, OtherStepsKeep DEF UseLost, Crash
  <2> QED BY <1>2, <2>2, <2>3, <2>4, <2>5, <2>6, <2>7, <2>8 DEF ConsumerNext
<1>3. ASSUME NEW p \in Providers, ProviderNext(p) PROVE [Names!HandlesNext]_Holds
  <2>1. ASSUME NEW i \in Ids, Names!Grant(p, i) \/ Names!Drop(p, i)
        PROVE  Names!HandlesNext
    BY <2>1 DEF Names!HandlesNext, Threads
  <2>2. ASSUME NEW i \in Ids, DestroyResource(p, i) PROVE Names!HandlesNext
    BY <2>1, <2>2, DestroyDrops
  <2>3. CASE RegisterInsert(p)
    <3>1. CASE Crash("create")
      BY <3>1, OtherStepsKeep DEF Crash
    <3>2. CASE ~Crash("create")
      BY <2>1, <2>3, <3>2, RegisterGrants
    <3> QED BY <3>1, <3>2
  <2>4. ASSUME NEW i \in Ids, RegisterId(p, i) PROVE Holds' = Holds
    BY <2>4, OtherStepsKeep DEF RegisterId
  <2>5. CASE ProviderLeaves(p) \/ ProviderFreed(p)
    BY <2>5, OtherStepsKeep DEF ProviderLeaves, ProviderFreed
  <2> QED BY <1>3, <2>2, <2>3, <2>4, <2>5 DEF ProviderNext
<1> QED BY <1>1, <1>2, <1>3 DEF Next

\* For any number of parties and ids: no name is given out while anybody holds
\* it, through every reuse of ids, lost provider and departed consumer.
THEOREM TableRefines == Spec => IsHandleSpace
<1>1. Init => Names!HandlesInit
  BY ObjectTableAssumption DEF Init, Names!HandlesInit, Holds, One, Threads
<1>2. IInv /\ [Next]_vars => [Names!HandlesNext]_Holds
  BY StepRefines
<1> QED BY <1>1, <1>2, Invariant, PTL DEF Spec, IsHandleSpace, Names!HandlesSpec
=============================================================================
