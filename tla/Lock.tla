-------------------------------- MODULE Lock --------------------------------
(***************************************************************************)
(* The recursive lock of common/lock.c: a binary semaphore, the owning     *)
(* thread and the owner's nesting count, at the granularity of one access  *)
(* to a shared field per step.  Every set, object and provider connection  *)
(* of the system is guarded by one of these.                               *)
(*                                                                         *)
(* The interesting part is the test in lock_wait: `owner` is read before   *)
(* the semaphore is taken, so it is read while other threads write it.     *)
(*                                                                         *)
(* One lock is modelled, from lock_create on.  Callers nest freely, post   *)
(* only what they waited for, and call lock_destroy at nesting depth 0, as *)
(* every caller in the repository does.  After free() the storage is gone  *)
(* and no step on it is defined: the behaviour ends there.                 *)
(***************************************************************************)
EXTENDS Naturals, FiniteSets

CONSTANTS Threads,     \* the threads that share the lock
          Destroyers,  \* the threads that may call lock_destroy
          None,        \* pthread_t 0: nobody
          MaxDepth     \* bound: how deep one thread nests lock_wait

ASSUME LockAssumption == /\ None \notin Threads
                         /\ Destroyers \subseteq Threads
                         /\ MaxDepth \in Nat \ {0}

VARIABLES sem,    \* value of lock->sem
          owner,  \* lock->owner
          cnt,    \* lock->cnt
          freed,  \* has free(lock) run?
          pc,     \* the next statement of each thread
          reg,    \* the value of cnt a thread has loaded in ++ or --
          op,     \* which function's lock_wait a thread is in
          depth   \* history: lock_wait calls a thread has completed, not yet posted

vars == <<sem, owner, cnt, freed, pc, reg, op, depth>>
shared == <<sem, owner, cnt, freed>>

WaitPcs == {"test0", "testTid", "down", "claim", "inc", "incStore"}
PostPcs == {"assert", "dec", "decStore", "clear", "up"}
Pcs == {"idle", "free", "done", "abort"} \union WaitPcs \union PostPcs

TypeOK ==
  /\ sem \in Nat
  /\ owner \in Threads \union {None}
  /\ cnt \in Nat
  /\ freed \in BOOLEAN
  /\ pc \in [Threads -> Pcs]
  /\ reg \in [Threads -> Nat]
  /\ op \in [Threads -> {"wait", "destroy"}]
  /\ depth \in [Threads -> Nat]

Init ==
  /\ sem = 1
  /\ owner = None
  /\ cnt = 0
  /\ freed = FALSE
  /\ pc = [t \in Threads |-> "idle"]
  /\ reg = [t \in Threads |-> 0]
  /\ op = [t \in Threads |-> "wait"]
  /\ depth = [t \in Threads |-> 0]

At(t, label) == ~freed /\ pc[t] = label
Goto(t, label) == pc' = [pc EXCEPT ![t] = label]

-----------------------------------------------------------------------------
(* lock_wait *)

Wait(t) ==
  /\ At(t, "idle")
  /\ depth[t] < MaxDepth
  /\ Goto(t, "test0")
  /\ op' = [op EXCEPT ![t] = "wait"]
  /\ UNCHANGED <<shared, reg, depth>>

\* lock->owner == 0: the first half of the test, outside the semaphore
Test0(t) ==
  /\ At(t, "test0")
  /\ Goto(t, IF owner = None THEN "down" ELSE "testTid")
  /\ UNCHANGED <<shared, reg, op, depth>>

\* mutant: any owner will do
TestTidAnyOwner(t) ==
  /\ At(t, "testTid")
  /\ Goto(t, IF owner = None THEN "down" ELSE "inc")
  /\ UNCHANGED <<shared, reg, op, depth>>

\* mutant: cnt++ only where the semaphore is taken
TestTidUncounted(t) ==
  /\ At(t, "testTid")
  /\ Goto(t, IF owner # t THEN "down" ELSE "idle")
  /\ depth' = [depth EXCEPT ![t] = IF owner # t THEN @ ELSE @ + 1]
  /\ UNCHANGED <<shared, reg, op>>

\* lock->owner != tid: a second load of owner, which may have changed since
TestTid(t) ==
  /\ At(t, "testTid")
  /\ Goto(t, IF owner # t THEN "down" ELSE "inc")
  /\ UNCHANGED <<shared, reg, op, depth>>

\* sem_wait
Down(t) ==
  /\ At(t, "down")
  /\ sem > 0
  /\ sem' = sem - 1
  /\ Goto(t, "claim")
  /\ UNCHANGED <<owner, cnt, freed, reg, op, depth>>

Claim(t) ==
  /\ At(t, "claim")
  /\ owner' = IF owner = None THEN t ELSE owner
  /\ Goto(t, "inc")
  /\ UNCHANGED <<sem, cnt, freed, reg, op, depth>>

\* cnt++ is a load and a store
IncLoad(t) ==
  /\ At(t, "inc")
  /\ reg' = [reg EXCEPT ![t] = cnt]
  /\ Goto(t, "incStore")
  /\ UNCHANGED <<shared, op, depth>>

\* the store ends lock_wait: its caller goes on, lock_destroy goes on to free
IncStore(t) ==
  /\ At(t, "incStore")
  /\ cnt' = reg[t] + 1
  /\ depth' = [depth EXCEPT ![t] = @ + 1]
  /\ Goto(t, IF op[t] = "destroy" THEN "free" ELSE "idle")
  /\ UNCHANGED <<sem, owner, freed, reg, op>>

-----------------------------------------------------------------------------
(* lock_post *)

Post(t) ==
  /\ At(t, "idle")
  /\ depth[t] > 0
  /\ Goto(t, "assert")
  /\ UNCHANGED <<shared, reg, op, depth>>

\* assert(lock->owner == tid)
AssertOwner(t) ==
  /\ At(t, "assert")
  /\ Goto(t, IF owner = t THEN "dec" ELSE "abort")
  /\ UNCHANGED <<shared, reg, op, depth>>

\* mutant: cnt is not read again for the decrement
DecLoadStale(t) ==
  /\ At(t, "dec")
  /\ Goto(t, "decStore")
  /\ UNCHANGED <<shared, reg, op, depth>>

DecLoad(t) ==
  /\ At(t, "dec")
  /\ reg' = [reg EXCEPT ![t] = cnt]
  /\ Goto(t, "decStore")
  /\ UNCHANGED <<shared, op, depth>>

\* mutant: every post gives the lock up
DecStoreGivesUp(t) ==
  /\ At(t, "decStore")
  /\ cnt' = reg[t] - 1
  /\ depth' = [depth EXCEPT ![t] = @ - 1]
  /\ Goto(t, "clear")
  /\ UNCHANGED <<sem, owner, freed, reg, op>>

DecStore(t) ==
  /\ At(t, "decStore")
  /\ cnt' = reg[t] - 1
  /\ depth' = [depth EXCEPT ![t] = @ - 1]
  /\ Goto(t, IF reg[t] = 1 THEN "clear" ELSE "idle")
  /\ UNCHANGED <<sem, owner, freed, reg, op>>

\* mutant: owner is left as it is
ClearOwnerNot(t) ==
  /\ At(t, "clear")
  /\ Goto(t, "up")
  /\ UNCHANGED <<shared, reg, op, depth>>

\* lock->owner = 0, before the semaphore is given back
ClearOwner(t) ==
  /\ At(t, "clear")
  /\ owner' = None
  /\ Goto(t, "up")
  /\ UNCHANGED <<sem, cnt, freed, reg, op, depth>>

\* mutant: the semaphore is not posted
UpNot(t) ==
  /\ At(t, "up")
  /\ Goto(t, "idle")
  /\ UNCHANGED <<shared, reg, op, depth>>

\* sem_post
Up(t) ==
  /\ At(t, "up")
  /\ sem' = sem + 1
  /\ Goto(t, "idle")
  /\ UNCHANGED <<owner, cnt, freed, reg, op, depth>>

-----------------------------------------------------------------------------
(* lock_destroy: a lock_wait of its own, then free *)

\* mutant: lock_destroy does not wait for the lock
DestroyAtOnce(t) ==
  /\ t \in Destroyers
  /\ At(t, "idle")
  /\ depth[t] = 0
  /\ Goto(t, "free")
  /\ UNCHANGED <<shared, reg, op, depth>>

Destroy(t) ==
  /\ t \in Destroyers
  /\ At(t, "idle")
  /\ depth[t] = 0
  /\ Goto(t, "test0")
  /\ op' = [op EXCEPT ![t] = "destroy"]
  /\ UNCHANGED <<shared, reg, depth>>

Free(t) ==
  /\ At(t, "free")
  /\ freed' = TRUE
  /\ Goto(t, "done")
  /\ UNCHANGED <<sem, owner, cnt, reg, op, depth>>

-----------------------------------------------------------------------------

\* the statements of lock_wait, lock_post and lock_destroy once called
Step(t) ==
  \/ Test0(t) \/ TestTid(t) \/ Down(t) \/ Claim(t) \/ IncLoad(t) \/ IncStore(t)
  \/ AssertOwner(t) \/ DecLoad(t) \/ DecStore(t) \/ ClearOwner(t) \/ Up(t)
  \/ Free(t)

ThreadNext(t) == Wait(t) \/ Post(t) \/ Destroy(t) \/ Step(t)

Next == \E t \in Threads : ThreadNext(t)

Spec == Init /\ [][Next]_vars

\* The scheduler runs every thread that can run (WF of Step), and callers do
\* not hold the lock for ever: one that is back at the same depth again and
\* again posts in the end (SF of Post at that depth).  sem_wait promises no
\* order among its waiters and none is assumed.
CallersPost ==
  \A t \in Threads, d \in 1..MaxDepth : SF_vars(depth[t] = d /\ Post(t))
FairSpec == Spec /\ (\A t \in Threads : WF_vars(Step(t))) /\ CallersPost

-----------------------------------------------------------------------------
(* Properties *)

\* Between its sem_wait and its sem_post a thread is inside the lock.
Inside(t) ==
  \/ depth[t] > 0
  \/ pc[t] \in {"claim", "clear", "up"}
  \/ pc[t] \in {"inc", "incStore"} /\ depth[t] = 0

\* At most one thread is inside the lock, however the unlocked reads of owner
\* in lock_wait interleave with the holder's writes (lock.c:85-91).
MutualExclusion == \A t, u \in Threads : Inside(t) /\ Inside(u) => t = u

\* The unlocked test of lock_wait is sound: whatever another thread is doing to
\* owner, a thread reads its own id exactly when it holds the lock already, so
\* it neither skips the semaphore without holding it nor waits for itself.
RacyTestIsSound ==
  \A t \in Threads : pc[t] \in {"test0", "testTid"} => (owner = t <=> depth[t] > 0)

\* cnt is the number of open lock_wait calls of the thread inside, and 0 when
\* there is none: no ++ or -- of it is lost, so the semaphore is posted by the
\* post that matches the outermost wait.
CountExact ==
  /\ \A t \in Threads : Inside(t) => cnt = depth[t]
  /\ (\A t \in Threads : ~Inside(t)) => cnt = 0

\* assert(lock->owner == tid) in lock_post (lock.c:101) never fires.
AssertNeverFires == \A t \in Threads : pc[t] # "abort"

\* lock_destroy frees the lock only once every other thread has left it: those
\* still in lock_post have made their last access, and cnt is 1 (the message
\* "you destroy a locked lock", lock.c:65-70, is never due).
FreeOnlyWhenUnheld ==
  \A t \in Threads : pc[t] \in {"free", "done"} =>
    /\ cnt = 1
    /\ \A u \in Threads \ {t} :
         depth[u] = 0 /\ pc[u] \in {"idle", "test0", "testTid", "down"}

\* The lock is passed on: when a thread waits at the semaphore, some thread
\* gets it, unless the lock is destroyed.  (Which thread is not promised:
\* sem_wait is not a queue.)
SomeWaiterGetsIn ==
  (\E t \in Threads : pc[t] = "down") ~> (freed \/ \E t \in Threads : pc[t] = "claim")

\* Seen from outside, the semaphore, owner and count are a recursive mutex:
\* sem_wait acquires it, the sem_post of the outermost lock_post releases it.
Holder == IF \E t \in Threads : Inside(t)
          THEN CHOOSE t \in Threads : Inside(t)
          ELSE None
Nesting == IF Holder = None THEN 0 ELSE IF cnt = 0 THEN 1 ELSE cnt

Abstract == INSTANCE RecMutex WITH holder <- Holder, nesting <- Nesting

\* lock_wait and lock_post implement the recursive mutex of RecMutex.
IsRecursiveMutex == Abstract!MutexSpec
=============================================================================
