----------------------------- MODULE LockProofs -----------------------------
(***************************************************************************)
(* Proofs about Lock, for every set of threads and every nesting bound.    *)
(***************************************************************************)
EXTENDS Lock, TLAPS

(***************************************************************************)
(* The inductive invariant.  MutualExclusion alone is not inductive: that  *)
(* nobody is inside when a thread passes sem_wait follows from the value   *)
(* of the semaphore, and that a thread which skips the semaphore is inside *)
(* follows from what owner says at that moment.                            *)
(***************************************************************************)

\* the semaphore is 1 or 0, and 1 only when nobody is inside
SemInv == /\ sem \in {0, 1}
          /\ sem = 1 => \A t \in Threads : ~Inside(t)

\* the thread inside is in owner, except just after sem_wait and just before
\* sem_post
OwnerInv ==
  /\ \A t \in Threads : owner = t <=> Inside(t) /\ pc[t] \notin {"claim", "up"}

\* where a thread can be at each nesting depth
PcInv == \A t \in Threads :
  /\ pc[t] \in {"down", "claim", "clear", "up"} => depth[t] = 0
  /\ pc[t] \in {"assert", "dec", "decStore"} => depth[t] > 0
  /\ op[t] = "destroy" /\ pc[t] \in {"test0", "testTid", "inc", "incStore"} => depth[t] = 0
  /\ pc[t] \in {"free", "done"} => depth[t] = 1
  /\ pc[t] # "abort"

\* a register holds the current count between the load and the store
RegInv == \A t \in Threads : pc[t] \in {"incStore", "decStore"} => reg[t] = cnt

IInv == TypeOK /\ MutualExclusion /\ SemInv /\ OwnerInv /\ PcInv /\ RegInv /\ CountExact

\* lock_create leaves the lock free and every thread outside
LEMMA InitIInv == ASSUME Init PROVE IInv
<1>1. TypeOK
  BY DEF Init, TypeOK, Pcs
<1>2. \A t \in Threads : ~Inside(t) /\ owner # t /\ pc[t] = "idle"
  BY LockAssumption DEF Init, Inside
<1>3. MutualExclusion /\ SemInv /\ OwnerInv /\ RegInv /\ CountExact
  BY <1>2 DEF Init, MutualExclusion, SemInv, OwnerInv, RegInv, CountExact
<1>4. PcInv
  BY <1>2 DEF PcInv
<1> QED BY <1>1, <1>3, <1>4 DEF IInv

\* no statement of lock.c breaks the invariant: one case per action
LEMMA StepIInv == ASSUME IInv, [Next]_vars PROVE IInv'
<1> USE LockAssumption DEF IInv, TypeOK, MutualExclusion, SemInv, OwnerInv, PcInv, RegInv,
      CountExact, Inside, Pcs, WaitPcs, PostPcs, At, Goto, shared
<1>1. SUFFICES ASSUME NEW t \in Threads, ThreadNext(t) PROVE IInv'
  <2>1. CASE UNCHANGED vars
    BY <2>1 DEF vars
  <2>2. QED BY <1>1, <2>1 DEF Next
<1>2. CASE Wait(t)
  BY <1>2 DEF Wait
<1>3. CASE Test0(t)
  BY <1>3 DEF Test0
<1>4. CASE TestTid(t)
  BY <1>4 DEF TestTid
<1>5. CASE Down(t)
  BY <1>5 DEF Down
<1>6. CASE Claim(t)
  BY <1>6 DEF Claim
<1>7. CASE IncLoad(t)
  BY <1>7 DEF IncLoad
<1>8. CASE IncStore(t)
  BY <1>8 DEF IncStore
<1>9. CASE Post(t)
  BY <1>9 DEF Post
<1>10. CASE AssertOwner(t)
  BY <1>10 DEF AssertOwner
<1>11. CASE DecLoad(t)
  BY <1>11 DEF DecLoad
<1>12. CASE DecStore(t)
  BY <1>12 DEF DecStore
<1>13. CASE ClearOwner(t)
  BY <1>13 DEF ClearOwner
<1>14. CASE Up(t)
  BY <1>14 DEF Up
<1>15. CASE Destroy(t)
  BY <1>15 DEF Destroy
<1>16. CASE Free(t)
  BY <1>16 DEF Free
<1> QED BY <1>1, <1>2, <1>3, <1>4, <1>5, <1>6, <1>7, <1>8, <1>9, <1>10, <1>11, <1>12, <1>13,
           <1>14, <1>15, <1>16 DEF ThreadNext, Step

THEOREM Invariant == Spec => []IInv
<1>1. Init => IInv
  BY InitIInv
<1>2. IInv /\ [Next]_vars => IInv'
  BY StepIInv
<1> QED BY <1>1, <1>2, PTL DEF Spec

-----------------------------------------------------------------------------

\* Every field and program counter keeps its type.
THEOREM TypeCorrect == Spec => []TypeOK
<1>1. IInv => TypeOK
  BY DEF IInv
<1> QED BY <1>1, Invariant, PTL

\* For any number of threads, at most one is between its sem_wait and its
\* sem_post.
THEOREM LockExcludes == Spec => []MutualExclusion
<1>1. IInv => MutualExclusion
  BY DEF IInv
<1> QED BY <1>1, Invariant, PTL

\* The unlocked test of owner in lock_wait tells a thread the truth about itself.
THEOREM RacyTestSound == Spec => []RacyTestIsSound
<1>1. IInv => RacyTestIsSound
  BY DEF IInv, OwnerInv, Inside, RacyTestIsSound
<1> QED BY <1>1, Invariant, PTL

\* No increment or decrement of cnt is lost.
THEOREM NoLostCount == Spec => []CountExact
<1>1. IInv => CountExact
  BY DEF IInv
<1> QED BY <1>1, Invariant, PTL

\* The assertion of lock_post holds.
THEOREM AssertionHolds == Spec => []AssertNeverFires
<1>1. IInv => AssertNeverFires
  BY DEF IInv, PcInv, AssertNeverFires
<1> QED BY <1>1, Invariant, PTL

\* lock_destroy frees a lock no other thread is inside of.
THEOREM DestroySafe == Spec => []FreeOnlyWhenUnheld
<1>1. ASSUME IInv PROVE FreeOnlyWhenUnheld
  <2>1. SUFFICES ASSUME NEW t \in Threads, pc[t] \in {"free", "done"}
                 PROVE /\ cnt = 1
                       /\ \A u \in Threads \ {t} :
                            depth[u] = 0 /\ pc[u] \in {"idle", "test0", "testTid", "down"}
    BY DEF FreeOnlyWhenUnheld
  <2>2. depth[t] = 1 /\ Inside(t)
    BY <1>1, <2>1 DEF IInv, PcInv, Inside
  <2>3. cnt = 1
    BY <1>1, <2>2 DEF IInv, CountExact
  <2>4. ASSUME NEW u \in Threads \ {t}
        PROVE depth[u] = 0 /\ pc[u] \in {"idle", "test0", "testTid", "down"}
    <3>1. ~Inside(u)
      BY <1>1, <2>2 DEF IInv, MutualExclusion
    <3>2. depth[u] = 0
      BY <1>1, <3>1 DEF IInv, TypeOK, Inside
    <3> QED BY <1>1, <3>1, <3>2 DEF IInv, TypeOK, PcInv, Inside, Pcs, WaitPcs, PostPcs
  <2> QED BY <2>3, <2>4
<1>2. IInv => FreeOnlyWhenUnheld
  BY <1>1
<1> QED BY <1>2, Invariant, PTL

-----------------------------------------------------------------------------
(* The refinement: Lock implements RecMutex.                               *)

\* The mapped holder is the thread inside, None when there is none.
LEMMA HolderIsInside ==
  ASSUME MutualExclusion
  PROVE  /\ \A t \in Threads : Inside(t) => Holder = t
         /\ (\A t \in Threads : ~Inside(t)) => Holder = None
BY DEF MutualExclusion, Holder

\* The same fact of the next state.
LEMMA HolderIsInsideNext ==
  ASSUME MutualExclusion'
  PROVE  /\ \A t \in Threads : Inside(t)' => Holder' = t
         /\ (\A t \in Threads : ~Inside(t)') => Holder' = None
BY DEF MutualExclusion, Holder

\* A step of thread t moves no other thread in or out.
LEMMA OthersStay ==
  ASSUME IInv, NEW t \in Threads, ThreadNext(t), NEW u \in Threads \ {t}
  PROVE  Inside(u)' <=> Inside(u)
BY DEF IInv, TypeOK, Inside, ThreadNext, Step, At, Goto, shared, Wait, Test0, TestTid, Down,
   Claim, IncLoad, IncStore, Post, AssertOwner, DecLoad, DecStore, ClearOwner, Up, Destroy, Free

\* A step of t that leaves cnt alone and t where it was, inside or outside, is a
\* stutter of the mutex.
LEMMA Stutter ==
  ASSUME IInv, IInv', NEW t \in Threads, ThreadNext(t),
         Inside(t)' <=> Inside(t), cnt' = cnt
  PROVE  UNCHANGED <<Holder, Nesting>>
<1>1. MutualExclusion /\ MutualExclusion'
  BY DEF IInv
<1>2. \A u \in Threads : Inside(u)' <=> Inside(u)
  BY OthersStay
<1>3. Holder' = Holder
  <2>1. CASE \E u \in Threads : Inside(u)
    BY <1>1, <1>2, <2>1, HolderIsInside, HolderIsInsideNext
  <2>2. CASE \A u \in Threads : ~Inside(u)
    BY <1>1, <1>2, <2>2, HolderIsInside, HolderIsInsideNext
  <2> QED BY <2>1, <2>2
<1> QED BY <1>3 DEF Nesting

\* Every step of lock.c is a step of the mutex, or one it does not see.
LEMMA StepRefines ==
  ASSUME IInv, IInv', NEW t \in Threads, ThreadNext(t)
  PROVE  \/ Abstract!Acquire(t) \/ Abstract!Reenter(t) \/ Abstract!Leave(t) \/ Abstract!Release(t)
         \/ UNCHANGED <<Holder, Nesting>>
<1> USE LockAssumption DEF At, Goto, shared
<1>1. MutualExclusion /\ MutualExclusion'
  BY DEF IInv
<1>2. CASE Down(t)
  <2>1. \A u \in Threads : ~Inside(u)
    BY <1>2 DEF IInv, SemInv, Down
  <2>2. Holder = None /\ cnt = 0
    BY <1>1, <2>1, HolderIsInside DEF IInv, CountExact
  <2>3. Inside(t)' /\ cnt' = 0
    BY <1>2, <2>2 DEF Down, Inside, IInv, TypeOK
  <2>4. Holder' = t
    BY <1>1, <2>3, HolderIsInsideNext
  <2> QED BY <2>2, <2>3, <2>4 DEF Abstract!Acquire, Nesting
<1>3. CASE IncStore(t)
  <2>1. Inside(t) /\ Inside(t)' /\ cnt' = cnt + 1 /\ cnt \in Nat
    BY <1>3 DEF IncStore, Inside, IInv, TypeOK, RegInv
  <2>2. Holder = t /\ Holder' = t
    BY <1>1, <2>1, HolderIsInside, HolderIsInsideNext
  <2>3. CASE cnt = 0
    BY <2>1, <2>2, <2>3 DEF Nesting
  <2>4. CASE cnt > 0
    BY <2>1, <2>2, <2>4 DEF Nesting, Abstract!Reenter
  <2> QED BY <2>1, <2>3, <2>4
<1>4. CASE DecStore(t)
  <2>1. Inside(t) /\ Inside(t)' /\ cnt > 0 /\ cnt' = cnt - 1 /\ cnt \in Nat
    BY <1>4 DEF DecStore, Inside, IInv, TypeOK, PcInv, RegInv, CountExact
  <2>2. Holder = t /\ Holder' = t
    BY <1>1, <2>1, HolderIsInside, HolderIsInsideNext
  <2>3. CASE cnt = 1
    BY <2>1, <2>2, <2>3 DEF Nesting
  <2>4. CASE cnt > 1
    BY <2>1, <2>2, <2>4 DEF Nesting, Abstract!Leave
  <2> QED BY <2>1, <2>3, <2>4
<1>5. CASE Up(t)
  <2>1. Inside(t) /\ ~Inside(t)' /\ cnt = 0
    BY <1>5 DEF Up, Inside, IInv, TypeOK, PcInv, CountExact
  <2>2. \A u \in Threads : ~Inside(u)'
    BY <1>1, <2>1, OthersStay DEF MutualExclusion
  <2>3. Holder = t /\ Holder' = None
    BY <1>1, <2>1, <2>2, HolderIsInside, HolderIsInsideNext
  <2> QED BY <2>1, <2>3 DEF Nesting, Abstract!Release
<1>6. CASE Wait(t) \/ Test0(t) \/ TestTid(t) \/ Claim(t) \/ IncLoad(t) \/ Post(t)
           \/ AssertOwner(t) \/ DecLoad(t) \/ ClearOwner(t) \/ Destroy(t) \/ Free(t)
  <2>1. cnt' = cnt
    BY <1>6 DEF Wait, Test0, TestTid, Claim, IncLoad, Post, AssertOwner, DecLoad, ClearOwner,
                Destroy, Free
  <2>2. Inside(t)' <=> Inside(t)
    BY <1>6 DEF Wait, Test0, TestTid, Claim, IncLoad, Post, AssertOwner, DecLoad, ClearOwner,
                Destroy, Free, Inside, IInv, TypeOK, PcInv, OwnerInv
  <2> QED BY <2>1, <2>2, Stutter
<1> QED BY <1>2, <1>3, <1>4, <1>5, <1>6 DEF ThreadNext, Step

\* lock_wait and lock_post implement a recursive mutex for every number of
\* threads and every nesting depth.
THEOREM LockRefines == Spec => IsRecursiveMutex
<1>1. Init => Abstract!MutexInit
  <2>1. ASSUME Init PROVE Abstract!MutexInit
    <3>1. MutualExclusion /\ \A t \in Threads : ~Inside(t)
      BY <2>1 DEF Init, Inside, MutualExclusion
    <3> QED BY <3>1, HolderIsInside DEF Abstract!MutexInit, Nesting
  <2> QED BY <2>1
<1>2. IInv /\ IInv' /\ [Next]_vars => [Abstract!MutexNext]_Abstract!mutexVars
  <2>1. ASSUME IInv, IInv', [Next]_vars PROVE [Abstract!MutexNext]_Abstract!mutexVars
    <3>1. CASE UNCHANGED vars
      BY <3>1 DEF vars, Abstract!mutexVars, Holder, Nesting, Inside
    <3>2. CASE Next
      BY <2>1, <3>2, StepRefines DEF Next, Abstract!MutexNext, Abstract!mutexVars
    <3> QED BY <2>1, <3>1, <3>2
  <2> QED BY <2>1
<1> QED BY <1>1, <1>2, Invariant, PTL DEF Spec, IsRecursiveMutex, Abstract!MutexSpec
=============================================================================
