------------------------------ MODULE RecMutex ------------------------------
(***************************************************************************)
(* What a recursive lock promises its callers, with no semaphore in sight: *)
(* at most one thread holds it, the holder may nest its holds, and it      *)
(* passes from one thread to the next only through the state "held by      *)
(* nobody".  Lock refines this module (Lock!Abstract).                     *)
(***************************************************************************)
EXTENDS Naturals

CONSTANTS Threads,  \* the threads that share the lock
          None      \* the holder of a free lock

VARIABLES holder,   \* the thread that holds the lock, or None
          nesting   \* how many of the holder's lock_wait calls are open

mutexVars == <<holder, nesting>>

MutexInit == holder = None /\ nesting = 0

Acquire(t) == /\ holder = None
              /\ holder' = t
              /\ nesting' = 1

Reenter(t) == /\ holder = t
              /\ nesting' = nesting + 1
              /\ UNCHANGED holder

Leave(t) == /\ holder = t
            /\ nesting > 1
            /\ nesting' = nesting - 1
            /\ UNCHANGED holder

Release(t) == /\ holder = t
              /\ nesting = 1
              /\ holder' = None
              /\ nesting' = 0

MutexNext == \E t \in Threads : Acquire(t) \/ Reenter(t) \/ Leave(t) \/ Release(t)

MutexSpec == MutexInit /\ [][MutexNext]_mutexVars
=============================================================================
