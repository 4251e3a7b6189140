------------------------------- MODULE QosaSem -------------------------------
(***************************************************************************)
(* The semaphore of system/platform/arm-cortex/common/osal/qosa_sem.c: a   *)
(* kernel semaphore with a shadow count kept under a mutex of its own.     *)
(* Tasks wait and release; the UART interrupt releases too when Isr is     *)
(* TRUE (at_client_rx_ind releases client->rx_notice), and there the mutex *)
(* cannot be taken (osMutexAcquire returns osErrorISR, which is ignored).  *)
(***************************************************************************)
EXTENDS Integers, FiniteSets

CONSTANTS
    Waiters,        \* tasks that call qosa_sem_wait
    Releasers,      \* tasks that call qosa_sem_release
    Isr,            \* whether an interrupt handler releases it as well
    Quiet,          \* places of a task at which that interrupt does not come
    InitialCount,   \* argument of qosa_sem_create
    SemMax,         \* tokens of the kernel semaphore: osSemaphoreNew(5, 0, NULL)
    MaxCount        \* hndl->maxCount, 0x7FFFFFFF: the u32_t range is twice that

Threads == Waiters \cup Releasers
NoThread == "none"

ASSUME ThreadsAssumption == IsFiniteSet(Threads) /\ NoThread \notin Threads
ASSUME CountAssumption ==
    /\ SemMax \in Nat /\ MaxCount \in Nat /\ InitialCount \in 0 .. MaxCount
    /\ SemMax + Cardinality(Threads) < MaxCount
ASSUME IsrAssumption == Isr \in BOOLEAN

VARIABLES
    tokens,     \* tokens in the kernel semaphore
    count,      \* hndl->count
    lock,       \* owner of hndl->lock
    pc,         \* where each task is in its call
    reg,        \* the register count is modified in
    ret         \* ret of each task's call

vars == <<tokens, count, lock, pc, reg, ret>>

\* u32_t arithmetic
MaxU32 == 2 * MaxCount + 1
U32 == 0 .. MaxU32
Inc(n) == IF n = MaxU32 THEN 0 ELSE n + 1
Dec(n) == IF n = 0 THEN MaxU32 ELSE n - 1

WaitSteps == {"acquire", "lock wait", "load wait", "store wait", "unlock wait"}
ReleaseSteps ==
    {"lock release", "test", "give", "skip", "load release", "store release", "unlock release"}
Steps == {"idle"} \cup WaitSteps \cup ReleaseSteps

Init ==
    /\ tokens = 0
    /\ count = InitialCount
    /\ lock = NoThread
    /\ pc = [t \in Threads |-> "idle"]
    /\ reg = [t \in Threads |-> 0]
    /\ ret = [t \in Threads |-> "ok"]

Goto(t, from, to) == pc[t] = from /\ pc' = [pc EXCEPT ![t] = to]
Return(t, r) == ret' = [ret EXCEPT ![t] = r]
TakeLock(t) == lock = NoThread /\ lock' = t

-----------------------------------------------------------------------------
(* qosa_sem_wait                                                            *)

Wait(t) ==
    /\ Goto(t, "idle", "acquire")
    /\ Return(t, "ok")
    /\ UNCHANGED <<tokens, count, lock, reg>>

Acquire(t) ==
    /\ Goto(t, "acquire", "lock wait")
    /\ tokens > 0
    /\ tokens' = tokens - 1
    /\ UNCHANGED <<count, lock, reg, ret>>

\* Every other result of osSemaphoreAcquire is reported as a timeout.
TimeOut(t) ==
    /\ Goto(t, "acquire", "lock wait")
    /\ tokens = 0
    /\ Return(t, "timeout")
    /\ UNCHANGED <<tokens, count, lock, reg>>

LockWait(t) ==
    /\ Goto(t, "lock wait", IF ret[t] = "ok" THEN "load wait" ELSE "unlock wait")
    /\ TakeLock(t)
    /\ UNCHANGED <<tokens, count, reg, ret>>

LoadWait(t) ==
    /\ Goto(t, "load wait", "store wait")
    /\ reg' = [reg EXCEPT ![t] = Dec(count)]
    /\ UNCHANGED <<tokens, count, lock, ret>>

Store(t, from, to) ==
    /\ Goto(t, from, to)
    /\ count' = reg[t]
    /\ reg' = [reg EXCEPT ![t] = 0]
    /\ UNCHANGED <<tokens, lock, ret>>

StoreWait(t) == Store(t, "store wait", "unlock wait")

-----------------------------------------------------------------------------
(* qosa_sem_release                                                         *)

Release(t) ==
    /\ Goto(t, "idle", "lock release")
    /\ Return(t, "ok")
    /\ UNCHANGED <<tokens, count, lock, reg>>

LockRelease(t) ==
    /\ Goto(t, "lock release", "test")
    /\ TakeLock(t)
    /\ UNCHANGED <<tokens, count, reg, ret>>

\* A count that is not below maxCount skips the kernel's semaphore, with ret
\* still 0, the value of QOSA_OK.
Test(t) ==
    /\ Goto(t, "test", IF count < MaxCount THEN "give" ELSE "skip")
    /\ UNCHANGED <<tokens, count, lock, reg, ret>>

Give(t) ==
    /\ Goto(t, "give", "load release")
    /\ tokens < SemMax
    /\ tokens' = tokens + 1
    /\ UNCHANGED <<count, lock, reg, ret>>

\* Mistake: the error of a full kernel semaphore is not looked at.
GiveFullCounts(t) ==
    /\ Goto(t, "give", "load release")
    /\ tokens = SemMax
    /\ UNCHANGED <<tokens, count, lock, reg, ret>>

GiveFull(t) ==
    /\ Goto(t, "give", "unlock release")
    /\ tokens = SemMax
    /\ Return(t, "error")
    /\ UNCHANGED <<tokens, count, lock, reg>>

LoadRelease(t) ==
    /\ \E from \in {"load release", "skip"} : Goto(t, from, "store release")
    /\ reg' = [reg EXCEPT ![t] = Inc(count)]
    /\ UNCHANGED <<tokens, count, lock, ret>>

StoreRelease(t) == Store(t, "store release", "unlock release")

Unlock(t) ==
    /\ \E from \in {"unlock wait", "unlock release"} : Goto(t, from, "idle")
    /\ lock' = NoThread
    /\ UNCHANGED <<tokens, count, reg, ret>>

\* The whole of qosa_sem_release in an interrupt handler: no task runs until
\* it is over, and it ran with or without the lock being free.
IsrRelease ==
    /\ Isr /\ \A t \in Threads : pc[t] \notin Quiet
    /\ LET offered == count < MaxCount
           full == tokens = SemMax
       IN  /\ tokens' = IF offered /\ ~full THEN tokens + 1 ELSE tokens
           /\ count' = IF offered /\ full THEN count ELSE Inc(count)
    /\ UNCHANGED <<lock, pc, reg, ret>>

WaitNext(t) ==
    \/ Wait(t) \/ Acquire(t) \/ TimeOut(t)
    \/ LockWait(t) \/ LoadWait(t) \/ StoreWait(t)

ReleaseNext(t) ==
    \/ Release(t) \/ LockRelease(t) \/ Test(t) \/ Give(t) \/ GiveFull(t)
    \/ LoadRelease(t) \/ StoreRelease(t)

Next ==
    \/ \E t \in Waiters : WaitNext(t)
    \/ \E t \in Releasers : ReleaseNext(t)
    \/ \E t \in Threads : Unlock(t)
    \/ IsrRelease

Spec == Init /\ [][Next]_vars

\* Bytes keep arriving, the scheduler runs every task, and equal-priority
\* waiters get the kernel's tokens and the mutex in turn.  A wait may be for
\* ever (QOSA_WAIT_FOREVER), so no fairness is asked of TimeOut.
LiveSpec ==
    /\ Spec
    /\ WF_vars(IsrRelease)
    /\ \A t \in Waiters :
         /\ WF_vars(LoadWait(t) \/ StoreWait(t) \/ Unlock(t))
         /\ SF_vars(Acquire(t)) /\ SF_vars(LockWait(t))

-----------------------------------------------------------------------------
(* Properties                                                               *)

\* The type invariant: the kernel's token count stays within what
\* osSemaphoreNew was given, count is a u32_t, each call is at one place.
TypeOK ==
    /\ tokens \in 0 .. SemMax
    /\ count \in U32
    /\ lock \in Threads \cup {NoThread}
    /\ pc \in [Threads -> Steps]
    /\ reg \in [Threads -> U32]
    /\ ret \in [Threads -> {"ok", "timeout", "error"}]

\* Waits that took a token and have not counted it, and releases that gave
\* one and have not.
Taking == {t \in Threads : \/ pc[t] = "lock wait" /\ ret[t] = "ok"
                           \/ pc[t] \in {"load wait", "store wait"}}
Giving == {t \in Threads : pc[t] \in {"load release", "store release"}}

\* The comment of qosa_sem.c:44: under the lock the count is correct however
\* the tasks interleave, and also with an interrupt that releases, as long as it
\* does not come between the load and the store of a task.  It differs from the kernel's tokens by exactly the
\* calls between their kernel call and their count-- or count++.
CountExact == count = tokens + Cardinality(Taking) - Cardinality(Giving)

\* The count a task is about to store is computed from the current one: no
\* other task's update is overwritten.
NoLostUpdate ==
    \A t \in Threads :
        /\ pc[t] = "store wait" => reg[t] = Dec(count)
        /\ pc[t] = "store release" => reg[t] = Inc(count)

\* As long as the kernel semaphore has room, qosa_sem_release is not led past
\* osSemaphoreRelease by a count that is wrong (the test of line 158): a
\* release that returns QOSA_OK woke its waiter.
ReleaseOpen == tokens < SemMax => count < MaxCount

\* Between calls, the count qosa_sem_get_cnt reports is the number of tokens.
CountAtRest == (\A t \in Threads : pc[t] = "idle") => count = tokens

\* What the caller of each task's call sees of it.
Progress(t) ==
    CASE pc[t] = "idle" -> "idle"
      [] pc[t] = "acquire" -> "waiting"
      [] pc[t] \in {"lock wait", "load wait", "store wait", "unlock wait"} ->
            IF ret[t] = "ok" THEN "took" ELSE "timedout"
      [] pc[t] \in {"lock release", "test", "give"} -> "releasing"
      [] OTHER -> IF ret[t] = "ok" THEN "gave" ELSE "refused"

Sem == INSTANCE Semaphore WITH state <- [t \in Threads |-> Progress(t)]

\* Seen by its callers, this is a counting semaphore: every QOSA_OK of a wait
\* took a token, every QOSA_OK of a release gave one, and a release fails
\* only when the kernel semaphore is full.
ImplementsSemaphore == Sem!Spec

\* A lost wake-up of the interrupt is not for ever: the releases that skip
\* the kernel's semaphore still count up, the count leaves the range at or
\* above maxCount, and as long as bytes keep arriving a waiting task runs.
WakesAgain == \A t \in Waiters : pc[t] = "acquire" ~> pc[t] = "lock wait"
=============================================================================
