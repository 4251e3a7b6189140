---------------------------- MODULE QosaSemProofs ----------------------------
(***************************************************************************)
(* Proofs about QosaSem for any number of tasks, any maximum and any       *)
(* maxCount.  TypeOK holds whatever the interrupt does.  If it does not    *)
(* come between the load and the store of a task's update, the count is    *)
(* exact, and the pair of kernel semaphore and count implements the        *)
(* counting semaphore of Semaphore.                                        *)
(***************************************************************************)
EXTENDS QosaSem, FiniteSetTheorems, TLAPS

\* No interrupt comes between the load and the store of count (or none at all).
Undisturbed == Isr => {"store wait", "store release"} \subseteq Quiet

LEMMA SemMaxType == SemMax \in Nat
BY CountAssumption

LEMMA TokenType ==
    \A n \in 0 .. SemMax :
        /\ n > 0 => n - 1 \in 0 .. SemMax
        /\ n < SemMax => n + 1 \in 0 .. SemMax
BY SemMaxType

LEMMA U32Type ==
    /\ 0 \in U32 /\ InitialCount \in U32
    /\ \A n \in U32 : Inc(n) \in U32 /\ Dec(n) \in U32
BY CountAssumption DEF U32, MaxU32, Inc, Dec

-----------------------------------------------------------------------------
(* Type correctness                                                         *)

LEMMA TypeOKWait ==
    ASSUME TypeOK, NEW t \in Threads, WaitNext(t)
    PROVE  TypeOK'
<1> USE SemMaxType, U32Type DEF TypeOK, Goto, Return, TakeLock, Steps, WaitSteps, ReleaseSteps
<1>1. CASE Wait(t)
  BY <1>1 DEF Wait
<1>2. CASE Acquire(t)
  BY <1>2, TokenType DEF Acquire
<1>3. CASE TimeOut(t)
  BY <1>3 DEF TimeOut
<1>4. CASE LockWait(t)
  BY <1>4 DEF LockWait
<1>5. CASE LoadWait(t)
  BY <1>5 DEF LoadWait
<1>6. CASE StoreWait(t)
  BY <1>6 DEF StoreWait, Store
<1> QED
  BY <1>1, <1>2, <1>3, <1>4, <1>5, <1>6 DEF WaitNext

LEMMA TypeOKRelease ==
    ASSUME TypeOK, NEW t \in Threads, ReleaseNext(t)
    PROVE  TypeOK'
<1> USE SemMaxType, U32Type DEF TypeOK, Goto, Return, TakeLock, Steps, WaitSteps, ReleaseSteps
<1>1. CASE Release(t)
  BY <1>1 DEF Release
<1>2. CASE LockRelease(t)
  BY <1>2 DEF LockRelease
<1>3. CASE Test(t)
  BY <1>3 DEF Test
<1>4. CASE Give(t)
  BY <1>4, TokenType DEF Give
<1>5. CASE GiveFull(t)
  BY <1>5 DEF GiveFull
<1>6. CASE LoadRelease(t)
  BY <1>6 DEF LoadRelease
<1>7. CASE StoreRelease(t)
  BY <1>7 DEF StoreRelease, Store
<1> QED
  BY <1>1, <1>2, <1>3, <1>4, <1>5, <1>6, <1>7 DEF ReleaseNext

LEMMA TypeOKNext == TypeOK /\ [Next]_vars => TypeOK'
<1> SUFFICES ASSUME TypeOK, [Next]_vars PROVE TypeOK'
  OBVIOUS
<1>1. CASE \E t \in Waiters : WaitNext(t)
  BY <1>1, TypeOKWait DEF Threads
<1>2. CASE \E t \in Releasers : ReleaseNext(t)
  BY <1>2, TypeOKRelease DEF Threads
<1>3. CASE \E t \in Threads : Unlock(t)
  BY <1>3 DEF TypeOK, Unlock, Goto, Steps, WaitSteps, ReleaseSteps
<1>4. CASE IsrRelease
  BY <1>4, CountAssumption, U32Type DEF TypeOK, IsrRelease
<1>5. CASE UNCHANGED vars
  BY <1>5 DEF TypeOK, vars
<1> QED
  BY <1>1, <1>2, <1>3, <1>4, <1>5 DEF Next

\* The token count never exceeds the kernel's maximum and the count stays a
\* u32_t, with or without the interrupt (TypeOK).
THEOREM TypeCorrect == Spec => []TypeOK
<1>1. Init => TypeOK
  BY CountAssumption, U32Type DEF Init, TypeOK, Steps
<1> QED
  BY <1>1, TypeOKNext, PTL DEF Spec

-----------------------------------------------------------------------------
(* The inductive invariant.  CountExact alone is not inductive: a store     *)
(* must be of the current count (NoLostUpdate), which needs that the task   *)
(* between its load and its store holds the lock (Locked), and ret must     *)
(* tell a wait that took a token from one that did not (Succeeding).        *)

LockedSteps ==
    {"load wait", "store wait", "unlock wait",
     "test", "give", "load release", "store release", "unlock release"}
Locked == \A t \in Threads : pc[t] \in LockedSteps => lock = t

SucceedingSteps ==
    {"acquire", "load wait", "store wait",
     "lock release", "test", "give", "load release", "store release"}
Succeeding == \A t \in Threads : pc[t] \in SucceedingSteps => ret[t] = "ok"

NeverSkips == \A t \in Threads : pc[t] # "skip"

IInv == TypeOK /\ Locked /\ Succeeding /\ NeverSkips /\ NoLostUpdate /\ CountExact

\* How many calls are between the kernel's semaphore and the count.
LEMMA InFlight ==
    /\ IsFiniteSet(Taking) /\ Cardinality(Taking) \in Nat
    /\ IsFiniteSet(Giving) /\ Cardinality(Giving) \in Nat
    /\ Cardinality(Taking) =< Cardinality(Threads)
    /\ Cardinality(Threads) \in Nat
<1>1. Taking \in SUBSET Threads /\ Giving \in SUBSET Threads
  BY DEF Taking, Giving
<1> QED
  BY <1>1, ThreadsAssumption, FS_Subset, FS_CardinalityType

\* The count stays far below maxCount: nothing wraps and no release skips.
LEMMA CountBound ==
    ASSUME TypeOK, CountExact
    PROVE  count < MaxCount
BY InFlight, CountAssumption DEF TypeOK, CountExact

\* A task in a wait's store has a token to count off.
LEMMA TakingNotEmpty ==
    ASSUME NEW t \in Taking
    PROVE  Cardinality(Taking) >= 1
BY InFlight, FS_EmptySet

LEMMA LockedInv ==
    ASSUME IInv, [Next]_vars, Undisturbed
    PROVE  Locked'
<1> USE DEF IInv, TypeOK, Locked, LockedSteps, NeverSkips, Goto, Return, TakeLock
<1>1. ASSUME NEW t \in Threads, WaitNext(t) PROVE Locked'
  BY <1>1, ThreadsAssumption
     DEF WaitNext, Wait, Acquire, TimeOut, LockWait, LoadWait, StoreWait, Store
<1>2. ASSUME NEW t \in Threads, ReleaseNext(t) PROVE Locked'
  <2>1. CASE Release(t) \/ LockRelease(t)
    BY <2>1, ThreadsAssumption DEF Release, LockRelease
  <2>2. CASE Test(t)
    BY <2>2, CountBound DEF Test
  <2>3. CASE Give(t) \/ GiveFull(t) \/ LoadRelease(t) \/ StoreRelease(t)
    BY <2>3 DEF Give, GiveFull, LoadRelease, StoreRelease, Store
  <2> QED
    BY <1>2, <2>1, <2>2, <2>3 DEF ReleaseNext
<1>3. ASSUME NEW t \in Threads, Unlock(t) PROVE Locked'
  BY <1>3 DEF Unlock
<1>4. CASE UNCHANGED vars
  BY <1>4 DEF vars
<1>5. CASE IsrRelease
  BY <1>5 DEF IsrRelease
<1> QED
  BY <1>1, <1>2, <1>3, <1>4, <1>5 DEF Next, Threads

LEMMA SucceedingInv ==
    ASSUME IInv, [Next]_vars, Undisturbed
    PROVE  Succeeding'
<1> USE DEF IInv, TypeOK, Succeeding, SucceedingSteps, NeverSkips, Goto, Return, TakeLock
<1>1. ASSUME NEW t \in Threads, WaitNext(t) PROVE Succeeding'
  BY <1>1 DEF WaitNext, Wait, Acquire, TimeOut, LockWait, LoadWait, StoreWait, Store
<1>2. ASSUME NEW t \in Threads, ReleaseNext(t) PROVE Succeeding'
  BY <1>2
     DEF ReleaseNext, Release, LockRelease, Test, Give, GiveFull, LoadRelease, StoreRelease, Store
<1>3. ASSUME NEW t \in Threads, Unlock(t) PROVE Succeeding'
  BY <1>3 DEF Unlock
<1>4. CASE UNCHANGED vars
  BY <1>4 DEF vars
<1>5. CASE IsrRelease
  BY <1>5 DEF IsrRelease
<1> QED
  BY <1>1, <1>2, <1>3, <1>4, <1>5 DEF Next, Threads

LEMMA NeverSkipsInv ==
    ASSUME IInv, [Next]_vars, Undisturbed
    PROVE  NeverSkips'
<1> USE DEF IInv, TypeOK, NeverSkips, Goto, Return, TakeLock
<1>1. ASSUME NEW t \in Threads, WaitNext(t) PROVE NeverSkips'
  BY <1>1 DEF WaitNext, Wait, Acquire, TimeOut, LockWait, LoadWait, StoreWait, Store
<1>2. ASSUME NEW t \in Threads, ReleaseNext(t) PROVE NeverSkips'
  BY <1>2, CountBound
     DEF ReleaseNext, Release, LockRelease, Test, Give, GiveFull, LoadRelease, StoreRelease, Store
<1>3. ASSUME NEW t \in Threads, Unlock(t) PROVE NeverSkips'
  BY <1>3 DEF Unlock
<1>4. CASE UNCHANGED vars
  BY <1>4 DEF vars
<1>5. CASE IsrRelease
  BY <1>5 DEF IsrRelease
<1> QED
  BY <1>1, <1>2, <1>3, <1>4, <1>5 DEF Next, Threads

LEMMA NoLostUpdateInv ==
    ASSUME IInv, [Next]_vars, Undisturbed
    PROVE  NoLostUpdate'
<1> USE DEF IInv, TypeOK, NoLostUpdate, NeverSkips, Goto, Return, TakeLock
<1>1. ASSUME NEW t \in Threads, WaitNext(t) PROVE NoLostUpdate'
  <2>1. CASE StoreWait(t)
    BY <2>1 DEF StoreWait, Store, Locked, LockedSteps
  <2> QED
    BY <1>1, <2>1 DEF WaitNext, Wait, Acquire, TimeOut, LockWait, LoadWait
<1>2. ASSUME NEW t \in Threads, ReleaseNext(t) PROVE NoLostUpdate'
  <2>1. CASE StoreRelease(t)
    BY <2>1 DEF StoreRelease, Store, Locked, LockedSteps
  <2> QED
    BY <1>2, <2>1 DEF ReleaseNext, Release, LockRelease, Test, Give, GiveFull, LoadRelease
<1>3. ASSUME NEW t \in Threads, Unlock(t) PROVE NoLostUpdate'
  BY <1>3 DEF Unlock
<1>4. CASE UNCHANGED vars
  BY <1>4 DEF vars
<1>5. CASE IsrRelease
  BY <1>5 DEF IsrRelease, Undisturbed, Threads
<1> QED
  BY <1>1, <1>2, <1>3, <1>4, <1>5 DEF Next, Threads

\* A step that moves no call across its kernel call or its store.
LEMMA CountUndisturbed ==
    ASSUME CountExact, Taking' = Taking, Giving' = Giving, UNCHANGED <<tokens, count>>
    PROVE  CountExact'
BY DEF CountExact

LEMMA CountExactWait ==
    ASSUME IInv, NEW t \in Threads, WaitNext(t)
    PROVE  CountExact'
<1> USE DEF IInv, TypeOK, Goto, Return, TakeLock
<1>1. CASE Wait(t) \/ TimeOut(t) \/ LockWait(t) \/ LoadWait(t)
  <2>1. Taking' = Taking
    BY <1>1 DEF Wait, TimeOut, LockWait, LoadWait, Taking
  <2>2. Giving' = Giving
    BY <1>1 DEF Wait, TimeOut, LockWait, LoadWait, Giving
  <2>3. UNCHANGED <<tokens, count>>
    BY <1>1 DEF Wait, TimeOut, LockWait, LoadWait
  <2> QED
    BY <2>1, <2>2, <2>3, CountUndisturbed
<1>2. CASE Acquire(t)
  <2>1. t \notin Taking /\ Taking' = Taking \cup {t}
    BY <1>2 DEF Acquire, Taking, Succeeding, SucceedingSteps
  <2>2. Giving' = Giving
    BY <1>2 DEF Acquire, Giving
  <2>3. Cardinality(Taking') = Cardinality(Taking) + 1
    BY <2>1, InFlight, FS_AddElement
  <2>4. tokens' = tokens - 1 /\ count' = count
    BY <1>2 DEF Acquire
  <2> QED
    BY <2>2, <2>3, <2>4, InFlight DEF CountExact
<1>3. CASE StoreWait(t)
  <2>1. t \in Taking /\ Taking' = Taking \ {t}
    BY <1>3 DEF StoreWait, Store, Taking
  <2>2. Giving' = Giving /\ Giving = {}
    BY <1>3 DEF StoreWait, Store, Giving, Locked, LockedSteps
  <2>3. Cardinality(Taking') = Cardinality(Taking) - 1
    BY <2>1, InFlight, FS_RemoveElement
  <2>4. count' = Dec(count) /\ tokens' = tokens
    BY <1>3 DEF StoreWait, Store, NoLostUpdate
  <2>5. Cardinality(Taking) >= 1 /\ Cardinality(Giving) = 0
    BY <2>1, <2>2, TakingNotEmpty, FS_EmptySet
  <2>6. count >= 1
    BY <2>5, InFlight, SemMaxType DEF CountExact
  <2>7. count' = count - 1
    BY <2>4, <2>6 DEF Dec
  <2>8. count = tokens + Cardinality(Taking) - Cardinality(Giving) /\ tokens \in Nat
    BY SemMaxType DEF CountExact
  <2>9. count' = tokens' + Cardinality(Taking') - Cardinality(Giving')
    BY <2>2, <2>3, <2>4, <2>7, <2>8, InFlight
  <2> QED
    BY <2>9 DEF CountExact
<1> QED
  BY <1>1, <1>2, <1>3 DEF WaitNext

LEMMA CountExactRelease ==
    ASSUME IInv, NEW t \in Threads, ReleaseNext(t)
    PROVE  CountExact'
<1> USE DEF IInv, TypeOK, Goto, Return, TakeLock
<1>1. CASE Release(t) \/ LockRelease(t) \/ Test(t) \/ GiveFull(t) \/ LoadRelease(t)
  <2>1. Taking' = Taking
    BY <1>1 DEF Release, LockRelease, Test, GiveFull, LoadRelease, Taking
  <2>2. Giving' = Giving
    BY <1>1 DEF Release, LockRelease, Test, GiveFull, LoadRelease, Giving, NeverSkips
  <2>3. UNCHANGED <<tokens, count>>
    BY <1>1 DEF Release, LockRelease, Test, GiveFull, LoadRelease
  <2> QED
    BY <2>1, <2>2, <2>3, CountUndisturbed
<1>2. CASE Give(t)
  <2>1. t \notin Giving /\ Giving' = Giving \cup {t}
    BY <1>2 DEF Give, Giving
  <2>2. Taking' = Taking
    BY <1>2 DEF Give, Taking
  <2>3. Cardinality(Giving') = Cardinality(Giving) + 1
    BY <2>1, InFlight, FS_AddElement
  <2>4. tokens' = tokens + 1 /\ count' = count
    BY <1>2 DEF Give
  <2> QED
    BY <2>2, <2>3, <2>4, InFlight DEF CountExact
<1>3. CASE StoreRelease(t)
  <2>1. t \in Giving /\ Giving' = Giving \ {t}
    BY <1>3 DEF StoreRelease, Store, Giving
  <2>2. Taking' = Taking
    BY <1>3 DEF StoreRelease, Store, Taking
  <2>3. Cardinality(Giving') = Cardinality(Giving) - 1
    BY <2>1, InFlight, FS_RemoveElement
  <2>4. count' = Inc(count) /\ tokens' = tokens
    BY <1>3 DEF StoreRelease, Store, NoLostUpdate
  <2>5. Inc(count) = count + 1
    BY CountBound, CountAssumption DEF Inc, MaxU32, U32
  <2> QED
    BY <2>2, <2>3, <2>4, <2>5, InFlight DEF CountExact
<1> QED
  BY <1>1, <1>2, <1>3 DEF ReleaseNext

LEMMA CountExactInv ==
    ASSUME IInv, [Next]_vars, Undisturbed
    PROVE  CountExact'
<1>1. CASE \E t \in Waiters : WaitNext(t)
  BY <1>1, CountExactWait DEF Threads
<1>2. CASE \E t \in Releasers : ReleaseNext(t)
  BY <1>2, CountExactRelease DEF Threads
<1>3. ASSUME NEW t \in Threads, Unlock(t) PROVE CountExact'
  <2>1. Taking' = Taking /\ Giving' = Giving
    BY <1>3 DEF Unlock, Goto, Taking, Giving, IInv, TypeOK
  <2> QED
    BY <1>3, <2>1, CountUndisturbed DEF Unlock, IInv
<1>4. CASE UNCHANGED vars
  BY <1>4, CountUndisturbed DEF vars, Taking, Giving, IInv
<1>5. CASE IsrRelease
  <2>1. Taking' = Taking /\ Giving' = Giving
    BY <1>5 DEF IsrRelease, Taking, Giving
  <2>2. count < MaxCount /\ count \in Nat /\ tokens \in Nat
    BY CountBound, SemMaxType, CountAssumption DEF IInv, TypeOK, U32, MaxU32
  <2>3. Inc(count) = count + 1
    BY <2>2, CountAssumption DEF Inc, MaxU32
  <2>4. \/ tokens' = tokens + 1 /\ count' = count + 1
        \/ tokens' = tokens /\ count' = count
    BY <1>5, <2>2, <2>3 DEF IsrRelease
  <2> QED
    BY <2>1, <2>2, <2>4, InFlight DEF IInv, CountExact
<1> QED
  BY <1>1, <1>2, <1>3, <1>4, <1>5 DEF Next

LEMMA IInvInit == Init /\ InitialCount = 0 => IInv
<1> SUFFICES ASSUME Init, InitialCount = 0 PROVE IInv
  OBVIOUS
<1>1. TypeOK
  BY CountAssumption, U32Type DEF Init, TypeOK, Steps
<1>2. Taking = {} /\ Giving = {}
  BY DEF Init, Taking, Giving
<1>3. CountExact
  BY <1>2, FS_EmptySet DEF Init, CountExact
<1>4. Locked /\ Succeeding /\ NeverSkips /\ NoLostUpdate
  BY DEF Init, Locked, LockedSteps, Succeeding, SucceedingSteps, NeverSkips, NoLostUpdate
<1> QED
  BY <1>1, <1>3, <1>4 DEF IInv

LEMMA IInvNext == Undisturbed /\ IInv /\ [Next]_vars => IInv'
BY TypeOKNext, LockedInv, SucceedingInv, NeverSkipsInv, NoLostUpdateInv, CountExactInv DEF IInv

LEMMA IInvCorrect ==
    ASSUME Undisturbed, InitialCount = 0
    PROVE  Spec => []IInv
BY IInvInit, IInvNext, PTL DEF Spec

\* Undisturbed by the interrupt the count tells exactly how many tokens there are
\* (CountExact): the mutex of qosa_sem.c does what its comment says.
THEOREM CountCorrect ==
    ASSUME Undisturbed, InitialCount = 0
    PROVE  Spec => []CountExact
<1>1. IInv => CountExact
  BY DEF IInv
<1> QED
  BY <1>1, IInvCorrect, PTL

\* No task overwrites another's update of the count (NoLostUpdate).
THEOREM NoUpdateLost ==
    ASSUME Undisturbed, InitialCount = 0
    PROVE  Spec => []NoLostUpdate
<1>1. IInv => NoLostUpdate
  BY DEF IInv
<1> QED
  BY <1>1, IInvCorrect, PTL

\* A release is never led past the kernel's semaphore (ReleaseOpen).
THEOREM ReleaseGives ==
    ASSUME Undisturbed, InitialCount = 0
    PROVE  Spec => []ReleaseOpen
<1>1. IInv => ReleaseOpen
  BY CountBound DEF IInv, ReleaseOpen
<1> QED
  BY <1>1, IInvCorrect, PTL

-----------------------------------------------------------------------------
(* Refinement                                                               *)

LEMMA SemInit == Init => Sem!Init
BY DEF Init, Sem!Init, Progress

LEMMA SemWait ==
    ASSUME IInv, NEW t \in Threads, WaitNext(t)
    PROVE  [Sem!Next]_(Sem!vars)
<1> USE DEF IInv, TypeOK, Goto, Return, TakeLock, Progress, Sem!Become
<1>1. CASE Wait(t)
  <2>1. Sem!Wait(t)
    BY <1>1 DEF Wait, Sem!Wait
  <2> QED
    BY <2>1 DEF Sem!Next
<1>2. CASE Acquire(t)
  <2>1. Sem!Take(t)
    BY <1>2 DEF Acquire, Sem!Take, Succeeding, SucceedingSteps
  <2> QED
    BY <2>1 DEF Sem!Next
<1>3. CASE TimeOut(t)
  <2>1. Sem!TimeOut(t)
    BY <1>3 DEF TimeOut, Sem!TimeOut
  <2> QED
    BY <2>1 DEF Sem!Next
<1>4. CASE LockWait(t) \/ LoadWait(t) \/ StoreWait(t)
  BY <1>4, ZenonT(60) DEF LockWait, LoadWait, StoreWait, Store, Sem!vars
<1> QED
  BY <1>1, <1>2, <1>3, <1>4 DEF WaitNext

LEMMA SemRelease ==
    ASSUME IInv, NEW t \in Threads, ReleaseNext(t)
    PROVE  [Sem!Next]_(Sem!vars)
<1> USE DEF IInv, TypeOK, Goto, Return, TakeLock, Progress, Sem!Become
<1>1. CASE Release(t)
  <2>1. Sem!Release(t)
    BY <1>1 DEF Release, Sem!Release
  <2> QED
    BY <2>1 DEF Sem!Next
<1>2. CASE Test(t)
  BY <1>2, CountBound DEF Test, Sem!vars
<1>3. CASE Give(t)
  <2>1. Sem!Give(t)
    BY <1>3 DEF Give, Sem!Give, Succeeding, SucceedingSteps
  <2> QED
    BY <2>1 DEF Sem!Next
<1>4. CASE GiveFull(t)
  <2>1. Sem!Refuse(t)
    BY <1>4 DEF GiveFull, Sem!Refuse
  <2> QED
    BY <2>1 DEF Sem!Next
<1>5. CASE LockRelease(t) \/ LoadRelease(t) \/ StoreRelease(t)
  BY <1>5, ZenonT(60) DEF LockRelease, LoadRelease, StoreRelease, Store, Sem!vars, NeverSkips
<1> QED
  BY <1>1, <1>2, <1>3, <1>4, <1>5 DEF ReleaseNext

LEMMA SemReturn ==
    ASSUME IInv, NEW t \in Threads, Unlock(t)
    PROVE  [Sem!Next]_(Sem!vars)
<1>1. Sem!Return(t)
  BY DEF IInv, TypeOK, Goto, Progress, Unlock, Sem!Return, Sem!Become
<1> QED
  BY <1>1 DEF Sem!Next

\* Seen by its callers, the kernel semaphore, the count and the mutex are a
\* counting semaphore (ImplementsSemaphore).
THEOREM SemaphoreImplemented ==
    ASSUME Undisturbed, InitialCount = 0
    PROVE  Spec => ImplementsSemaphore
<1>1. IInv /\ [Next]_vars => [Sem!Next]_(Sem!vars)
  <2> SUFFICES ASSUME IInv, [Next]_vars PROVE [Sem!Next]_(Sem!vars)
    OBVIOUS
  <2>1. CASE \E t \in Waiters : WaitNext(t)
    BY <2>1, SemWait DEF Threads
  <2>2. CASE \E t \in Releasers : ReleaseNext(t)
    BY <2>2, SemRelease DEF Threads
  <2>3. CASE \E t \in Threads : Unlock(t)
    BY <2>3, SemReturn
  <2>4. CASE UNCHANGED vars
    BY <2>4 DEF vars, Sem!vars, Progress
  <2>5. CASE IsrRelease
    <3>1. count < MaxCount
      BY CountBound DEF IInv
    <3>2. Sem!Interrupt \/ UNCHANGED Sem!vars
      <4>1. [t \in Threads |-> Progress(t)]' = [t \in Threads |-> Progress(t)]
        BY <2>5 DEF IsrRelease, Progress
      <4>2. CASE tokens = SemMax
        BY <2>5, <4>1, <4>2 DEF IsrRelease, Sem!vars
      <4>3. CASE tokens # SemMax
        <5>1. tokens < SemMax
          BY <4>3, SemMaxType DEF IInv, TypeOK
        <5> QED
          BY <2>5, <3>1, <4>1, <4>3, <5>1 DEF IsrRelease, Sem!Interrupt
      <4> QED
        BY <4>2, <4>3
    <3> QED
      BY <3>2 DEF Sem!Next
  <2> QED
    BY <2>1, <2>2, <2>3, <2>4, <2>5 DEF Next
<1> QED
  BY <1>1, SemInit, IInvCorrect, PTL DEF Spec, ImplementsSemaphore, Sem!Spec
=============================================================================
