--------------------------- MODULE MsgQueueProofs ---------------------------
(***************************************************************************)
(* Proofs about MsgQueue for any number of senders, receivers and messages *)
(* and any sizes of the list and the semaphore.                            *)
(***************************************************************************)
EXTENDS MsgQueue, FiniteSetTheorems, SequenceTheorems, TLAPS

Steps == {"idle"} \cup SendSteps \cup ReceiveSteps

\* TypeOK without the claim that current_cnt never wraps below zero, which
\* only the rest of the invariant shows.
TaskTypes == pc \in [Tasks -> Steps] /\ lock \in Tasks \cup {NoTask}
ListTypes == list \in Seq(Messages) /\ received \in Seq(Messages)
CountTypes == cnt \in Int /\ tokens \in 0 .. SemMax
SentTypes == sent \in [Producers -> 0 .. MaxSends] /\ outcome \in [Messages -> Outcomes]
Types == TaskTypes /\ ListTypes /\ CountTypes /\ SentTypes

\* A sender in the middle of a call has a message.
Roles ==
    /\ \A t \in Tasks : pc[t] \in SendSteps => t \in Producers /\ sent[t] >= 1
    /\ \A t \in Tasks : pc[t] \in ReceiveSteps => t \in Consumers

InsideSteps == {"put", "count", "unlock_put", "get", "uncount", "unlock_get"}
Locked == \A t \in Tasks : pc[t] \in InsideSteps => lock = t

\* Tasks at the steps the counting invariants look at.
Given == {"count", "unlock_put", "release"}
Owed == {"lock_get", "get"}
Passed == {"alloc", "put", "count"}
Counting == {"count"}
Uncounting == {"uncount"}

GivenN == Cardinality(At(Given))
OwedN == Cardinality(At(Owed))
PassedN == Cardinality(At(Passed))
CountingN == Cardinality(At(Counting))
UncountingN == Cardinality(At(Uncounting))

\* Every token, and every receiver that took one, has a message in the list.
Backed == tokens + OwedN + GivenN =< Len(list)

Agrees == cnt = Len(list) - CountingN + UncountingN

\* The senders that have passed the test have reserved their places.
Reserved == cnt + PassedN < MaxNumber + Cardinality(Producers)

Counted == Backed /\ Agrees /\ Reserved
IInv == Types /\ Roles /\ Locked /\ Counted

-----------------------------------------------------------------------------
(* Counting tasks                                                           *)

LEMMA TasksFinite == IsFiniteSet(Tasks) /\ IsFiniteSet(Producers)
BY TasksAssumption, FS_Union DEF Tasks

LEMMA AtFinite ==
    ASSUME NEW S
    PROVE  IsFiniteSet(At(S)) /\ Cardinality(At(S)) \in Nat
<1>1. At(S) \in SUBSET Tasks
  BY DEF At
<1> QED
  BY <1>1, TasksFinite, FS_Subset, FS_CardinalityType

\* What one task's step does to the number of tasks at the steps S.
LEMMA AtStep ==
    ASSUME pc \in [Tasks -> Steps], NEW t \in Tasks,
           NEW from, NEW to, Goto(t, from, to), NEW S
    PROVE  Cardinality(At(S))' =
             Cardinality(At(S)) + (IF to \in S THEN 1 ELSE 0) - (IF from \in S THEN 1 ELSE 0)
<1>1. CASE to \in S /\ from \notin S
  <2>1. At(S)' = At(S) \cup {t} /\ t \notin At(S)
    BY <1>1 DEF At, Goto
  <2>2. Cardinality(At(S) \cup {t}) = Cardinality(At(S)) + 1
    BY <2>1, AtFinite, FS_AddElement
  <2> QED
    BY <1>1, <2>1, <2>2, AtFinite
<1>2. CASE to \notin S /\ from \in S
  <2>1. At(S)' = At(S) \ {t} /\ t \in At(S)
    BY <1>2 DEF At, Goto
  <2>2. Cardinality(At(S) \ {t}) = Cardinality(At(S)) - 1
    BY <2>1, AtFinite, FS_RemoveElement
  <2> QED
    BY <1>2, <2>1, <2>2, AtFinite
<1>3. CASE to \in S <=> from \in S
  <2>1. At(S)' = At(S)
    BY <1>3 DEF At, Goto
  <2> QED
    BY <1>3, <2>1, AtFinite
<1> QED
  BY <1>1, <1>2, <1>3

LEMMA AtSome ==
    ASSUME NEW S, NEW t \in At(S)
    PROVE  Cardinality(At(S)) >= 1
BY AtFinite, FS_EmptySet

-----------------------------------------------------------------------------
(* Types, roles and the mutex                                               *)

LEMMA MessageType ==
    ASSUME Types, Roles, NEW p \in Producers, pc[p] \in SendSteps
    PROVE  Message(p) \in Messages
<1>1. sent[p] \in 1 .. MaxSends
  BY SizeAssumption DEF Types, SentTypes, Roles, Tasks
<1> QED
  BY <1>1 DEF Message, Messages

LEMMA TaskTypesSend ==
    ASSUME TaskTypes, NEW p \in Producers, SendNext(p)
    PROVE  TaskTypes'
<1>1. p \in Tasks
  BY DEF Tasks
<1> QED
  BY <1>1 DEF TaskTypes, Goto, TakeLock, Unlock, Steps, SendSteps, SendNext, Send, SendFull,
     NoMemory, LockPut, Put, Count, UnlockPut, Release

LEMMA TaskTypesReceive ==
    ASSUME TaskTypes, NEW c \in Consumers, ReceiveNext(c)
    PROVE  TaskTypes'
<1>1. c \in Tasks
  BY DEF Tasks
<1> QED
  BY <1>1 DEF TaskTypes, Goto, TakeLock, Unlock, Steps, ReceiveSteps, ReceiveNext, Wait,
     TimeOut, Take, LockGet, Get, Uncount, UnlockGet

LEMMA ListTypesSend ==
    ASSUME Types, Roles, NEW p \in Producers, SendNext(p)
    PROVE  ListTypes'
<1>1. CASE Put(p)
  <2>1. Message(p) \in Messages
    BY <1>1, MessageType DEF Put, Goto, SendSteps
  <2> QED
    BY <1>1, <2>1 DEF Put, Types, ListTypes
<1>2. CASE UNCHANGED <<list, received>>
  BY <1>2 DEF Types, ListTypes
<1> QED
  BY <1>1, <1>2
     DEF SendNext, Send, SendFull, NoMemory, LockPut, Count, UnlockPut, Release

LEMMA ListTypesReceive ==
    ASSUME ListTypes, NEW c \in Consumers, ReceiveNext(c)
    PROVE  ListTypes'
<1>1. CASE Get(c)
  BY <1>1 DEF Get, ListTypes
<1>2. CASE UNCHANGED <<list, received>>
  BY <1>2 DEF ListTypes
<1> QED
  BY <1>1, <1>2 DEF ReceiveNext, Wait, TimeOut, Take, LockGet, Uncount, UnlockGet

LEMMA TokenType ==
    \A n \in 0 .. SemMax :
        /\ n > 0 => n - 1 \in 0 .. SemMax
        /\ n < SemMax => n + 1 \in 0 .. SemMax
BY SizeAssumption

LEMMA SentType ==
    \A n \in 0 .. MaxSends : n < MaxSends => n + 1 \in 0 .. MaxSends /\ n + 1 \in 1 .. MaxSends
BY SizeAssumption

LEMMA CountTypesSend ==
    ASSUME CountTypes, NEW p \in Producers, SendNext(p)
    PROVE  CountTypes'
<1>1. CASE Release(p)
  BY <1>1, TokenType DEF Release, CountTypes
<1>2. CASE Count(p)
  <2>1. cnt' = cnt + 1 /\ tokens' = tokens
    BY <1>2 DEF Count
  <2> QED
    BY <2>1 DEF CountTypes
<1>3. CASE UNCHANGED <<cnt, tokens>>
  BY <1>3 DEF CountTypes
<1> QED
  BY <1>1, <1>2, <1>3 DEF SendNext, Send, SendFull, NoMemory, LockPut, Put, UnlockPut

LEMMA CountTypesReceive ==
    ASSUME CountTypes, NEW c \in Consumers, ReceiveNext(c)
    PROVE  CountTypes'
<1>1. CASE Take(c)
  BY <1>1, TokenType DEF Take, CountTypes
<1>2. CASE Uncount(c)
  <2>1. cnt' = cnt - 1 /\ tokens' = tokens
    BY <1>2 DEF Uncount
  <2> QED
    BY <2>1 DEF CountTypes
<1>3. CASE UNCHANGED <<cnt, tokens>>
  BY <1>3 DEF CountTypes
<1> QED
  BY <1>1, <1>2, <1>3 DEF ReceiveNext, Wait, TimeOut, LockGet, Get, UnlockGet

LEMMA SentTypesSend ==
    ASSUME SentTypes, NEW p \in Producers, SendNext(p)
    PROVE  SentTypes'
<1> USE DEF SentTypes, Outcome, Outcomes
<1>1. CASE Send(p) \/ SendFull(p)
  <2>1. sent[p] \in 0 .. MaxSends /\ sent[p] < MaxSends
    BY <1>1 DEF Send, SendFull
  <2>2. sent[p] + 1 \in 0 .. MaxSends
    BY <2>1, SentType
  <2>3. sent' = [sent EXCEPT ![p] = sent[p] + 1]
    BY <1>1 DEF Send, SendFull
  <2>4. sent' \in [Producers -> 0 .. MaxSends]
    BY <2>2, <2>3
  <2> QED
    BY <1>1, <2>4 DEF Send, SendFull
<1>2. CASE NoMemory(p) \/ Release(p)
  BY <1>2 DEF NoMemory, Release
<1>3. CASE UNCHANGED <<sent, outcome>>
  BY <1>3
<1> QED
  BY <1>1, <1>2, <1>3 DEF SendNext, LockPut, Put, Count, UnlockPut

LEMMA SentTypesReceive ==
    ASSUME SentTypes, NEW c \in Consumers, ReceiveNext(c)
    PROVE  SentTypes'
BY DEF SentTypes, ReceiveNext, Wait, TimeOut, Take, LockGet, Get, Uncount, UnlockGet

LEMMA RolesSend ==
    ASSUME Types, Roles, NEW p \in Producers, SendNext(p)
    PROVE  Roles'
<1>1. p \in Tasks /\ p \notin Consumers
  BY TasksAssumption DEF Tasks
<1>2. /\ sent'[p] >= 1
      /\ \A q \in Producers : q # p => sent'[q] = sent[q]
  <2>1. CASE Send(p) \/ SendFull(p)
    BY <2>1, SizeAssumption DEF Types, SentTypes, Send, SendFull
  <2>2. CASE sent' = sent /\ pc[p] \in SendSteps
    BY <1>1, <2>2 DEF Roles
  <2> QED
    BY <2>1, <2>2 DEF Goto, SendSteps, SendNext, NoMemory, LockPut, Put, Count, UnlockPut, Release
<1>3. /\ pc'[p] \in {"idle"} \cup SendSteps
      /\ \A t \in Tasks : t # p => pc'[t] = pc[t]
  BY <1>1 DEF Types, TaskTypes, Goto, SendSteps, SendNext, Send, SendFull, NoMemory,
              LockPut, Put, Count, UnlockPut, Release
<1> QED
  BY <1>1, <1>2, <1>3 DEF Roles, SendSteps, ReceiveSteps

LEMMA RolesReceive ==
    ASSUME Types, Roles, NEW c \in Consumers, ReceiveNext(c)
    PROVE  Roles'
<1>1. c \in Tasks /\ c \notin Producers
  BY TasksAssumption DEF Tasks
<1>2. sent' = sent
  BY DEF ReceiveNext, Wait, TimeOut, Take, LockGet, Get, Uncount, UnlockGet
<1>3. /\ pc'[c] \in {"idle"} \cup ReceiveSteps
      /\ \A t \in Tasks : t # c => pc'[t] = pc[t]
  BY <1>1 DEF Types, TaskTypes, Goto, ReceiveSteps, ReceiveNext, Wait, TimeOut, Take,
              LockGet, Get, Uncount, UnlockGet
<1> QED
  BY <1>1, <1>2, <1>3 DEF Roles, SendSteps, ReceiveSteps

LEMMA LockedSend ==
    ASSUME TaskTypes, Locked, NEW p \in Producers, SendNext(p)
    PROVE  Locked'
<1>1. p \in Tasks /\ NoTask \notin Tasks
  BY TasksAssumption DEF Tasks, NoTask
<1> USE <1>1 DEF TaskTypes, Locked, InsideSteps, Goto
<1>2. CASE LockPut(p)
  BY <1>2 DEF LockPut, TakeLock
<1>3. CASE UnlockPut(p)
  BY <1>3 DEF UnlockPut, Unlock
<1>4. CASE Put(p) \/ Count(p)
  BY <1>4 DEF Put, Count
<1>5. CASE Send(p) \/ SendFull(p) \/ NoMemory(p) \/ Release(p)
  BY <1>5 DEF Send, SendFull, NoMemory, Release
<1> QED
  BY <1>2, <1>3, <1>4, <1>5 DEF SendNext

LEMMA LockedReceive ==
    ASSUME TaskTypes, Locked, NEW c \in Consumers, ReceiveNext(c)
    PROVE  Locked'
<1>1. c \in Tasks /\ NoTask \notin Tasks
  BY TasksAssumption DEF Tasks, NoTask
<1> USE <1>1 DEF TaskTypes, Locked, InsideSteps, Goto
<1>2. CASE LockGet(c)
  BY <1>2 DEF LockGet, TakeLock
<1>3. CASE UnlockGet(c)
  BY <1>3 DEF UnlockGet, Unlock
<1>4. CASE Get(c) \/ Uncount(c)
  BY <1>4 DEF Get, Uncount
<1>5. CASE Wait(c) \/ TimeOut(c) \/ Take(c)
  BY <1>5 DEF Wait, TimeOut, Take
<1> QED
  BY <1>2, <1>3, <1>4, <1>5 DEF ReceiveNext

-----------------------------------------------------------------------------
(* The three counting invariants, one lemma for each step they look at      *)

LEMMA Counts ==
    /\ GivenN \in Nat /\ OwedN \in Nat /\ PassedN \in Nat
    /\ CountingN \in Nat /\ UncountingN \in Nat
BY AtFinite DEF GivenN, OwedN, PassedN, CountingN, UncountingN

\* How a step from one place to another moves the counts.
OneIf(b) == IF b THEN 1 ELSE 0
CountsMove(from, to) ==
    /\ GivenN' = GivenN + OneIf(to \in Given) - OneIf(from \in Given)
    /\ OwedN' = OwedN + OneIf(to \in Owed) - OneIf(from \in Owed)
    /\ PassedN' = PassedN + OneIf(to \in Passed) - OneIf(from \in Passed)
    /\ CountingN' = CountingN + OneIf(to \in Counting) - OneIf(from \in Counting)
    /\ UncountingN' = UncountingN + OneIf(to \in Uncounting) - OneIf(from \in Uncounting)

LEMMA CountStep ==
    ASSUME TaskTypes, NEW t \in Tasks, NEW from, NEW to, Goto(t, from, to)
    PROVE  CountsMove(from, to)
BY AtStep DEF CountsMove, GivenN, OwedN, PassedN, CountingN, UncountingN, TaskTypes, OneIf

LEMMA PassedBound ==
    ASSUME Roles
    PROVE  /\ Cardinality(At(Passed)) =< Cardinality(Producers)
           /\ Cardinality(Producers) \in Nat
<1>1. At(Passed) \in SUBSET Producers
  BY DEF At, Passed, Roles, SendSteps
<1> QED
  BY <1>1, TasksFinite, FS_Subset, FS_CardinalityType

LEMMA PassedBoundNext ==
    ASSUME Roles'
    PROVE  PassedN' =< Cardinality(Producers) /\ PassedN' \in Nat
<1>1. At(Passed)' \in SUBSET Producers
  BY DEF At, Passed, Roles, SendSteps
<1> QED
  BY <1>1, TasksFinite, FS_Subset, FS_CardinalityType DEF PassedN

\* What each step of qosa_msgq_release and qosa_msgq_wait does to the counts.
LEMMA SendEffect ==
    ASSUME TaskTypes, NEW p \in Producers, Send(p)
    PROVE  /\ GivenN' = GivenN /\ OwedN' = OwedN /\ PassedN' = PassedN + 1
           /\ CountingN' = CountingN /\ UncountingN' = UncountingN
<1>1. CountsMove("idle", "alloc")
  BY CountStep DEF Send, Tasks
<1>2. /\ OneIf("idle" \in Given) = 0 /\ OneIf("alloc" \in Given) = 0
      /\ OneIf("idle" \in Owed) = 0 /\ OneIf("alloc" \in Owed) = 0
      /\ OneIf("idle" \in Passed) = 0 /\ OneIf("alloc" \in Passed) = 1
      /\ OneIf("idle" \in Counting) = 0 /\ OneIf("alloc" \in Counting) = 0
      /\ OneIf("idle" \in Uncounting) = 0 /\ OneIf("alloc" \in Uncounting) = 0
  BY DEF OneIf, Given, Owed, Passed, Counting, Uncounting
<1> QED
  BY <1>1, <1>2, Counts DEF CountsMove

LEMMA NoMemoryEffect ==
    ASSUME TaskTypes, NEW p \in Producers, NoMemory(p)
    PROVE  /\ GivenN' = GivenN /\ OwedN' = OwedN /\ PassedN' = PassedN - 1
           /\ CountingN' = CountingN /\ UncountingN' = UncountingN
<1>1. CountsMove("alloc", "idle")
  BY CountStep DEF NoMemory, Tasks
<1>2. /\ OneIf("alloc" \in Given) = 0 /\ OneIf("idle" \in Given) = 0
      /\ OneIf("alloc" \in Owed) = 0 /\ OneIf("idle" \in Owed) = 0
      /\ OneIf("alloc" \in Passed) = 1 /\ OneIf("idle" \in Passed) = 0
      /\ OneIf("alloc" \in Counting) = 0 /\ OneIf("idle" \in Counting) = 0
      /\ OneIf("alloc" \in Uncounting) = 0 /\ OneIf("idle" \in Uncounting) = 0
  BY DEF OneIf, Given, Owed, Passed, Counting, Uncounting
<1> QED
  BY <1>1, <1>2, Counts DEF CountsMove

LEMMA LockPutEffect ==
    ASSUME TaskTypes, NEW p \in Producers, LockPut(p)
    PROVE  /\ GivenN' = GivenN /\ OwedN' = OwedN /\ PassedN' = PassedN
           /\ CountingN' = CountingN /\ UncountingN' = UncountingN
<1>1. CountsMove("alloc", "put")
  BY CountStep DEF LockPut, Tasks
<1>2. /\ OneIf("alloc" \in Given) = 0 /\ OneIf("put" \in Given) = 0
      /\ OneIf("alloc" \in Owed) = 0 /\ OneIf("put" \in Owed) = 0
      /\ OneIf("alloc" \in Passed) = 1 /\ OneIf("put" \in Passed) = 1
      /\ OneIf("alloc" \in Counting) = 0 /\ OneIf("put" \in Counting) = 0
      /\ OneIf("alloc" \in Uncounting) = 0 /\ OneIf("put" \in Uncounting) = 0
  BY DEF OneIf, Given, Owed, Passed, Counting, Uncounting
<1> QED
  BY <1>1, <1>2, Counts DEF CountsMove

LEMMA PutEffect ==
    ASSUME TaskTypes, NEW p \in Producers, Put(p)
    PROVE  /\ GivenN' = GivenN + 1 /\ OwedN' = OwedN /\ PassedN' = PassedN
           /\ CountingN' = CountingN + 1 /\ UncountingN' = UncountingN
<1>1. CountsMove("put", "count")
  BY CountStep DEF Put, Tasks
<1>2. /\ OneIf("put" \in Given) = 0 /\ OneIf("count" \in Given) = 1
      /\ OneIf("put" \in Owed) = 0 /\ OneIf("count" \in Owed) = 0
      /\ OneIf("put" \in Passed) = 1 /\ OneIf("count" \in Passed) = 1
      /\ OneIf("put" \in Counting) = 0 /\ OneIf("count" \in Counting) = 1
      /\ OneIf("put" \in Uncounting) = 0 /\ OneIf("count" \in Uncounting) = 0
  BY DEF OneIf, Given, Owed, Passed, Counting, Uncounting
<1> QED
  BY <1>1, <1>2, Counts DEF CountsMove

LEMMA CountEffect ==
    ASSUME TaskTypes, NEW p \in Producers, Count(p)
    PROVE  /\ GivenN' = GivenN /\ OwedN' = OwedN /\ PassedN' = PassedN - 1
           /\ CountingN' = CountingN - 1 /\ UncountingN' = UncountingN
<1>1. CountsMove("count", "unlock_put")
  BY CountStep DEF Count, Tasks
<1>2. /\ OneIf("count" \in Given) = 1 /\ OneIf("unlock_put" \in Given) = 1
      /\ OneIf("count" \in Owed) = 0 /\ OneIf("unlock_put" \in Owed) = 0
      /\ OneIf("count" \in Passed) = 1 /\ OneIf("unlock_put" \in Passed) = 0
      /\ OneIf("count" \in Counting) = 1 /\ OneIf("unlock_put" \in Counting) = 0
      /\ OneIf("count" \in Uncounting) = 0 /\ OneIf("unlock_put" \in Uncounting) = 0
  BY DEF OneIf, Given, Owed, Passed, Counting, Uncounting
<1> QED
  BY <1>1, <1>2, Counts DEF CountsMove

LEMMA UnlockPutEffect ==
    ASSUME TaskTypes, NEW p \in Producers, UnlockPut(p)
    PROVE  /\ GivenN' = GivenN /\ OwedN' = OwedN /\ PassedN' = PassedN
           /\ CountingN' = CountingN /\ UncountingN' = UncountingN
<1>1. CountsMove("unlock_put", "release")
  BY CountStep DEF UnlockPut, Tasks
<1>2. /\ OneIf("unlock_put" \in Given) = 1 /\ OneIf("release" \in Given) = 1
      /\ OneIf("unlock_put" \in Owed) = 0 /\ OneIf("release" \in Owed) = 0
      /\ OneIf("unlock_put" \in Passed) = 0 /\ OneIf("release" \in Passed) = 0
      /\ OneIf("unlock_put" \in Counting) = 0 /\ OneIf("release" \in Counting) = 0
      /\ OneIf("unlock_put" \in Uncounting) = 0 /\ OneIf("release" \in Uncounting) = 0
  BY DEF OneIf, Given, Owed, Passed, Counting, Uncounting
<1> QED
  BY <1>1, <1>2, Counts DEF CountsMove

LEMMA ReleaseEffect ==
    ASSUME TaskTypes, NEW p \in Producers, Release(p)
    PROVE  /\ GivenN' = GivenN - 1 /\ OwedN' = OwedN /\ PassedN' = PassedN
           /\ CountingN' = CountingN /\ UncountingN' = UncountingN
<1>1. CountsMove("release", "idle")
  BY CountStep DEF Release, Tasks
<1>2. /\ OneIf("release" \in Given) = 1 /\ OneIf("idle" \in Given) = 0
      /\ OneIf("release" \in Owed) = 0 /\ OneIf("idle" \in Owed) = 0
      /\ OneIf("release" \in Passed) = 0 /\ OneIf("idle" \in Passed) = 0
      /\ OneIf("release" \in Counting) = 0 /\ OneIf("idle" \in Counting) = 0
      /\ OneIf("release" \in Uncounting) = 0 /\ OneIf("idle" \in Uncounting) = 0
  BY DEF OneIf, Given, Owed, Passed, Counting, Uncounting
<1> QED
  BY <1>1, <1>2, Counts DEF CountsMove

LEMMA WaitEffect ==
    ASSUME TaskTypes, NEW c \in Consumers, Wait(c)
    PROVE  /\ GivenN' = GivenN /\ OwedN' = OwedN /\ PassedN' = PassedN
           /\ CountingN' = CountingN /\ UncountingN' = UncountingN
<1>1. CountsMove("idle", "wait")
  BY CountStep DEF Wait, Tasks
<1>2. /\ OneIf("idle" \in Given) = 0 /\ OneIf("wait" \in Given) = 0
      /\ OneIf("idle" \in Owed) = 0 /\ OneIf("wait" \in Owed) = 0
      /\ OneIf("idle" \in Passed) = 0 /\ OneIf("wait" \in Passed) = 0
      /\ OneIf("idle" \in Counting) = 0 /\ OneIf("wait" \in Counting) = 0
      /\ OneIf("idle" \in Uncounting) = 0 /\ OneIf("wait" \in Uncounting) = 0
  BY DEF OneIf, Given, Owed, Passed, Counting, Uncounting
<1> QED
  BY <1>1, <1>2, Counts DEF CountsMove

LEMMA TimeOutEffect ==
    ASSUME TaskTypes, NEW c \in Consumers, TimeOut(c)
    PROVE  /\ GivenN' = GivenN /\ OwedN' = OwedN /\ PassedN' = PassedN
           /\ CountingN' = CountingN /\ UncountingN' = UncountingN
<1>1. CountsMove("wait", "idle")
  BY CountStep DEF TimeOut, Tasks
<1>2. /\ OneIf("wait" \in Given) = 0 /\ OneIf("idle" \in Given) = 0
      /\ OneIf("wait" \in Owed) = 0 /\ OneIf("idle" \in Owed) = 0
      /\ OneIf("wait" \in Passed) = 0 /\ OneIf("idle" \in Passed) = 0
      /\ OneIf("wait" \in Counting) = 0 /\ OneIf("idle" \in Counting) = 0
      /\ OneIf("wait" \in Uncounting) = 0 /\ OneIf("idle" \in Uncounting) = 0
  BY DEF OneIf, Given, Owed, Passed, Counting, Uncounting
<1> QED
  BY <1>1, <1>2, Counts DEF CountsMove

LEMMA TakeEffect ==
    ASSUME TaskTypes, NEW c \in Consumers, Take(c)
    PROVE  /\ GivenN' = GivenN /\ OwedN' = OwedN + 1 /\ PassedN' = PassedN
           /\ CountingN' = CountingN /\ UncountingN' = UncountingN
<1>1. CountsMove("wait", "lock_get")
  BY CountStep DEF Take, Tasks
<1>2. /\ OneIf("wait" \in Given) = 0 /\ OneIf("lock_get" \in Given) = 0
      /\ OneIf("wait" \in Owed) = 0 /\ OneIf("lock_get" \in Owed) = 1
      /\ OneIf("wait" \in Passed) = 0 /\ OneIf("lock_get" \in Passed) = 0
      /\ OneIf("wait" \in Counting) = 0 /\ OneIf("lock_get" \in Counting) = 0
      /\ OneIf("wait" \in Uncounting) = 0 /\ OneIf("lock_get" \in Uncounting) = 0
  BY DEF OneIf, Given, Owed, Passed, Counting, Uncounting
<1> QED
  BY <1>1, <1>2, Counts DEF CountsMove

LEMMA LockGetEffect ==
    ASSUME TaskTypes, NEW c \in Consumers, LockGet(c)
    PROVE  /\ GivenN' = GivenN /\ OwedN' = OwedN /\ PassedN' = PassedN
           /\ CountingN' = CountingN /\ UncountingN' = UncountingN
<1>1. CountsMove("lock_get", "get")
  BY CountStep DEF LockGet, Tasks
<1>2. /\ OneIf("lock_get" \in Given) = 0 /\ OneIf("get" \in Given) = 0
      /\ OneIf("lock_get" \in Owed) = 1 /\ OneIf("get" \in Owed) = 1
      /\ OneIf("lock_get" \in Passed) = 0 /\ OneIf("get" \in Passed) = 0
      /\ OneIf("lock_get" \in Counting) = 0 /\ OneIf("get" \in Counting) = 0
      /\ OneIf("lock_get" \in Uncounting) = 0 /\ OneIf("get" \in Uncounting) = 0
  BY DEF OneIf, Given, Owed, Passed, Counting, Uncounting
<1> QED
  BY <1>1, <1>2, Counts DEF CountsMove

LEMMA GetEffect ==
    ASSUME TaskTypes, NEW c \in Consumers, Get(c)
    PROVE  /\ GivenN' = GivenN /\ OwedN' = OwedN - 1 /\ PassedN' = PassedN
           /\ CountingN' = CountingN /\ UncountingN' = UncountingN + 1
<1>1. CountsMove("get", "uncount")
  BY CountStep DEF Get, Tasks
<1>2. /\ OneIf("get" \in Given) = 0 /\ OneIf("uncount" \in Given) = 0
      /\ OneIf("get" \in Owed) = 1 /\ OneIf("uncount" \in Owed) = 0
      /\ OneIf("get" \in Passed) = 0 /\ OneIf("uncount" \in Passed) = 0
      /\ OneIf("get" \in Counting) = 0 /\ OneIf("uncount" \in Counting) = 0
      /\ OneIf("get" \in Uncounting) = 0 /\ OneIf("uncount" \in Uncounting) = 1
  BY DEF OneIf, Given, Owed, Passed, Counting, Uncounting
<1> QED
  BY <1>1, <1>2, Counts DEF CountsMove

LEMMA UncountEffect ==
    ASSUME TaskTypes, NEW c \in Consumers, Uncount(c)
    PROVE  /\ GivenN' = GivenN /\ OwedN' = OwedN /\ PassedN' = PassedN
           /\ CountingN' = CountingN /\ UncountingN' = UncountingN - 1
<1>1. CountsMove("uncount", "unlock_get")
  BY CountStep DEF Uncount, Tasks
<1>2. /\ OneIf("uncount" \in Given) = 0 /\ OneIf("unlock_get" \in Given) = 0
      /\ OneIf("uncount" \in Owed) = 0 /\ OneIf("unlock_get" \in Owed) = 0
      /\ OneIf("uncount" \in Passed) = 0 /\ OneIf("unlock_get" \in Passed) = 0
      /\ OneIf("uncount" \in Counting) = 0 /\ OneIf("unlock_get" \in Counting) = 0
      /\ OneIf("uncount" \in Uncounting) = 1 /\ OneIf("unlock_get" \in Uncounting) = 0
  BY DEF OneIf, Given, Owed, Passed, Counting, Uncounting
<1> QED
  BY <1>1, <1>2, Counts DEF CountsMove

LEMMA UnlockGetEffect ==
    ASSUME TaskTypes, NEW c \in Consumers, UnlockGet(c)
    PROVE  /\ GivenN' = GivenN /\ OwedN' = OwedN /\ PassedN' = PassedN
           /\ CountingN' = CountingN /\ UncountingN' = UncountingN
<1>1. CountsMove("unlock_get", "idle")
  BY CountStep DEF UnlockGet, Tasks
<1>2. /\ OneIf("unlock_get" \in Given) = 0 /\ OneIf("idle" \in Given) = 0
      /\ OneIf("unlock_get" \in Owed) = 0 /\ OneIf("idle" \in Owed) = 0
      /\ OneIf("unlock_get" \in Passed) = 0 /\ OneIf("idle" \in Passed) = 0
      /\ OneIf("unlock_get" \in Counting) = 0 /\ OneIf("idle" \in Counting) = 0
      /\ OneIf("unlock_get" \in Uncounting) = 0 /\ OneIf("idle" \in Uncounting) = 0
  BY DEF OneIf, Given, Owed, Passed, Counting, Uncounting
<1> QED
  BY <1>1, <1>2, Counts DEF CountsMove

\* The numbers in the counting invariants are integers.
Numbers ==
    /\ Len(list) \in Nat /\ tokens \in Nat /\ cnt \in Int
    /\ MaxNumber \in Nat /\ Cardinality(Producers) \in Nat

LEMMA NumbersType == Types => Numbers
BY SizeAssumption, TasksFinite, FS_CardinalityType
   DEF Types, ListTypes, CountTypes, Numbers

LEMMA CountedSend ==
    ASSUME IInv, NEW p \in Producers, SendNext(p)
    PROVE  Counted'
<1>1. TaskTypes /\ ListTypes /\ Numbers /\ Counted
  BY NumbersType DEF IInv, Types
<1>2. CASE SendFull(p)
  BY <1>1, <1>2 DEF SendFull, At, Counted, Backed, Agrees, Reserved,
                    GivenN, OwedN, PassedN, CountingN, UncountingN
<1>3. CASE Send(p)
  <2>1. list' = list /\ tokens' = tokens /\ cnt' = cnt /\ cnt < MaxNumber
    BY <1>3 DEF Send
  <2>2. Roles'
    BY <1>3, RolesSend DEF IInv, SendNext
  <2>3. Reserved'
    BY <1>1, <2>1, <2>2, PassedBoundNext DEF Numbers, Reserved
  <2>4. Backed' /\ Agrees'
    BY <1>1, <1>3, <2>1, SendEffect DEF Counted, Backed, Agrees
  <2> QED
    BY <2>3, <2>4 DEF Counted
<1>4. CASE NoMemory(p)
  <2>1. list' = list /\ tokens' = tokens /\ cnt' = cnt
    BY <1>1, <1>4 DEF NoMemory
  <2>2. /\ GivenN' = GivenN /\ OwedN' = OwedN /\ PassedN' = PassedN - 1
        /\ CountingN' = CountingN /\ UncountingN' = UncountingN
    BY <1>1, <1>4, NoMemoryEffect
  <2> QED
    BY <1>1, <2>1, <2>2, Counts DEF Numbers, Counted, Backed, Agrees, Reserved
<1>5. CASE LockPut(p)
  <2>1. list' = list /\ tokens' = tokens /\ cnt' = cnt
    BY <1>1, <1>5 DEF LockPut
  <2>2. /\ GivenN' = GivenN /\ OwedN' = OwedN /\ PassedN' = PassedN
        /\ CountingN' = CountingN /\ UncountingN' = UncountingN
    BY <1>1, <1>5, LockPutEffect
  <2> QED
    BY <1>1, <2>1, <2>2, Counts DEF Numbers, Counted, Backed, Agrees, Reserved
<1>6. CASE Put(p)
  <2>1. Len(list') = Len(list) + 1 /\ tokens' = tokens /\ cnt' = cnt
    BY <1>1, <1>6 DEF Put, ListTypes
  <2>2. /\ GivenN' = GivenN + 1 /\ OwedN' = OwedN /\ PassedN' = PassedN
        /\ CountingN' = CountingN + 1 /\ UncountingN' = UncountingN
    BY <1>1, <1>6, PutEffect
  <2> QED
    BY <1>1, <2>1, <2>2, Counts DEF Numbers, Counted, Backed, Agrees, Reserved
<1>7. CASE Count(p)
  <2>1. list' = list /\ tokens' = tokens /\ cnt' = cnt + 1
    BY <1>1, <1>7 DEF Count
  <2>2. /\ GivenN' = GivenN /\ OwedN' = OwedN /\ PassedN' = PassedN - 1
        /\ CountingN' = CountingN - 1 /\ UncountingN' = UncountingN
    BY <1>1, <1>7, CountEffect
  <2> QED
    BY <1>1, <2>1, <2>2, Counts DEF Numbers, Counted, Backed, Agrees, Reserved
<1>8. CASE UnlockPut(p)
  <2>1. list' = list /\ tokens' = tokens /\ cnt' = cnt
    BY <1>1, <1>8 DEF UnlockPut
  <2>2. /\ GivenN' = GivenN /\ OwedN' = OwedN /\ PassedN' = PassedN
        /\ CountingN' = CountingN /\ UncountingN' = UncountingN
    BY <1>1, <1>8, UnlockPutEffect
  <2> QED
    BY <1>1, <2>1, <2>2, Counts DEF Numbers, Counted, Backed, Agrees, Reserved
<1>9. CASE Release(p)
  <2>1. list' = list /\ tokens' \in Nat /\ tokens' =< tokens + 1 /\ cnt' = cnt
    BY <1>1, <1>9 DEF Release, Numbers
  <2>2. /\ GivenN' = GivenN - 1 /\ OwedN' = OwedN /\ PassedN' = PassedN
        /\ CountingN' = CountingN /\ UncountingN' = UncountingN
    BY <1>1, <1>9, ReleaseEffect
  <2> QED
    BY <1>1, <2>1, <2>2, Counts DEF Numbers, Counted, Backed, Agrees, Reserved
<1> QED
  BY <1>2, <1>3, <1>4, <1>5, <1>6, <1>7, <1>8, <1>9 DEF SendNext

LEMMA CountedReceive ==
    ASSUME IInv, NEW c \in Consumers, ReceiveNext(c)
    PROVE  Counted'
<1>1. TaskTypes /\ ListTypes /\ Numbers /\ Counted
  BY NumbersType DEF IInv, Types
<1>2. CASE Wait(c)
  <2>1. list' = list /\ tokens' = tokens /\ cnt' = cnt
    BY <1>1, <1>2 DEF Wait
  <2>2. /\ GivenN' = GivenN /\ OwedN' = OwedN /\ PassedN' = PassedN
        /\ CountingN' = CountingN /\ UncountingN' = UncountingN
    BY <1>1, <1>2, WaitEffect
  <2> QED
    BY <1>1, <2>1, <2>2, Counts DEF Numbers, Counted, Backed, Agrees, Reserved
<1>3. CASE TimeOut(c)
  <2>1. list' = list /\ tokens' = tokens /\ cnt' = cnt
    BY <1>1, <1>3 DEF TimeOut
  <2>2. /\ GivenN' = GivenN /\ OwedN' = OwedN /\ PassedN' = PassedN
        /\ CountingN' = CountingN /\ UncountingN' = UncountingN
    BY <1>1, <1>3, TimeOutEffect
  <2> QED
    BY <1>1, <2>1, <2>2, Counts DEF Numbers, Counted, Backed, Agrees, Reserved
<1>4. CASE Take(c)
  <2>1. list' = list /\ tokens' = tokens - 1 /\ cnt' = cnt
    BY <1>1, <1>4 DEF Take, Numbers
  <2>2. /\ GivenN' = GivenN /\ OwedN' = OwedN + 1 /\ PassedN' = PassedN
        /\ CountingN' = CountingN /\ UncountingN' = UncountingN
    BY <1>1, <1>4, TakeEffect
  <2> QED
    BY <1>1, <2>1, <2>2, Counts DEF Numbers, Counted, Backed, Agrees, Reserved
<1>5. CASE LockGet(c)
  <2>1. list' = list /\ tokens' = tokens /\ cnt' = cnt
    BY <1>1, <1>5 DEF LockGet
  <2>2. /\ GivenN' = GivenN /\ OwedN' = OwedN /\ PassedN' = PassedN
        /\ CountingN' = CountingN /\ UncountingN' = UncountingN
    BY <1>1, <1>5, LockGetEffect
  <2> QED
    BY <1>1, <2>1, <2>2, Counts DEF Numbers, Counted, Backed, Agrees, Reserved
<1>6. CASE Get(c)
  <2>1. list # <<>> /\ Len(list') = Len(list) - 1 /\ tokens' = tokens /\ cnt' = cnt
    BY <1>1, <1>6 DEF Get, ListTypes
  <2>2. /\ GivenN' = GivenN /\ OwedN' = OwedN - 1 /\ PassedN' = PassedN
        /\ CountingN' = CountingN /\ UncountingN' = UncountingN + 1
    BY <1>1, <1>6, GetEffect
  <2> QED
    BY <1>1, <2>1, <2>2, Counts DEF Numbers, Counted, Backed, Agrees, Reserved
<1>7. CASE Uncount(c)
  <2>1. list' = list /\ tokens' = tokens /\ cnt' = cnt - 1
    BY <1>1, <1>7 DEF Uncount
  <2>2. /\ GivenN' = GivenN /\ OwedN' = OwedN /\ PassedN' = PassedN
        /\ CountingN' = CountingN /\ UncountingN' = UncountingN - 1
    BY <1>1, <1>7, UncountEffect
  <2> QED
    BY <1>1, <2>1, <2>2, Counts DEF Numbers, Counted, Backed, Agrees, Reserved
<1>8. CASE UnlockGet(c)
  <2>1. list' = list /\ tokens' = tokens /\ cnt' = cnt
    BY <1>1, <1>8 DEF UnlockGet
  <2>2. /\ GivenN' = GivenN /\ OwedN' = OwedN /\ PassedN' = PassedN
        /\ CountingN' = CountingN /\ UncountingN' = UncountingN
    BY <1>1, <1>8, UnlockGetEffect
  <2> QED
    BY <1>1, <2>1, <2>2, Counts DEF Numbers, Counted, Backed, Agrees, Reserved
<1> QED
  BY <1>2, <1>3, <1>4, <1>5, <1>6, <1>7, <1>8 DEF ReceiveNext

-----------------------------------------------------------------------------
(* Theorems                                                                 *)

LEMMA IInvInit == Init => IInv
<1> SUFFICES ASSUME Init PROVE IInv
  OBVIOUS
<1>1. Types
  BY SizeAssumption DEF Init, Types, TaskTypes, ListTypes, CountTypes, SentTypes, Steps, Outcomes
<1>2. Roles /\ Locked
  BY DEF Init, Roles, Locked, SendSteps, ReceiveSteps, InsideSteps
<1>3. /\ At(Owed) = {} /\ At(Given) = {} /\ At(Passed) = {}
      /\ At(Counting) = {} /\ At(Uncounting) = {}
  BY DEF Init, At, Owed, Given, Passed, Counting, Uncounting
<1>4. OwedN = 0 /\ GivenN = 0 /\ PassedN = 0 /\ CountingN = 0 /\ UncountingN = 0
  BY <1>3, FS_EmptySet DEF OwedN, GivenN, PassedN, CountingN, UncountingN
<1>5. Numbers /\ Len(list) = 0 /\ tokens = 0 /\ cnt = 0 /\ MaxNumber > 0
  BY <1>1, NumbersType, SizeAssumption DEF Init
<1>6. Counted
  BY <1>4, <1>5 DEF Counted, Backed, Agrees, Reserved, Numbers
<1> QED
  BY <1>1, <1>2, <1>6 DEF IInv

LEMMA IInvNext == IInv /\ [Next]_vars => IInv'
<1> SUFFICES ASSUME IInv, [Next]_vars PROVE IInv'
  OBVIOUS
<1>1. ASSUME NEW p \in Producers, SendNext(p) PROVE IInv'
  <2>1. Types'
    BY <1>1, TaskTypesSend, ListTypesSend, CountTypesSend, SentTypesSend DEF IInv, Types
  <2> QED
    BY <1>1, <2>1, RolesSend, LockedSend, CountedSend DEF IInv, Types
<1>2. ASSUME NEW c \in Consumers, ReceiveNext(c) PROVE IInv'
  <2>1. Types'
    BY <1>2, TaskTypesReceive, ListTypesReceive, CountTypesReceive, SentTypesReceive
       DEF IInv, Types
  <2> QED
    BY <1>2, <2>1, RolesReceive, LockedReceive, CountedReceive
       DEF IInv, Types
<1>3. CASE UNCHANGED vars
  BY <1>3 DEF vars, IInv, Types, TaskTypes, ListTypes, CountTypes, SentTypes, Roles, Locked,
              Counted, Backed, Agrees, Reserved, At, GivenN, OwedN, PassedN,
              CountingN, UncountingN
<1> QED
  BY <1>1, <1>2, <1>3 DEF Next

LEMMA IInvCorrect == Spec => []IInv
BY IInvInit, IInvNext, PTL DEF Spec

\* current_cnt never wraps below zero and everything keeps its type (TypeOK).
THEOREM TypeCorrect == Spec => []TypeOK
<1>1. IInv => TypeOK
  <2> SUFFICES ASSUME IInv PROVE TypeOK
    OBVIOUS
  <2>1. Numbers /\ Counted
    BY NumbersType DEF IInv
  <2>2. CountingN =< GivenN
    <3>1. At(Counting) \in SUBSET At(Given)
      BY DEF At, Counting, Given
    <3> QED
      BY <3>1, AtFinite, FS_Subset DEF CountingN, GivenN
  <2>3. cnt >= 0
    BY <2>1, <2>2, Counts DEF Numbers, Counted, Backed, Agrees
  <2> QED
    BY <2>3 DEF IInv, Types, TaskTypes, ListTypes, CountTypes, SentTypes, TypeOK, Steps
<1> QED
  BY <1>1, IInvCorrect, PTL

\* The list and current_cnt are changed by one task at a time (OneInside).
THEOREM MutualExclusion == Spec => []OneInside
<1>1. IInv => OneInside
  BY DEF IInv, Locked, InsideSteps, OneInside, Inside, At
<1> QED
  BY <1>1, IInvCorrect, PTL

\* A receiver that took a token never finds the list empty (NeverNull).
THEOREM GetFindsMessage == Spec => []NeverNull
<1>1. IInv => NeverNull
  <2> SUFFICES ASSUME IInv, NEW c \in Consumers, pc[c] = "get" PROVE list # <<>>
    BY DEF NeverNull
  <2>1. c \in At(Owed)
    BY DEF At, Owed, Tasks
  <2>2. OwedN >= 1
    BY <2>1, AtSome DEF OwedN
  <2>3. Numbers /\ Counted
    BY NumbersType DEF IInv
  <2>4. Len(list) >= 1
    BY <2>2, <2>3, Counts DEF Numbers, Counted, Backed
  <2> QED
    BY <2>4
<1> QED
  BY <1>1, IInvCorrect, PTL

\* current_cnt is the length of the list but for the update in progress
\* (CountAgrees).
THEOREM CountCorrect == Spec => []CountAgrees
<1>1. IInv => CountAgrees
  BY DEF IInv, Counted, Agrees, CountAgrees, CountingN, UncountingN, Counting, Uncounting
<1> QED
  BY <1>1, IInvCorrect, PTL

\* The unlocked test lets the list exceed event_max_count by less than the
\* number of senders (OvershootBounded).
THEOREM OvershootCorrect == Spec => []OvershootBounded
<1>1. IInv => OvershootBounded
  <2> SUFFICES ASSUME IInv PROVE OvershootBounded
    OBVIOUS
  <2>1. Numbers /\ Counted
    BY NumbersType DEF IInv
  <2>2. CountingN =< PassedN
    <3>1. At(Counting) \in SUBSET At(Passed)
      BY DEF At, Counting, Passed
    <3> QED
      BY <3>1, AtFinite, FS_Subset DEF CountingN, PassedN
  <2> QED
    BY <2>1, <2>2, Counts DEF Numbers, Counted, Agrees, Reserved, OvershootBounded
<1> QED
  BY <1>1, IInvCorrect, PTL

-----------------------------------------------------------------------------
(* The order of the messages                                                *)

\* All messages that were ever in the list.
Flow == received \o list

\* A sender's messages in the flow are among those it has begun to send, and the
\* one it is about to put there is newer than all of them.
Begun == \A i \in 1 .. Len(Flow) : Flow[i] \in Messages /\ Flow[i][2] =< sent[Flow[i][1]]
Newest ==
    \A p \in Producers : pc[p] \in {"alloc", "put"} =>
        \A i \in 1 .. Len(Flow) : Flow[i][1] = p => Flow[i][2] < sent[p]
Sorted ==
    \A i, j \in 1 .. Len(Flow) : i < j /\ Flow[i][1] = Flow[j][1] => Flow[i][2] < Flow[j][2]
Ordered == Begun /\ Newest /\ Sorted

LEMMA FlowType == ListTypes => Flow \in Seq(Messages)
BY DEF ListTypes, Flow

\* qosa_put adds at the end, qosa_get moves the first message to the receiver.
LEMMA FlowPut ==
    ASSUME ListTypes, NEW m \in Messages
    PROVE  received \o Append(list, m) = Append(Flow, m)
<1>1. list \in Seq(Messages) /\ received \in Seq(Messages) /\ <<m>> \in Seq(Messages)
  BY DEF ListTypes
<1>2. received \o (list \o <<m>>) = (received \o list) \o <<m>>
  BY <1>1, ConcatAssociative
<1> QED
  BY <1>1, <1>2, FlowType, AppendIsConcat DEF Flow

LEMMA FlowGet ==
    ASSUME ListTypes, list # <<>>
    PROVE  Append(received, Head(list)) \o Tail(list) = Flow
<1>1. list \in Seq(Messages) /\ received \in Seq(Messages)
  BY DEF ListTypes
<1>2. Head(list) \in Messages /\ Tail(list) \in Seq(Messages)
  BY <1>1
<1>3. <<Head(list)>> \o Tail(list) = list
  BY <1>1, <1>2
<1>4. (received \o <<Head(list)>>) \o Tail(list) = received \o (<<Head(list)>> \o Tail(list))
  BY <1>1, <1>2, ConcatAssociative
<1> QED
  BY <1>1, <1>2, <1>3, <1>4, AppendIsConcat DEF Flow

\* A step that leaves the flow alone, and moves a sender only past its put or
\* to a new message.
LEMMA OrderedStays ==
    ASSUME IInv, Ordered, Flow' = Flow, sent' = sent,
           pc' \in [Tasks -> Steps], NEW t \in Tasks,
           \A u \in Tasks \ {t} : pc'[u] = pc[u],
           pc'[t] \in {"alloc", "put"} => pc[t] \in {"alloc", "put"}
    PROVE  Ordered'
BY DEF Ordered, Begun, Newest, Sorted, Tasks

LEMMA OrderedSend ==
    ASSUME IInv, Ordered, NEW p \in Producers, SendNext(p)
    PROVE  Ordered'
<1> p \in Tasks
  BY DEF Tasks
<1>1. pc \in [Tasks -> Steps] /\ sent \in [Producers -> 0 .. MaxSends] /\ ListTypes
  BY DEF IInv, Types, TaskTypes, SentTypes
<1>2. Flow \in Seq(Messages) /\ Len(Flow) \in Nat
  BY <1>1, FlowType
<1>3. CASE Send(p)
  <2>1. Flow' = Flow /\ sent' = [sent EXCEPT ![p] = @ + 1] /\ pc' = [pc EXCEPT ![p] = "alloc"]
    BY <1>3 DEF Send, Flow, Goto
  <2>2. \A q \in Producers : sent[q] \in Nat /\ sent'[q] = IF q = p THEN sent[q] + 1 ELSE sent[q]
    BY <1>1, <2>1
  <2>3. \A i \in 1 .. Len(Flow) : Flow[i][1] \in Producers /\ Flow[i][2] \in Nat
    BY <1>2 DEF Messages
  <2>4. Begun'
    BY <2>1, <2>2, <2>3 DEF Ordered, Begun
  <2>5. Newest'
    BY <1>1, <2>1, <2>2, <2>3 DEF Ordered, Begun, Newest
  <2> QED
    BY <2>1, <2>4, <2>5 DEF Ordered, Sorted
<1>4. CASE SendFull(p)
  <2>1. Flow' = Flow /\ sent' = [sent EXCEPT ![p] = @ + 1] /\ pc' = pc /\ pc[p] = "idle"
    BY <1>4 DEF SendFull, Flow
  <2>2. \A q \in Producers : sent[q] \in Nat /\ sent'[q] = IF q = p THEN sent[q] + 1 ELSE sent[q]
    BY <1>1, <2>1
  <2>3. \A i \in 1 .. Len(Flow) : Flow[i][1] \in Producers /\ Flow[i][2] \in Nat
    BY <1>2 DEF Messages
  <2>4. Begun'
    BY <2>1, <2>2, <2>3 DEF Ordered, Begun
  <2>5. Newest'
    BY <1>1, <2>1, <2>2, <2>3 DEF Ordered, Begun, Newest
  <2> QED
    BY <2>1, <2>4, <2>5 DEF Ordered, Sorted
<1>5. CASE Put(p)
  <2>1. Message(p) \in Messages
    <3>1. pc[p] = "put"
      BY <1>5 DEF Put, Goto
    <3> QED
      BY <1>1, <3>1 DEF IInv, Roles, SendSteps, Message, Messages
  <2>2. Flow' = Append(Flow, Message(p)) /\ sent' = sent /\ pc[p] = "put" /\ pc' = [pc EXCEPT ![p] = "count"]
    BY <1>1, <1>5, <2>1, FlowPut DEF Put, Flow, Goto
  <2>3. /\ Len(Flow') = Len(Flow) + 1
        /\ \A i \in 1 .. Len(Flow) : Flow'[i] = Flow[i]
        /\ Flow'[Len(Flow) + 1] = <<p, sent[p]>>
    BY <1>2, <2>1, <2>2 DEF Message
  <2>4. \A i \in 1 .. Len(Flow) : Flow[i][1] = p => Flow[i][2] < sent[p]
    BY <2>2 DEF Ordered, Newest
  <2>5. Begun'
    BY <1>1, <1>2, <2>1, <2>2, <2>3 DEF Ordered, Begun, Message
  <2>6. Newest'
    BY <1>1, <1>2, <2>2, <2>3 DEF Ordered, Newest
  <2>7. Sorted'
    BY <1>2, <2>3, <2>4 DEF Ordered, Sorted
  <2> QED
    BY <2>5, <2>6, <2>7 DEF Ordered
<1>6. CASE NoMemory(p) \/ LockPut(p) \/ Count(p) \/ UnlockPut(p) \/ Release(p)
  <2>1. Flow' = Flow /\ sent' = sent
    BY <1>6 DEF NoMemory, LockPut, Count, UnlockPut, Release, Flow
  <2>2. /\ \A u \in Tasks \ {p} : pc'[u] = pc[u]
        /\ pc' \in [Tasks -> Steps]
        /\ pc'[p] \in {"alloc", "put"} => pc[p] \in {"alloc", "put"}
    BY <1>1, <1>6 DEF NoMemory, LockPut, Count, UnlockPut, Release, Goto, Steps, SendSteps
  <2> QED
    BY <2>1, <2>2, OrderedStays
<1> QED
  BY <1>3, <1>4, <1>5, <1>6 DEF SendNext

LEMMA OrderedReceive ==
    ASSUME IInv, Ordered, NEW c \in Consumers, ReceiveNext(c)
    PROVE  Ordered'
<1>1. pc \in [Tasks -> Steps] /\ ListTypes /\ c \in Tasks /\ c \notin Producers
  BY TasksAssumption DEF IInv, Types, TaskTypes, Tasks
<1>2. Flow' = Flow
  <2>1. CASE Get(c)
    BY <1>1, <2>1, FlowGet DEF Get, Flow
  <2> QED
    BY <2>1 DEF ReceiveNext, Wait, TimeOut, Take, LockGet, Uncount, UnlockGet, Flow
<1>3. sent' = sent /\ \A p \in Producers : pc'[p] = pc[p]
  BY <1>1 DEF ReceiveNext, Wait, TimeOut, Take, LockGet, Get, Uncount, UnlockGet, Goto, Tasks
<1> QED
  BY <1>2, <1>3 DEF Ordered, Begun, Newest, Sorted

\* Nobody receives a message twice or out of its sender's order (InOrder), for
\* any number of senders and receivers.
THEOREM OrderCorrect == Spec => []InOrder
<1>1. Init => Ordered
  <2> SUFFICES ASSUME Init PROVE Ordered
    OBVIOUS
  <2>1. Flow = <<>>
    BY DEF Init, Flow
  <2>2. 1 .. Len(Flow) = {}
    BY <2>1
  <2> QED
    BY <2>2 DEF Ordered, Begun, Newest, Sorted
<1>2. IInv /\ Ordered /\ [Next]_vars => Ordered'
  <2> SUFFICES ASSUME IInv, Ordered, [Next]_vars PROVE Ordered'
    OBVIOUS
  <2>1. CASE UNCHANGED vars
    BY <2>1 DEF vars, Ordered, Begun, Newest, Sorted, Flow
  <2> QED
    BY <2>1, OrderedSend, OrderedReceive DEF Next
<1>3. Ordered => InOrder
  BY DEF Ordered, Sorted, InOrder, Flow
<1> QED
  BY <1>1, <1>2, <1>3, IInvCorrect, PTL DEF Spec
=============================================================================
