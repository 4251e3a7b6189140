------------------------------- MODULE MsgQueue -------------------------------
(***************************************************************************)
(* The message queue of .../osal/qosa_msg_queue.c: a list of copied        *)
(* messages under a mutex, a counter of them that senders read without it, *)
(* and a semaphore that receivers wait on.  The semaphore is the counting  *)
(* semaphore of module Semaphore, which QosaSem is shown to implement: a   *)
(* release is one step that adds a token or, when it holds SemMax of them, *)
(* fails.                                                                  *)
(***************************************************************************)
EXTENDS Integers, Sequences, FiniteSets

CONSTANTS
    Producers,  \* tasks that call qosa_msgq_release
    Consumers,  \* tasks that call qosa_msgq_wait
    MaxNumber,  \* event_max_count, 16 in this code
    SemMax,     \* tokens of the semaphore, 5 in this code
    MaxSends    \* bound: messages each producer sends

ASSUME TasksAssumption ==
    /\ IsFiniteSet(Producers) /\ IsFiniteSet(Consumers)
    /\ Producers \cap Consumers = {}
    /\ "none" \notin Producers \cup Consumers
ASSUME SizeAssumption ==
    MaxNumber \in Nat \ {0} /\ SemMax \in Nat \ {0} /\ MaxSends \in Nat

VARIABLES
    list,       \* hndl->type_list
    cnt,        \* hndl->current_cnt
    tokens,     \* tokens of hndl->event_sem
    lock,       \* owner of hndl->event_mutex
    pc,         \* where each task is in its call
    sent,       \* messages each producer has begun to send
    outcome,    \* what qosa_msgq_release returned for each message
    received    \* messages in the order the receivers took them

vars == <<list, cnt, tokens, lock, pc, sent, outcome, received>>

Tasks == Producers \cup Consumers
NoTask == "none"

\* A message is named by its sender and its number.
Messages == Producers \X (1 .. MaxSends)
Message(p) == <<p, sent[p]>>

SendSteps == {"alloc", "put", "count", "unlock_put", "release"}
ReceiveSteps == {"wait", "lock_get", "get", "uncount", "unlock_get"}
Outcomes == {"none", "ok", "full", "no_memory", "error"}

Init ==
    /\ list = <<>> /\ cnt = 0 /\ tokens = 0 /\ lock = NoTask
    /\ pc = [t \in Tasks |-> "idle"]
    /\ sent = [p \in Producers |-> 0]
    /\ outcome = [m \in Messages |-> "none"]
    /\ received = <<>>

Goto(t, from, to) == pc[t] = from /\ pc' = [pc EXCEPT ![t] = to]
Outcome(p, o) == outcome' = [outcome EXCEPT ![Message(p)] = o]
TakeLock(t) == lock = NoTask /\ lock' = t
Unlock(t) == lock' = NoTask

-----------------------------------------------------------------------------
(* qosa_msgq_release                                                        *)

\* Mistake: the test for a full queue is dropped.
SendUnchecked(p) ==
    /\ sent[p] < MaxSends
    /\ Goto(p, "idle", "alloc")
    /\ sent' = [sent EXCEPT ![p] = @ + 1]
    /\ UNCHANGED <<list, cnt, tokens, lock, outcome, received>>

\* The call begins and finds room; current_cnt is read without the mutex.
Send(p) ==
    /\ sent[p] < MaxSends
    /\ cnt < MaxNumber
    /\ Goto(p, "idle", "alloc")
    /\ sent' = [sent EXCEPT ![p] = @ + 1]
    /\ UNCHANGED <<list, cnt, tokens, lock, outcome, received>>

SendFull(p) ==
    /\ pc[p] = "idle" /\ sent[p] < MaxSends
    /\ cnt >= MaxNumber
    /\ sent' = [sent EXCEPT ![p] = @ + 1]
    /\ outcome' = [outcome EXCEPT ![<<p, sent[p] + 1>>] = "full"]
    /\ UNCHANGED <<list, cnt, tokens, lock, pc, received>>

NoMemory(p) ==
    /\ Goto(p, "alloc", "idle")
    /\ Outcome(p, "no_memory")
    /\ UNCHANGED <<list, cnt, tokens, lock, sent, received>>

LockPut(p) ==
    /\ Goto(p, "alloc", "put")
    /\ TakeLock(p)
    /\ UNCHANGED <<list, cnt, tokens, sent, outcome, received>>

\* Mistake: qosa_put_head instead of qosa_put.
PutAtHead(p) ==
    /\ Goto(p, "put", "count")
    /\ list' = <<Message(p)>> \o list
    /\ UNCHANGED <<cnt, tokens, lock, sent, outcome, received>>

Put(p) ==
    /\ Goto(p, "put", "count")
    /\ list' = Append(list, Message(p))
    /\ UNCHANGED <<cnt, tokens, lock, sent, outcome, received>>

Count(p) ==
    /\ Goto(p, "count", "unlock_put")
    /\ cnt' = cnt + 1
    /\ UNCHANGED <<list, tokens, lock, sent, outcome, received>>

UnlockPut(p) ==
    /\ Goto(p, "unlock_put", "release")
    /\ Unlock(p)
    /\ UNCHANGED <<list, cnt, tokens, sent, outcome, received>>

\* Mistake: the error of a full semaphore is not returned.
ReleaseIgnoresError(p) ==
    /\ Goto(p, "release", "idle")
    /\ tokens' = IF tokens < SemMax THEN tokens + 1 ELSE tokens
    /\ Outcome(p, "ok")
    /\ UNCHANGED <<list, cnt, lock, sent, received>>

\* The semaphore's error is returned although the message is in the list.
Release(p) ==
    /\ Goto(p, "release", "idle")
    /\ tokens' = IF tokens < SemMax THEN tokens + 1 ELSE tokens
    /\ Outcome(p, IF tokens < SemMax THEN "ok" ELSE "error")
    /\ UNCHANGED <<list, cnt, lock, sent, received>>

-----------------------------------------------------------------------------
(* qosa_msgq_wait                                                           *)

Wait(c) ==
    /\ Goto(c, "idle", "wait")
    /\ UNCHANGED <<list, cnt, tokens, lock, sent, outcome, received>>

\* Mistake: a wait that ran out of time goes on to take a message.
TimeOutGoesOn(c) ==
    /\ Goto(c, "wait", "lock_get")
    /\ tokens = 0
    /\ UNCHANGED <<list, cnt, tokens, lock, sent, outcome, received>>

TimeOut(c) ==
    /\ Goto(c, "wait", "idle")
    /\ tokens = 0
    /\ UNCHANGED <<list, cnt, tokens, lock, sent, outcome, received>>

Take(c) ==
    /\ Goto(c, "wait", "lock_get")
    /\ tokens > 0
    /\ tokens' = tokens - 1
    /\ UNCHANGED <<list, cnt, lock, sent, outcome, received>>

LockGet(c) ==
    /\ Goto(c, "lock_get", "get")
    /\ TakeLock(c)
    /\ UNCHANGED <<list, cnt, tokens, sent, outcome, received>>

\* qosa_get returns NULL for an empty list, and its argv is read unchecked:
\* NeverNull says that this does not happen.
Get(c) ==
    /\ Goto(c, "get", "uncount")
    /\ list # <<>>
    /\ list' = Tail(list)
    /\ received' = Append(received, Head(list))
    /\ UNCHANGED <<cnt, tokens, lock, sent, outcome>>

Uncount(c) ==
    /\ Goto(c, "uncount", "unlock_get")
    /\ cnt' = cnt - 1
    /\ UNCHANGED <<list, tokens, lock, sent, outcome, received>>

UnlockGet(c) ==
    /\ Goto(c, "unlock_get", "idle")
    /\ Unlock(c)
    /\ UNCHANGED <<list, cnt, tokens, sent, outcome, received>>

SendNext(p) ==
    \/ Send(p) \/ SendFull(p) \/ NoMemory(p) \/ LockPut(p)
    \/ Put(p) \/ Count(p) \/ UnlockPut(p) \/ Release(p)

ReceiveNext(c) ==
    \/ Wait(c) \/ TimeOut(c) \/ Take(c) \/ LockGet(c)
    \/ Get(c) \/ Uncount(c) \/ UnlockGet(c)

Next ==
    \/ \E p \in Producers : SendNext(p)
    \/ \E c \in Consumers : ReceiveNext(c)

Spec == Init /\ [][Next]_vars

\* A sender that has begun finishes; receivers loop, like the dispatcher of
\* the broadcast service, and the kernel serves equal-priority tasks in turn.
\* Senders need not send, and no wait needs to run out of time.
LiveSpec ==
    /\ Spec
    /\ \A p \in Producers :
         /\ WF_vars(Put(p) \/ Count(p) \/ UnlockPut(p) \/ Release(p))
         /\ SF_vars(LockPut(p))
    /\ \A c \in Consumers :
         /\ WF_vars(Wait(c) \/ Get(c) \/ Uncount(c) \/ UnlockGet(c))
         /\ SF_vars(Take(c)) /\ SF_vars(LockGet(c))

-----------------------------------------------------------------------------
(* Properties                                                               *)

\* The type invariant: current_cnt, a u32_t, is never decremented below
\* zero, and the semaphore keeps its bound.
TypeOK ==
    /\ list \in Seq(Messages)
    /\ cnt \in Nat
    /\ tokens \in 0 .. SemMax
    /\ lock \in Tasks \cup {NoTask}
    /\ pc \in [Tasks -> {"idle"} \cup SendSteps \cup ReceiveSteps]
    /\ sent \in [Producers -> 0 .. MaxSends]
    /\ outcome \in [Messages -> Outcomes]
    /\ received \in Seq(Messages)

At(steps) == {t \in Tasks : pc[t] \in steps}

Inside == At({"put", "count", "unlock_put", "get", "uncount", "unlock_get"})

\* One task at a time is between the mutex's lock and unlock, so the list
\* operations and the updates of current_cnt may be modelled as single steps.
OneInside == \A t, u \in Inside : t = u

\* A receiver that got a token finds a message: qosa_msgq_wait does not read
\* the argv of NULL (line 260).  Tokens are given after the message is in the
\* list and taken before one leaves it, by several tasks at once.
NeverNull == \A c \in Consumers : pc[c] = "get" => list # <<>>

\* current_cnt is the length of the list except between the two updates of
\* the task that holds the mutex.
CountAgrees == cnt = Len(list) - Cardinality(At({"count"})) + Cardinality(At({"uncount"}))

\* The test of line 176 is outside the mutex, so event_max_count is exceeded
\* by the senders that passed it together, and by no more than those.
OvershootBounded == Len(list) < MaxNumber + Cardinality(Producers)

\* Nobody receives a message twice or in another order than its sender sent
\* it, however many tasks send and receive.
InOrder ==
    LET flow == received \o list
    IN  \A i, j \in 1 .. Len(flow) :
            i < j /\ flow[i][1] = flow[j][1] => flow[i][2] < flow[j][2]

Received(m) == \E i \in 1 .. Len(received) : received[i] = m

\* A message qosa_msgq_release accepted is received, unless a semaphore that
\* was full has lost the token of some earlier message.
AcceptedArrives ==
    \A m \in Messages :
        outcome[m] = "ok" ~> (Received(m) \/ \E n \in Messages : outcome[n] = "error")

\* The doc of maxNumber (qosa_msg_queue.c:50).
MaximumHeld == Len(list) =< MaxNumber

\* The doc of the result (qosa_msg_queue.c:151): a message whose release
\* returned an error was not sent.
RefusedNotSent ==
    \A i \in 1 .. Len(list) : outcome[list[i]] # "error"

\* The doc of qosa_msgq_wait (qosa_msg_queue.c:211): a receiver that waits for
\* ever gets every message that was accepted.
AcceptedIsReceived == \A m \in Messages : outcome[m] = "ok" ~> Received(m)
=============================================================================
