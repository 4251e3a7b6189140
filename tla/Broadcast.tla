------------------------------ MODULE Broadcast ------------------------------
(***************************************************************************)
(* The broadcast service of quectel/common/src/broadcast_service.c: tasks  *)
(* register a message queue for a kind of message in a table that no lock  *)
(* protects, senders put messages in the service's own queue, and one task *)
(* hands each message to the queues registered for its kind.  A queue is a *)
(* list and a semaphore, as in MsgQueue: a message is linked first and     *)
(* posted then, and one whose token finds the semaphore full stays in the  *)
(* list although its sender is told of an error.                           *)
(***************************************************************************)
EXTENDS Integers, Sequences, FiniteSets

CONSTANTS
    Clients,    \* tasks that register and unregister
    Queues,     \* message queues of receivers
    Kinds,      \* values of what, QL_BROADCAST_INVALID excluded
    Invalid,    \* QL_BROADCAST_INVALID, 0: also the value of an unused slot
    Wanted,     \* the pairs <<what, msgqid>> clients register and unregister
    Null,       \* the msgqid of an unused slot
    Slots,      \* MAX_BROADCAST_RECEIVE, 32 in this code
    QueueMax,   \* MAX_MSG_COUNT, the size of the service's queue
    BoxMax,     \* the size of a receiver's queue
    SemMax,     \* tokens of a queue's semaphore, 5 in this code
    MaxCalls,   \* bound: calls that register and unregister
    MaxUnregs,  \* bound: those of them that unregister
    MaxSends    \* bound: messages sent

ASSUME KindsAssumption == Invalid \notin Kinds
ASSUME QueuesAssumption == Null \notin Queues
ASSUME WantedAssumption == Wanted \subseteq Kinds \X Queues
ASSUME BoundsAssumption ==
    /\ Slots \in Nat \ {0} /\ QueueMax \in Nat /\ BoxMax \in Nat /\ SemMax \in Nat
    /\ MaxCalls \in Nat /\ MaxUnregs \in Nat /\ MaxSends \in Nat

VARIABLES
    what, msgqid,   \* g_broadcast_recv, field by field
    at,             \* where each client is in its call
    arg,            \* the arguments <<what, msgqid>> of that call
    slot,           \* s32i of each client
    calls,          \* what is left of the two bounds
    queue,          \* the list of g_broadcast_msg_id: messages <<number, kind>>
    sends,          \* messages linked into it so far
    checked,        \* senders that found room and have not linked a message yet
    unposted,       \* senders that have, and not released the semaphore yet
    tokens,         \* tokens of that semaphore
    lost,           \* history: releases that found it full
    step,           \* where broadcast_service_thread_proc is
    i,              \* its index
    msgs,           \* its message
    box,            \* all that was put in each receiver's queue, in order
    taken,          \* how many of them the receiver took out
    posts,          \* tokens of each receiver's semaphore
    refused,        \* messages for which each receiver's queue returned an error
    registered,     \* pairs whose registration returned and still stands
    due,            \* queues that were registered when msgs was taken
    raced           \* history: two clients' calls have overlapped

table == <<what, msgqid>>
client == <<at, arg, slot, calls>>
source == <<queue, sends, checked, unposted, tokens, lost>>
loop == <<step, i, msgs>>
sink == <<box, taken, posts, refused>>
history == <<registered, due, raced>>
vars == <<table, client, source, loop, sink, history>>

Index == 1 .. Slots
Pairs == Kinds \X Queues
Messages == (1 .. MaxSends) \X Kinds
NoMessage == <<0, Invalid>>

Init ==
    /\ what = [n \in Index |-> Invalid] /\ msgqid = [n \in Index |-> Null]
    /\ at = [c \in Clients |-> "idle"]
    /\ arg = [c \in Clients |-> <<Invalid, Null>>]
    /\ slot = [c \in Clients |-> 0]
    /\ calls = [all |-> MaxCalls, unreg |-> MaxUnregs]
    /\ queue = <<>> /\ sends = 0
    /\ checked = 0 /\ unposted = 0 /\ tokens = 0 /\ lost = 0
    /\ step = "wait" /\ i = 1 /\ msgs = NoMessage
    /\ box = [q \in Queues |-> <<>>] /\ taken = [q \in Queues |-> 0]
    /\ posts = [q \in Queues |-> 0] /\ refused = [q \in Queues |-> {}]
    /\ registered = {} /\ due = {} /\ raced = FALSE

-----------------------------------------------------------------------------
(* broadcast_reg_receive_msg: the scan of the table is one step, the choice *)
(* of a slot and the two assignments to it are one each                     *)

\* A call begins, perhaps while another client is in one.  Bound: no call begins
\* after two have overlapped.
Begins(c) == ~raced /\ raced' = (\E d \in Clients \ {c} : at[d] # "idle")

Goto(c, from, to) == at[c] = from /\ at' = [at EXCEPT ![c] = to]
Used == {n \in Index : msgqid[n] # Null}
Free == Index \ Used
Holds(n, pair) == what[n] = pair[1] /\ msgqid[n] = pair[2]

\* The arguments and s32i end with the call.
Ends(c) == arg' = [arg EXCEPT ![c] = <<Invalid, Null>>] /\ slot' = [slot EXCEPT ![c] = 0]

Register(c, pair) ==
    /\ Goto(c, "idle", "scan")
    /\ calls.all > 0
    /\ calls' = [calls EXCEPT !.all = @ - 1]
    /\ arg' = [arg EXCEPT ![c] = pair]
    /\ Begins(c)
    /\ UNCHANGED <<table, slot, source, loop, sink, registered, due>>

\* Mistake: the table is not searched for the pair.
KnownNever(c) == FALSE

Known(c) == \E n \in Used : Holds(n, arg[c])

\* The pair is there already: 0 is returned at once.
AlreadyThere(c) ==
    /\ Goto(c, "scan", "idle")
    /\ Known(c)
    /\ registered' = registered \cup {arg[c]}
    /\ Ends(c)
    /\ UNCHANGED <<table, calls, source, loop, sink, due, raced>>

TableFull(c) ==
    /\ Goto(c, "scan", "idle")
    /\ ~Known(c) /\ Free = {}
    /\ Ends(c)
    /\ UNCHANGED <<table, calls, source, loop, sink, history>>

Scanned(c) ==
    /\ Goto(c, "scan", "choose")
    /\ ~Known(c) /\ Free # {}
    /\ UNCHANGED <<table, arg, slot, calls, source, loop, sink, history>>

Choose(c) ==
    /\ Goto(c, "choose", "write_what")
    /\ \E n \in Free :
         /\ \A k \in Free : n =< k
         /\ slot' = [slot EXCEPT ![c] = n]
    /\ UNCHANGED <<table, arg, calls, source, loop, sink, history>>

\* No slot is left: 0 is returned all the same.
ChooseNone(c) ==
    /\ Goto(c, "choose", "idle")
    /\ Free = {}
    /\ registered' = registered \cup {arg[c]}
    /\ Ends(c)
    /\ UNCHANGED <<table, calls, source, loop, sink, due, raced>>

WriteWhat(c) ==
    /\ Goto(c, "write_what", "write_msgqid")
    /\ what' = [what EXCEPT ![slot[c]] = arg[c][1]]
    /\ UNCHANGED <<msgqid, arg, slot, calls, source, loop, sink, history>>

WriteMsgqid(c) ==
    /\ Goto(c, "write_msgqid", "idle")
    /\ msgqid' = [msgqid EXCEPT ![slot[c]] = arg[c][2]]
    /\ registered' = registered \cup {arg[c]}
    /\ Ends(c)
    /\ UNCHANGED <<what, calls, source, loop, sink, due, raced>>

-----------------------------------------------------------------------------
(* broadcast_unreg_receive_msg                                              *)

Unregister(c, pair) ==
    /\ Goto(c, "idle", "search")
    /\ calls.all > 0 /\ calls.unreg > 0
    /\ calls' = [calls EXCEPT !.all = @ - 1, !.unreg = @ - 1]
    /\ arg' = [arg EXCEPT ![c] = pair]
    /\ slot' = [slot EXCEPT ![c] = 1]
    /\ registered' = registered \ {pair}
    /\ due' = IF pair[1] = msgs[2] THEN due \ {pair[2]} ELSE due
    /\ Begins(c)
    /\ UNCHANGED <<table, source, loop, sink>>

\* Mistake: only what is compared, not the queue.
FoundAnyQueue(c) ==
    /\ slot[c] \in Index
    /\ Goto(c, "search", "clear_msgqid")
    /\ what[slot[c]] = arg[c][1]
    /\ what' = [what EXCEPT ![slot[c]] = Invalid]
    /\ UNCHANGED <<msgqid, arg, slot, calls, source, loop, sink, history>>

Found(c) ==
    /\ slot[c] \in Index
    /\ Goto(c, "search", "clear_msgqid")
    /\ Holds(slot[c], arg[c])
    /\ what' = [what EXCEPT ![slot[c]] = Invalid]
    /\ UNCHANGED <<msgqid, arg, slot, calls, source, loop, sink, history>>

ClearMsgqid(c) ==
    /\ Goto(c, "clear_msgqid", "search")
    /\ msgqid' = [msgqid EXCEPT ![slot[c]] = Null]
    /\ slot' = [slot EXCEPT ![c] = @ + 1]
    /\ UNCHANGED <<what, arg, calls, source, loop, sink, history>>

NotFound(c) ==
    /\ slot[c] \in Index
    /\ at[c] = "search"
    /\ ~Holds(slot[c], arg[c])
    /\ slot' = [slot EXCEPT ![c] = @ + 1]
    /\ UNCHANGED <<table, at, arg, calls, source, loop, sink, history>>

Unregistered(c) ==
    /\ slot[c] > Slots
    /\ Goto(c, "search", "idle")
    /\ Ends(c)
    /\ UNCHANGED <<table, calls, source, loop, sink, history>>

-----------------------------------------------------------------------------
(* broadcast_send_msg_myself and broadcast_service_thread_proc              *)

\* qosa_msgq_release reads the number of messages without the queue's mutex; a
\* sender that finds the queue full changes nothing.
Send ==
    /\ sends + checked < MaxSends
    /\ Len(queue) < QueueMax
    /\ checked' = checked + 1
    /\ UNCHANGED <<table, client, queue, sends, unposted, tokens, lost, loop, sink, history>>

\* The message is linked into the list under the mutex, and numbered in that order.
Put(kind) ==
    /\ checked > 0
    /\ checked' = checked - 1 /\ unposted' = unposted + 1
    /\ sends' = sends + 1
    /\ queue' = Append(queue, <<sends + 1, kind>>)
    /\ UNCHANGED <<table, client, tokens, lost, loop, sink, history>>

\* The semaphore's error is returned although the message is in the list.
Post ==
    /\ unposted > 0
    /\ unposted' = unposted - 1
    /\ IF tokens < SemMax THEN tokens' = tokens + 1 /\ UNCHANGED lost
                          ELSE lost' = lost + 1 /\ UNCHANGED tokens
    /\ UNCHANGED <<table, client, queue, sends, checked, loop, sink, history>>

\* qosa_msgq_wait takes a token and the first message: the dispatcher is the only
\* receiver, and a token stands for a message (MsgQueue's NeverNull).  The loop
\* starts at the first slot.
TakeMessage ==
    /\ step = "wait" /\ step' = "at_end"
    /\ tokens > 0 /\ queue # <<>>
    /\ tokens' = tokens - 1
    /\ msgs' = Head(queue) /\ queue' = Tail(queue)
    /\ i' = 1
    /\ due' = {q \in Queues : <<Head(queue)[2], q>> \in registered}
    /\ UNCHANGED <<table, client, sends, checked, unposted, lost, sink, registered, raced>>

\* Mistake: the test is i =< MAX_BROADCAST_RECEIVE.
NextSlotTooFar(n) == i' = n + 1 /\ step' = IF n =< Slots THEN "at_end" ELSE "wait"

\* The test of i < MAX_BROADCAST_RECEIVE after i++.
NextSlot(n) == i' = n + 1 /\ step' = IF n < Slots THEN "at_end" ELSE "wait"

\* A slot whose what is 0 ends the search.
SearchOver ==
    /\ step = "at_end" /\ step' = "wait"
    /\ what[i] = Invalid
    /\ UNCHANGED <<table, client, source, i, msgs, sink, history>>

SearchGoesOn ==
    /\ step = "at_end" /\ step' = "at_match"
    /\ what[i] # Invalid
    /\ UNCHANGED <<table, client, source, i, msgs, sink, history>>

Match ==
    /\ step = "at_match" /\ step' = "deliver"
    /\ msgs[2] = what[i]
    /\ UNCHANGED <<table, client, source, i, msgs, sink, history>>

NoMatch ==
    /\ step = "at_match"
    /\ msgs[2] # what[i]
    /\ NextSlot(i)
    /\ UNCHANGED <<table, client, source, msgs, sink, history>>

Room(q) == Len(box[q]) - taken[q] < BoxMax

\* qosa_msgq_release puts msgs in a receiver's list and posts it, or returns the
\* error of its full semaphore.
PutInBox(q) ==
    /\ box' = [box EXCEPT ![q] = Append(@, msgs)]
    /\ posts' = [posts EXCEPT ![q] = IF @ < SemMax THEN @ + 1 ELSE @]
    /\ refused' = IF posts[q] < SemMax THEN refused
                  ELSE [refused EXCEPT ![q] = @ \cup {msgs}]

\* Mistake: the search ends with the first receiver found.
DeliverFirst ==
    /\ step = "deliver" /\ step' = "wait"
    /\ msgqid[i] \in Queues /\ Room(msgqid[i])
    /\ PutInBox(msgqid[i])
    /\ UNCHANGED <<table, client, source, i, msgs, taken, history>>

Deliver ==
    /\ step = "deliver"
    /\ msgqid[i] \in Queues /\ Room(msgqid[i])
    /\ PutInBox(msgqid[i])
    /\ NextSlot(i)
    /\ UNCHANGED <<table, client, source, msgs, taken, history>>

\* Mistake: the message is tried again until the receiver takes it.
DeliverFullRetries ==
    /\ step = "deliver"
    /\ msgqid[i] \in Queues /\ ~Room(msgqid[i])
    /\ refused' = [refused EXCEPT ![msgqid[i]] = @ \cup {msgs}]
    /\ UNCHANGED <<table, client, source, loop, box, taken, posts, history>>

DeliverFull ==
    /\ step = "deliver"
    /\ msgqid[i] \in Queues /\ ~Room(msgqid[i])
    /\ refused' = [refused EXCEPT ![msgqid[i]] = @ \cup {msgs}]
    /\ NextSlot(i)
    /\ UNCHANGED <<table, client, source, msgs, box, taken, posts, history>>

\* The slot was being written or cleared: qosa_msgq_release refuses NULL.
DeliverNull ==
    /\ step = "deliver"
    /\ msgqid[i] = Null
    /\ NextSlot(i)
    /\ UNCHANGED <<table, client, source, msgs, sink, history>>

\* A receiver's qosa_msgq_wait.
Receive(q) ==
    /\ posts[q] > 0 /\ taken[q] < Len(box[q])
    /\ posts' = [posts EXCEPT ![q] = @ - 1]
    /\ taken' = [taken EXCEPT ![q] = @ + 1]
    /\ UNCHANGED <<table, client, source, loop, box, refused, history>>

RegisterNext(c) ==
    \/ \E pair \in Wanted : Register(c, pair)
    \/ AlreadyThere(c) \/ TableFull(c) \/ Scanned(c)
    \/ Choose(c) \/ ChooseNone(c) \/ WriteWhat(c) \/ WriteMsgqid(c)

UnregisterNext(c) ==
    \/ \E pair \in Wanted : Unregister(c, pair)
    \/ Found(c) \/ ClearMsgqid(c) \/ NotFound(c) \/ Unregistered(c)

SendNext == Send \/ (\E kind \in Kinds : Put(kind)) \/ Post

Dispatch ==
    \/ TakeMessage \/ SearchOver \/ SearchGoesOn \/ Match \/ NoMatch
    \/ Deliver \/ DeliverFull \/ DeliverNull

Next ==
    \/ \E c \in Clients : RegisterNext(c) \/ UnregisterNext(c)
    \/ SendNext
    \/ Dispatch
    \/ \E q \in Queues : Receive(q)

Spec == Init /\ [][Next]_vars

\* The dispatcher's task runs, and a sender that has linked its message goes on to
\* release the semaphore; nobody has to register, send or receive.
LiveSpec == Spec /\ WF_vars(Dispatch) /\ WF_vars(Post)

-----------------------------------------------------------------------------
(* Properties                                                               *)

ClientSteps ==
    {"idle", "scan", "choose", "write_what", "write_msgqid", "search", "clear_msgqid"}

\* The type invariant: the dispatcher stays inside the table, no receiver's queue
\* holds more than its size, and both fields of a slot are legal.
TypeOK ==
    /\ what \in [Index -> Kinds \cup {Invalid}]
    /\ msgqid \in [Index -> Queues \cup {Null}]
    /\ at \in [Clients -> ClientSteps]
    /\ arg \in [Clients -> Pairs \cup {<<Invalid, Null>>}]
    /\ slot \in [Clients -> 0 .. Slots + 1]
    /\ calls \in [all : 0 .. MaxCalls, unreg : 0 .. MaxUnregs]
    /\ queue \in Seq(Messages)
    /\ sends \in 0 .. MaxSends /\ checked \in 0 .. MaxSends - sends
    /\ unposted \in Nat /\ tokens \in 0 .. SemMax /\ lost \in Nat
    /\ step \in {"wait", "at_end", "at_match", "deliver"}
    /\ i \in 1 .. Slots + 1 /\ (step # "wait" => i =< Slots)
    /\ msgs \in Messages \cup {NoMessage}
    /\ box \in [Queues -> Seq(Messages)] /\ taken \in [Queues -> Nat]
    /\ posts \in [Queues -> 0 .. SemMax] /\ refused \in [Queues -> SUBSET Messages]
    /\ \A q \in Queues : taken[q] =< Len(box[q]) /\ Len(box[q]) - taken[q] =< BoxMax
    /\ registered \subseteq Pairs /\ due \subseteq Queues /\ raced \in BOOLEAN

\* No client has begun to unregister.
OnlyRegistrations == calls.unreg = MaxUnregs

Got(q, m) == (\E n \in 1 .. Len(box[q]) : box[q][n] = m) \/ m \in refused[q]

\* When the dispatcher has finished with a message, every queue whose
\* registration had returned when it took the message has it, or was full.
\* An unregistration may leave a hole that hides the slots behind it,
\* and clients whose calls overlap may write to one slot.
EveryReceiver == step = "wait" /\ OnlyRegistrations /\ ~raced => \A q \in due : Got(q, msgs)

\* The comment "register receive to broascast" of line 10: so it should be
\* whatever others unregister.
RegisteredReceives == step = "wait" => \A q \in due : Got(q, msgs)

\* A registration that returned 0 is in the table and stays there, whatever other
\* pairs come and go, as long as no two clients' calls overlap.
RegistrationKept ==
    ~raced => \A pair \in registered : \E n \in Index : Holds(n, pair)

\* The comment "return: err:FAILURE ok:SUCCESS" of line 11: so it should be
\* whatever others do.
RegisteredIsKept == \A pair \in registered : \E n \in Index : Holds(n, pair)

\* A receiver gets the messages in the order they were sent and none of them
\* twice, also while a task registers.  A slot cleared and used again between
\* lines 154 and 159 would send it a message a second time.
OrderedOnce ==
    OnlyRegistrations /\ ~raced =>
        \A q \in Queues : \A m, n \in 1 .. Len(box[q]) : m < n => box[q][m][1] < box[q][n][1]

\* A message of the last places of the list: as many as releases have failed.
Stranded(n) ==
    \E k \in 1 .. Len(queue) : queue[k][1] = n /\ k > Len(queue) - lost

\* Nothing waits behind a receiver that does not read: every message that is
\* linked is dispatched to the queues due or to the refusals, but for as many
\* messages at the list's end as tokens were lost on a full semaphore.
EveryMessageDispatched ==
    \A n \in 1 .. MaxSends :
        (\E k \in 1 .. Len(queue) : queue[k][1] = n)
            ~> (msgs[1] = n /\ step = "wait") \/ Stranded(n)
=============================================================================
