--------------------------- MODULE BroadcastProofs ---------------------------
(***************************************************************************)
(* Proofs about Broadcast for any number of clients, queues, kinds, slots  *)
(* and messages: as long as no two clients' calls overlap, a registration  *)
(* that returned stays in the table; and before the first unregistration   *)
(* every registered queue gets every message once and in order.            *)
(***************************************************************************)
EXTENDS Broadcast, SequenceTheorems, TLAPS

-----------------------------------------------------------------------------
(* Types                                                                    *)

TableTypes ==
    /\ what \in [Index -> Kinds \cup {Invalid}]
    /\ msgqid \in [Index -> Queues \cup {Null}]
ClientTypes ==
    /\ at \in [Clients -> ClientSteps]
    /\ arg \in [Clients -> Pairs \cup {<<Invalid, Null>>}]
    /\ slot \in [Clients -> 0 .. Slots + 1]
    /\ calls \in [all : 0 .. MaxCalls, unreg : 0 .. MaxUnregs]
    /\ registered \subseteq Pairs /\ due \subseteq Queues /\ raced \in BOOLEAN
LoopTypes ==
    /\ queue \in Seq(Messages)
    /\ sends \in 0 .. MaxSends /\ checked \in 0 .. MaxSends - sends
    /\ unposted \in Nat /\ tokens \in 0 .. SemMax /\ lost \in Nat
    /\ step \in {"wait", "at_end", "at_match", "deliver"}
    /\ i \in 1 .. Slots + 1 /\ (step # "wait" => i =< Slots)
    /\ msgs \in Messages \cup {NoMessage}
SinkTypes ==
    /\ box \in [Queues -> Seq(Messages)] /\ taken \in [Queues -> Nat]
    /\ posts \in [Queues -> 0 .. SemMax] /\ refused \in [Queues -> SUBSET Messages]
    /\ \A q \in Queues : taken[q] =< Len(box[q]) /\ Len(box[q]) - taken[q] =< BoxMax

\* Where a call of a client is in the table, and what it is about.
Places ==
    \A c \in Clients :
        /\ at[c] # "idle" => arg[c] \in Pairs
        /\ at[c] \in {"write_what", "write_msgqid", "clear_msgqid"} => slot[c] \in Index
        /\ at[c] = "search" => slot[c] \in 1 .. Slots + 1

\* A message in the loop is a real one.
InLoop == step # "wait" => msgs \in Messages

Types == TypeOK /\ Places /\ InLoop

LEMMA PairTypes ==
    ASSUME NEW p \in Pairs
    PROVE  p[1] \in Kinds /\ p[2] \in Queues /\ p = <<p[1], p[2]>> /\ p[1] # Invalid /\ p[2] # Null
BY KindsAssumption, QueuesAssumption DEF Pairs

LEMMA EndTypes ==
    ASSUME ClientTypes, NEW c \in Clients, Ends(c)
    PROVE  /\ arg' \in [Clients -> Pairs \cup {<<Invalid, Null>>}]
           /\ slot' \in [Clients -> 0 .. Slots + 1]
           /\ \A d \in Clients \ {c} : arg'[d] = arg[d] /\ slot'[d] = slot[d]
<1>1. 0 \in 0 .. Slots + 1
  BY BoundsAssumption
<1> QED
  BY <1>1 DEF ClientTypes, Ends

LEMMA TypesInit == Init => Types
<1> SUFFICES ASSUME Init PROVE Types
  OBVIOUS
<1> USE BoundsAssumption DEF Init
<1>1. TableTypes
  BY DEF TableTypes
<1>2. ClientTypes
  <2>1. 0 \in 0 .. Slots + 1 /\ MaxCalls \in 0 .. MaxCalls /\ MaxUnregs \in 0 .. MaxUnregs
    OBVIOUS
  <2>2. calls \in [all : 0 .. MaxCalls, unreg : 0 .. MaxUnregs]
    BY <2>1
  <2> QED
    BY <2>1, <2>2 DEF ClientTypes, ClientSteps
<1>3. LoopTypes
  BY DEF LoopTypes
<1>4. SinkTypes
  BY DEF SinkTypes
<1> QED
  BY <1>1, <1>2, <1>3, <1>4
     DEF Types, TypeOK, TableTypes, ClientTypes, LoopTypes, SinkTypes, Places, InLoop

LEMMA TypesRegister ==
    ASSUME TableTypes, ClientTypes, Places, NEW c \in Clients, RegisterNext(c)
    PROVE  TableTypes' /\ ClientTypes' /\ Places' /\ UNCHANGED <<source, loop, sink>>
<1> USE DEF TableTypes, ClientTypes, Places, ClientSteps, Goto, table, history, client
<1>1. ASSUME NEW pair \in Wanted, Register(c, pair)
      PROVE  TableTypes' /\ ClientTypes' /\ Places'
  <2>1. pair \in Pairs
    BY WantedAssumption DEF Pairs
  <2>2. at[c] = "idle" /\ at' = [at EXCEPT ![c] = "scan"] /\ arg' = [arg EXCEPT ![c] = pair]
        /\ UNCHANGED <<what, msgqid, slot, registered, due>>
    BY <1>1 DEF Register
  <2>3. calls' \in [all : 0 .. MaxCalls, unreg : 0 .. MaxUnregs] /\ raced' \in BOOLEAN
    BY <1>1, BoundsAssumption DEF Register, Begins
  <2> QED
    BY <2>1, <2>2, <2>3
<1>2. CASE AlreadyThere(c)
  BY <1>2, EndTypes DEF AlreadyThere, Ends
<1>3. CASE TableFull(c) \/ Scanned(c)
  BY <1>3, EndTypes DEF TableFull, Scanned, Ends
<1>4. CASE Choose(c)
  <2>1. PICK n \in Index : slot' = [slot EXCEPT ![c] = n]
    BY <1>4 DEF Choose, Free
  <2>2. n \in 0 .. Slots + 1
    BY BoundsAssumption DEF Index
  <2> QED
    BY <1>4, <2>1, <2>2 DEF Choose
<1>5. CASE ChooseNone(c)
  BY <1>5, EndTypes DEF ChooseNone, Ends
<1>6. CASE WriteWhat(c)
  BY <1>6, PairTypes DEF WriteWhat
<1>7. CASE WriteMsgqid(c)
  BY <1>7, PairTypes, EndTypes DEF WriteMsgqid, Ends
<1>8. UNCHANGED <<source, loop, sink>>
  BY DEF RegisterNext, Register, AlreadyThere, TableFull, Scanned, Choose, ChooseNone, WriteWhat,
     WriteMsgqid
<1> QED
  BY <1>1, <1>2, <1>3, <1>4, <1>5, <1>6, <1>7, <1>8 DEF RegisterNext

LEMMA TypesUnregister ==
    ASSUME TableTypes, ClientTypes, Places, NEW c \in Clients, UnregisterNext(c)
    PROVE  TableTypes' /\ ClientTypes' /\ Places' /\ UNCHANGED <<source, loop, sink>>
<1> USE DEF TableTypes, ClientTypes, Places, ClientSteps, Goto, table, history, client
<1>1. ASSUME NEW pair \in Wanted, Unregister(c, pair)
      PROVE  TableTypes' /\ ClientTypes' /\ Places'
  <2>1. pair \in Pairs
    BY WantedAssumption DEF Pairs
  <2>2. at[c] = "idle" /\ at' = [at EXCEPT ![c] = "search"] /\ arg' = [arg EXCEPT ![c] = pair]
        /\ slot' = [slot EXCEPT ![c] = 1] /\ UNCHANGED <<what, msgqid>>
        /\ registered' \subseteq registered /\ due' \subseteq due
    BY <1>1 DEF Unregister
  <2>3. calls' \in [all : 0 .. MaxCalls, unreg : 0 .. MaxUnregs] /\ raced' \in BOOLEAN
    <3>1. /\ calls.all \in 0 .. MaxCalls /\ calls.unreg \in 0 .. MaxUnregs
          /\ calls.all > 0 /\ calls.unreg > 0
      BY <1>1 DEF Unregister
    <3>2. calls.all - 1 \in 0 .. MaxCalls /\ calls.unreg - 1 \in 0 .. MaxUnregs
      BY <3>1, BoundsAssumption
    <3>3. calls' = [calls EXCEPT !.all = calls.all - 1, !.unreg = calls.unreg - 1]
      BY <1>1 DEF Unregister
    <3> QED
      BY <1>1, <3>2, <3>3 DEF Unregister, Begins
  <2>4. 1 \in 0 .. Slots + 1 /\ 1 \in 1 .. Slots + 1
    BY BoundsAssumption
  <2> QED
    BY <2>1, <2>2, <2>3, <2>4
<1>2. CASE Found(c)
  BY <1>2 DEF Found
<1>3. CASE ClearMsgqid(c) \/ NotFound(c)
  <2>1. slot[c] \in Index /\ slot' = [slot EXCEPT ![c] = slot[c] + 1] /\ UNCHANGED what
    BY <1>3 DEF ClearMsgqid, NotFound
  <2>2. slot[c] + 1 \in 0 .. Slots + 1 /\ slot[c] + 1 \in 1 .. Slots + 1
    BY <2>1, BoundsAssumption DEF Index
  <2> QED
    BY <1>3, <2>1, <2>2 DEF ClearMsgqid, NotFound
<1>4. CASE Unregistered(c)
  BY <1>4, EndTypes DEF Unregistered, Ends
<1>5. UNCHANGED <<source, loop, sink>>
  BY DEF UnregisterNext, Unregister, Found, ClearMsgqid, NotFound, Unregistered
<1> QED
  BY <1>1, <1>2, <1>3, <1>4, <1>5 DEF UnregisterNext

LEMMA TypesSend ==
    ASSUME LoopTypes, SendNext
    PROVE  LoopTypes' /\ UNCHANGED <<table, client, loop, sink, history>>
<1> USE BoundsAssumption DEF LoopTypes
<1>1. CASE Send
  BY <1>1 DEF Send, loop
<1>2. ASSUME NEW kind \in Kinds, Put(kind) PROVE LoopTypes'
  <2>1. /\ checked > 0 /\ checked' = checked - 1 /\ unposted' = unposted + 1
        /\ sends' = sends + 1 /\ UNCHANGED <<tokens, lost, loop>>
        /\ queue' = Append(queue, <<sends + 1, kind>>)
    BY <1>2 DEF Put
  <2>2. sends + 1 \in 1 .. MaxSends /\ checked' \in 0 .. MaxSends - sends'
    BY <2>1
  <2>3. <<sends + 1, kind>> \in Messages
    BY <2>2 DEF Messages
  <2>4. queue' \in Seq(Messages)
    BY <2>1, <2>3
  <2> QED
    BY <2>1, <2>2, <2>4 DEF loop
<1>3. CASE Post
  BY <1>3 DEF Post, loop
<1>4. UNCHANGED <<table, client, loop, sink, history>>
  BY DEF SendNext, Send, Put, Post
<1> QED
  BY <1>1, <1>2, <1>3, <1>4 DEF SendNext

LEMMA NextSlotTypes ==
    ASSUME i \in Index, NextSlot(i)
    PROVE  /\ i' \in 1 .. Slots + 1 /\ step' \in {"wait", "at_end"} /\ i' = i + 1
           /\ step' # "wait" => i' \in Index
           /\ step' = "wait" <=> i = Slots
BY BoundsAssumption DEF NextSlot, Index

LEMMA TypesDispatch ==
    ASSUME LoopTypes, TableTypes, SinkTypes, InLoop, Dispatch
    PROVE  LoopTypes' /\ SinkTypes' /\ InLoop' /\ UNCHANGED <<table, client, registered, raced>>
<1> USE DEF LoopTypes, SinkTypes, InLoop, source, loop, sink, history
<1>1. step # "wait" => i \in Index
  BY BoundsAssumption DEF Index
<1>2. CASE TakeMessage
  <2>1. /\ Head(queue) \in Messages
        /\ Tail(queue) \in Seq(Messages) /\ Len(Tail(queue)) = Len(queue) - 1
    BY <1>2 DEF TakeMessage
  <2>2. 1 \in 1 .. Slots + 1 /\ 1 =< Slots /\ Len(queue) \in Nat
    BY BoundsAssumption
  <2> QED
    BY <1>2, <2>1, <2>2, BoundsAssumption DEF TakeMessage
<1>3. CASE SearchOver \/ SearchGoesOn \/ Match
  BY <1>3 DEF SearchOver, SearchGoesOn, Match
<1>4. CASE NoMatch \/ DeliverNull
  <2>1. /\ UNCHANGED <<queue, sends, checked, unposted, tokens, lost, msgs, box, taken, posts, refused>>
        /\ step # "wait" /\ NextSlot(i)
    BY <1>4 DEF NoMatch, DeliverNull
  <2>2. LoopTypes'
    BY <1>1, <2>1, NextSlotTypes, BoundsAssumption DEF Index
  <2>3. SinkTypes'
    BY <2>1
  <2>4. InLoop'
    BY <2>1
  <2>5. UNCHANGED <<table, client, registered, raced>>
    BY <1>4 DEF NoMatch, DeliverNull
  <2> QED
    BY <2>2, <2>3, <2>4, <2>5
<1>5. CASE Deliver
  <2>1. LoopTypes' /\ InLoop'
    BY <1>1, <1>5, NextSlotTypes, BoundsAssumption DEF Deliver, Index
  <2>2. PICK q \in Queues : q = msgqid[i] /\ Room(q) /\ PutInBox(q)
                              /\ box' = [box EXCEPT ![q] = Append(@, msgs)]
    BY <1>5 DEF Deliver, PutInBox
  <2>3. /\ box'[q] = Append(box[q], msgs) /\ box'[q] \in Seq(Messages)
        /\ Len(box'[q]) = Len(box[q]) + 1
    BY <1>5, <2>2 DEF Deliver
  <2>4. \A p \in Queues : p # q => box'[p] = box[p]
    BY <2>2
  <2>5. box' \in [Queues -> Seq(Messages)]
    BY <2>2, <2>3
  <2>6. Len(box[q]) - taken[q] < BoxMax /\ Len(box[q]) \in Nat /\ taken[q] \in Nat
    BY <2>2 DEF Room
  <2>7. \A p \in Queues : taken[p] =< Len(box'[p]) /\ Len(box'[p]) - taken[p] =< BoxMax
    <3> SUFFICES ASSUME NEW p \in Queues
                 PROVE  taken[p] =< Len(box'[p]) /\ Len(box'[p]) - taken[p] =< BoxMax
      OBVIOUS
    <3>1. CASE p = q
      <4>1. taken[q] =< Len(box[q])
        OBVIOUS
      <4> QED
        BY <2>3, <2>6, <3>1, <4>1, BoundsAssumption
    <3>2. CASE p # q
      BY <2>4, <3>2
    <3> QED
      BY <3>1, <3>2
  <2>8. posts' \in [Queues -> 0 .. SemMax] /\ refused' \in [Queues -> SUBSET Messages]
    <3>1. msgs \in Messages
      BY <1>5 DEF Deliver
    <3>2. posts' \in [Queues -> 0 .. SemMax]
      BY <2>2, BoundsAssumption DEF PutInBox
    <3>3. refused' \in [Queues -> SUBSET Messages]
      BY <2>2, <3>1 DEF PutInBox
    <3> QED
      BY <3>2, <3>3
  <2> QED
    BY <1>5, <2>1, <2>5, <2>7, <2>8 DEF Deliver
<1>6. CASE DeliverFull
  <2>1. LoopTypes' /\ InLoop'
    BY <1>1, <1>6, NextSlotTypes, BoundsAssumption DEF DeliverFull, Index
  <2>2. refused' \in [Queues -> SUBSET Messages]
    BY <1>6 DEF DeliverFull
  <2> QED
    BY <1>6, <2>1, <2>2 DEF DeliverFull
<1>7. UNCHANGED <<table, client, registered, raced>>
  BY DEF Dispatch, TakeMessage, SearchOver, SearchGoesOn, Match, NoMatch, Deliver, DeliverFull,
     DeliverNull
<1> QED
  BY <1>2, <1>3, <1>4, <1>5, <1>6, <1>7 DEF Dispatch, DeliverNull, NoMatch

LEMMA TypesReceive ==
    ASSUME SinkTypes, NEW q \in Queues, Receive(q)
    PROVE  SinkTypes' /\ UNCHANGED <<table, client, source, loop, box, refused, history>>
<1>1. taken' = [taken EXCEPT ![q] = taken[q] + 1] /\ taken[q] \in Nat /\ taken[q] < Len(box[q])
      /\ UNCHANGED <<box, refused>> /\ Len(box[q]) \in Nat
  BY DEF Receive, SinkTypes
<1>2. taken' \in [Queues -> Nat] /\ posts' \in [Queues -> 0 .. SemMax]
  <2>1. posts' = [posts EXCEPT ![q] = posts[q] - 1] /\ posts[q] - 1 \in 0 .. SemMax
    BY BoundsAssumption DEF Receive, SinkTypes
  <2> QED
    BY <1>1, <2>1 DEF SinkTypes
<1>3. \A p \in Queues : taken'[p] =< Len(box[p]) /\ Len(box[p]) - taken'[p] =< BoxMax
  BY <1>1, BoundsAssumption DEF SinkTypes
<1> QED
  BY <1>1, <1>2, <1>3 DEF SinkTypes, Receive

LEMMA TypesNext == ASSUME Types, [Next]_vars PROVE Types'
<1> USE DEF Types, TypeOK, TableTypes, ClientTypes, LoopTypes, SinkTypes
<1>1. ASSUME NEW c \in Clients, RegisterNext(c) \/ UnregisterNext(c) PROVE Types'
  <2>1. TableTypes' /\ ClientTypes' /\ Places' /\ UNCHANGED <<source, loop, sink>>
    BY <1>1, TypesRegister, TypesUnregister
  <2> QED
    BY <2>1 DEF source, loop, sink, InLoop
<1>2. CASE SendNext
  <2>1. LoopTypes' /\ UNCHANGED <<table, client, loop, sink, history>>
    BY <1>2, TypesSend
  <2> QED
    BY <2>1 DEF table, client, loop, sink, history, InLoop, Places
<1>3. CASE Dispatch
  <2>1. LoopTypes' /\ SinkTypes' /\ InLoop' /\ UNCHANGED <<table, client, registered, raced>>
    BY <1>3, TypesDispatch
  <2>2. due' \subseteq Queues
    BY <1>3 DEF Dispatch, TakeMessage, SearchOver, SearchGoesOn, Match, NoMatch, Deliver,
       DeliverFull, DeliverNull, history
  <2> QED
    BY <2>1, <2>2 DEF table, client, Places
<1>4. ASSUME NEW q \in Queues, Receive(q) PROVE Types'
  <2>1. SinkTypes' /\ UNCHANGED <<table, client, source, loop, box, refused, history>>
    BY <1>4, TypesReceive
  <2> QED
    BY <2>1 DEF table, client, source, loop, history, InLoop, Places
<1>5. CASE UNCHANGED vars
  BY <1>5 DEF vars, table, client, source, loop, sink, history, InLoop, Places
<1> QED
  BY <1>1, <1>2, <1>3, <1>4, <1>5 DEF Next

LEMMA TypesHold == Spec => []Types
BY TypesInit, TypesNext, PTL DEF Spec

\* The dispatcher stays inside the table, no receiver's queue holds more than its
\* size and both fields of a slot are legal, also when clients' calls overlap.
THEOREM TypeCorrect == Spec => []TypeOK
<1>1. Types => TypeOK
  BY DEF Types
<1> QED
  BY <1>1, TypesHold, PTL


-----------------------------------------------------------------------------
(* The table: a registration that returned is kept, as long as only one     *)
(* client is in a call                                                      *)

One == \A c, d \in Clients : at[c] # "idle" /\ at[d] # "idle" => c = d

Kept == \A pair \in registered : \E n \in Index : Holds(n, pair)

\* What a client relies on between two of its steps.
Working ==
    \A c \in Clients :
        /\ at[c] = "choose" => Free # {}
        /\ at[c] \in {"write_what", "write_msgqid"} => msgqid[slot[c]] = Null
        /\ at[c] = "write_msgqid" => what[slot[c]] = arg[c][1]
        /\ at[c] \in {"search", "clear_msgqid"} => arg[c] \notin registered
        /\ at[c] = "clear_msgqid" => what[slot[c]] = Invalid

Alone == ~raced => One /\ Kept /\ Working

\* A client that steps in a call is the only one in a call; after its step,
\* too, unless it begins a call while another one is in one.
LEMMA OneStep ==
    ASSUME Types, One, ~raced', NEW c \in Clients, RegisterNext(c) \/ UnregisterNext(c)
    PROVE  ~raced /\ One' /\ \A d \in Clients \ {c} : at[d] = "idle" /\ at'[d] = "idle"
<1> USE DEF Types, TypeOK
<1>1. \E s \in ClientSteps : at' = [at EXCEPT ![c] = s]
  <2>1. \/ \E t \in ClientSteps, s \in ClientSteps : Goto(c, t, s)
        \/ UNCHANGED at
    <3>1. CASE RegisterNext(c)
      BY <3>1 DEF RegisterNext, Register, AlreadyThere, TableFull, Scanned, Choose, ChooseNone,
         WriteWhat, WriteMsgqid, ClientSteps
    <3>2. CASE UnregisterNext(c)
      BY <3>2 DEF UnregisterNext, Unregister, Found, ClearMsgqid, NotFound, Unregistered,
         ClientSteps, client
    <3> QED
      BY <3>1, <3>2
  <2>2. ASSUME UNCHANGED at PROVE at' = [at EXCEPT ![c] = at[c]] /\ at[c] \in ClientSteps
    BY <2>2
  <2> QED
    BY <2>1, <2>2 DEF Goto
<1>2. \/ UNCHANGED raced /\ at[c] # "idle"
      \/ Begins(c)
  BY DEF RegisterNext, Register, AlreadyThere, TableFull, Scanned, Choose, ChooseNone, WriteWhat,
     WriteMsgqid, UnregisterNext, Unregister, Found, ClearMsgqid, NotFound, Unregistered, Goto,
     history
<1>3. ~raced /\ \A d \in Clients \ {c} : at[d] = "idle"
  BY <1>2 DEF Begins, One
<1>4. \A d \in Clients \ {c} : at'[d] = "idle"
  BY <1>1, <1>3
<1> QED
  BY <1>3, <1>4 DEF One

LEMMA AloneRegister ==
    ASSUME Types, Alone, ~raced', NEW c \in Clients, RegisterNext(c)
    PROVE  Kept' /\ Working'
<1>1. ~raced
  BY DEF RegisterNext, Register, AlreadyThere, TableFull, Scanned, Choose, ChooseNone, WriteWhat,
     WriteMsgqid, history, Begins
<1>2. One /\ Kept /\ Working
  BY <1>1 DEF Alone
<1>3. \A d \in Clients \ {c} : at[d] = "idle" /\ at'[d] = "idle"
  BY <1>2, OneStep
<1> USE DEF Types, TypeOK, ClientSteps, Goto, table, history, client
<1>4. ASSUME NEW pair \in Wanted, Register(c, pair) PROVE Kept' /\ Working'
  BY <1>2, <1>3, <1>4 DEF Register, Kept, Working, Holds
<1>5. CASE AlreadyThere(c)
  <2>1. registered' = registered \cup {arg[c]} /\ Known(c) /\ UNCHANGED table
    BY <1>5 DEF AlreadyThere
  <2>2. \E n \in Index : Holds(n, arg[c])
    BY <2>1 DEF Known, Used
  <2>3. Kept'
    BY <1>2, <2>1, <2>2 DEF Kept, Holds
  <2>4. \A d \in Clients : at'[d] = "idle"
    BY <1>3, <1>5 DEF AlreadyThere
  <2> QED
    BY <2>3, <2>4 DEF Working
<1>6. CASE TableFull(c) \/ Scanned(c)
  <2>1. UNCHANGED <<table, registered>> /\ at'[c] \in {"idle", "choose"}
        /\ (at'[c] = "choose" => Free # {})
    BY <1>6 DEF TableFull, Scanned
  <2>2. Kept'
    BY <1>2, <2>1 DEF Kept, Holds
  <2>3. Free' = Free
    BY <2>1 DEF Free, Used
  <2> QED
    BY <1>3, <2>1, <2>2, <2>3 DEF Working
<1>7. CASE Choose(c)
  <2>1. PICK n \in Free : slot' = [slot EXCEPT ![c] = n]
    BY <1>7 DEF Choose
  <2>2. msgqid[n] = Null /\ slot'[c] = n /\ at'[c] = "write_what" /\ UNCHANGED <<table, registered>>
    BY <1>7, <2>1 DEF Choose, Free, Used
  <2> QED
    BY <1>2, <1>3, <2>2 DEF Kept, Working, Holds
<1>8. ~ChooseNone(c)
  BY <1>2 DEF ChooseNone, Working
<1>9. CASE WriteWhat(c)
  <2>1. PICK n \in Index : n = slot[c]
    BY <1>9 DEF WriteWhat, Places
  <2>2. /\ what' = [what EXCEPT ![n] = arg[c][1]] /\ msgqid[n] = Null /\ at'[c] = "write_msgqid"
        /\ UNCHANGED <<msgqid, arg, slot, registered>>
    BY <1>2, <1>9, <2>1 DEF WriteWhat, Working
  <2>3. Kept'
    BY <1>2, <2>2, QueuesAssumption DEF Kept, Holds, Pairs
  <2>4. what'[n] = arg[c][1]
    BY <2>2
  <2> QED
    BY <1>3, <2>1, <2>2, <2>3, <2>4 DEF Working
<1>10. CASE WriteMsgqid(c)
  <2>1. PICK n \in Index : n = slot[c]
    BY <1>10 DEF WriteMsgqid, Places
  <2>2. /\ msgqid' = [msgqid EXCEPT ![n] = arg[c][2]] /\ msgqid[n] = Null /\ at'[c] = "idle"
        /\ what[n] = arg[c][1] /\ registered' = registered \cup {arg[c]}
        /\ UNCHANGED what
    BY <1>2, <1>10, <2>1 DEF WriteMsgqid, Working
  <2>3. what'[n] = arg[c][1] /\ msgqid'[n] = arg[c][2]
    BY <2>2
  <2>4. ASSUME NEW pair \in registered PROVE \E k \in Index : Holds(k, pair)'
    BY <1>2, <2>2, QueuesAssumption DEF Kept, Holds, Pairs
  <2>5. Kept'
    BY <2>1, <2>2, <2>3, <2>4 DEF Kept, Holds
  <2> QED
    BY <1>3, <2>2, <2>5 DEF Working
<1> QED
  BY <1>4, <1>5, <1>6, <1>7, <1>8, <1>9, <1>10 DEF RegisterNext

LEMMA AloneUnregister ==
    ASSUME Types, Alone, ~raced', NEW c \in Clients, UnregisterNext(c)
    PROVE  Kept' /\ Working'
<1>1. ~raced
  BY DEF UnregisterNext, Unregister, Found, ClearMsgqid, NotFound, Unregistered, history, Begins
<1>2. One /\ Kept /\ Working
  BY <1>1 DEF Alone
<1>3. \A d \in Clients \ {c} : at[d] = "idle" /\ at'[d] = "idle"
  BY <1>2, OneStep
<1> USE DEF Types, TypeOK, ClientSteps, Goto, table, history, client
<1>4. ASSUME NEW pair \in Wanted, Unregister(c, pair) PROVE Kept' /\ Working'
  <2>1. arg'[c] = pair /\ pair \notin registered' /\ at'[c] = "search"
    BY <1>4, WantedAssumption DEF Unregister, Pairs
  <2> QED
    BY <1>2, <1>3, <1>4, <2>1 DEF Unregister, Kept, Working, Holds
<1>5. CASE Found(c)
  <2>1. PICK n \in Index : n = slot[c]
    BY <1>5 DEF Found
  <2>2. /\ what' = [what EXCEPT ![n] = Invalid] /\ Holds(n, arg[c]) /\ at'[c] = "clear_msgqid"
        /\ arg[c] \notin registered /\ arg[c] \in Pairs
        /\ UNCHANGED <<msgqid, arg, slot, registered>>
    BY <1>2, <1>5, <2>1 DEF Found, Working, Places
  <2>3. \A pair \in registered : ~Holds(n, pair)
    <3> SUFFICES ASSUME NEW pair \in registered, Holds(n, pair) PROVE FALSE
      OBVIOUS
    <3>1. pair = <<pair[1], pair[2]>> /\ arg[c] = <<arg[c][1], arg[c][2]>>
      BY <2>2, PairTypes
    <3>2. pair[1] = arg[c][1] /\ pair[2] = arg[c][2]
      BY <2>2 DEF Holds
    <3>3. pair = arg[c]
      BY <3>1, <3>2
    <3> QED
      BY <2>2, <3>3
  <2>4. ASSUME NEW pair \in registered PROVE \E k \in Index : Holds(k, pair)'
    <3>1. PICK k \in Index : Holds(k, pair)
      BY <1>2 DEF Kept
    <3>2. k # n
      BY <2>3, <3>1
    <3> QED
      BY <2>2, <3>1, <3>2 DEF Holds
  <2>5. Kept'
    BY <2>2, <2>4 DEF Kept, Holds
  <2>6. what'[n] = Invalid
    BY <2>2
  <2> QED
    BY <1>3, <2>1, <2>2, <2>5, <2>6 DEF Working
<1>6. CASE ClearMsgqid(c)
  <2>1. PICK n \in Index : n = slot[c]
    BY <1>6 DEF ClearMsgqid, Places
  <2>2. /\ msgqid' = [msgqid EXCEPT ![n] = Null] /\ what[n] = Invalid /\ at'[c] = "search"
        /\ arg[c] \notin registered /\ UNCHANGED <<what, arg, registered>>
    BY <1>2, <1>6, <2>1 DEF ClearMsgqid, Working
  <2>3. \A pair \in registered : ~Holds(n, pair)
    BY <2>2, KindsAssumption DEF Holds, Pairs
  <2>4. Kept'
    BY <1>2, <2>2, <2>3 DEF Kept, Holds
  <2> QED
    BY <1>3, <2>2, <2>4 DEF Working
<1>7. CASE NotFound(c) \/ Unregistered(c)
  <2>1. UNCHANGED <<table, registered>> /\ at[c] = "search" /\ at'[c] \in {"search", "idle"}
        /\ (at'[c] = "search" => UNCHANGED arg)
    BY <1>7 DEF NotFound, Unregistered
  <2>2. Kept'
    BY <1>2, <2>1 DEF Kept, Holds
  <2> QED
    BY <1>2, <1>3, <2>1, <2>2 DEF Working
<1> QED
  BY <1>4, <1>5, <1>6, <1>7 DEF UnregisterNext

LEMMA AloneNext == ASSUME Types, Alone, [Next]_vars PROVE Alone'
<1>1. ASSUME NEW c \in Clients, RegisterNext(c) \/ UnregisterNext(c) PROVE Alone'
  <2> SUFFICES ASSUME ~raced' PROVE One' /\ Kept' /\ Working'
    BY DEF Alone
  <2>1. ~raced
    BY <1>1 DEF RegisterNext, Register, AlreadyThere, TableFull, Scanned, Choose, ChooseNone,
       WriteWhat, WriteMsgqid, UnregisterNext, Unregister, Found, ClearMsgqid, NotFound,
       Unregistered, history, Begins
  <2>2. One
    BY <2>1 DEF Alone
  <2>3. One'
    BY <1>1, <2>2, OneStep
  <2> QED
    BY <1>1, <2>3, AloneRegister, AloneUnregister
<1>2. ASSUME UNCHANGED <<table, client, registered, raced>> PROVE Alone'
  BY <1>2 DEF Alone, One, Kept, Working, Holds, Free, Used, table, client
<1>3. CASE Dispatch \/ SendNext \/ (\E q \in Queues : Receive(q))
  BY <1>2, <1>3 DEF Dispatch, TakeMessage, SearchOver, SearchGoesOn, Match, NoMatch, Deliver,
     DeliverFull, DeliverNull, SendNext, Send, Put, Post, Receive, history
<1>4. CASE UNCHANGED vars
  BY <1>2, <1>4 DEF vars, history
<1> QED
  BY <1>1, <1>3, <1>4 DEF Next

LEMMA AloneHold == Spec => [](Types /\ Alone)
<1>1. Init => Alone
  BY DEF Init, Alone, One, Kept, Working
<1> QED
  BY <1>1, TypesInit, TypesNext, AloneNext, PTL DEF Spec

\* A registration that returned 0 is in the table and stays there, whatever other
\* pairs come and go, as long as no two clients' calls overlap.
THEOREM RegistrationCorrect == Spec => []RegistrationKept
<1>1. Alone => RegistrationKept
  BY DEF Alone, Kept, RegistrationKept
<1> QED
  BY <1>1, AloneHold, PTL

-----------------------------------------------------------------------------
(* The table before the first unregistration: it is filled from the front,  *)
(* and every pair in it is there once                                       *)

Quiet == OnlyRegistrations /\ ~raced

NoSearch == \A c \in Clients : at[c] \notin {"search", "clear_msgqid"}

FromFront ==
    /\ \A m, n \in Index : n \in Used /\ m < n => m \in Used
    /\ \A n \in Used : what[n] # Invalid
    /\ \A m, n \in Used : what[m] = what[n] /\ msgqid[m] = msgqid[n] => m = n

\* A free slot is empty, but for the one a client has half written.
HalfWritten ==
    \A n \in Free : what[n] = Invalid \/ \E c \in Clients : at[c] = "write_msgqid" /\ slot[c] = n

Chosen ==
    \A c \in Clients :
        /\ at[c] \in {"choose", "write_what", "write_msgqid"} => \A n \in Used : ~Holds(n, arg[c])
        /\ at[c] \in {"write_what", "write_msgqid"} =>
             \A m \in Index : m < slot[c] => m \in Used

Filled == Quiet => NoSearch /\ FromFront /\ HalfWritten /\ Chosen

\* What a registration does to the table: it changes nothing that is used, and
\* of the free slots only the empty ones.
Grows ==
    /\ \A n \in Used : what'[n] = what[n] /\ msgqid'[n] = msgqid[n]
    /\ \A n \in Index : what[n] # Invalid => what'[n] = what[n]

LEMMA QuietStep ==
    ASSUME Types, Quiet', NEW c \in Clients, RegisterNext(c) \/ UnregisterNext(c)
    PROVE  Quiet /\ (NoSearch => RegisterNext(c))
<1> USE DEF Quiet, OnlyRegistrations
<1>1. calls.unreg \in 0 .. MaxUnregs /\ MaxUnregs \in Nat
  BY BoundsAssumption DEF Types, TypeOK
<1>2. ASSUME RegisterNext(c) PROVE Quiet
  <2>1. ~raced
    BY <1>2 DEF RegisterNext, Register, AlreadyThere, TableFull, Scanned, Choose, ChooseNone,
       WriteWhat, WriteMsgqid, history, Begins
  <2>2. calls'.unreg = calls.unreg
    BY <1>2 DEF RegisterNext, Register, AlreadyThere, TableFull, Scanned, Choose, ChooseNone,
       WriteWhat, WriteMsgqid, Types, TypeOK
  <2> QED
    BY <2>1, <2>2
<1>3. ASSUME NEW pair \in Wanted PROVE ~Unregister(c, pair)
  <2> SUFFICES ASSUME Unregister(c, pair) PROVE FALSE
    OBVIOUS
  <2>1. /\ calls' = [calls EXCEPT !.all = calls.all - 1, !.unreg = calls.unreg - 1]
        /\ calls \in [all : 0 .. MaxCalls, unreg : 0 .. MaxUnregs]
    BY DEF Unregister, Types, TypeOK
  <2>2. calls'.unreg = calls.unreg - 1
    BY <2>1
  <2> QED
    BY <1>1, <2>2
<1>4. CASE Found(c) \/ ClearMsgqid(c) \/ NotFound(c) \/ Unregistered(c)
  BY <1>4 DEF Found, ClearMsgqid, NotFound, Unregistered, history, client, Goto, NoSearch
<1> QED
  BY <1>2, <1>3, <1>4 DEF UnregisterNext

\* The other clients are idle: only c matters.
LEMMA ChosenAfter ==
    ASSUME NEW c \in Clients, \A d \in Clients \ {c} : at'[d] = "idle",
           at'[c] \in {"choose", "write_what", "write_msgqid"} =>
               \A n \in Used' : ~Holds(n, arg[c])',
           at'[c] \in {"write_what", "write_msgqid"} => \A m \in Index : m < slot'[c] => m \in Used'
    PROVE  Chosen'
<1>1. ASSUME NEW d \in Clients, at'[d] \in {"choose", "write_what", "write_msgqid"} PROVE d = c
  BY <1>1
<1>2. ASSUME NEW d \in Clients, at'[d] \in {"choose", "write_what", "write_msgqid"}
      PROVE  \A n \in Used' : ~Holds(n, arg[d])'
  BY <1>1, <1>2 DEF Holds
<1>3. ASSUME NEW d \in Clients, at'[d] \in {"write_what", "write_msgqid"}
      PROVE  \A m \in Index : m < slot'[d] => m \in Used'
  BY <1>1, <1>3
<1> QED
  BY <1>2, <1>3 DEF Chosen, Holds

LEMMA FilledRegister ==
    ASSUME Types, One, Working, Quiet, Quiet', NoSearch, FromFront, HalfWritten, Chosen,
           NEW c \in Clients, RegisterNext(c)
    PROVE  NoSearch' /\ FromFront' /\ HalfWritten' /\ Chosen' /\ Grows
<1>1. \A d \in Clients \ {c} : at[d] = "idle" /\ at'[d] = "idle"
  BY OneStep DEF Quiet
<1> USE DEF Types, TypeOK, ClientSteps, Goto, table, history, client
<1>2. at'[c] \in {"scan", "idle", "choose", "write_what", "write_msgqid"}
  BY DEF RegisterNext, Register, AlreadyThere, TableFull, Scanned, Choose, ChooseNone, WriteWhat,
     WriteMsgqid
<1>3. NoSearch'
  BY <1>1, <1>2 DEF NoSearch
<1>4. ASSUME UNCHANGED table PROVE FromFront' /\ Grows /\ Used' = Used /\ Free' = Free
  BY <1>4 DEF FromFront, Grows, Used, Free
<1>5. ASSUME UNCHANGED table, at[c] # "write_msgqid" PROVE HalfWritten'
  <2>1. \A n \in Free : what[n] = Invalid
    BY <1>1, <1>5 DEF HalfWritten
  <2> QED
    BY <1>4, <1>5, <2>1 DEF HalfWritten
<1>6. ASSUME NEW pair \in Wanted, Register(c, pair)
      PROVE  FromFront' /\ HalfWritten' /\ Chosen' /\ Grows
  BY <1>1, <1>4, <1>5, <1>6 DEF Register, Chosen
<1>7. CASE AlreadyThere(c) \/ TableFull(c) \/ ChooseNone(c)
  <2>1. UNCHANGED table /\ at[c] # "write_msgqid" /\ at'[c] = "idle"
    BY <1>7 DEF AlreadyThere, TableFull, ChooseNone
  <2> QED
    BY <1>1, <1>3, <1>4, <1>5, <2>1, ChosenAfter
<1>8. CASE Scanned(c)
  <2>1. UNCHANGED <<table, arg>> /\ at[c] # "write_msgqid" /\ at'[c] = "choose" /\ ~Known(c)
    BY <1>8 DEF Scanned
  <2>2. \A n \in Used' : ~Holds(n, arg[c])'
    BY <1>4, <2>1 DEF Known, Holds
  <2> QED
    BY <1>1, <1>3, <1>4, <1>5, <2>1, <2>2, ChosenAfter
<1>9. CASE Choose(c)
  <2>1. PICK n \in Free : slot' = [slot EXCEPT ![c] = n] /\ \A k \in Free : n =< k
    BY <1>9 DEF Choose
  <2>2. UNCHANGED <<table, arg>> /\ at[c] = "choose" /\ at'[c] = "write_what" /\ slot'[c] = n
        /\ \A k \in Used : ~Holds(k, arg[c])
    BY <1>9, <2>1 DEF Choose, Chosen
  <2>3. \A k \in Used' : ~Holds(k, arg[c])'
    BY <1>4, <2>2 DEF Holds
  <2>4. \A m \in Index : m < n => m \in Used
    BY <2>1, BoundsAssumption DEF Free, Index
  <2> QED
    BY <1>1, <1>3, <1>4, <1>5, <2>2, <2>3, <2>4, ChosenAfter
<1>10. CASE WriteWhat(c)
  <2>1. PICK n \in Index : n = slot[c]
    BY <1>10 DEF WriteWhat, Places
  <2>2. /\ what' = [what EXCEPT ![n] = arg[c][1]] /\ msgqid[n] = Null /\ at[c] = "write_what"
        /\ at'[c] = "write_msgqid" /\ UNCHANGED <<msgqid, arg, slot>>
    BY <1>10, <2>1 DEF WriteWhat, Working
  <2>3. n \notin Used /\ n \in Free /\ Used' = Used /\ Free' = Free
    BY <2>1, <2>2 DEF Used, Free
  <2>4. \A k \in Free : what[k] = Invalid
    BY <1>1, <2>2 DEF HalfWritten
  <2>5. \A k \in Index : k # n => what'[k] = what[k]
    BY <2>2
  <2>6. Grows
    BY <2>2, <2>3, <2>4, <2>5 DEF Grows, Used
  <2>7. \A k \in Used : what'[k] = what[k] /\ msgqid'[k] = msgqid[k]
    BY <2>6 DEF Grows
  <2>8. FromFront'
    <3>1. \A m, k \in Index : k \in Used' /\ m < k => m \in Used'
      BY <2>3 DEF FromFront
    <3>2. \A k \in Used' : what'[k] # Invalid
      BY <2>3, <2>7 DEF FromFront
    <3>3. \A m, k \in Used' : what'[m] = what'[k] /\ msgqid'[m] = msgqid'[k] => m = k
      BY <2>3, <2>7 DEF FromFront
    <3> QED
      BY <3>1, <3>2, <3>3 DEF FromFront
  <2>9. HalfWritten'
    BY <2>1, <2>2, <2>3, <2>4, <2>5 DEF HalfWritten, Free
  <2>10. \A k \in Used' : ~Holds(k, arg[c])'
    BY <2>2, <2>3, <2>7 DEF Chosen, Holds
  <2>11. \A m \in Index : m < slot'[c] => m \in Used'
    BY <2>2, <2>3 DEF Chosen
  <2> QED
    BY <1>1, <1>3, <2>2, <2>6, <2>8, <2>9, <2>10, <2>11, ChosenAfter
<1>11. CASE WriteMsgqid(c)
  <2>1. PICK n \in Index : n = slot[c]
    BY <1>11 DEF WriteMsgqid, Places
  <2>2. /\ msgqid' = [msgqid EXCEPT ![n] = arg[c][2]] /\ msgqid[n] = Null /\ at[c] = "write_msgqid"
        /\ at'[c] = "idle" /\ what[n] = arg[c][1] /\ UNCHANGED what
    BY <1>11, <2>1 DEF WriteMsgqid, Working
  <2>3. arg[c][1] # Invalid /\ arg[c][2] # Null /\ n \notin Used
    BY <2>2, PairTypes DEF Places, Used
  <2>4. Used' = Used \cup {n} /\ Free' \subseteq Free \ {n} /\ msgqid'[n] = arg[c][2]
    BY <2>2, <2>3 DEF Used, Free
  <2>5. \A k \in Used : what'[k] = what[k] /\ msgqid'[k] = msgqid[k]
    BY <2>2, <2>3
  <2>6. Grows
    BY <2>2, <2>5 DEF Grows
  <2>7. \A m \in Index : m < n => m \in Used
    BY <2>1, <2>2 DEF Chosen
  <2>8. \A k \in Used : ~(what[k] = arg[c][1] /\ msgqid[k] = arg[c][2])
    BY <2>2 DEF Chosen, Holds
  <2>9. FromFront'
    <3>1. \A m, k \in Index : k \in Used' /\ m < k => m \in Used'
      BY <2>4, <2>7 DEF FromFront
    <3>2. \A k \in Used' : what'[k] # Invalid
      BY <2>2, <2>3, <2>4 DEF FromFront
    <3>3. ASSUME NEW m \in Used', NEW k \in Used', what'[m] = what'[k], msgqid'[m] = msgqid'[k]
          PROVE  m = k
      <4>1. CASE m \in Used /\ k \in Used
        BY <2>5, <3>3, <4>1 DEF FromFront
      <4>2. CASE m = n \/ k = n
        BY <2>2, <2>4, <2>5, <2>8, <3>3, <4>2
      <4> QED
        BY <2>4, <4>1, <4>2
    <3> QED
      BY <3>1, <3>2, <3>3 DEF FromFront
  <2>10. HalfWritten'
    <3>1. \A k \in Free : k # n => what[k] = Invalid
      BY <1>1, <2>1 DEF HalfWritten
    <3> QED
      BY <2>2, <2>4, <3>1 DEF HalfWritten
  <2> QED
    BY <1>1, <1>3, <2>2, <2>6, <2>9, <2>10, ChosenAfter
<1> QED
  BY <1>3, <1>6, <1>7, <1>8, <1>9, <1>10, <1>11 DEF RegisterNext

Guide == Types /\ Alone /\ Filled

\* A step of a client before the first unregistration, in one sentence: only
\* the table changes, it only grows, and what was due is due.
LEMMA ClientStep ==
    ASSUME Guide, Quiet', NEW c \in Clients, RegisterNext(c) \/ UnregisterNext(c)
    PROVE  /\ Quiet /\ NoSearch' /\ FromFront' /\ HalfWritten' /\ Chosen' /\ Grows
           /\ UNCHANGED <<source, loop, sink, due>>
<1>1. Quiet /\ NoSearch /\ FromFront /\ HalfWritten /\ Chosen
  BY QuietStep DEF Guide, Filled
<1>2. RegisterNext(c)
  BY <1>1, QuietStep DEF Guide
<1>3. One /\ Working
  BY <1>1 DEF Guide, Alone, Quiet
<1>4. UNCHANGED <<source, loop, sink, due>>
  BY <1>2 DEF RegisterNext, Register, AlreadyThere, TableFull, Scanned, Choose, ChooseNone,
     WriteWhat, WriteMsgqid, history
<1> QED
  BY <1>1, <1>2, <1>3, <1>4, FilledRegister DEF Guide

LEMMA GuideNext == ASSUME Guide, [Next]_vars PROVE Guide'
<1>1. Types' /\ Alone'
  BY TypesNext, AloneNext DEF Guide
<1>2. ASSUME NEW c \in Clients, RegisterNext(c) \/ UnregisterNext(c) PROVE Filled'
  BY <1>2, ClientStep DEF Filled
<1>3. ASSUME UNCHANGED <<table, client, raced>> PROVE Filled'
  BY <1>3 DEF Guide, Filled, Quiet, OnlyRegistrations, NoSearch, FromFront, HalfWritten, Chosen,
     Holds, Free, Used, table, client
<1>4. CASE Dispatch \/ SendNext \/ (\E q \in Queues : Receive(q))
  <2>1. UNCHANGED <<table, client, raced>>
    BY <1>4 DEF Dispatch, TakeMessage, SearchOver, SearchGoesOn, Match, NoMatch, Deliver,
       DeliverFull, DeliverNull, SendNext, Send, Put, Post, Receive, history
  <2> QED
    BY <1>1, <1>3, <2>1 DEF Guide
<1>5. CASE UNCHANGED vars
  <2>1. UNCHANGED <<table, client, raced>>
    BY <1>5 DEF vars, history
  <2> QED
    BY <1>1, <1>3, <2>1 DEF Guide
<1> QED
  BY <1>1, <1>2, <1>4, <1>5 DEF Guide, Next

LEMMA GuideInit == Init => Guide
<1> SUFFICES ASSUME Init PROVE Guide
  OBVIOUS
<1>1. Types
  BY TypesInit
<1>2. Alone
  BY DEF Init, Alone, One, Kept, Working
<1>3. \A n \in Index : msgqid[n] = Null /\ what[n] = Invalid
  BY DEF Init
<1>4. Used = {} /\ \A c \in Clients : at[c] = "idle"
  BY <1>3 DEF Used, Init
<1>5. Filled
  BY <1>3, <1>4 DEF Filled, NoSearch, FromFront, HalfWritten, Chosen, Free
<1> QED
  BY <1>1, <1>2, <1>5 DEF Guide

-----------------------------------------------------------------------------
(* Every receiver gets the message                                          *)

\* A queue that is due has the message, or the dispatcher has still to come to
\* its slot.
Ahead(q) == \E n \in Index : n >= i /\ Holds(n, <<msgs[2], q>>)
Owed == Quiet => \A q \in due : Got(q, msgs) \/ (step # "wait" /\ Ahead(q))

LEMMA GotKept ==
    ASSUME NEW q \in Queues, Got(q, msgs), Types, Dispatch, msgs' = msgs
    PROVE  Got(q, msgs)'
<1> USE DEF Types, TypeOK
<1>1. PICK b : b = box[q]
  OBVIOUS
<1>2. b \in Seq(Messages)
  BY <1>1
<1>3. CASE Deliver
  <2>1. PICK p \in Queues : p = msgqid[i]
    BY <1>3 DEF Deliver
  <2>2. box' = [box EXCEPT ![p] = Append(box[p], msgs)] /\ refused[q] \subseteq refused'[q]
    BY <1>3, <2>1 DEF Deliver, PutInBox
  <2>3. box'[q] = b \/ box'[q] = Append(b, msgs)
    BY <1>1, <2>2
  <2>4. \A n \in 1 .. Len(b) : n \in 1 .. Len(box'[q]) /\ box'[q][n] = b[n]
    <3>1. CASE box'[q] = b
      BY <3>1
    <3>2. CASE box'[q] = Append(b, msgs)
      BY <1>2, <3>2
    <3> QED
      BY <2>3, <3>1, <3>2
  <2> QED
    BY <1>1, <2>2, <2>4 DEF Got
<1>4. CASE DeliverFull
  <2>1. \A p \in Queues : refused[p] \subseteq refused'[p]
    BY <1>4 DEF DeliverFull
  <2> QED
    BY <1>4, <2>1 DEF DeliverFull, Got
<1>5. CASE UNCHANGED sink
  BY <1>5 DEF Got, sink
<1> QED
  BY <1>3, <1>4, <1>5 DEF Dispatch, TakeMessage, SearchOver, SearchGoesOn, Match, NoMatch,
     DeliverNull

LEMMA OwedDispatch ==
    ASSUME Guide, Owed, Quiet, Dispatch, NEW q \in due'
    PROVE  Got(q, msgs)' \/ (step' # "wait" /\ Ahead(q)')
<1>1. Types /\ FromFront /\ Kept /\ q \in Queues
  <2>1. Types /\ Types' /\ FromFront /\ Kept
    BY TypesNext DEF Guide, Filled, Alone, Quiet, Next
  <2> QED
    BY <2>1 DEF Types, TypeOK
<1>2. UNCHANGED <<what, msgqid>>
  BY DEF Dispatch, TakeMessage, SearchOver, SearchGoesOn, Match, NoMatch, Deliver, DeliverFull,
     DeliverNull, table
<1>3. /\ q # Null /\ q \in Queues /\ Slots \in Nat /\ i \in 1 .. Slots + 1
      /\ step # "wait" => i \in Index /\ msgs[2] # Invalid
  BY <1>1, QueuesAssumption, KindsAssumption, BoundsAssumption
     DEF Types, TypeOK, InLoop, Messages, Index
<1>4. CASE TakeMessage
  <2>1. <<msgs'[2], q>> \in registered /\ i' = 1 /\ step' = "at_end"
    BY <1>4 DEF TakeMessage
  <2>2. PICK n \in Index : Holds(n, <<msgs'[2], q>>)
    BY <1>1, <2>1 DEF Kept
  <2> QED
    BY <1>2, <2>1, <2>2 DEF Ahead, Holds, Index
<1>5. ASSUME ~TakeMessage PROVE Got(q, msgs)' \/ (step' # "wait" /\ Ahead(q)')
  <2>1. step # "wait" /\ UNCHANGED <<msgs, due>>
    BY <1>5 DEF Dispatch, SearchOver, SearchGoesOn, Match, NoMatch, Deliver, DeliverFull,
       DeliverNull, NextSlot, history
  <2>2. CASE Got(q, msgs)
    BY <1>1, <1>3, <2>1, <2>2, GotKept
  <2>3. CASE ~Got(q, msgs)
    <3>1. PICK n \in Index : n >= i /\ Holds(n, <<msgs[2], q>>)
      BY <2>1, <2>3 DEF Owed, Ahead
    <3>2. what[n] = msgs[2] /\ msgqid[n] = q /\ n \in Used
      BY <1>3, <3>1 DEF Holds, Used
    <3>3. i \in Index /\ i \in Used
      BY <1>1, <1>3, <2>1, <3>1, <3>2 DEF FromFront, Index
    <3>4. ASSUME n >= i', step' # "wait" PROVE step' # "wait" /\ Ahead(q)'
      BY <1>2, <2>1, <3>1, <3>4 DEF Ahead, Holds
    <3>5. ~SearchOver
      BY <1>1, <3>3 DEF SearchOver, FromFront
    <3>6. CASE SearchGoesOn \/ Match
      BY <3>1, <3>4, <3>6 DEF SearchGoesOn, Match
    <3>7. ASSUME n # i, NextSlot(i) PROVE step' # "wait" /\ Ahead(q)'
      <4>1. i < n /\ n =< Slots
        BY <1>3, <3>1, <3>3, <3>7 DEF Index
      <4>2. i' = i + 1 /\ step' = "at_end"
        BY <1>3, <3>3, <3>7, <4>1 DEF NextSlot, Index
      <4> QED
        BY <1>3, <3>1, <3>3, <3>4, <4>1, <4>2 DEF Index
    <3>8. CASE NoMatch
      BY <3>2, <3>7, <3>8 DEF NoMatch
    <3>9. CASE DeliverNull
      BY <1>3, <3>2, <3>7, <3>9 DEF DeliverNull
    <3>10. CASE Deliver /\ n = i
      <4>1. box' = [box EXCEPT ![q] = Append(box[q], msgs)]
        BY <3>2, <3>10 DEF Deliver, PutInBox
      <4>2. PICK b \in Seq(Messages) : b = box[q]
        BY <1>1, <1>3 DEF Types, TypeOK
      <4>3. msgs \in Messages /\ box'[q] = Append(b, msgs)
        BY <1>1, <1>3, <2>1, <4>1, <4>2 DEF Types, TypeOK, InLoop
      <4>4. Len(b) + 1 \in 1 .. Len(box'[q]) /\ box'[q][Len(b) + 1] = msgs
        BY <4>2, <4>3
      <4> QED
        BY <2>1, <4>4 DEF Got
    <3>11. CASE DeliverFull /\ n = i
      <4>1. refused' = [refused EXCEPT ![q] = refused[q] \cup {msgs}]
        BY <3>2, <3>11 DEF DeliverFull
      <4>2. msgs \in refused'[q]
        BY <1>1, <1>3, <4>1 DEF Types, TypeOK
      <4> QED
        BY <2>1, <4>2 DEF Got
    <3>12. CASE (Deliver \/ DeliverFull) /\ n # i
      BY <3>7, <3>12 DEF Deliver, DeliverFull
    <3> QED
      BY <1>5, <3>5, <3>6, <3>8, <3>9, <3>10, <3>11, <3>12 DEF Dispatch
  <2> QED
    BY <2>2, <2>3
<1> QED
  BY <1>4, <1>5

LEMMA OwedNext == ASSUME Guide, Owed, [Next]_vars PROVE Owed'
<1> SUFFICES ASSUME Quiet', NEW q \in due' PROVE Got(q, msgs)' \/ (step' # "wait" /\ Ahead(q)')
  BY DEF Owed
<1>1. ASSUME NEW c \in Clients, RegisterNext(c) \/ UnregisterNext(c)
      PROVE  Got(q, msgs)' \/ (step' # "wait" /\ Ahead(q)')
  <2>1. Quiet /\ Grows /\ UNCHANGED <<source, loop, sink, due>>
    BY <1>1, ClientStep
  <2>2. q \in Queues /\ q # Null
    BY <2>1, QueuesAssumption DEF Guide, Types, TypeOK
  <2>3. CASE Got(q, msgs)
    BY <2>1, <2>3 DEF Got, loop, sink
  <2>4. CASE ~Got(q, msgs)
    <3>1. PICK n \in Index : n >= i /\ Holds(n, <<msgs[2], q>>) /\ step # "wait"
      BY <2>1, <2>4 DEF Owed, Ahead
    <3>2. n \in Used
      BY <2>2, <3>1 DEF Holds, Used
    <3>3. Holds(n, <<msgs[2], q>>)'
      BY <2>1, <3>1, <3>2 DEF Holds, Grows, loop
    <3> QED
      BY <2>1, <3>1, <3>3 DEF Ahead, loop
  <2> QED
    BY <2>3, <2>4
<1>2. CASE Dispatch
  <2>1. Quiet
    BY <1>2 DEF Quiet, OnlyRegistrations, Dispatch, TakeMessage, SearchOver, SearchGoesOn, Match,
       NoMatch, Deliver, DeliverFull, DeliverNull, client, history
  <2> QED
    BY <1>2, <2>1, OwedDispatch
<1>3. ASSUME UNCHANGED <<table, client, loop, box, refused, history>>
      PROVE  Got(q, msgs)' \/ (step' # "wait" /\ Ahead(q)')
  <2>1. Quiet /\ q \in due
    BY <1>3 DEF Quiet, OnlyRegistrations, client, history
  <2>2. Got(q, msgs) \/ (step # "wait" /\ Ahead(q))
    BY <2>1 DEF Owed
  <2>3. (Got(q, msgs)' <=> Got(q, msgs)) /\ (Ahead(q)' <=> Ahead(q)) /\ step' = step
    BY <1>3 DEF Got, Ahead, Holds, table, loop
  <2> QED
    BY <2>2, <2>3
<1>4. CASE SendNext \/ (\E p \in Queues : Receive(p)) \/ UNCHANGED vars
  <2>1. UNCHANGED <<table, client, loop, box, refused, history>>
    BY <1>4 DEF SendNext, Send, Put, Post, Receive, vars, sink
  <2> QED
    BY <1>3, <2>1
<1> QED
  BY <1>1, <1>2, <1>4 DEF Next

LEMMA OwedHold == Spec => [](Guide /\ Owed)
<1>1. Init => Owed
  BY DEF Init, Owed
<1> QED
  BY <1>1, GuideInit, GuideNext, OwedNext, PTL DEF Spec

\* When the dispatcher has finished with a message, every queue whose
\* registration had returned when it took the message has it, or was full; as
\* long as nobody unregisters and no two clients' calls overlap.
THEOREM ReceiversCorrect == Spec => []EveryReceiver
<1>1. Owed => EveryReceiver
  BY DEF Owed, EveryReceiver, Quiet
<1> QED
  BY <1>1, OwedHold, PTL

-----------------------------------------------------------------------------
(* The messages: in order, and none of them twice                           *)

\* The numbers in the service's queue grow from what the dispatcher has to what
\* was sent, and no receiver is ahead of the dispatcher.
Numbers ==
    /\ msgs[1] \in 0 .. sends
    /\ \A k \in 1 .. Len(queue) : msgs[1] < queue[k][1] /\ queue[k][1] =< sends
    /\ \A j, k \in 1 .. Len(queue) : j < k => queue[j][1] < queue[k][1]
    /\ \A q \in Queues : \A k \in 1 .. Len(box[q]) : box[q][k][1] =< msgs[1]

Ordered == \A q \in Queues : \A m, n \in 1 .. Len(box[q]) : m < n => box[q][m][1] < box[q][n][1]

\* A receiver that has the message has it from a slot the dispatcher has passed.
Behind(q) == \E n \in Index : n < i /\ Holds(n, <<msgs[2], q>>)
Passed ==
    /\ step = "deliver" => what[i] = msgs[2]
    /\ step # "wait" => \A q \in Queues : \A k \in 1 .. Len(box[q]) :
                            box[q][k][1] = msgs[1] => Behind(q)

Once == Quiet => Passed /\ Ordered

LEMMA MessageTypes ==
    ASSUME Types
    PROVE  /\ sends \in 0 .. MaxSends /\ MaxSends \in Nat /\ msgs[1] \in Nat
           /\ queue \in Seq(Messages) /\ \A k \in 1 .. Len(queue) : queue[k][1] \in Nat
           /\ \A q \in Queues : /\ box[q] \in Seq(Messages)
                                /\ \A k \in 1 .. Len(box[q]) : box[q][k][1] \in Nat
<1>1. \A m \in Messages : m[1] \in Nat
  BY BoundsAssumption DEF Messages
<1>2. msgs[1] \in Nat
  BY <1>1 DEF Types, TypeOK, NoMessage
<1>3. queue \in Seq(Messages) /\ \A q \in Queues : box[q] \in Seq(Messages)
  BY DEF Types, TypeOK
<1>4. ASSUME NEW s \in Seq(Messages), NEW k \in 1 .. Len(s) PROVE s[k][1] \in Nat
  BY <1>1, <1>4
<1> QED
  BY <1>2, <1>3, <1>4, BoundsAssumption DEF Types, TypeOK

\* A message put at the end of a receiver's queue.
LEMMA AppendEffect ==
    ASSUME NEW s \in Seq(Messages), NEW m \in Messages
    PROVE  /\ Len(Append(s, m)) = Len(s) + 1 /\ Append(s, m)[Len(s) + 1] = m
           /\ \A k \in 1 .. Len(s) : Append(s, m)[k] = s[k]
           /\ \A k \in 1 .. Len(s) + 1 : k \in 1 .. Len(s) \/ k = Len(s) + 1
<1>1. Len(s) \in Nat
  OBVIOUS
<1> QED
  BY <1>1

LEMMA NumbersNext == ASSUME Types, Numbers, [Next]_vars PROVE Numbers'
<1> USE MessageTypes
<1>1. ASSUME NEW kind \in Kinds, Put(kind) PROVE Numbers'
  <2>1. /\ sends' = sends + 1 /\ UNCHANGED <<msgs, box>>
        /\ queue' = Append(queue, <<sends + 1, kind>>)
    BY <1>1 DEF Put, loop, sink
  <2>2. <<sends + 1, kind>> \in Messages
    BY <1>1, BoundsAssumption DEF Put, Messages, Types, TypeOK
  <2>4. CASE queue' = Append(queue, <<sends + 1, kind>>)
    <3>1. /\ Len(queue') = Len(queue) + 1 /\ queue'[Len(queue) + 1] = <<sends + 1, kind>>
          /\ \A k \in 1 .. Len(queue) : queue'[k] = queue[k]
          /\ \A k \in 1 .. Len(queue) + 1 : k \in 1 .. Len(queue) \/ k = Len(queue) + 1
      BY <2>2, <2>4, AppendEffect
    <3>2. queue'[Len(queue) + 1][1] = sends + 1 /\ Len(queue) \in Nat
      BY <3>1
    <3>3. \A k \in 1 .. Len(queue') : msgs'[1] < queue'[k][1] /\ queue'[k][1] =< sends'
      BY <2>1, <3>1, <3>2 DEF Numbers
    <3>4. \A j, k \in 1 .. Len(queue') : j < k => queue'[j][1] < queue'[k][1]
      <4> SUFFICES ASSUME NEW j \in 1 .. Len(queue'), NEW k \in 1 .. Len(queue'), j < k
                   PROVE  queue'[j][1] < queue'[k][1]
        OBVIOUS
      <4>1. j \in 1 .. Len(queue) /\ queue'[j] = queue[j]
        BY <3>1, <3>2
      <4>2. CASE k \in 1 .. Len(queue)
        BY <3>1, <4>1, <4>2 DEF Numbers
      <4>3. CASE k = Len(queue) + 1
        <5>1. queue[j][1] \in Nat /\ queue[j][1] =< sends /\ sends \in Nat
          BY <4>1 DEF Numbers
        <5> QED
          BY <3>2, <4>1, <4>3, <5>1
      <4> QED
        BY <3>1, <4>2, <4>3
    <3> QED
      BY <2>1, <3>3, <3>4 DEF Numbers
  <2> QED
    BY <2>1, <2>4
<1>2. CASE TakeMessage
  <2>1. /\ queue # <<>> /\ msgs' = Head(queue) /\ queue' = Tail(queue) /\ UNCHANGED <<sends, box>>
    BY <1>2 DEF TakeMessage, sink
  <2>2. PICK l \in Nat : Len(queue) = l /\ l >= 1
    BY <2>1
  <2>3. /\ msgs' = queue[1] /\ Len(queue') = l - 1
        /\ \A k \in 1 .. l - 1 : queue'[k] = queue[k + 1] /\ k + 1 \in 1 .. l /\ 1 < k + 1
    BY <2>1, <2>2
  <2>4. \A k \in 1 .. Len(queue') : msgs'[1] < queue'[k][1] /\ queue'[k][1] =< sends'
    BY <2>1, <2>2, <2>3 DEF Numbers
  <2>5. \A j, k \in 1 .. Len(queue') : j < k => queue'[j][1] < queue'[k][1]
    BY <2>2, <2>3 DEF Numbers
  <2>6. msgs'[1] \in 0 .. sends' /\ msgs[1] < msgs'[1]
    BY <2>1, <2>2, <2>3 DEF Numbers
  <2>7. \A q \in Queues : \A k \in 1 .. Len(box'[q]) : box'[q][k][1] =< msgs'[1]
    BY <2>1, <2>6 DEF Numbers
  <2> QED
    BY <2>4, <2>5, <2>6, <2>7 DEF Numbers
<1>3. CASE Deliver
  <2>1. PICK p \in Queues : p = msgqid[i] /\ box' = [box EXCEPT ![p] = Append(box[p], msgs)]
    BY <1>3 DEF Deliver, PutInBox
  <2>2. UNCHANGED <<queue, sends, msgs>> /\ msgs \in Messages
    BY <1>3 DEF Deliver, source, Types, InLoop
  <2>3. \A q \in Queues : q # p => box'[q] = box[q]
    BY <2>1
  <2>4. box'[p] = Append(box[p], msgs)
    BY <2>1 DEF Types, TypeOK
  <2>5. \A k \in 1 .. Len(box'[p]) : box'[p][k][1] =< msgs[1]
    BY <2>2, <2>4, AppendEffect DEF Numbers
  <2> QED
    BY <2>2, <2>3, <2>5 DEF Numbers
<1>4. ASSUME UNCHANGED <<queue, sends, msgs, box>> PROVE Numbers'
  BY <1>4 DEF Numbers
<1>5. ASSUME NEW c \in Clients, RegisterNext(c) \/ UnregisterNext(c) PROVE Numbers'
  <2>1. UNCHANGED <<source, loop, sink>>
    BY <1>5, TypesRegister, TypesUnregister DEF Types, TypeOK, TableTypes, ClientTypes
  <2> QED
    BY <1>4, <2>1 DEF source, loop, sink
<1>6. CASE SearchOver \/ SearchGoesOn \/ Match \/ NoMatch \/ DeliverFull \/ DeliverNull
            \/ (\E q \in Queues : Receive(q)) \/ Send \/ Post \/ UNCHANGED vars
  BY <1>4, <1>6 DEF SearchOver, SearchGoesOn, Match, NoMatch, DeliverFull, DeliverNull, Receive,
     Send, Post, vars, source, loop, sink
<1> QED
  BY <1>1, <1>2, <1>3, <1>5, <1>6 DEF Next, SendNext, Dispatch

LEMMA OnceDispatch ==
    ASSUME Guide, Numbers, Once, Quiet, Dispatch
    PROVE  Passed' /\ Ordered'
<1>1. Types /\ FromFront /\ Passed /\ Ordered
  BY DEF Guide, Filled, Once
<1>2. UNCHANGED <<what, msgqid>>
  BY DEF Dispatch, TakeMessage, SearchOver, SearchGoesOn, Match, NoMatch, Deliver, DeliverFull,
     DeliverNull, table
<1>3. /\ Slots \in Nat /\ i \in 1 .. Slots + 1 /\ msgs[1] \in Nat
      /\ step # "wait" => i \in Index /\ msgs \in Messages
  BY <1>1, BoundsAssumption, MessageTypes DEF Types, TypeOK, InLoop, Index
<1>4. CASE TakeMessage
  <2>1. queue # <<>> /\ msgs' = Head(queue) /\ step' = "at_end" /\ UNCHANGED box
    BY <1>4 DEF TakeMessage, sink
  <2>2. msgs[1] < msgs'[1] /\ msgs'[1] \in Nat
    <3>1. queue \in Seq(Messages) /\ 1 \in 1 .. Len(queue) /\ msgs' = queue[1]
      BY <1>1, <2>1, MessageTypes
    <3> QED
      BY <1>1, <3>1, MessageTypes DEF Numbers
  <2>3. \A q \in Queues : \A k \in 1 .. Len(box[q]) : box[q][k][1] # msgs'[1]
    BY <1>1, <1>3, <2>2, MessageTypes DEF Numbers
  <2> QED
    BY <1>1, <2>1, <2>3 DEF Passed, Ordered
<1>5. ASSUME i' \in Int, i' >= i PROVE \A q \in Queues : Behind(q) /\ UNCHANGED msgs => Behind(q)'
  BY <1>2, <1>3, <1>5 DEF Behind, Holds, Index
<1>6. ASSUME step # "wait", UNCHANGED <<msgs, box>>, i' \in Int, i' >= i,
             step' = "deliver" => what'[i'] = msgs'[2]
      PROVE  Passed' /\ Ordered'
  <2>1. Ordered'
    BY <1>1, <1>6 DEF Ordered
  <2>2. \A q \in Queues : \A k \in 1 .. Len(box'[q]) : box'[q][k][1] = msgs'[1] => Behind(q)'
    BY <1>1, <1>5, <1>6 DEF Passed
  <2> QED
    BY <1>6, <2>1, <2>2 DEF Passed
<1>7. CASE SearchOver \/ SearchGoesOn
  <2>1. step # "wait" /\ UNCHANGED <<msgs, box, i>> /\ step' # "deliver"
    BY <1>7 DEF SearchOver, SearchGoesOn, sink
  <2> QED
    BY <1>3, <1>6, <2>1
<1>8. CASE Match
  <2>1. step # "wait" /\ UNCHANGED <<msgs, box, i>> /\ what[i] = msgs[2]
    BY <1>8 DEF Match, sink
  <2> QED
    BY <1>2, <1>3, <1>6, <2>1
<1>9. CASE NoMatch \/ DeliverNull \/ DeliverFull
  <2>1. step # "wait" /\ UNCHANGED <<msgs, box>> /\ i' = i + 1 /\ step' # "deliver"
    BY <1>9 DEF NoMatch, DeliverNull, DeliverFull, NextSlot, sink
  <2> QED
    BY <1>3, <1>6, <2>1
<1>10. CASE Deliver
  <2>1. PICK p \in Queues : p = msgqid[i] /\ box' = [box EXCEPT ![p] = Append(box[p], msgs)]
    BY <1>10 DEF Deliver, PutInBox
  <2>2. /\ step = "deliver" /\ UNCHANGED msgs /\ i' = i + 1 /\ step' # "deliver"
        /\ i \in Index /\ msgs \in Messages /\ what[i] = msgs[2]
    BY <1>1, <1>3, <1>10 DEF Deliver, NextSlot, Passed
  <2>3. Holds(i, <<msgs[2], p>>) /\ i \in Used
    BY <2>1, <2>2, QueuesAssumption DEF Holds, Used
  <2>4. ~Behind(p)
    <3> SUFFICES ASSUME NEW n \in Index, n < i, Holds(n, <<msgs[2], p>>) PROVE FALSE
      BY DEF Behind
    <3>1. n \in Used /\ what[n] = what[i] /\ msgqid[n] = msgqid[i]
      BY <2>1, <2>3, QueuesAssumption DEF Holds, Used
    <3>2. n = i
      BY <1>1, <2>3, <3>1 DEF FromFront
    <3> QED
      BY <1>3, <3>2
  <2>5. PICK b \in Seq(Messages) : b = box[p]
    BY <1>1, MessageTypes
  <2>6. \A k \in 1 .. Len(b) : b[k][1] \in Nat /\ b[k][1] < msgs[1]
    <3> SUFFICES ASSUME NEW k \in 1 .. Len(b) PROVE b[k][1] \in Nat /\ b[k][1] < msgs[1]
      OBVIOUS
    <3>1. b[k][1] \in Nat /\ b[k][1] =< msgs[1]
      BY <1>1, <2>5, MessageTypes DEF Numbers
    <3>2. b[k][1] # msgs[1]
      BY <1>1, <2>2, <2>4, <2>5 DEF Passed
    <3> QED
      BY <1>3, <3>1, <3>2
  <2>7. box'[p] = Append(b, msgs) /\ \A q \in Queues : q # p => box'[q] = box[q]
    BY <1>1, <2>1, <2>5 DEF Types, TypeOK
  <2>8. ASSUME NEW m \in 1 .. Len(Append(b, msgs)), NEW n \in 1 .. Len(Append(b, msgs)), m < n
        PROVE  Append(b, msgs)[m][1] < Append(b, msgs)[n][1]
    <3>1. m \in 1 .. Len(b) /\ Append(b, msgs)[m] = b[m]
      BY <2>2, <2>8, AppendEffect
    <3>2. CASE n \in 1 .. Len(b)
      BY <1>1, <2>2, <2>5, <2>8, <3>1, <3>2, AppendEffect DEF Ordered
    <3>3. CASE n = Len(b) + 1
      BY <2>2, <2>6, <3>1, <3>3, AppendEffect
    <3> QED
      BY <2>2, <3>2, <3>3, AppendEffect
  <2>9. Ordered'
    <3>1. \A m, n \in 1 .. Len(box'[p]) : m < n => box'[p][m][1] < box'[p][n][1]
      BY <2>7, <2>8
    <3> QED
      BY <1>1, <2>7, <3>1 DEF Ordered
  <2>10. Behind(p)'
    BY <1>2, <1>3, <2>2, <2>3 DEF Behind, Holds
  <2>11. ASSUME NEW q \in Queues, NEW k \in 1 .. Len(box'[q]), box'[q][k][1] = msgs[1], q # p
         PROVE  Behind(q)'
    <3>1. Behind(q)
      BY <1>1, <2>2, <2>7, <2>11 DEF Passed
    <3> QED
      BY <1>3, <1>5, <2>2, <3>1
  <2>12. Passed'
    BY <2>2, <2>10, <2>11 DEF Passed
  <2> QED
    BY <2>9, <2>12
<1> QED
  BY <1>4, <1>7, <1>8, <1>9, <1>10 DEF Dispatch

LEMMA OnceNext == ASSUME Guide, Numbers, Once, [Next]_vars PROVE Once'
<1> SUFFICES ASSUME Quiet' PROVE Passed' /\ Ordered'
  BY DEF Once
<1>1. ASSUME NEW c \in Clients, RegisterNext(c) \/ UnregisterNext(c) PROVE Passed' /\ Ordered'
  <2>1. Quiet /\ Grows /\ UNCHANGED <<source, loop, sink, due>>
    BY <1>1, ClientStep
  <2>2. Passed /\ Ordered /\ UNCHANGED <<step, i, msgs, box>>
    BY <2>1 DEF Once, loop, sink
  <2>3. Ordered'
    BY <2>2 DEF Ordered
  <2>4. ASSUME step = "deliver" PROVE what'[i] = msgs[2]
    <3>1. i \in Index /\ msgs \in Messages /\ what[i] = msgs[2]
      BY <2>2, <2>4, BoundsAssumption DEF Guide, Types, TypeOK, InLoop, Passed, Index
    <3>2. what[i] # Invalid
      BY <3>1, KindsAssumption DEF Messages
    <3> QED
      BY <2>1, <3>1, <3>2 DEF Grows
  <2>5. ASSUME NEW q \in Queues, Behind(q) PROVE Behind(q)'
    <3>1. PICK n \in Index : n < i /\ Holds(n, <<msgs[2], q>>)
      BY <2>5 DEF Behind
    <3>2. n \in Used
      BY <3>1, QueuesAssumption DEF Holds, Used
    <3> QED
      BY <2>1, <2>2, <3>1, <3>2 DEF Behind, Holds, Grows
  <2> QED
    BY <2>2, <2>3, <2>4, <2>5 DEF Passed
<1>2. CASE Dispatch
  <2>1. Quiet
    BY <1>2 DEF Quiet, OnlyRegistrations, Dispatch, TakeMessage, SearchOver, SearchGoesOn, Match,
       NoMatch, Deliver, DeliverFull, DeliverNull, client, history
  <2> QED
    BY <1>2, <2>1, OnceDispatch
<1>3. ASSUME UNCHANGED <<table, client, loop, box, history>> PROVE Passed' /\ Ordered'
  <2>1. Quiet
    BY <1>3 DEF Quiet, OnlyRegistrations, client, history
  <2> QED
    BY <1>3, <2>1 DEF Once, Passed, Ordered, Behind, Holds, table, loop
<1>4. CASE SendNext \/ (\E p \in Queues : Receive(p)) \/ UNCHANGED vars
  <2>1. UNCHANGED <<table, client, loop, box, history>>
    BY <1>4 DEF SendNext, Send, Put, Post, Receive, vars, sink
  <2> QED
    BY <1>3, <2>1
<1> QED
  BY <1>1, <1>2, <1>4 DEF Next

LEMMA OnceHold == Spec => [](Guide /\ Numbers /\ Once)
<1>1. Init => Numbers /\ Once
  <2> SUFFICES ASSUME Init PROVE Numbers /\ Once
    OBVIOUS
  <2>1. /\ msgs[1] = 0 /\ sends = 0 /\ queue = <<>> /\ step = "wait"
        /\ \A q \in Queues : box[q] = <<>>
    BY DEF Init, NoMessage
  <2> QED
    BY <2>1 DEF Numbers, Once, Passed, Ordered
<1>2. Guide => Types
  BY DEF Guide
<1> QED
  BY <1>1, <1>2, GuideInit, GuideNext, NumbersNext, OnceNext, PTL DEF Spec

\* A receiver gets the messages in the order they were sent and none of them
\* twice, also while a task registers; as long as nobody unregisters and no two
\* clients' calls overlap.
THEOREM OrderCorrect == Spec => []OrderedOnce
<1>1. Once => OrderedOnce
  BY DEF Once, OrderedOnce, Quiet, Ordered
<1> QED
  BY <1>1, OnceHold, PTL
=============================================================================
